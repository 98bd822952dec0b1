------------------------------ MODULE MCSched ------------------------------
(***************************************************************************)
(* Four slots and five proc_create calls, so that the table overflows      *)
(* once; slices of three ticks, so that processes exit, wait and wake one  *)
(* another both early and late in a slice.                                 *)
(***************************************************************************)
EXTENDS Sched
=============================================================================
