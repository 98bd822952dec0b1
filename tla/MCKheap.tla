------------------------------ MODULE MCKheap ------------------------------
(***************************************************************************)
(* Two processes on a heap of 192 bytes: room for four blocks, so that    *)
(* splits in the middle of the list, exact fits, remainders too small to   *)
(* split (40 bytes and less), merges to the left, to the right and on both *)
(* sides, and refused requests all happen.                                 *)
(***************************************************************************)
EXTENDS Kheap
=============================================================================
