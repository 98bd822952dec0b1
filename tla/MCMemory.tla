------------------------------ MODULE MCMemory ------------------------------
(***************************************************************************)
(* Tables of six entries.  Pages 0 to 11 are the two huge pages, and the   *)
(* heap is pages 12 and 13.  Page 35, the stack, needs one table of its    *)
(* own, a heap page one for both, and page 220 (address 440) three.        *)
(* Address 14 lies inside the second huge page.  Frames 12 to 14 are no    *)
(* longer under the huge pages, so the last tables are taken from frames   *)
(* at whose addresses the kernel finds the users' heap, or nothing.        *)
(***************************************************************************)
EXTENDS Memory
=============================================================================
