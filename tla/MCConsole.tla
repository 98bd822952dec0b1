----------------------------- MODULE MCConsole -----------------------------
(***************************************************************************)
(* A screen of two rows of two columns and a history of two lines, so that *)
(* the ring is full after two scrolls and a view can pass its oldest line. *)
(* One process writes and the keyboard interrupt echoes into it; six calls *)
(* fill the ring, store over its oldest line, and leave one to cut into    *)
(* any of the others.  A word of sixteen is far above what the counters    *)
(* reach, so that only a decrement below zero wraps around.                *)
(***************************************************************************)
EXTENDS Console
=============================================================================
