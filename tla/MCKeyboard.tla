----------------------------- MODULE MCKeyboard -----------------------------
(***************************************************************************)
(* MCKeyboard.cfg: a ring of three characters, so that it wraps, fills and *)
(* overflows, with two readers that compete for the characters.  Every     *)
(* kind of key is pressed, in groups: line editing with arrows, Ctrl-L,    *)
(* Shift with Caps Lock, and Escape and Tab with Backspace.                *)
(***************************************************************************)
EXTENDS Keyboard
=============================================================================
