----------------------------- MODULE InputQueue -----------------------------
(***************************************************************************)
(* What the keyboard buffer promises to the console reader: a bounded      *)
(* first-in first-out queue of characters, whose last character the user   *)
(* may take back unless it ends a line.  Keyboard.tla implements it with   *)
(* the ring of drivers/keyboard.c.                                         *)
(***************************************************************************)
EXTENDS Naturals, Sequences, SequencesExt

CONSTANTS Chars,      \* what can be typed
          EndOfLine,  \* the character that ends a line
          Capacity    \* how many characters the queue holds

VARIABLE queue

Init == queue = <<>>

Typed(c) == Len(queue) < Capacity /\ queue' = Append(queue, c)

TakenBack == /\ queue # <<>>
             /\ Last(queue) # EndOfLine
             /\ queue' = Front(queue)

Read == queue # <<>> /\ queue' = Tail(queue)

Next == (\E c \in Chars : Typed(c)) \/ TakenBack \/ Read

Spec == Init /\ [][Next]_queue
=============================================================================
