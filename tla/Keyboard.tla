------------------------------ MODULE Keyboard ------------------------------
(***************************************************************************)
(* Console input: the keyboard interrupt (drivers/keyboard.c), its ring    *)
(* buffer, and the processes that read it with console_read                *)
(* (drivers/vfs.c), called by sys_read on descriptor 0.                    *)
(*                                                                         *)
(* The interrupt handler runs with interrupts off, and push, pop and       *)
(* backspace disable them, so each is one step; a reader is preempted      *)
(* between any two of its steps, in particular after a failed pop and      *)
(* before its hlt.                                                         *)
(*                                                                         *)
(* A scancode is a key and whether it was released; characters are named   *)
(* by strings.                                                             *)
(*                                                                         *)
(* An operator whose comment begins with "Fault:" is a plausible mistake   *)
(* in the definition after it; substituting it must break a property.      *)
(***************************************************************************)
EXTENDS Naturals, Sequences, SequencesExt

CONSTANTS Size,      \* KEYBOARD_BUFFER_SIZE: 256 in the build
          KeySets,   \* sets of keys; a behaviour presses the keys of one
          Readers,   \* the processes that read the console
          Counts     \* the lengths they ask for

ASSUME SizeAssumption == Size \in Nat \ {0}
ASSUME CountsAssumption == Counts \subseteq Nat

VARIABLES
    keys,    \* the keys that are pressed
    buffer, head, tail, count,   \* kb_buffer
    shift_pressed, ctrl_pressed, caps_lock, extended_key,
    pc,      \* where each reader is in console_read
    asked,   \* its argument count
    dst,     \* what it has stored in its buffer
    shown,   \* history: echoed characters on the screen that nobody has read
    astray   \* history: a Backspace took back something its echo does not wipe

ring == <<buffer, head, tail, count>>
modifiers == <<shift_pressed, ctrl_pressed, caps_lock, extended_key>>
readers == <<pc, asked, dst>>
vars == <<keys, ring, modifiers, readers, shown, astray>>

Newline == "\n"

\* The four keycodes 0x80..0x83, pushed without an echo.
Arrows == {"UP", "DOWN", "LEFT", "RIGHT"}

\* scancode_ascii_lower and scancode_ascii_upper, as far as KeySets goes; a key
\* that is not a field has the character 0.
Ascii ==
    [lower |-> [a |-> "a", l |-> "l", ENTER |-> Newline, TAB |-> "tab", ESC |-> "esc"],
     upper |-> [a |-> "A", l |-> "L", ENTER |-> Newline, TAB |-> "tab", ESC |-> "esc"]]

NoChar == "0"

scancode_to_ascii(key, shift) ==
    LET map == IF shift # caps_lock THEN Ascii.upper ELSE Ascii.lower
    IN  IF key \in DOMAIN map THEN map[key] ELSE NoChar

Chars == {"a", "A", "l", "L", Newline, "tab", "esc"} \cup Arrows

\* console_putchar draws nothing for control characters.
Shows(c) == c \notin Arrows \cup {"esc"}

\* t is what shows of s, in order: its i-th character is the one at place at[i].
IsVisiblePart(t, s) ==
    \E at \in [1..Len(t) -> 1..Len(s)] :
        /\ \A i, j \in 1..Len(t) : i < j => at[i] < at[j]
        /\ \A k \in 1..Len(s) : Shows(s[k]) <=> \E i \in 1..Len(t) : at[i] = k
        /\ \A i \in 1..Len(t) : t[i] = s[at[i]]

\* The characters in the ring, oldest first.
Contents == [i \in 1..count |-> buffer[(tail + i - 1) % Size]]

\* keyboard_init empties the ring; the flags are static and start as false.
Init ==
    /\ keys \in KeySets
    /\ buffer = [i \in 0..(Size - 1) |-> NoChar]
    /\ head = 0 /\ tail = 0 /\ count = 0
    /\ shift_pressed = FALSE
    /\ ctrl_pressed = FALSE
    /\ caps_lock = FALSE
    /\ extended_key = FALSE
    /\ pc = [r \in Readers |-> "idle"]
    /\ asked = [r \in Readers |-> 0]
    /\ dst = [r \in Readers |-> <<>>]
    /\ shown = <<>>
    /\ astray = FALSE

-----------------------------------------------------------------------------
(* The ring *)

Full == count >= Size

\* keyboard_buffer_push; on a full ring it changes nothing.
Push(c) ==
    IF Full
    THEN UNCHANGED ring
    ELSE /\ buffer' = [buffer EXCEPT ![head] = c]
         /\ head' = (head + 1) % Size
         /\ count' = count + 1
         /\ UNCHANGED tail

LastIndex == (head + Size - 1) % Size

CanTakeBack == count > 0 /\ buffer[LastIndex] # Newline

\* Fault: the head moves back without wrapping.
TakeBack_NoWrap ==
    /\ head' = IF head > 0 THEN head - 1 ELSE 0
    /\ count' = count - 1
    /\ UNCHANGED <<buffer, tail>>

\* keyboard_buffer_backspace, when it succeeds.
TakeBack ==
    /\ head' = LastIndex
    /\ count' = count - 1
    /\ UNCHANGED <<buffer, tail>>

\* keyboard_buffer_pop, when it succeeds.
Pop ==
    /\ count > 0
    /\ tail' = (tail + 1) % Size
    /\ count' = count - 1
    /\ UNCHANGED <<buffer, head>>

-----------------------------------------------------------------------------
(* keyboard_handle_scancode *)

\* Any interrupt ends a hlt.
WakeReaders == pc' = [r \in Readers |-> IF pc[r] = "halted" THEN "pop" ELSE pc[r]]

\* Common to every keyboard interrupt.
Irq1 == WakeReaders /\ UNCHANGED <<keys, asked, dst>>

\* The prefix 0xE0.
Prefix ==
    /\ extended_key' = TRUE
    /\ Irq1
    /\ UNCHANGED <<ring, shift_pressed, ctrl_pressed, caps_lock, shown, astray>>

\* The scancode after a prefix: arrows are queued and not echoed, the rest ignored.
ExtendedKey(key, release) ==
    /\ extended_key
    /\ extended_key' = FALSE
    /\ IF ~release /\ key \in Arrows THEN Push(key) ELSE UNCHANGED ring
    /\ Irq1
    /\ UNCHANGED <<shift_pressed, ctrl_pressed, caps_lock, shown, astray>>

ModifierKey(key, release) ==
    /\ ~extended_key
    /\ \/ /\ key \in {"LSHIFT", "RSHIFT"}
          /\ shift_pressed' = ~release
          /\ UNCHANGED <<ctrl_pressed, caps_lock>>
       \/ /\ key = "LCTRL"
          /\ ctrl_pressed' = ~release
          /\ UNCHANGED <<shift_pressed, caps_lock>>
       \/ /\ key = "CAPSLOCK" /\ ~release
          /\ caps_lock' = ~caps_lock
          /\ UNCHANGED <<shift_pressed, ctrl_pressed>>
    /\ Irq1
    /\ UNCHANGED <<ring, extended_key, shown, astray>>

\* The echo "\b \b" wipes the last column on the screen, whatever was taken back:
\* wrong for what has no echo and for a tab, which is wider.  Once that happened
\* the history is not followed further.
EchoErase ==
    LET right == Shows(buffer[LastIndex]) /\ buffer[LastIndex] # "tab"
    IN  /\ astray' = (astray \/ ~right)
        /\ shown' = IF astray' THEN <<>> ELSE Front(shown)

\* Fault: the erasing echo is sent even when nothing could be taken back.
Backspace_AlwaysErases ==
    /\ ~extended_key
    /\ IF CanTakeBack THEN TakeBack ELSE UNCHANGED ring
    /\ IF shown # <<>> /\ ~astray THEN shown' = Front(shown) /\ UNCHANGED astray
                                  ELSE UNCHANGED <<shown, astray>>
    /\ Irq1
    /\ UNCHANGED modifiers

Backspace ==
    /\ ~extended_key
    /\ IF CanTakeBack THEN TakeBack /\ EchoErase
                      ELSE UNCHANGED <<ring, shown, astray>>
    /\ Irq1
    /\ UNCHANGED modifiers

\* Fault: Ctrl-L is queued before it is recognised.
CharKey_QueuesCtrlL(key) ==
    LET c == scancode_to_ascii(key, shift_pressed)
    IN  /\ ~extended_key
        /\ key \notin {"LSHIFT", "RSHIFT", "LCTRL", "CAPSLOCK", "BACKSPACE"}
        /\ IF c = NoChar
           THEN UNCHANGED <<ring, shown>>
           ELSE /\ Push(c)
                /\ shown' = IF /\ ~Full /\ Shows(c) /\ ~astray
                               /\ ~(ctrl_pressed /\ c \in {"l", "L"})
                            THEN Append(shown, c) ELSE shown
        /\ Irq1
        /\ UNCHANGED <<modifiers, astray>>

\* Characters are echoed when, and only when, the ring took them; Ctrl-L clears
\* the screen instead.
CharKey(key) ==
    LET c == scancode_to_ascii(key, shift_pressed)
    IN  /\ ~extended_key
        /\ key \notin {"LSHIFT", "RSHIFT", "LCTRL", "CAPSLOCK", "BACKSPACE"}
        /\ IF c = NoChar \/ (ctrl_pressed /\ c \in {"l", "L"})
           THEN UNCHANGED <<ring, shown>>
           ELSE /\ Push(c)
                /\ shown' = IF ~Full /\ Shows(c) /\ ~astray
                            THEN Append(shown, c) ELSE shown
        /\ Irq1
        /\ UNCHANGED <<modifiers, astray>>

\* Nothing but the prefix flag and the modifiers notices a release.
IgnoredRelease(key) ==
    /\ ~extended_key
    /\ key \notin {"LSHIFT", "RSHIFT", "LCTRL"}
    /\ Irq1
    /\ UNCHANGED <<ring, modifiers, shown, astray>>

keyboard_handle_scancode ==
    \/ Prefix
    \/ \E key \in keys : \/ \E release \in BOOLEAN :
                               ExtendedKey(key, release) \/ ModifierKey(key, release)
                         \/ key = "BACKSPACE" /\ Backspace
                         \/ CharKey(key)
                         \/ IgnoredRelease(key)

\* Fault: only the keyboard ends a hlt (the timer is masked).
TimerInterrupt_Masked == UNCHANGED vars

\* Every interrupt ends a hlt, the timer's too.
TimerInterrupt ==
    /\ WakeReaders
    /\ UNCHANGED <<keys, ring, modifiers, asked, dst, shown, astray>>

-----------------------------------------------------------------------------
(* console_read *)

\* A count of 0 returns at once and changes nothing.
ReadCall(r, n) ==
    /\ pc[r] = "idle"
    /\ n > 0
    /\ pc' = [pc EXCEPT ![r] = "pop"]
    /\ asked' = [asked EXCEPT ![r] = n]
    /\ dst' = [dst EXCEPT ![r] = <<>>]
    /\ UNCHANGED <<keys, ring, modifiers, shown, astray>>

\* Fault: arrows are handed to the reader.
ReadPop_KeepsArrows(r) ==
    LET c == buffer[tail]
        got == Append(dst[r], c)
    IN  /\ pc[r] = "pop"
        /\ Pop
        /\ dst' = [dst EXCEPT ![r] = got]
        /\ pc' = IF c = Newline \/ Len(got) = asked[r]
                 THEN [pc EXCEPT ![r] = "idle"] ELSE pc
        /\ shown' = IF Shows(c) /\ ~astray THEN Tail(shown) ELSE shown
        /\ UNCHANGED <<keys, modifiers, asked, astray>>

\* Arrows scroll the console or do nothing; the loop goes on.
ReadPop(r) ==
    LET c == buffer[tail]
        got == IF c \in Arrows THEN dst[r] ELSE Append(dst[r], c)
    IN  /\ pc[r] = "pop"
        /\ Pop
        /\ dst' = [dst EXCEPT ![r] = got]
        /\ pc' = IF c = Newline \/ Len(got) = asked[r]
                 THEN [pc EXCEPT ![r] = "idle"] ELSE pc
        /\ shown' = IF Shows(c) /\ ~astray THEN Tail(shown) ELSE shown
        /\ UNCHANGED <<keys, modifiers, asked, astray>>

\* The pop failed; interrupts are on again and hlt comes next.
ReadEmpty(r) ==
    /\ pc[r] = "pop"
    /\ count = 0
    /\ pc' = [pc EXCEPT ![r] = "halting"]
    /\ UNCHANGED <<keys, ring, modifiers, asked, dst, shown, astray>>

ReadHalt(r) ==
    /\ pc[r] = "halting"
    /\ pc' = [pc EXCEPT ![r] = "halted"]
    /\ UNCHANGED <<keys, ring, modifiers, asked, dst, shown, astray>>

Reader(r) == ReadPop(r) \/ ReadEmpty(r) \/ ReadHalt(r)

-----------------------------------------------------------------------------

Next ==
    \/ keyboard_handle_scancode
    \/ TimerInterrupt
    \/ \E r \in Readers : Reader(r) \/ \E n \in Counts : ReadCall(r, n)

\* The PIT interrupts for ever and the scheduler lets every reader run.  Nobody
\* is obliged to type.
Fairness == WF_vars(TimerInterrupt) /\ \A r \in Readers : WF_vars(Reader(r))

Spec == Init /\ [][Next]_vars /\ Fairness

-----------------------------------------------------------------------------
(* Properties *)

\* Variables have the types of the code's data; head, tail and count stay in
\* the bounds of the ring.
TypeOK ==
    /\ keys \in KeySets
    /\ buffer \in [0..(Size - 1) -> Chars \cup {NoChar}]
    /\ head \in 0..(Size - 1)
    /\ tail \in 0..(Size - 1)
    /\ count \in 0..Size
    /\ <<shift_pressed, ctrl_pressed, caps_lock, extended_key>> \in
          BOOLEAN \X BOOLEAN \X BOOLEAN \X BOOLEAN
    /\ pc \in [Readers -> {"idle", "pop", "halting", "halted"}]
    /\ asked \in [Readers -> Nat]
    /\ dst \in [Readers -> Seq(Chars)]
    /\ shown \in Seq(Chars)
    /\ astray \in BOOLEAN

\* The ring, through wrap-arounds, Backspaces and overflow, is the queue of
\* InputQueue: what is typed arrives once and in order, a full buffer drops the
\* new character and nothing else, and a finished line cannot be taken back.
Q == INSTANCE InputQueue WITH
        Capacity <- Size, EndOfLine <- Newline, queue <- Contents

RingIsAQueue == Q!Spec

\* The ring's state is well formed, and what stands on the screen and is still
\* unread is what the next reads will return: a character is echoed if and only
\* if it is queued (keyboard_handle_scancode).  The guarantee ends with a
\* Backspace that takes back an arrow, an escape or a tab (astray): the handler
\* then wipes one column, which is not what was taken back.
EchoIsWhatIsRead == TypeOK /\ (~astray => IsVisiblePart(shown, Contents))

\* console_read returns at most what was asked, no arrow codes, and nothing
\* behind the end of a line, even when several processes read at once.
ReadsReturnLines ==
    \A r \in Readers :
        /\ Len(dst[r]) <= asked[r]
        /\ \A i \in 1..Len(dst[r]) :
              /\ dst[r][i] \notin Arrows
              /\ dst[r][i] = Newline => i = Len(dst[r]) /\ pc[r] = "idle"

\* A key that arrives between a reader's failed pop and its hlt wakes nobody, but
\* the reader does not sleep on it for ever.
NoSleepOnInput ==
    \A r \in Readers : pc[r] = "halted" /\ count > 0 ~> pc[r] # "halted"
=============================================================================
