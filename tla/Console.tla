------------------------------ MODULE Console ------------------------------
(***************************************************************************)
(* The VGA console (drivers/console.c): the cursor, the visible screen,    *)
(* the ring of lines that scrolled off it, and the view into that ring.    *)
(*                                                                         *)
(* console_putchar takes no lock.  It is cut into between any two of its   *)
(* accesses to the cursor and the ring: by the keyboard interrupt, whose   *)
(* echo runs to its end, and by other processes when they are preempted.   *)
(* The counters are plain statics, so the compiler may keep them in        *)
(* registers over several statements, as gcc -O2 does, or read them again  *)
(* at each use: a writer works on copies, which it may load again.         *)
(*                                                                         *)
(* A store to a row, the move of all rows and a redraw are one step each.  *)
(* Colours and the hardware cursor are left out.                           *)
(*                                                                         *)
(* An operator whose comment begins with "Fault:" is a plausible mistake   *)
(* in the definition after it; substituting it must break a property.      *)
(***************************************************************************)
EXTENDS Integers, Sequences

CONSTANTS Width,      \* VGA_WIDTH: 80
          Height,     \* VGA_HEIGHT: 25
          Lines,      \* CONSOLE_HISTORY_LINES: 100
          Tab,        \* the distance of tab stops: 8
          Word,       \* the range of uint32_t: 2^32
          Writers,    \* who calls console_putchar
          Interrupts, \* the writers that run with interrupts off
          MaxCalls    \* bound: how often the console is written to or cleared

ASSUME ConsoleAssumption ==
    /\ {Width, Height, Lines, Tab, Word} \subseteq Nat \ {0}
    /\ Height > 1
    /\ Width < Word /\ Height < Word
    /\ Interrupts \subseteq Writers
    /\ MaxCalls \in Nat

VARIABLES
    cursor_row, cursor_col,
    screen,           \* vga_buffer, the rows that are visible
    screen_history, history_start, history_count,
    scroll_offset,
    job,              \* where each writer is in console_putchar, and its copies
    calls,            \* how often the console was written to or cleared
    gone,             \* history: the last lines that scrolled off, oldest first
    cut,              \* history: somebody cut into a scroll
    viewing           \* history: the screen was last drawn by a redraw

cursor == <<cursor_row, cursor_col>>
ring == <<screen_history, history_start, history_count>>
vars == <<cursor, screen, ring, scroll_offset, job, calls, gone, cut, viewing>>

Rows == 0..(Height - 1)
Cols == 0..(Width - 1)
Blank == [c \in Cols |-> " "]
Printable == {"x"}
Chars == Printable \cup {"LF", "CR", "TAB", "BS"}

\* A writer outside console_putchar.
Idle == [pc |-> "idle", op |-> "none", todo |-> {},
         row |-> 0, col |-> 0, start |-> 0, count |-> 0]

\* console_init
Init ==
    /\ cursor_row = 0 /\ cursor_col = 0
    /\ screen = [r \in Rows |-> Blank]
    /\ screen_history = [i \in 0..(Lines - 1) |-> Blank]
    /\ history_start = 0 /\ history_count = 0
    /\ scroll_offset = 0
    /\ job = [w \in Writers |-> Idle]
    /\ calls = 0
    /\ gone = <<>>
    /\ cut = FALSE
    /\ viewing = FALSE

-----------------------------------------------------------------------------
(* console_putchar *)

InFlight == {w \in Writers : job[w].pc # "idle"}

\* Writers in console_scroll, between reading the ring and moving the rows.
Scrolling == {w \in Writers : job[w].pc \in {"line", "count", "rows"}}

\* An interrupt handler is not interrupted, and nothing runs before it ends; a
\* fault stops the machine.
Alive == \A w \in Writers : job[w].pc # "dead"
MayRun(w) == Alive /\ \A i \in Interrupts \ {w} : job[i].pc = "idle"
Quiet == Alive /\ \A i \in Interrupts : job[i].pc = "idle"

\* The call, which copies the cursor.
Putchar(w, c) ==
    /\ MayRun(w) /\ job[w].pc = "idle"
    /\ calls < MaxCalls /\ calls' = calls + 1
    /\ job' = [job EXCEPT ![w].pc = "switch", ![w].op = c,
                          ![w].row = cursor_row, ![w].col = cursor_col]
    /\ UNCHANGED <<cursor, screen, ring, scroll_offset, gone, cut, viewing>>

\* A counter is read again where the code names it again.
LoadRow(w) ==
    /\ MayRun(w) /\ job[w].pc \in {"switch", "move", "edge", "wrap", "scroll"}
    /\ job[w].row # cursor_row
    /\ job' = [job EXCEPT ![w].row = cursor_row]
    /\ UNCHANGED <<cursor, screen, ring, scroll_offset, calls, gone, cut, viewing>>

LoadCol(w) ==
    /\ MayRun(w) /\ job[w].pc \in {"switch", "move", "edge"}
    /\ job[w].col # cursor_col
    /\ job' = [job EXCEPT ![w].col = cursor_col]
    /\ UNCHANGED <<cursor, screen, ring, scroll_offset, calls, gone, cut, viewing>>

LoadRing(w) ==
    /\ MayRun(w) /\ job[w].pc \in {"line", "count"}
    /\ <<job[w].start, job[w].count>> # <<history_start, history_count>>
    /\ job' = [job EXCEPT ![w].start = history_start, ![w].count = history_count]
    /\ UNCHANGED <<cursor, screen, ring, scroll_offset, calls, gone, cut, viewing>>

\* The next tab stop.
Stop(col) == ((col \div Tab + 1) * Tab) % Word

\* The case of the switch, with the tests that it makes.
Chosen(j) ==
    CASE j.op = "TAB" -> IF Stop(j.col) >= Width THEN "LF" ELSE "TAB"
      [] j.op = "BS" -> IF j.col > 0 THEN "left" ELSE IF j.row > 0 THEN "up" ELSE "stay"
      [] OTHER -> j.op

\* The counters that it stores to, in the order the compiler likes.
Stores(op) ==
    CASE op \in {"LF", "up"} -> {"row", "col"}
      [] op = "stay" -> {}
      [] OTHER -> {"col"}

\* The cell of a printable character.  Past the last row it is not shown;
\* vga_offset wraps around, and behind a row or a column that did the address
\* is not mapped.
Cell(j) == (j.row * Width + j.col) % Word
Unmapped(j) == Cell(j) >= Word - Width

Switch(w) ==
    LET j == job[w]
    IN  /\ MayRun(w) /\ j.pc = "switch"
        /\ j.op \in Printable => ~Unmapped(j)
        /\ screen' = IF j.op \in Printable /\ Cell(j) < Width * Height
                     THEN [screen EXCEPT ![Cell(j) \div Width][Cell(j) % Width] = j.op]
                     ELSE screen
        /\ job' = [job EXCEPT ![w].pc = IF Stores(Chosen(j)) = {} THEN "edge" ELSE "move",
                              ![w].op = Chosen(j), ![w].todo = Stores(Chosen(j))]
        /\ cut' = (cut \/ (j.op \in Printable /\ Scrolling # {}))
        /\ viewing' = (viewing /\ j.op \notin Printable)
        /\ UNCHANGED <<cursor, ring, scroll_offset, calls, gone>>

\* The store faults, and exception_handler never returns.
StoreFaults(w) ==
    /\ MayRun(w) /\ job[w].pc = "switch"
    /\ job[w].op \in Printable /\ Unmapped(job[w])
    /\ job' = [job EXCEPT ![w].pc = "dead"]
    /\ UNCHANGED <<cursor, screen, ring, scroll_offset, calls, gone, cut, viewing>>

Pred(n) == IF n = 0 THEN Word - 1 ELSE n - 1

NewRow(j) == IF j.op = "up" THEN Pred(j.row) ELSE (j.row + 1) % Word

NewCol(j) ==
    CASE j.op = "TAB" -> Stop(j.col)
      [] j.op = "left" -> Pred(j.col)
      [] j.op = "up" -> Width - 1
      [] j.op \in Printable -> (j.col + 1) % Word
      [] OTHER -> 0

\* Where a writer is after the store to x.
After(j, x) == IF j.todo # {x} THEN j.pc ELSE IF j.pc = "move" THEN "edge" ELSE "scroll"

StoreRow(w) ==
    LET j == job[w]
    IN  /\ MayRun(w) /\ j.pc \in {"move", "wrap"} /\ "row" \in j.todo
        /\ cursor_row' = NewRow(j)
        /\ job' = [job EXCEPT ![w].row = NewRow(j), ![w].todo = @ \ {"row"},
                              ![w].pc = After(j, "row")]
        /\ UNCHANGED <<cursor_col, screen, ring, scroll_offset, calls, gone, cut, viewing>>

StoreCol(w) ==
    LET j == job[w]
    IN  /\ MayRun(w) /\ j.pc \in {"move", "wrap"} /\ "col" \in j.todo
        /\ cursor_col' = NewCol(j)
        /\ job' = [job EXCEPT ![w].col = NewCol(j), ![w].todo = @ \ {"col"},
                              ![w].pc = After(j, "col")]
        /\ UNCHANGED <<cursor_row, screen, ring, scroll_offset, calls, gone, cut, viewing>>

\* Fault: a full row is noticed one column late.
PastEdge_Late(j) == j.col > Width

PastEdge(j) == j.col >= Width

\* The wrap at the right edge stores what a newline does.
Edge(w) ==
    /\ MayRun(w) /\ job[w].pc = "edge"
    /\ job' = [job EXCEPT ![w] =
         IF PastEdge(@) THEN [@ EXCEPT !.pc = "wrap", !.op = "LF", !.todo = {"row", "col"}]
                        ELSE [@ EXCEPT !.pc = "scroll", !.op = "LF", !.col = 0]]
    /\ UNCHANGED <<cursor, screen, ring, scroll_offset, calls, gone, cut, viewing>>

\* The loop's test, and the end of the call.
Return(w) ==
    /\ MayRun(w) /\ job[w].pc = "scroll"
    /\ job' = [job EXCEPT ![w] =
         IF job[w].row >= Height THEN [@ EXCEPT !.pc = "save"] ELSE Idle]
    /\ UNCHANGED <<cursor, screen, ring, scroll_offset, calls, gone, cut, viewing>>

-----------------------------------------------------------------------------
(* console_scroll *)

\* Is there room in the ring?
Save(w) ==
    /\ MayRun(w) /\ job[w].pc = "save"
    /\ job' = [job EXCEPT ![w].pc = "line", ![w].row = 0,
                          ![w].op = IF history_count < Lines THEN "append" ELSE "replace",
                          ![w].start = history_start, ![w].count = history_count]
    /\ cut' = (cut \/ Scrolling # {})
    /\ UNCHANGED <<cursor, screen, ring, scroll_offset, calls, gone, viewing>>

\* The line that is about to be lost is kept, in place of the oldest one when
\* the ring is full.
SaveLine(w) ==
    LET j == job[w]
        slot == IF j.op = "append" THEN (j.start + j.count) % Lines ELSE j.start
    IN  /\ MayRun(w) /\ j.pc = "line"
        /\ screen_history' = [screen_history EXCEPT ![slot] = screen[0]]
        /\ job' = [job EXCEPT ![w].pc = "count"]
        /\ viewing' = FALSE
        /\ UNCHANGED <<cursor, screen, history_start, history_count, scroll_offset, calls, gone, cut>>

\* Fault: a full ring forgets none of its lines.
Counted_NoStart(j) ==
    /\ history_count' = IF j.op = "append" THEN j.count + 1 ELSE history_count
    /\ history_start' = history_start

Counted(j) ==
    \/ /\ j.op = "append"
       /\ history_count' = j.count + 1
       /\ UNCHANGED history_start
    \/ /\ j.op = "replace"
       /\ history_start' = (j.start + 1) % Lines
       /\ UNCHANGED history_count

Count(w) ==
    /\ MayRun(w) /\ job[w].pc = "count"
    /\ Counted(job[w])
    /\ job' = [job EXCEPT ![w] = [Idle EXCEPT !.pc = "rows"]]
    /\ viewing' = FALSE
    /\ UNCHANGED <<cursor, screen, screen_history, scroll_offset, calls, gone, cut>>

\* The rows move up, and the first one is lost.
MoveRows(w) ==
    /\ MayRun(w) /\ job[w].pc = "rows"
    /\ screen' = [r \in Rows |-> IF r < Height - 1 THEN screen[r + 1] ELSE Blank]
    /\ gone' = LET all == Append(gone, screen[0])
               IN  IF cut THEN <<>> ELSE IF Len(all) > Lines THEN Tail(all) ELSE all
    /\ job' = [job EXCEPT ![w].pc = "last"]
    /\ viewing' = FALSE
    /\ UNCHANGED <<cursor, ring, scroll_offset, calls, cut>>

\* After a scroll the cursor is on the last row.
LastRow(w) ==
    /\ MayRun(w) /\ job[w].pc = "last"
    /\ cursor_row' = Height - 1
    /\ job' = [job EXCEPT ![w].pc = "scroll", ![w].row = Height - 1]
    /\ UNCHANGED <<cursor_col, screen, ring, scroll_offset, calls, gone, cut, viewing>>

\* console_clear, which the keyboard interrupt calls for Ctrl-L.
Clear ==
    /\ Quiet
    /\ calls < MaxCalls /\ calls' = calls + 1
    /\ screen' = [r \in Rows |-> Blank]
    /\ cursor_row' = 0 /\ cursor_col' = 0
    /\ cut' = (cut \/ Scrolling # {})
    /\ viewing' = FALSE
    /\ UNCHANGED <<ring, scroll_offset, job, gone>>

-----------------------------------------------------------------------------
(* The view into the history *)

\* Fault: the first row shows the line the last one should.
HistLine_Reversed(row, offset) == history_count - offset - row

\* hist_line_idx
HistLine(row, offset) == history_count - offset - (Height - 1 - row)

\* console_redraw_from_history.  Row by row from the top; the rows behind the
\* history, only the last one with offset 0, keep what they show.
Redraw(offset) ==
    /\ Quiet
    /\ scroll_offset' = offset
    /\ screen' = [r \in Rows |->
         LET line == HistLine(r, offset)
         IN  IF line < 0 THEN Blank
             ELSE IF line < history_count
                  THEN screen_history[(history_start + line) % Lines]
                  ELSE screen[r]]
    /\ cut' = (cut \/ Scrolling # {})
    /\ viewing' = TRUE
    /\ UNCHANGED <<cursor, ring, job, calls, gone>>

\* console_scroll_up and console_scroll_down, called by the console's reader
\* for the arrow keys.
ScrollUp ==
    /\ scroll_offset < history_count
    /\ Redraw(scroll_offset + 1)

ScrollDown ==
    /\ scroll_offset > 0
    /\ Redraw(scroll_offset - 1)

-----------------------------------------------------------------------------
Next ==
    \/ \E w \in Writers :
         \/ \E c \in Chars : Putchar(w, c)
         \/ LoadRow(w) \/ LoadCol(w) \/ LoadRing(w)
         \/ Switch(w) \/ StoreFaults(w) \/ StoreRow(w) \/ StoreCol(w) \/ Edge(w) \/ Return(w)
         \/ Save(w) \/ SaveLine(w) \/ Count(w) \/ MoveRows(w) \/ LastRow(w)
    \/ Clear \/ ScrollUp \/ ScrollDown

Spec == Init /\ [][Next]_vars

-----------------------------------------------------------------------------
(* Properties *)

PCs == {"idle", "switch", "move", "edge", "wrap", "scroll",
        "save", "line", "count", "rows", "last", "dead"}
Operations == Chars \cup {"none", "left", "up", "stay", "append", "replace"}
Jobs == [pc : PCs, op : Operations, todo : SUBSET {"row", "col"},
         row : 0..(Word - 1), col : 0..(Word - 1),
         start : 0..(Lines - 1), count : Nat]

\* Variables have the types of the code's data; the count of lines passes the
\* size of the ring only when scrolls cut into each other.
TypeOK ==
    /\ cursor_row \in 0..(Word - 1) /\ cursor_col \in 0..(Word - 1)
    /\ screen \in [Rows -> [Cols -> Printable \cup {" "}]]
    /\ screen_history \in [0..(Lines - 1) -> [Cols -> Printable \cup {" "}]]
    /\ history_start \in 0..(Lines - 1)
    /\ history_count \in Nat
    /\ scroll_offset \in Nat
    /\ job \in [Writers -> Jobs]
    /\ cut \in BOOLEAN /\ viewing \in BOOLEAN
    /\ ~cut => history_count <= Lines

\* However writers cut into each other, between a test and the store that it
\* guards or between the two stores of a newline, and also when a Backspace
\* decrements a counter that became zero under it: once nobody is inside
\* console_putchar the cursor is on the screen.
CursorComesBack ==
    InFlight = {} => cursor_row < Height /\ cursor_col < Width

\* The state is well formed, and outside console_scroll the ring holds the last
\* lines that scrolled off the screen, in order and as they left it, through
\* every wrap-around, until somebody cuts into a scroll.
HistoryIsTheLastLines ==
    /\ TypeOK
    /\ \/ cut \/ Scrolling # {}
       \/ gone = [i \in 1..history_count |-> screen_history[(history_start + i - 1) % Lines]]

\* While nothing is written, the arrow keys move the view by one line: what was
\* on a row is on the next one, until the newest line of the history is at the
\* bottom.
ArrowsMoveByOneLine ==
    [][viewing /\ viewing' =>
         /\ scroll_offset > 0 /\ scroll_offset' = scroll_offset + 1 =>
              \A r \in Rows \ {0} : screen'[r] = screen[r - 1]
         /\ scroll_offset' > 0 /\ scroll_offset' = scroll_offset - 1 =>
              \A r \in Rows \ {0} : screen'[r - 1] = screen[r]]_vars
=============================================================================
