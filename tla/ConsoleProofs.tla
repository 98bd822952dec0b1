--------------------------- MODULE ConsoleProofs ---------------------------
(***************************************************************************)
(* Proofs about the console, for a screen and a history of any size, any   *)
(* set of writers inside console_putchar and any number of calls.  Inv is  *)
(* inductive.  ColDue and RowDue name, for a cursor off the screen, a      *)
(* writer that will test the counter it stored; RingOK says how far a      *)
(* scroll has come that nobody cut into, and ViewIsOfTheHistory what a     *)
(* screen shows that was drawn from the history.                           *)
(***************************************************************************)
EXTENDS Console, SequenceTheorems, TLAPS

\* What a writer is about to do in the switch and behind the edge.
StoresOK(j) ==
    /\ j.pc = "switch" => j.op \in Chars
    /\ j.pc = "move" => /\ j.op \in {"LF", "CR", "TAB", "left", "up"} \cup Printable
                        /\ j.todo \subseteq Stores(j.op)
    /\ j.pc = "wrap" => j.op = "LF"

\* A column off the screen is one that its writer will test, or wrap.
WillFixCol(j) ==
    \/ j.pc = "edge" /\ j.col >= Width
    \/ j.pc = "wrap" /\ "col" \in j.todo

ColDue == cursor_col >= Width => \E w \in Writers : WillFixCol(job[w])

\* A row off the screen is one that its writer will test, or scroll for.
WillFixRow(j) ==
    \/ j.pc \in {"move", "edge", "wrap", "scroll"} /\ j.row >= Height
    \/ j.pc \in {"save", "line", "count", "rows", "last"}

RowDue == cursor_row >= Height => \E w \in Writers : WillFixRow(job[w])

\* Line number n of the history, oldest first.
Line(n) == screen_history[(history_start + n) % Lines]

\* What a redraw leaves on a row, the rows behind the history apart.
View(n) == IF n < 0 THEN Blank ELSE Line(n)

\* While viewing holds, the screen is the history at scroll_offset.
ViewIsOfTheHistory ==
    viewing => \A r \in Rows :
        HistLine(r, scroll_offset) < history_count =>
            screen[r] = View(HistLine(r, scroll_offset))

-----------------------------------------------------------------------------
(* Sizes and moduli *)

LEMMA Sizes ==
    /\ Width \in Nat /\ Height \in Nat /\ Lines \in Nat /\ Tab \in Nat /\ Word \in Nat
    /\ Width > 0 /\ Height > 1 /\ Lines > 0 /\ Tab > 0 /\ Word > 0
    /\ Width < Word /\ Height < Word
BY ConsoleAssumption

\* An index into the ring is taken modulo Lines at most once.
LEMMA ModOnce ==
    ASSUME NEW n \in 0..(2 * Lines - 1)
    PROVE  /\ n % Lines \in 0..(Lines - 1)
           /\ n % Lines = IF n < Lines THEN n ELSE n - Lines
BY Sizes

\* Moduli are in their range.
LEMMA ModRange ==
    ASSUME NEW n \in Nat
    PROVE  n % Lines \in 0..(Lines - 1) /\ n % Word \in 0..(Word - 1)
BY Sizes

\* A tab stop is a column, wrapped around.
LEMMA StopType ==
    ASSUME NEW col \in Nat
    PROVE  Stop(col) \in 0..(Word - 1)
<1>1. col \div Tab \in Nat
  BY Sizes
<1>2. (col \div Tab + 1) * Tab \in Nat
  BY <1>1, Sizes
<1> QED
  BY <1>2, ModRange DEF Stop

\* The counters that a writer stores are in their range.
LEMMA NewTypes ==
    ASSUME NEW j \in Jobs
    PROVE  NewRow(j) \in 0..(Word - 1) /\ NewCol(j) \in 0..(Word - 1)
<1>1. j.row \in 0..(Word - 1) /\ j.col \in 0..(Word - 1)
  BY DEF Jobs
<1>2. j.row \in Nat /\ j.col \in Nat /\ j.row + 1 \in Nat /\ j.col + 1 \in Nat
  BY <1>1, Sizes
<1>3. \A n \in 0..(Word - 1) : Pred(n) \in 0..(Word - 1)
  BY Sizes DEF Pred
<1>4. (j.row + 1) % Word \in 0..(Word - 1) /\ (j.col + 1) % Word \in 0..(Word - 1)
  BY <1>2, ModRange
<1>5. Stop(j.col) \in 0..(Word - 1)
  BY <1>2, StopType
<1>6. 0 \in 0..(Word - 1) /\ Width - 1 \in 0..(Word - 1)
  BY Sizes
<1>7. NewRow(j) \in 0..(Word - 1)
  BY <1>1, <1>3, <1>4 DEF NewRow
<1>8. NewCol(j) \in 0..(Word - 1)
  BY <1>1, <1>3, <1>4, <1>5, <1>6 DEF NewCol
<1> QED
  BY <1>7, <1>8

\* A store past the edge is the last one before the test.
LEMMA NewColLast ==
    ASSUME NEW j \in Jobs, StoresOK(j), j.pc \in {"move", "wrap"}, "col" \in j.todo,
           NewCol(j) >= Width
    PROVE  After(j, "col") = "edge"
<1>1. NewCol(j) # 0 /\ NewCol(j) # Width - 1
  BY Sizes
<1>2. j.pc = "move"
  BY <1>1 DEF StoresOK, NewCol, Printable
<1>3. j.op \in {"TAB", "left"} \cup Printable
  BY <1>1, <1>2 DEF StoresOK, NewCol, Printable
<1>4. Stores(j.op) = {"col"}
  BY <1>3 DEF Stores, Printable
<1>5. j.todo = {"col"}
  BY <1>2, <1>4 DEF StoresOK
<1> QED
  BY <1>2, <1>5 DEF After

-----------------------------------------------------------------------------
(* The ring *)

\* The slot of the ring with line i, counting from the oldest at start.
Slot(start, i) == (start + i - 1) % Lines

\* Slots are inside the ring.
LEMMA SlotRange ==
    ASSUME NEW start \in 0..(Lines - 1), NEW i \in 1..Lines
    PROVE  /\ Slot(start, i) \in 0..(Lines - 1)
           /\ Slot(start, i) = IF start + i - 1 < Lines THEN start + i - 1
                                                        ELSE start + i - 1 - Lines
<1>1. start + i - 1 \in 0..(2 * Lines - 1)
  BY Sizes
<1>2. PICK n \in 0..(2 * Lines - 1) : n = start + i - 1
  BY <1>1
<1>3. n % Lines \in 0..(Lines - 1) /\ n % Lines = IF n < Lines THEN n ELSE n - Lines
  BY ModOnce
<1>4. Slot(start, i) = n % Lines
  BY <1>2 DEF Slot
<1>5. PICK m : m = n % Lines
  OBVIOUS
<1> QED
  BY <1>2, <1>3, <1>4, <1>5, Sizes

\* Two lines of the ring are in different slots.
LEMMA SlotsDiffer ==
    ASSUME NEW start \in 0..(Lines - 1), NEW i \in 1..Lines, NEW j \in 1..Lines, i # j
    PROVE  Slot(start, i) # Slot(start, j)
<1>1. Slot(start, i) = IF start + i - 1 < Lines THEN start + i - 1 ELSE start + i - 1 - Lines
  BY SlotRange
<1>2. Slot(start, j) = IF start + j - 1 < Lines THEN start + j - 1 ELSE start + j - 1 - Lines
  BY SlotRange
<1> QED
  BY <1>1, <1>2, Sizes

\* When the oldest line makes room, each other one is counted from one less,
\* and its slot is the one of the newest.
LEMMA SlotsRotate ==
    ASSUME NEW start \in 0..(Lines - 1)
    PROVE  /\ (start + 1) % Lines \in 0..(Lines - 1)
           /\ Slot(start, 1) = start
           /\ Slot((start + 1) % Lines, Lines) = start
           /\ \A i \in 1..(Lines - 1) : Slot((start + 1) % Lines, i) = Slot(start, i + 1)
<1>1. start + 1 \in 0..(2 * Lines - 1)
  BY Sizes
<1>2. PICK k \in 0..(Lines - 1) : k = (start + 1) % Lines
  BY <1>1, ModOnce
<1>3. k = IF start + 1 < Lines THEN start + 1 ELSE 0
  BY <1>1, <1>2, ModOnce, Sizes
<1>4. Slot(start, 1) = start
  BY SlotRange, Sizes
<1>5. Slot(k, Lines) = start
  BY <1>3, SlotRange, Sizes
<1>6. \A i \in 1..(Lines - 1) : Slot(k, i) = Slot(start, i + 1)
  <2> TAKE i \in 1..(Lines - 1)
  <2>1. i \in 1..Lines /\ i + 1 \in 1..Lines
    BY Sizes
  <2> QED
    BY <1>3, <2>1, SlotRange, Sizes
<1> QED
  BY <1>2, <1>4, <1>5, <1>6

\* A line of the screen.
Row == [Cols -> Printable \cup {" "}]

\* g is the n lines of the ring h, oldest first.
InOrder(g, h, start, n) ==
    /\ g \in Seq(Row) /\ Len(g) = n
    /\ \A i \in 1..n : g[i] = h[Slot(start, i)]

\* What is left of a sequence that gains an element at its end and loses the first.
LEMMA TailOfAppend ==
    ASSUME NEW x \in Row, NEW g \in Seq(Row), NEW n \in Nat \ {0}, Len(g) = n
    PROVE  /\ Tail(Append(g, x)) \in Seq(Row)
           /\ Len(Tail(Append(g, x))) = n
           /\ \A i \in 1..(n - 1) : Tail(Append(g, x))[i] = g[i + 1]
           /\ Tail(Append(g, x))[n] = x
<1>1. PICK a : a = Append(g, x)
  OBVIOUS
<1>2. a \in Seq(Row) /\ a # << >> /\ Len(a) = n + 1 /\ a[n + 1] = x /\ \A i \in 1..n : a[i] = g[i]
  BY <1>1, AppendProperties
<1>3. PICK t : t = Tail(a)
  OBVIOUS
<1>4. t \in Seq(Row) /\ Len(t) = n /\ \A i \in 1..n : t[i] = a[i + 1]
  BY <1>2, <1>3, HeadTailProperties
<1> QED
  BY <1>1, <1>2, <1>3, <1>4

\* A line stored behind the newest of n lines is line n + 1.
LEMMA StoreBehind ==
    ASSUME NEW x \in Row, NEW h \in [0..(Lines - 1) -> Row],
           NEW start \in 0..(Lines - 1), NEW n \in 0..(Lines - 1), NEW g, InOrder(g, h, start, n)
    PROVE  InOrder(Append(g, x), [h EXCEPT ![Slot(start, n + 1)] = x], start, n + 1)
<1>1. \A i \in 1..(n + 1) : Slot(start, i) \in 0..(Lines - 1)
  BY SlotRange, Sizes
<1>2. PICK a : a = Append(g, x)
  OBVIOUS
<1>3. g \in Seq(Row) /\ Len(g) = n /\ \A i \in 1..n : g[i] = h[Slot(start, i)]
  BY DEF InOrder
<1>4. a \in Seq(Row) /\ Len(a) = n + 1 /\ a[n + 1] = x /\ \A i \in 1..n : a[i] = g[i]
  BY <1>2, <1>3, AppendProperties
<1>5. \A i \in 1..n : Slot(start, i) # Slot(start, n + 1)
  BY SlotsDiffer, Sizes
<1>6. PICK h1 : h1 = [h EXCEPT ![Slot(start, n + 1)] = x]
  OBVIOUS
<1>7. \A i \in 1..(n + 1) : a[i] = h1[Slot(start, i)]
  <2> TAKE i \in 1..(n + 1)
  <2>1. CASE i = n + 1
    BY <1>1, <1>4, <1>6, <2>1
  <2>2. CASE i \in 1..n
    BY <1>1, <1>3, <1>4, <1>5, <1>6, <2>2
  <2> QED
    BY <2>1, <2>2
<1> QED
  BY <1>2, <1>4, <1>6, <1>7 DEF InOrder

\* A line stored over the oldest of a full ring is the newest.
LEMMA StoreOver ==
    ASSUME NEW x \in Row, NEW h \in [0..(Lines - 1) -> Row],
           NEW start \in 0..(Lines - 1), NEW g, InOrder(g, h, start, Lines)
    PROVE  InOrder(Tail(Append(g, x)), [h EXCEPT ![start] = x], (start + 1) % Lines, Lines)
<1>1. PICK k \in 0..(Lines - 1) : k = (start + 1) % Lines
  BY SlotsRotate
<1>2. \A i \in 1..Lines : Slot(start, i) \in 0..(Lines - 1)
  BY SlotRange
<1>3. g \in Seq(Row) /\ Len(g) = Lines /\ \A i \in 1..Lines : g[i] = h[Slot(start, i)]
  BY DEF InOrder
<1>4. PICK t : t = Tail(Append(g, x))
  OBVIOUS
<1>5. /\ t \in Seq(Row) /\ Len(t) = Lines /\ t[Lines] = x
      /\ \A i \in 1..(Lines - 1) : t[i] = g[i + 1]
  <2>1. Lines \in Nat \ {0}
    BY Sizes
  <2> QED
    BY <1>3, <1>4, <2>1, TailOfAppend
<1>6. PICK h1 : h1 = [h EXCEPT ![start] = x]
  OBVIOUS
<1>7. \A i \in 1..Lines : t[i] = h1[Slot(k, i)]
  <2> TAKE i \in 1..Lines
  <2>1. CASE i = Lines
    <3>1. t[i] = x
      BY <1>5, <2>1
    <3>2. Slot(k, i) = start
      BY <1>1, <2>1, SlotsRotate
    <3> QED
      BY <1>6, <3>1, <3>2
  <2>2. CASE i \in 1..(Lines - 1)
    <3>1. i + 1 \in 1..Lines /\ 1 \in 1..Lines /\ i + 1 # 1
      BY <2>2, Sizes
    <3>2. t[i] = g[i + 1]
      BY <1>5, <2>2
    <3>3. Slot(k, i) = Slot(start, i + 1) /\ Slot(start, 1) = start
      BY <1>1, <2>2, SlotsRotate
    <3>4. Slot(start, i + 1) # start
      BY <3>1, <3>3, SlotsDiffer
    <3> QED
      BY <1>2, <1>3, <1>6, <3>1, <3>2, <3>3, <3>4
  <2> QED
    BY <2>1, <2>2, Sizes
<1> QED
  BY <1>1, <1>4, <1>5, <1>6, <1>7 DEF InOrder

\* A sequence that is the ring, slot by slot, is the ring in order.
LEMMA RingInOrder ==
    ASSUME NEW h \in [0..(Lines - 1) -> Row], NEW start \in 0..(Lines - 1),
           NEW n \in 0..Lines, NEW g
    PROVE  g = [i \in 1..n |-> h[(start + i - 1) % Lines]] <=> InOrder(g, h, start, n)
<1>1. [i \in 1..n |-> h[(start + i - 1) % Lines]] = [i \in 1..n |-> h[Slot(start, i)]]
  BY DEF Slot
<1>2. \A i \in 1..n : Slot(start, i) \in 0..(Lines - 1)
  BY SlotRange, Sizes
<1>3. n \in Nat
  BY Sizes
<1>4. g = [i \in 1..n |-> h[Slot(start, i)]] => InOrder(g, h, start, n)
  BY <1>2, <1>3 DEF InOrder
<1>5. InOrder(g, h, start, n) => g = [i \in 1..n |-> h[Slot(start, i)]]
  BY <1>3 DEF InOrder
<1> QED
  BY <1>1, <1>4, <1>5

\* The lines that left the screen, with x as the last.
Grown(g, x) == IF Len(g) + 1 > Lines THEN Tail(Append(g, x)) ELSE Append(g, x)

\* The choice between a ring with room and a full one.
Way(n) == IF n < Lines THEN "append" ELSE "replace"

\* How far a scroll has come: its copies are what is stored, and the line that is
\* about to be lost is in its slot.
ScrollOK(j) ==
    /\ j.pc \in {"line", "count"} =>
         j.start = history_start /\ j.count = history_count /\ j.op = Way(history_count)
    /\ j.pc = "line" => InOrder(gone, screen_history, history_start, history_count)
    /\ j.pc = "count" =>
         IF history_count < Lines
         THEN InOrder(Grown(gone, screen[0]), screen_history, history_start, history_count + 1)
         ELSE InOrder(Grown(gone, screen[0]), screen_history, (history_start + 1) % Lines,
                      history_count)
    /\ j.pc = "rows" => InOrder(Grown(gone, screen[0]), screen_history, history_start, history_count)

RingOK ==
    ~cut => /\ history_count \in 0..Lines /\ gone \in Seq(Row)
            /\ \A v, w \in Scrolling : v = w
            /\ \A w \in Scrolling : ScrollOK(job[w])
            /\ Scrolling = {} => InOrder(gone, screen_history, history_start, history_count)

Inv == /\ TypeOK
       /\ \A w \in Writers : StoresOK(job[w])
       /\ ColDue
       /\ RowDue
       /\ RingOK
       /\ ViewIsOfTheHistory

-----------------------------------------------------------------------------
(* What a step has to show *)

\* Only writer w has moved.
Moves(w) == /\ job' \in [Writers -> Jobs]
            /\ \A x \in Writers \ {w} : job'[x] = job[x]

LEMMA Counters ==
    ASSUME TypeOK
    PROVE  /\ cursor_row \in Nat /\ cursor_col \in Nat
           /\ cursor_row < Height <=> ~(cursor_row >= Height)
           /\ cursor_col < Width <=> ~(cursor_col >= Width)
<1>1. cursor_row \in 0..(Word - 1) /\ cursor_col \in 0..(Word - 1)
  BY DEF TypeOK
<1> QED
  BY <1>1, Sizes

LEMMA StoresKept ==
    ASSUME Inv, NEW w \in Writers, Moves(w), StoresOK(job'[w])
    PROVE  \A x \in Writers : StoresOK(job'[x])
BY DEF Inv, Moves

\* A writer that owes the column a test still does.
LEMMA ColKept ==
    ASSUME Inv, NEW w \in Writers, Moves(w), UNCHANGED cursor_col,
           WillFixCol(job[w]) => cursor_col < Width \/ WillFixCol(job'[w])
    PROVE  ColDue'
<1> SUFFICES ASSUME cursor_col >= Width PROVE \E x \in Writers : WillFixCol(job'[x])
  BY DEF ColDue, WillFixCol
<1>1. PICK x \in Writers : WillFixCol(job[x])
  BY DEF Inv, ColDue
<1>2. ~(cursor_col < Width)
  BY Counters DEF Inv
<1> QED
  BY <1>1, <1>2 DEF Moves

\* A writer that owes the row a test still does.
LEMMA RowKept ==
    ASSUME Inv, NEW w \in Writers, Moves(w), UNCHANGED cursor_row,
           WillFixRow(job[w]) => cursor_row < Height \/ WillFixRow(job'[w])
    PROVE  RowDue'
<1> SUFFICES ASSUME cursor_row >= Height PROVE \E x \in Writers : WillFixRow(job'[x])
  BY DEF RowDue, WillFixRow
<1>1. PICK x \in Writers : WillFixRow(job[x])
  BY DEF Inv, RowDue
<1>2. ~(cursor_row < Height)
  BY Counters DEF Inv
<1> QED
  BY <1>1, <1>2 DEF Moves

\* A step outside console_scroll.
LEMMA RingKept ==
    ASSUME Inv, UNCHANGED <<ring, gone>>, cut => cut',
           screen' = screen \/ Scrolling = {} \/ cut',
           \A x \in Writers : \/ job'[x] = job[x]
                              \/ x \notin Scrolling /\ x \notin Scrolling'
    PROVE  RingOK'
<1> SUFFICES ASSUME ~cut' PROVE RingOK'
  BY DEF RingOK
<1>1. RingOK /\ ~cut
  BY DEF Inv
<1>2. Scrolling' = Scrolling
  BY DEF Scrolling
<1>3. \A x \in Scrolling : job'[x] = job[x] /\ x \in Writers
  BY DEF Scrolling
<1>4. UNCHANGED <<screen_history, history_start, history_count, gone>>
  BY DEF ring
<1>5. CASE Scrolling = {}
  BY <1>1, <1>2, <1>4, <1>5 DEF RingOK
<1>6. CASE Scrolling # {}
  <2>1. screen' = screen
    BY <1>6
  <2>2. \A x \in Scrolling : ScrollOK(job[x])' = ScrollOK(job[x])
    BY <1>3, <1>4, <2>1 DEF ScrollOK
  <2> QED
    BY <1>1, <1>2, <1>4, <1>6, <2>2 DEF RingOK
<1> QED
  BY <1>5, <1>6

\* A step that leaves the view alone, or ends it.
LEMMA ViewKept ==
    ASSUME Inv, \/ ~viewing'
                \/ UNCHANGED <<screen, ring, scroll_offset, viewing>>
    PROVE  ViewIsOfTheHistory'
BY DEF Inv, ViewIsOfTheHistory, HistLine, View, Line, ring

\* The bound on the count of lines is part of RingOK.
LEMMA CountKept ==
    ASSUME RingOK'
    PROVE  (~cut => history_count <= Lines)'
BY Sizes DEF RingOK

LEMMA InitInv == Init => Inv
<1> SUFFICES ASSUME Init PROVE Inv
  OBVIOUS
<1>1. Blank \in [Cols -> Printable \cup {" "}]
  BY DEF Blank
<1>2. Idle \in Jobs
  BY Sizes DEF Idle, Jobs, PCs, Operations
<1>3. TypeOK
  <2>1. 0 \in 0..(Lines - 1) /\ 0 \in Nat /\ 0 \in 0..(Word - 1) /\ 0 <= Lines
    BY Sizes
  <2> QED
    BY <1>1, <1>2, <2>1 DEF Init, TypeOK
<1>4. \A w \in Writers : StoresOK(job[w]) /\ job[w].pc = "idle"
  BY DEF Init, Idle, StoresOK
<1>5. ColDue /\ RowDue
  BY Sizes DEF Init, ColDue, RowDue
<1>6. RingOK
  <2>1. Scrolling = {}
    BY <1>4 DEF Scrolling
  <2>2. InOrder(gone, screen_history, history_start, history_count)
    BY Sizes DEF Init, InOrder
  <2> QED
    BY <2>1, <2>2, Sizes DEF RingOK, Init
<1>7. ViewIsOfTheHistory
  BY DEF Init, ViewIsOfTheHistory
<1> QED
  BY <1>3, <1>4, <1>5, <1>6, <1>7 DEF Inv

-----------------------------------------------------------------------------
(* console_putchar *)

LEMMA PutcharInv ==
    ASSUME Inv, NEW w \in Writers, NEW c \in Chars, Putchar(w, c)
    PROVE  Inv'
<1>1. TypeOK
  BY DEF Inv
<1>2. /\ Moves(w)
      /\ job'[w].pc = "switch" /\ job'[w].op = c
  <2>1. c \in Operations /\ "switch" \in PCs
    BY DEF Operations, PCs
  <2>2. PICK j \in Jobs : j = job[w]
    BY <1>1 DEF TypeOK
  <2>3. PICK n \in 0..(Word - 1) : n = cursor_row
    BY <1>1 DEF TypeOK
  <2>4. PICK m \in 0..(Word - 1) : m = cursor_col
    BY <1>1 DEF TypeOK
  <2>5. PICK r : r = [j EXCEPT !.pc = "switch", !.op = c, !.row = n, !.col = m]
    OBVIOUS
  <2>6. r \in Jobs /\ r.pc = "switch" /\ r.op = c
    BY <2>1, <2>5 DEF Jobs
  <2>7. job' = [job EXCEPT ![w] = r]
    BY <1>1, <2>2, <2>3, <2>4, <2>5 DEF Putchar, TypeOK
  <2> QED
    BY <1>1, <2>6, <2>7 DEF TypeOK, Moves
<1>3. UNCHANGED <<cursor_row, cursor_col, screen, ring, scroll_offset, gone, cut, viewing>>
  BY DEF Putchar, cursor
<1>4. job[w].pc = "idle"
  BY DEF Putchar
<1>5. \A x \in Writers : StoresOK(job'[x])
  BY <1>2, StoresKept DEF StoresOK
<1>6. ColDue' /\ RowDue'
  BY <1>2, <1>3, <1>4, ColKept, RowKept DEF WillFixCol, WillFixRow
<1>7. RingOK'
  BY <1>2, <1>3, <1>4, RingKept DEF Moves, Scrolling
<1>8. ViewIsOfTheHistory'
  BY <1>3, ViewKept
<1>9. TypeOK'
  BY <1>1, <1>2, <1>3, <1>7, CountKept DEF TypeOK, Moves, ring
<1> QED
  BY <1>5, <1>6, <1>7, <1>8, <1>9 DEF Inv

LEMMA LoadRowInv ==
    ASSUME Inv, NEW w \in Writers, LoadRow(w)
    PROVE  Inv'
<1>1. TypeOK
  BY DEF Inv
<1>2. /\ Moves(w)
      /\ job'[w].pc = job[w].pc /\ job'[w].op = job[w].op /\ job'[w].todo = job[w].todo
      /\ job'[w].col = job[w].col /\ job'[w].row = cursor_row
  BY <1>1 DEF TypeOK, LoadRow, Jobs, Moves
<1>3. UNCHANGED <<cursor_row, cursor_col, screen, ring, scroll_offset, gone, cut, viewing>>
  BY DEF LoadRow, cursor
<1>4. job[w].pc \in {"switch", "move", "edge", "wrap", "scroll"}
  BY DEF LoadRow
<1>5. \A x \in Writers : StoresOK(job'[x])
  BY <1>2, StoresKept DEF StoresOK, Inv
<1>6. ColDue'
  BY <1>2, <1>3, ColKept DEF WillFixCol
<1>7. RowDue'
  <2>1. cursor_row < Height \/ cursor_row >= Height
    BY <1>1, Counters
  <2> QED
    BY <1>2, <1>3, <2>1, RowKept DEF WillFixRow
<1>8. RingOK'
  BY <1>2, <1>3, <1>4, RingKept DEF Moves, Scrolling
<1>9. ViewIsOfTheHistory'
  BY <1>3, ViewKept
<1>10. TypeOK'
  BY <1>1, <1>2, <1>3, <1>8, CountKept DEF TypeOK, Moves, ring
<1> QED
  BY <1>5, <1>6, <1>7, <1>8, <1>9, <1>10 DEF Inv

LEMMA LoadColInv ==
    ASSUME Inv, NEW w \in Writers, LoadCol(w)
    PROVE  Inv'
<1>1. TypeOK
  BY DEF Inv
<1>2. /\ Moves(w)
      /\ job'[w].pc = job[w].pc /\ job'[w].op = job[w].op /\ job'[w].todo = job[w].todo
      /\ job'[w].row = job[w].row /\ job'[w].col = cursor_col
  BY <1>1 DEF TypeOK, LoadCol, Jobs, Moves
<1>3. UNCHANGED <<cursor_row, cursor_col, screen, ring, scroll_offset, gone, cut, viewing>>
  BY DEF LoadCol, cursor
<1>4. job[w].pc \in {"switch", "move", "edge"}
  BY DEF LoadCol
<1>5. \A x \in Writers : StoresOK(job'[x])
  BY <1>2, StoresKept DEF StoresOK, Inv
<1>6. ColDue'
  <2>1. cursor_col < Width \/ cursor_col >= Width
    BY <1>1, Counters
  <2> QED
    BY <1>2, <1>3, <2>1, ColKept DEF WillFixCol
<1>7. RowDue'
  BY <1>2, <1>3, RowKept DEF WillFixRow
<1>8. RingOK'
  BY <1>2, <1>3, <1>4, RingKept DEF Moves, Scrolling
<1>9. ViewIsOfTheHistory'
  BY <1>3, ViewKept
<1>10. TypeOK'
  BY <1>1, <1>2, <1>3, <1>8, CountKept DEF TypeOK, Moves, ring
<1> QED
  BY <1>5, <1>6, <1>7, <1>8, <1>9, <1>10 DEF Inv

\* The copies of the ring are old only when somebody cut into the scroll.
LEMMA LoadRingInv ==
    ASSUME Inv, NEW w \in Writers, LoadRing(w)
    PROVE  Inv'
<1>1. TypeOK
  BY DEF Inv
<1>2. /\ Moves(w)
      /\ job'[w].pc = job[w].pc /\ job'[w].row = job[w].row
      /\ job'[w].col = job[w].col /\ job'[w].todo = job[w].todo
  BY <1>1 DEF TypeOK, LoadRing, Jobs, Moves
<1>3. UNCHANGED <<cursor_row, cursor_col, screen, ring, scroll_offset, gone, cut, viewing>>
  BY DEF LoadRing, cursor
<1>4. job[w].pc \in {"line", "count"}
  BY DEF LoadRing
<1>5. \A x \in Writers : StoresOK(job'[x])
  BY <1>2, <1>4, StoresKept DEF StoresOK
<1>6. ColDue' /\ RowDue'
  BY <1>2, <1>3, <1>4, ColKept, RowKept DEF WillFixCol, WillFixRow
<1>7. cut
  <2>1. w \in Scrolling
    BY <1>4 DEF Scrolling
  <2> QED
    BY <1>4, <2>1 DEF Inv, RingOK, ScrollOK, LoadRing
<1>8. RingOK'
  BY <1>3, <1>7 DEF RingOK
<1>9. ViewIsOfTheHistory'
  BY <1>3, ViewKept
<1>10. TypeOK'
  BY <1>1, <1>2, <1>3, <1>8, CountKept DEF TypeOK, Moves, ring
<1> QED
  BY <1>5, <1>6, <1>8, <1>9, <1>10 DEF Inv

\* What the switch chooses is an operation of the stores.
LEMMA ChosenType ==
    ASSUME NEW j, j.op \in Chars
    PROVE  /\ Chosen(j) \in {"LF", "CR", "TAB", "left", "up", "stay"} \cup Printable
           /\ Stores(Chosen(j)) \in SUBSET {"row", "col"}
           /\ Stores(Chosen(j)) # {} => Chosen(j) # "stay"
<1>1. Chosen(j) \in {"LF", "CR", "TAB", "left", "up", "stay"} \cup Printable
  BY DEF Chosen, Chars, Printable
<1> QED
  BY <1>1 DEF Stores

LEMMA SwitchInv ==
    ASSUME Inv, NEW w \in Writers, Switch(w)
    PROVE  Inv'
<1>1. TypeOK
  BY DEF Inv
<1>2. job[w].pc = "switch" /\ job[w].op \in Chars
  BY DEF Inv, StoresOK, Switch
<1>3. PICK k : k = Chosen(job[w])
  OBVIOUS
<1>4. PICK t : t = Stores(k)
  OBVIOUS
<1>5. /\ k \in {"LF", "CR", "TAB", "left", "up", "stay"} \cup Printable
      /\ t \in SUBSET {"row", "col"} /\ (t # {} => k # "stay")
  BY <1>2, <1>3, <1>4, ChosenType
<1>6. job' = [job EXCEPT ![w].pc = IF t = {} THEN "edge" ELSE "move",
                         ![w].op = k, ![w].todo = t]
  BY <1>3, <1>4 DEF Switch
<1>7. /\ Moves(w)
      /\ job'[w].pc = IF t = {} THEN "edge" ELSE "move"
      /\ job'[w].op = k /\ job'[w].todo = t
  <2>1. k \in Operations /\ "edge" \in PCs /\ "move" \in PCs
    BY <1>5 DEF Operations, PCs, Chars
  <2>2. PICK j \in Jobs : j = job[w]
    BY <1>1 DEF TypeOK
  <2>3. PICK p \in PCs : p = IF t = {} THEN "edge" ELSE "move"
    BY <2>1
  <2>4. PICK r : r = [j EXCEPT !.pc = p, !.op = k, !.todo = t]
    OBVIOUS
  <2>5. r \in Jobs /\ r.pc = p /\ r.op = k /\ r.todo = t
    BY <1>5, <2>1, <2>4 DEF Jobs
  <2>6. job' = [job EXCEPT ![w] = r]
    BY <1>1, <1>6, <2>2, <2>3, <2>4 DEF TypeOK
  <2> QED
    BY <1>1, <2>3, <2>5, <2>6 DEF TypeOK, Moves
<1>8. UNCHANGED <<cursor_row, cursor_col, ring, scroll_offset, gone>>
  BY DEF Switch, cursor
<1>9. /\ job[w].op \notin Printable => screen' = screen /\ cut' = cut /\ viewing' = viewing
      /\ job[w].op \in Printable => cut' = (cut \/ Scrolling # {}) /\ viewing' = FALSE
      /\ cut' \in BOOLEAN /\ viewing' \in BOOLEAN
  BY <1>1 DEF Switch, TypeOK
<1>10. \A x \in Writers : StoresOK(job'[x])
  BY <1>4, <1>5, <1>7, StoresKept DEF StoresOK
<1>11. ColDue' /\ RowDue'
  BY <1>2, <1>7, <1>8, ColKept, RowKept DEF WillFixCol, WillFixRow
<1>12. RingOK'
  <2>1. \A x \in Writers : \/ job'[x] = job[x]
                           \/ x \notin Scrolling /\ x \notin Scrolling'
    BY <1>2, <1>7 DEF Moves, Scrolling
  <2>2. (cut => cut') /\ (screen' = screen \/ Scrolling = {} \/ cut')
    BY <1>9
  <2> QED
    BY <1>8, <2>1, <2>2, RingKept
<1>13. ViewIsOfTheHistory'
  BY <1>8, <1>9, ViewKept
<1>14. screen' \in [Rows -> [Cols -> Printable \cup {" "}]]
  BY <1>1 DEF TypeOK, Switch
<1>15. TypeOK'
  BY <1>1, <1>7, <1>8, <1>9, <1>12, <1>14, CountKept DEF TypeOK, Moves, ring
<1> QED
  BY <1>10, <1>11, <1>12, <1>13, <1>15 DEF Inv

LEMMA StoreFaultsInv ==
    ASSUME Inv, NEW w \in Writers, StoreFaults(w)
    PROVE  Inv'
<1>1. TypeOK
  BY DEF Inv
<1>2. Moves(w) /\ job'[w].pc = "dead"
  BY <1>1 DEF TypeOK, StoreFaults, Jobs, PCs, Moves
<1>3. UNCHANGED <<cursor_row, cursor_col, screen, ring, scroll_offset, gone, cut, viewing>>
  BY DEF StoreFaults, cursor
<1>4. job[w].pc = "switch"
  BY DEF StoreFaults
<1>5. \A x \in Writers : StoresOK(job'[x])
  BY <1>2, StoresKept DEF StoresOK
<1>6. ColDue' /\ RowDue'
  BY <1>2, <1>3, <1>4, ColKept, RowKept DEF WillFixCol, WillFixRow
<1>7. RingOK'
  BY <1>2, <1>3, <1>4, RingKept DEF Moves, Scrolling
<1>8. ViewIsOfTheHistory'
  BY <1>3, ViewKept
<1>9. TypeOK'
  BY <1>1, <1>2, <1>3, <1>7, CountKept DEF TypeOK, Moves, ring
<1> QED
  BY <1>5, <1>6, <1>7, <1>8, <1>9 DEF Inv

\* What a store leaves in the counters and in the writer's copies.
LEMMA StoreRowInv ==
    ASSUME Inv, NEW w \in Writers, StoreRow(w)
    PROVE  Inv'
<1>1. TypeOK
  BY DEF Inv
<1>2. PICK j \in Jobs : j = job[w]
  BY <1>1 DEF TypeOK
<1>3. j.pc \in {"move", "wrap"} /\ "row" \in j.todo /\ StoresOK(j)
  BY <1>2 DEF StoreRow, Inv
<1>4. PICK n \in 0..(Word - 1) : n = NewRow(j)
  BY NewTypes
<1>5. PICK q : q = After(j, "row")
  OBVIOUS
<1>6. q \in {"move", "wrap", "edge", "scroll"} /\ (q = "move" => j.pc = "move")
      /\ (q = "wrap" => j.pc = "wrap") /\ ("col" \in j.todo => q = j.pc)
  BY <1>3, <1>5 DEF After
<1>7. job' = [job EXCEPT ![w].row = n, ![w].todo = @ \ {"row"}, ![w].pc = q]
  BY <1>2, <1>4, <1>5 DEF StoreRow
<1>8. /\ Moves(w)
      /\ job'[w].pc = q /\ job'[w].row = n /\ job'[w].op = j.op
      /\ job'[w].col = j.col /\ job'[w].todo = j.todo \ {"row"}
  <2>1. q \in PCs
    BY <1>6 DEF PCs
  <2> QED
    BY <1>1, <1>2, <1>7, <2>1 DEF TypeOK, Jobs, Moves
<1>9. /\ cursor_row' = n
      /\ UNCHANGED <<cursor_col, screen, ring, scroll_offset, gone, cut, viewing>>
  BY <1>2, <1>4 DEF StoreRow
<1>10. \A x \in Writers : StoresOK(job'[x])
  BY <1>3, <1>6, <1>8, StoresKept DEF StoresOK
<1>11. ColDue'
  <2>1. WillFixCol(job[w]) => WillFixCol(job'[w])
    BY <1>2, <1>3, <1>6, <1>8 DEF WillFixCol
  <2> QED
    BY <1>8, <1>9, <2>1, ColKept
<1>12. RowDue'
  BY <1>6, <1>8, <1>9 DEF RowDue, WillFixRow
<1>13. RingOK'
  <2>1. w \notin Scrolling /\ w \notin Scrolling'
    BY <1>2, <1>3, <1>6, <1>8 DEF Scrolling
  <2> QED
    BY <1>8, <1>9, <2>1, RingKept DEF Moves
<1>14. ViewIsOfTheHistory'
  BY <1>9, ViewKept
<1>15. TypeOK'
  BY <1>1, <1>8, <1>9, <1>13, CountKept DEF TypeOK, Moves, ring
<1> QED
  BY <1>10, <1>11, <1>12, <1>13, <1>14, <1>15 DEF Inv

LEMMA StoreColInv ==
    ASSUME Inv, NEW w \in Writers, StoreCol(w)
    PROVE  Inv'
<1>1. TypeOK
  BY DEF Inv
<1>2. PICK j \in Jobs : j = job[w]
  BY <1>1 DEF TypeOK
<1>3. j.pc \in {"move", "wrap"} /\ "col" \in j.todo /\ StoresOK(j)
  BY <1>2 DEF StoreCol, Inv
<1>4. PICK n \in 0..(Word - 1) : n = NewCol(j)
  BY NewTypes
<1>5. PICK q : q = After(j, "col")
  OBVIOUS
<1>6. q \in {"move", "wrap", "edge", "scroll"} /\ (q = "move" => j.pc = "move")
      /\ (q = "wrap" => j.pc = "wrap")
  BY <1>3, <1>5 DEF After
<1>7. n >= Width => q = "edge"
  BY <1>3, <1>4, <1>5, NewColLast
<1>8. job' = [job EXCEPT ![w].col = n, ![w].todo = @ \ {"col"}, ![w].pc = q]
  BY <1>2, <1>4, <1>5 DEF StoreCol
<1>9. /\ Moves(w)
      /\ job'[w].pc = q /\ job'[w].col = n /\ job'[w].op = j.op
      /\ job'[w].row = j.row /\ job'[w].todo = j.todo \ {"col"}
  <2>1. q \in PCs
    BY <1>6 DEF PCs
  <2> QED
    BY <1>1, <1>2, <1>8, <2>1 DEF TypeOK, Jobs, Moves
<1>10. /\ cursor_col' = n
       /\ UNCHANGED <<cursor_row, screen, ring, scroll_offset, gone, cut, viewing>>
  BY <1>2, <1>4 DEF StoreCol
<1>11. \A x \in Writers : StoresOK(job'[x])
  BY <1>3, <1>6, <1>9, StoresKept DEF StoresOK
<1>12. ColDue'
  BY <1>7, <1>9, <1>10 DEF ColDue, WillFixCol
<1>13. RowDue'
  <2>1. WillFixRow(job[w]) => WillFixRow(job'[w])
    BY <1>2, <1>3, <1>6, <1>9 DEF WillFixRow
  <2> QED
    BY <1>9, <1>10, <2>1, RowKept
<1>14. RingOK'
  <2>1. w \notin Scrolling /\ w \notin Scrolling'
    BY <1>2, <1>3, <1>6, <1>9 DEF Scrolling
  <2> QED
    BY <1>9, <1>10, <2>1, RingKept DEF Moves
<1>15. ViewIsOfTheHistory'
  BY <1>10, ViewKept
<1>16. TypeOK'
  BY <1>1, <1>9, <1>10, <1>14, CountKept DEF TypeOK, Moves, ring
<1> QED
  BY <1>11, <1>12, <1>13, <1>14, <1>15, <1>16 DEF Inv

LEMMA EdgeInv ==
    ASSUME Inv, NEW w \in Writers, Edge(w)
    PROVE  Inv'
<1>1. TypeOK
  BY DEF Inv
<1>2. PICK j \in Jobs : j = job[w]
  BY <1>1 DEF TypeOK
<1>3. j.pc = "edge"
  BY <1>2 DEF Edge
<1>4. UNCHANGED <<cursor_row, cursor_col, screen, ring, scroll_offset, gone, cut, viewing>>
  BY DEF Edge, cursor
<1>5. /\ Moves(w)
      /\ job'[w].pc \in {"wrap", "scroll"} /\ job'[w].op = "LF" /\ job'[w].row = j.row
      /\ PastEdge(j) => job'[w].pc = "wrap" /\ job'[w].todo = {"row", "col"}
  <2>1. PICK r : r = IF PastEdge(j) THEN [j EXCEPT !.pc = "wrap", !.op = "LF", !.todo = {"row", "col"}]
                                    ELSE [j EXCEPT !.pc = "scroll", !.op = "LF", !.col = 0]
    OBVIOUS
  <2>2. "wrap" \in PCs /\ "scroll" \in PCs /\ "LF" \in Operations /\ 0 \in 0..(Word - 1)
    BY Sizes DEF PCs, Operations, Chars
  <2>3. r \in Jobs
    BY <2>1, <2>2 DEF Jobs
  <2>4. job' = [job EXCEPT ![w] = r]
    BY <1>1, <1>2, <2>1 DEF Edge, TypeOK
  <2>5. job'[w] = r /\ Moves(w)
    BY <1>1, <2>3, <2>4 DEF TypeOK, Moves
  <2> QED
    BY <2>1, <2>5 DEF Jobs
<1>6. \A x \in Writers : StoresOK(job'[x])
  BY <1>5, StoresKept DEF StoresOK
<1>7. ColDue'
  BY <1>2, <1>3, <1>4, <1>5, ColKept DEF WillFixCol, PastEdge
<1>8. RowDue'
  BY <1>2, <1>3, <1>4, <1>5, RowKept DEF WillFixRow
<1>9. RingOK'
  <2>1. w \notin Scrolling /\ w \notin Scrolling'
    BY <1>2, <1>3, <1>5 DEF Scrolling
  <2> QED
    BY <1>4, <1>5, <2>1, RingKept DEF Moves
<1>10. ViewIsOfTheHistory'
  BY <1>4, ViewKept
<1>11. TypeOK'
  BY <1>1, <1>4, <1>5, <1>9, CountKept DEF TypeOK, Moves, ring
<1> QED
  BY <1>6, <1>7, <1>8, <1>9, <1>10, <1>11 DEF Inv

LEMMA ReturnInv ==
    ASSUME Inv, NEW w \in Writers, Return(w)
    PROVE  Inv'
<1>1. TypeOK
  BY DEF Inv
<1>2. PICK j \in Jobs : j = job[w]
  BY <1>1 DEF TypeOK
<1>3. j.pc = "scroll"
  BY <1>2 DEF Return
<1>4. UNCHANGED <<cursor_row, cursor_col, screen, ring, scroll_offset, gone, cut, viewing>>
  BY DEF Return, cursor
<1>5. /\ Moves(w)
      /\ job'[w].pc \in {"save", "idle"} /\ (j.row >= Height => job'[w].pc = "save")
  <2>1. PICK r : r = IF j.row >= Height THEN [j EXCEPT !.pc = "save"] ELSE Idle
    OBVIOUS
  <2>2. Idle \in Jobs /\ Idle.pc = "idle"
    BY Sizes DEF Idle, Jobs, PCs, Operations
  <2>3. r \in Jobs
    BY <2>1, <2>2 DEF Jobs, PCs
  <2>4. job' = [job EXCEPT ![w] = r]
    BY <1>1, <1>2, <2>1 DEF Return, TypeOK
  <2>5. job'[w] = r /\ Moves(w)
    BY <1>1, <2>3, <2>4 DEF TypeOK, Moves
  <2> QED
    BY <2>1, <2>2, <2>5 DEF Jobs
<1>6. \A x \in Writers : StoresOK(job'[x])
  BY <1>5, StoresKept DEF StoresOK
<1>7. ColDue'
  BY <1>2, <1>3, <1>4, <1>5, ColKept DEF WillFixCol
<1>8. RowDue'
  BY <1>2, <1>3, <1>4, <1>5, RowKept DEF WillFixRow
<1>9. RingOK'
  <2>1. w \notin Scrolling /\ w \notin Scrolling'
    BY <1>2, <1>3, <1>5 DEF Scrolling
  <2> QED
    BY <1>4, <1>5, <2>1, RingKept DEF Moves
<1>10. ViewIsOfTheHistory'
  BY <1>4, ViewKept
<1>11. TypeOK'
  BY <1>1, <1>4, <1>5, <1>9, CountKept DEF TypeOK, Moves, ring
<1> QED
  BY <1>6, <1>7, <1>8, <1>9, <1>10, <1>11 DEF Inv

LEMMA LastRowInv ==
    ASSUME Inv, NEW w \in Writers, LastRow(w)
    PROVE  Inv'
<1>1. TypeOK
  BY DEF Inv
<1>2. Height - 1 \in 0..(Word - 1) /\ ~(Height - 1 >= Height)
  BY Sizes
<1>3. Moves(w) /\ job'[w].pc = "scroll"
  <2>1. "scroll" \in PCs
    BY DEF PCs
  <2> QED
    BY <1>1, <1>2, <2>1 DEF TypeOK, LastRow, Jobs, Moves
<1>4. /\ cursor_row' = Height - 1
      /\ UNCHANGED <<cursor_col, screen, ring, scroll_offset, gone, cut, viewing>>
  BY DEF LastRow
<1>5. job[w].pc = "last"
  BY DEF LastRow
<1>6. \A x \in Writers : StoresOK(job'[x])
  BY <1>3, StoresKept DEF StoresOK
<1>7. ColDue'
  BY <1>3, <1>4, <1>5, ColKept DEF WillFixCol
<1>8. RowDue'
  BY <1>2, <1>4 DEF RowDue
<1>9. RingOK'
  <2>1. w \notin Scrolling /\ w \notin Scrolling'
    BY <1>3, <1>5 DEF Scrolling
  <2> QED
    BY <1>3, <1>4, <2>1, RingKept DEF Moves
<1>10. ViewIsOfTheHistory'
  BY <1>4, ViewKept
<1>11. TypeOK'
  BY <1>1, <1>2, <1>3, <1>4, <1>9, CountKept DEF TypeOK, Moves, ring
<1> QED
  BY <1>6, <1>7, <1>8, <1>9, <1>10, <1>11 DEF Inv

LEMMA ClearInv ==
    ASSUME Inv, Clear
    PROVE  Inv'
<1>1. TypeOK
  BY DEF Inv
<1>2. Blank \in [Cols -> Printable \cup {" "}]
  BY DEF Blank
<1>3. /\ UNCHANGED <<ring, scroll_offset, job, gone>>
      /\ cursor_row' = 0 /\ cursor_col' = 0 /\ viewing' = FALSE
      /\ cut' = (cut \/ Scrolling # {})
      /\ screen' = [r \in Rows |-> Blank]
  BY DEF Clear
<1>4. ColDue' /\ RowDue'
  BY <1>3, Sizes DEF ColDue, RowDue
<1>5. RingOK'
  BY <1>1, <1>3, RingKept DEF TypeOK
<1>6. ViewIsOfTheHistory'
  BY <1>3, ViewKept
<1>7. TypeOK'
  <2>1. 0 \in 0..(Word - 1)
    BY Sizes
  <2> QED
    BY <1>1, <1>2, <1>3, <1>5, <2>1, CountKept DEF TypeOK, ring
<1> QED
  BY <1>3, <1>4, <1>5, <1>6, <1>7 DEF Inv

-----------------------------------------------------------------------------
(* console_scroll *)

\* A writer in console_scroll owes the column nothing and the row a scroll.
LEMMA ScrollDues ==
    ASSUME Inv, NEW w \in Writers, Moves(w), UNCHANGED <<cursor_row, cursor_col>>,
           job[w].pc \in {"save", "line", "count", "rows"},
           job'[w].pc \in {"line", "count", "rows", "last"}
    PROVE  /\ \A x \in Writers : StoresOK(job'[x])
           /\ ColDue' /\ RowDue'
<1>1. \A x \in Writers : StoresOK(job'[x])
  BY StoresKept DEF StoresOK
<1>2. ColDue'
  BY ColKept DEF WillFixCol
<1>3. RowDue'
  BY RowKept DEF WillFixRow
<1> QED
  BY <1>1, <1>2, <1>3

\* Until somebody cuts into it, a scroll is the only one.
LEMMA Alone ==
    ASSUME Inv, NEW w \in Writers, w \in Scrolling, ~cut
    PROVE  /\ Scrolling = {w} /\ ScrollOK(job[w])
           /\ history_count \in 0..Lines /\ history_start \in 0..(Lines - 1)
           /\ screen_history \in [0..(Lines - 1) -> Row]
           /\ screen[0] \in Row
<1>1. Scrolling = {w} /\ ScrollOK(job[w]) /\ history_count \in 0..Lines
  BY DEF Inv, RingOK
<1>2. 0 \in Rows
  BY Sizes DEF Rows
<1> QED
  BY <1>1, <1>2 DEF Inv, TypeOK, Row

\* In the scroll that nobody cut into, one more stage is reached.
LEMMA NextStage ==
    ASSUME Inv, NEW w \in Writers, Moves(w), w \in Scrolling, job'[w].pc \in {"count", "rows"},
           cut' = cut, gone' = gone, ~cut => history_count' \in 0..Lines /\ ScrollOK(job[w])'
    PROVE  RingOK'
<1> SUFFICES ASSUME ~cut PROVE RingOK'
  BY DEF RingOK
<1>1. Scrolling = {w}
  BY Alone
<1>2. \A x \in Writers : x \in Scrolling' => x = w
  BY <1>1 DEF Scrolling, Moves
<1>3. w \in Scrolling'
  BY DEF Scrolling
<1>4. Scrolling' = {w}
  BY <1>2, <1>3 DEF Scrolling
<1>5. gone' \in Seq(Row)
  BY DEF Inv, RingOK
<1> QED
  BY <1>4, <1>5 DEF RingOK

LEMMA SaveInv ==
    ASSUME Inv, NEW w \in Writers, Save(w)
    PROVE  Inv'
<1>1. TypeOK
  BY DEF Inv
<1>2. PICK j \in Jobs : j = job[w]
  BY <1>1 DEF TypeOK
<1>3. j.pc = "save"
  BY <1>2 DEF Save
<1>4. /\ UNCHANGED <<cursor_row, cursor_col, screen, ring, scroll_offset, gone, viewing>>
      /\ cut' = (cut \/ Scrolling # {})
  BY DEF Save, cursor
<1>5. /\ Moves(w)
      /\ job'[w].pc = "line" /\ job'[w].op = Way(history_count)
      /\ job'[w].start = history_start /\ job'[w].count = history_count
  <2>1. PICK k \in Operations : k = Way(history_count)
    BY DEF Way, Operations
  <2>2. PICK s \in 0..(Lines - 1) : s = history_start
    BY <1>1 DEF TypeOK
  <2>3. PICK n \in Nat : n = history_count
    BY <1>1 DEF TypeOK
  <2>4. PICK r : r = [j EXCEPT !.pc = "line", !.row = 0, !.op = k, !.start = s, !.count = n]
    OBVIOUS
  <2>5. r \in Jobs /\ r.pc = "line" /\ r.op = k /\ r.start = s /\ r.count = n
    <3>1. "line" \in PCs /\ 0 \in 0..(Word - 1)
      BY Sizes DEF PCs
    <3> QED
      BY <2>4, <3>1 DEF Jobs
  <2>6. job' = [job EXCEPT ![w] = r]
    BY <1>1, <1>2, <2>1, <2>2, <2>3, <2>4 DEF Save, Way, TypeOK
  <2> QED
    BY <1>1, <2>1, <2>2, <2>3, <2>5, <2>6 DEF TypeOK, Moves
<1>6. (\A x \in Writers : StoresOK(job'[x])) /\ ColDue' /\ RowDue'
  BY <1>2, <1>3, <1>4, <1>5, ScrollDues
<1>7. RingOK'
  <2> SUFFICES ASSUME ~cut' PROVE RingOK'
    BY DEF RingOK
  <2>1. ~cut /\ Scrolling = {}
    BY <1>1, <1>4 DEF TypeOK
  <2>2. /\ history_count \in 0..Lines /\ gone \in Seq(Row)
        /\ InOrder(gone, screen_history, history_start, history_count)
    BY <2>1 DEF Inv, RingOK
  <2>3. Scrolling' = {w}
    BY <1>5, <2>1 DEF Scrolling, Moves
  <2>4. UNCHANGED <<screen_history, history_start, history_count, gone>>
    BY <1>4 DEF ring
  <2>5. ScrollOK(job[w])'
    BY <1>5, <2>2, <2>4 DEF ScrollOK
  <2> QED
    BY <2>2, <2>3, <2>4, <2>5 DEF RingOK
<1>8. ViewIsOfTheHistory'
  BY <1>4, ViewKept
<1>9. TypeOK'
  BY <1>1, <1>4, <1>5, <1>7, CountKept DEF TypeOK, Moves, ring
<1> QED
  BY <1>6, <1>7, <1>8, <1>9 DEF Inv

LEMMA SaveLineInv ==
    ASSUME Inv, NEW w \in Writers, SaveLine(w)
    PROVE  Inv'
<1>1. TypeOK
  BY DEF Inv
<1>2. PICK j \in Jobs : j = job[w]
  BY <1>1 DEF TypeOK
<1>3. j.pc = "line" /\ w \in Scrolling
  BY <1>2 DEF SaveLine, Scrolling
<1>4. PICK slot : slot = IF j.op = "append" THEN (j.start + j.count) % Lines ELSE j.start
  OBVIOUS
<1>5. /\ screen_history' = [screen_history EXCEPT ![slot] = screen[0]]
      /\ UNCHANGED <<cursor_row, cursor_col, screen, history_start, history_count,
                     scroll_offset, gone, cut>>
      /\ viewing' = FALSE
  BY <1>2, <1>4 DEF SaveLine, cursor
<1>6. Moves(w) /\ job'[w] = [j EXCEPT !.pc = "count"]
  <2>1. [j EXCEPT !.pc = "count"] \in Jobs
    BY DEF Jobs, PCs
  <2>2. job' = [job EXCEPT ![w] = [j EXCEPT !.pc = "count"]]
    BY <1>1, <1>2 DEF SaveLine, TypeOK
  <2> QED
    BY <1>1, <2>1, <2>2 DEF TypeOK, Moves
<1>7. /\ job'[w].pc = "count" /\ job'[w].op = j.op
      /\ job'[w].start = j.start /\ job'[w].count = j.count
  BY <1>6 DEF Jobs
<1>8. (\A x \in Writers : StoresOK(job'[x])) /\ ColDue' /\ RowDue'
  BY <1>2, <1>3, <1>5, <1>6, <1>7, ScrollDues
<1>9. screen_history' \in [0..(Lines - 1) -> [Cols -> Printable \cup {" "}]]
  <2>1. screen[0] \in [Cols -> Printable \cup {" "}]
    <3>1. 0 \in Rows
      BY Sizes DEF Rows
    <3> QED
      BY <1>1, <3>1 DEF TypeOK
  <2> QED
    BY <1>1, <1>5, <2>1 DEF TypeOK
<1>10. ASSUME ~cut
       PROVE  history_count' \in 0..Lines /\ ScrollOK(job[w])'
  <2>1. PICK x \in Row : x = screen[0]
    BY <1>3, <1>10, Alone
  <2>2. PICK h \in [0..(Lines - 1) -> Row] : h = screen_history
    BY <1>3, <1>10, Alone
  <2>3. PICK start \in 0..(Lines - 1) : start = history_start
    BY <1>3, <1>10, Alone
  <2>4. PICK n \in 0..Lines : n = history_count
    BY <1>3, <1>10, Alone
  <2>5. PICK g : g = gone
    OBVIOUS
  <2>6. /\ InOrder(g, h, start, n)
        /\ j.start = start /\ j.count = n /\ j.op = Way(n)
    BY <1>2, <1>3, <1>10, <2>2, <2>3, <2>4, <2>5, Alone DEF ScrollOK
  <2>7. Len(g) = n
    BY <2>6 DEF InOrder
  <2>8. CASE n < Lines
    <3>1. n \in 0..(Lines - 1) /\ n + 1 \in 1..Lines /\ ~(n + 1 > Lines)
      BY <2>8, Sizes
    <3>2. Slot(start, n + 1) = (start + n) % Lines
      BY <3>1, Sizes DEF Slot
    <3>3. slot = Slot(start, n + 1)
      BY <1>4, <2>6, <2>8, <3>2 DEF Way
    <3>4. InOrder(Append(g, x), [h EXCEPT ![slot] = x], start, n + 1)
      BY <2>6, <3>1, <3>3, StoreBehind
    <3>5. Grown(g, x) = Append(g, x)
      BY <2>7, <3>1 DEF Grown
    <3>6. InOrder(Grown(gone', screen'[0]), screen_history', history_start', history_count' + 1)
      BY <1>5, <2>1, <2>2, <2>3, <2>4, <2>5, <3>4, <3>5
    <3>7. history_count' = n /\ history_start' = start
      BY <1>5, <2>3, <2>4
    <3> QED
      BY <1>7, <2>6, <2>8, <3>6, <3>7 DEF ScrollOK
  <2>9. CASE n = Lines
    <3>1. ~(n < Lines) /\ n + 1 > Lines
      BY <2>9, Sizes
    <3>2. slot = start
      BY <1>4, <2>6, <3>1 DEF Way
    <3>3. InOrder(Tail(Append(g, x)), [h EXCEPT ![start] = x], (start + 1) % Lines, Lines)
      BY <2>6, <2>9, StoreOver
    <3>4. Grown(g, x) = Tail(Append(g, x))
      BY <2>7, <3>1 DEF Grown
    <3>5. InOrder(Grown(gone', screen'[0]), screen_history', (history_start' + 1) % Lines,
                  history_count')
      BY <1>5, <2>1, <2>2, <2>3, <2>4, <2>5, <2>9, <3>2, <3>3, <3>4
    <3>6. history_count' = n /\ history_start' = start
      BY <1>5, <2>3, <2>4
    <3> QED
      BY <1>7, <2>6, <3>1, <3>5, <3>6 DEF ScrollOK
  <2> QED
    BY <2>8, <2>9, Sizes
<1>11. RingOK'
  BY <1>3, <1>5, <1>6, <1>7, <1>10, NextStage
<1>12. ViewIsOfTheHistory'
  BY <1>5, ViewKept
<1>13. TypeOK'
  BY <1>1, <1>5, <1>6, <1>9, <1>11, CountKept DEF TypeOK, Moves
<1> QED
  BY <1>8, <1>11, <1>12, <1>13 DEF Inv

LEMMA CountInv ==
    ASSUME Inv, NEW w \in Writers, Count(w)
    PROVE  Inv'
<1>1. TypeOK
  BY DEF Inv
<1>2. PICK j \in Jobs : j = job[w]
  BY <1>1 DEF TypeOK
<1>3. j.pc = "count" /\ w \in Scrolling
  BY <1>2 DEF Count, Scrolling
<1>4. /\ UNCHANGED <<cursor_row, cursor_col, screen, screen_history, scroll_offset, gone, cut>>
      /\ viewing' = FALSE
  BY DEF Count, cursor
<1>5. /\ j.op = "append" => history_count' = j.count + 1 /\ history_start' = history_start
      /\ j.op = "replace" => history_start' = (j.start + 1) % Lines /\ history_count' = history_count
      /\ j.op \in {"append", "replace"}
  BY <1>2 DEF Count, Counted
<1>6. Moves(w) /\ job'[w].pc = "rows"
  <2>1. [Idle EXCEPT !.pc = "rows"] \in Jobs /\ [Idle EXCEPT !.pc = "rows"].pc = "rows"
    BY Sizes DEF Idle, Jobs, PCs, Operations
  <2>2. job' = [job EXCEPT ![w] = [Idle EXCEPT !.pc = "rows"]]
    BY DEF Count
  <2> QED
    BY <1>1, <2>1, <2>2 DEF TypeOK, Moves
<1>7. (\A x \in Writers : StoresOK(job'[x])) /\ ColDue' /\ RowDue'
  BY <1>2, <1>3, <1>4, <1>6, ScrollDues
<1>8. history_start' \in 0..(Lines - 1) /\ history_count' \in Nat
  <2>1. j.start \in 0..(Lines - 1) /\ j.count \in Nat
    BY DEF Jobs
  <2>2. (j.start + 1) % Lines \in 0..(Lines - 1)
    BY <2>1, ModRange, Sizes
  <2>3. j.count + 1 \in Nat
    BY <2>1
  <2>4. history_start \in 0..(Lines - 1) /\ history_count \in Nat
    BY <1>1 DEF TypeOK
  <2> QED
    BY <1>5, <2>2, <2>3, <2>4
<1>9. ASSUME ~cut
      PROVE  history_count' \in 0..Lines /\ ScrollOK(job[w])'
  <2>1. PICK n \in 0..Lines : n = history_count
    BY <1>3, <1>9, Alone
  <2>2. /\ j.start = history_start /\ j.count = n /\ j.op = Way(n)
        /\ IF n < Lines
           THEN InOrder(Grown(gone, screen[0]), screen_history, history_start, n + 1)
           ELSE InOrder(Grown(gone, screen[0]), screen_history, (history_start + 1) % Lines, n)
    BY <1>2, <1>3, <1>9, <2>1, Alone DEF ScrollOK
  <2>3. CASE n < Lines
    <3>1. history_count' = n + 1 /\ history_start' = history_start /\ n + 1 \in 0..Lines
      BY <1>5, <2>2, <2>3, Sizes DEF Way
    <3> QED
      BY <1>4, <1>6, <2>2, <2>3, <3>1 DEF ScrollOK
  <2>4. CASE ~(n < Lines)
    <3>1. history_count' = n /\ history_start' = (history_start + 1) % Lines
      BY <1>5, <2>1, <2>2, <2>4 DEF Way
    <3> QED
      BY <1>4, <1>6, <2>2, <2>4, <3>1 DEF ScrollOK
  <2> QED
    BY <2>3, <2>4
<1>10. RingOK'
  BY <1>3, <1>4, <1>6, <1>9, NextStage
<1>11. ViewIsOfTheHistory'
  BY <1>4, ViewKept
<1>12. TypeOK'
  BY <1>1, <1>4, <1>6, <1>8, <1>10, CountKept DEF TypeOK, Moves
<1> QED
  BY <1>7, <1>10, <1>11, <1>12 DEF Inv

LEMMA MoveRowsInv ==
    ASSUME Inv, NEW w \in Writers, MoveRows(w)
    PROVE  Inv'
<1>1. TypeOK
  BY DEF Inv
<1>2. Blank \in [Cols -> Printable \cup {" "}]
  BY DEF Blank
<1>3. job[w].pc = "rows" /\ w \in Scrolling
  BY DEF MoveRows, Scrolling
<1>4. /\ UNCHANGED <<cursor_row, cursor_col, screen_history, history_start, history_count,
                     scroll_offset, cut>>
      /\ viewing' = FALSE
  BY DEF MoveRows, cursor, ring
<1>5. screen' \in [Rows -> [Cols -> Printable \cup {" "}]]
  <2>1. screen' = [r \in Rows |-> IF r < Height - 1 THEN screen[r + 1] ELSE Blank]
    BY DEF MoveRows
  <2>2. \A r \in Rows : r < Height - 1 => r + 1 \in Rows
    BY Sizes DEF Rows
  <2> QED
    BY <1>1, <1>2, <2>1, <2>2 DEF TypeOK
<1>6. Moves(w) /\ job'[w].pc = "last"
  BY <1>1 DEF TypeOK, MoveRows, Jobs, PCs, Moves
<1>7. (\A x \in Writers : StoresOK(job'[x])) /\ ColDue' /\ RowDue'
  BY <1>3, <1>4, <1>6, ScrollDues
<1>8. RingOK'
  <2> SUFFICES ASSUME ~cut PROVE RingOK'
    BY <1>4 DEF RingOK
  <2>1. /\ Scrolling = {w} /\ history_count \in 0..Lines /\ screen[0] \in Row
        /\ InOrder(Grown(gone, screen[0]), screen_history, history_start, history_count)
    BY <1>3, Alone DEF ScrollOK
  <2>2. Scrolling' = {}
    BY <1>6, <2>1 DEF Scrolling, Moves
  <2>3. gone' = Grown(gone, screen[0])
    <3>1. gone \in Seq(Row)
      BY DEF Inv, RingOK
    <3>2. Len(Append(gone, screen[0])) = Len(gone) + 1
      BY <2>1, <3>1, AppendProperties
    <3> QED
      BY <3>2 DEF MoveRows, Grown
  <2>4. gone' \in Seq(Row)
    BY <2>1, <2>3 DEF InOrder
  <2> QED
    BY <1>4, <2>1, <2>2, <2>3, <2>4 DEF RingOK
<1>9. ViewIsOfTheHistory'
  BY <1>4, ViewKept
<1>10. TypeOK'
  BY <1>1, <1>4, <1>5, <1>6, <1>8, CountKept DEF TypeOK, Moves
<1> QED
  BY <1>7, <1>8, <1>9, <1>10 DEF Inv

-----------------------------------------------------------------------------
(* The view, and the invariant *)

\* A redraw shows the history at that offset.
LEMMA RedrawInv ==
    ASSUME Inv, NEW offset \in Nat, Redraw(offset)
    PROVE  /\ Inv'
           /\ \A r \in Rows : HistLine(r, offset) < history_count =>
                 screen'[r] = View(HistLine(r, offset))
<1>1. TypeOK
  BY DEF Inv
<1>2. Blank \in Row
  BY DEF Blank, Row
<1>3. history_count \in Nat /\ history_start \in 0..(Lines - 1)
  BY <1>1 DEF TypeOK
<1>4. \A r \in Rows : HistLine(r, offset) \in Int
  BY <1>3, Sizes DEF HistLine, Rows
<1>5. \A n \in Int : 0 <= n /\ n < history_count => Line(n) \in Row
  <2> TAKE n \in Int
  <2> HAVE 0 <= n /\ n < history_count
  <2>1. history_start + n \in Nat
    BY <1>3, Sizes
  <2>2. (history_start + n) % Lines \in 0..(Lines - 1)
    BY <2>1, ModRange
  <2> QED
    BY <1>1, <2>2 DEF TypeOK, Line, Row
<1>6. \A r \in Rows :
        screen'[r] = IF HistLine(r, offset) < 0 THEN Blank
                     ELSE IF HistLine(r, offset) < history_count THEN Line(HistLine(r, offset))
                     ELSE screen[r]
  BY DEF Redraw, Line
<1>7. screen' \in [Rows -> Row]
  <2>1. \A r \in Rows : screen[r] \in Row
    BY <1>1 DEF TypeOK, Row
  <2>2. \A r \in Rows : screen'[r] \in Row
    <3> TAKE r \in Rows
    <3>1. PICK n \in Int : n = HistLine(r, offset)
      BY <1>4
    <3>2. screen'[r] = IF n < 0 THEN Blank ELSE IF n < history_count THEN Line(n) ELSE screen[r]
      BY <1>6, <3>1
    <3>3. n < 0 \/ 0 <= n
      OBVIOUS
    <3> QED
      BY <1>2, <1>5, <2>1, <3>2, <3>3
  <2>3. screen' = [r \in Rows |-> screen'[r]]
    BY DEF Redraw
  <2> QED
    BY <2>2, <2>3
<1>8. UNCHANGED <<cursor_row, cursor_col, screen_history, history_start, history_count, job, gone>>
  BY DEF Redraw, cursor, ring
<1>9. scroll_offset' = offset /\ viewing' = TRUE /\ cut' = (cut \/ Scrolling # {})
  BY DEF Redraw
<1>10. RingOK'
  BY <1>1, <1>8, <1>9, RingKept DEF ring, TypeOK
<1>11. TypeOK'
  BY <1>1, <1>7, <1>8, <1>9, <1>10, CountKept DEF TypeOK, Row
<1>16. ColDue' /\ RowDue' /\ \A x \in Writers : StoresOK(job'[x])
  BY <1>8 DEF Inv, ColDue, RowDue
<1>12. \A r \in Rows : HistLine(r, offset) < history_count =>
          screen'[r] = View(HistLine(r, offset))
  BY <1>4, <1>6 DEF View
<1>13. \A r \in Rows : HistLine(r, scroll_offset)' = HistLine(r, offset)
  BY <1>8, <1>9 DEF HistLine
<1>14. \A n : View(n)' = View(n)
  BY <1>8 DEF View, Line
<1>15. ViewIsOfTheHistory'
  BY <1>8, <1>12, <1>13, <1>14 DEF ViewIsOfTheHistory
<1> QED
  BY <1>10, <1>11, <1>12, <1>15, <1>16 DEF Inv

\* The arrow keys ask for an offset that is a number.
LEMMA ArrowOffsets ==
    ASSUME TypeOK
    PROVE  /\ ScrollUp => scroll_offset + 1 \in Nat
           /\ ScrollDown => scroll_offset - 1 \in Nat
<1>1. history_count \in Nat /\ scroll_offset \in Nat
  BY DEF TypeOK
<1> QED
  BY <1>1 DEF ScrollUp, ScrollDown

LEMMA NextInv == Inv /\ [Next]_vars => Inv'
<1> SUFFICES ASSUME Inv, [Next]_vars PROVE Inv'
  OBVIOUS
<1>1. TypeOK
  BY DEF Inv
<1>2. CASE UNCHANGED vars
  <2>1. UNCHANGED <<cursor_row, cursor_col, screen, ring, scroll_offset, job, gone, cut, viewing>>
    BY <1>2 DEF vars, cursor
  <2>2. RingOK'
    BY <2>1, RingKept
  <2>3. ViewIsOfTheHistory'
    BY <2>1, ViewKept
  <2>4. TypeOK'
    BY <1>1, <2>1 DEF TypeOK, ring
  <2> QED
    BY <2>1, <2>2, <2>3, <2>4 DEF Inv, ColDue, RowDue
<1>3. CASE ScrollUp
  BY <1>1, <1>3, ArrowOffsets, RedrawInv DEF ScrollUp
<1>4. CASE ScrollDown
  BY <1>1, <1>4, ArrowOffsets, RedrawInv DEF ScrollDown
<1>5. CASE \E w \in Writers : \E c \in Chars : Putchar(w, c)
  BY <1>5, PutcharInv
<1>6. CASE \E w \in Writers : LoadRow(w) \/ LoadCol(w) \/ LoadRing(w)
  BY <1>6, LoadRowInv, LoadColInv, LoadRingInv
<1>7. CASE \E w \in Writers : Switch(w) \/ StoreFaults(w) \/ StoreRow(w) \/ StoreCol(w)
  BY <1>7, SwitchInv, StoreFaultsInv, StoreRowInv, StoreColInv
<1>8. CASE \E w \in Writers : Edge(w) \/ Return(w)
  BY <1>8, EdgeInv, ReturnInv
<1>9. CASE \E w \in Writers : Save(w) \/ SaveLine(w) \/ Count(w) \/ MoveRows(w) \/ LastRow(w)
  BY <1>9, SaveInv, SaveLineInv, CountInv, MoveRowsInv, LastRowInv
<1>10. CASE Clear
  BY <1>10, ClearInv
<1> QED
  BY <1>2, <1>3, <1>4, <1>5, <1>6, <1>7, <1>8, <1>9, <1>10 DEF Next

\* The inductive invariant holds throughout.
LEMMA InvHolds == Spec => []Inv
BY InitInv, NextInv, PTL DEF Spec

-----------------------------------------------------------------------------
(* The properties of Console *)

\* Any number of writers may cut into console_putchar, between any two of its
\* accesses: a writer that stores a counter off the screen tests what it stored,
\* so the cursor is on the screen when the last of them has returned.
THEOREM CursorCorrect == Spec => []CursorComesBack
<1>1. Inv => CursorComesBack
  <2> SUFFICES ASSUME Inv, InFlight = {} PROVE cursor_row < Height /\ cursor_col < Width
    BY DEF CursorComesBack
  <2>1. \A w \in Writers : job[w].pc = "idle"
    BY DEF InFlight
  <2>2. ~(cursor_col >= Width) /\ ~(cursor_row >= Height)
    BY <2>1 DEF Inv, ColDue, RowDue, WillFixCol, WillFixRow
  <2> QED
    BY <2>2, Counters DEF Inv
<1> QED
  BY <1>1, InvHolds, PTL

\* Until somebody cuts into a scroll, the history ring has the last lines that
\* scrolled off as they left the screen and in order, through every wrap-around
\* of a ring of any size, and whatever else is written between two scrolls.
THEOREM HistoryCorrect == Spec => []HistoryIsTheLastLines
<1>1. Inv => HistoryIsTheLastLines
  <2> SUFFICES ASSUME Inv, ~cut, Scrolling = {}
               PROVE  gone = [i \in 1..history_count |->
                                screen_history[(history_start + i - 1) % Lines]]
    BY DEF Inv, HistoryIsTheLastLines
  <2>1. InOrder(gone, screen_history, history_start, history_count) /\ history_count \in 0..Lines
    BY DEF Inv, RingOK
  <2>2. screen_history \in [0..(Lines - 1) -> Row] /\ history_start \in 0..(Lines - 1)
    BY DEF Inv, TypeOK, Row
  <2> QED
    BY <2>1, <2>2, RingInOrder
<1> QED
  BY <1>1, InvHolds, PTL

\* An arrow key moves the view by exactly one line: console_scroll_up and
\* console_scroll_down draw from the same history as long as nothing is written.
THEOREM ArrowsCorrect == Spec => ArrowsMoveByOneLine
<1> DEFINE OneLine ==
      viewing /\ viewing' =>
         /\ scroll_offset > 0 /\ scroll_offset' = scroll_offset + 1 =>
              \A r \in Rows \ {0} : screen'[r] = screen[r - 1]
         /\ scroll_offset' > 0 /\ scroll_offset' = scroll_offset - 1 =>
              \A r \in Rows \ {0} : screen'[r - 1] = screen[r]
<1>1. Inv /\ [Next]_vars => [OneLine]_vars
  <2> SUFFICES ASSUME Inv, [Next]_vars, viewing
               PROVE  OneLine
    OBVIOUS
  <2>1. history_count \in Nat /\ scroll_offset \in Nat
    BY DEF Inv, TypeOK
  <2>2. \A r \in Rows : HistLine(r, scroll_offset) < history_count =>
            screen[r] = View(HistLine(r, scroll_offset))
    BY DEF Inv, ViewIsOfTheHistory
  <2>3. CASE ScrollUp
    <3>1. scroll_offset + 1 \in Nat /\ Redraw(scroll_offset + 1)
      BY <2>3, ArrowOffsets DEF ScrollUp, Inv
    <3>2. \A r \in Rows : HistLine(r, scroll_offset + 1) < history_count =>
              screen'[r] = View(HistLine(r, scroll_offset + 1))
      BY <3>1, RedrawInv
    <3>3. ASSUME scroll_offset > 0, NEW r \in Rows \ {0}
          PROVE  screen'[r] = screen[r - 1]
      <4>1. /\ HistLine(r, scroll_offset + 1) = HistLine(r - 1, scroll_offset)
            /\ HistLine(r, scroll_offset + 1) < history_count /\ r - 1 \in Rows
        BY <2>1, <3>3, Sizes DEF HistLine, Rows
      <4> QED
        BY <2>2, <3>2, <4>1
    <3>4. scroll_offset' = scroll_offset + 1
      BY <3>1 DEF Redraw
    <3> QED
      BY <2>1, <3>3, <3>4
  <2>4. CASE ScrollDown
    <3>1. scroll_offset - 1 \in Nat /\ Redraw(scroll_offset - 1)
      BY <2>4, ArrowOffsets DEF ScrollDown, Inv
    <3>2. \A r \in Rows : HistLine(r, scroll_offset - 1) < history_count =>
              screen'[r] = View(HistLine(r, scroll_offset - 1))
      BY <3>1, RedrawInv
    <3>3. ASSUME scroll_offset - 1 > 0, NEW r \in Rows \ {0}
          PROVE  screen'[r - 1] = screen[r]
      <4>1. /\ HistLine(r - 1, scroll_offset - 1) = HistLine(r, scroll_offset)
            /\ HistLine(r, scroll_offset) < history_count /\ r - 1 \in Rows
        BY <2>1, <3>3, Sizes DEF HistLine, Rows
      <4> QED
        BY <2>2, <3>2, <4>1
    <3>4. scroll_offset' = scroll_offset - 1
      BY <3>1 DEF Redraw
    <3> QED
      BY <2>1, <3>3, <3>4
  <2>5. CASE scroll_offset' = scroll_offset
    BY <2>1, <2>5
  <2>6. ScrollUp \/ ScrollDown \/ scroll_offset' = scroll_offset
    BY DEF Next, vars, Putchar, LoadRow, LoadCol, LoadRing, Switch, StoreFaults, StoreRow, StoreCol,
           Edge, Return, Save, SaveLine, Count, MoveRows, LastRow, Clear
  <2> QED
    BY <2>3, <2>4, <2>5, <2>6
<1>2. Spec => [][OneLine]_vars
  BY <1>1, InvHolds, PTL DEF Spec
<1> QED
  BY <1>2 DEF ArrowsMoveByOneLine
=============================================================================
