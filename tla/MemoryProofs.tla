---------------------------- MODULE MemoryProofs ----------------------------
(***************************************************************************)
(* Proofs about the page tables, for any number of frames, processes and   *)
(* table entries.  They are about system calls that do not interleave      *)
(* (Setting): with Preemptive = TRUE the properties fail.  Addresses that  *)
(* lie in a huge page are included, and so is memory that runs out; the    *)
(* properties end with the first table behind the huge pages (astray).     *)
(*                                                                         *)
(* The inductive invariant gives every frame a level: 1 for the root, 2 to *)
(* 4 for the tables below it, 5 for mapped memory and 0 for the rest.      *)
(* Entries lead from one level to the next, and no two lead to one frame   *)
(* (Tree); so two walks that meet have come the same way, which is what    *)
(* keeps a store meant for one page away from all others.  All tables are  *)
(* in frames that the huge pages map to themselves, so that the kernel     *)
(* finds them at their physical addresses; and the frame of the first huge *)
(* page that the allocator hands out is no table (FirstFrame), so that the *)
(* stores of a walk through a huge entry miss the tree.                    *)
(***************************************************************************)
EXTENDS Memory, TLAPS

Entries == Frames \cup {Huge(f) : f \in Frames}
Ents == [Frames -> [Index -> Entries]]

\* Pages behind the huge pages, with indices that fit.
Good(v) == v \in Nat /\ v < NPages /\ v >= Direct

\* What the proofs assume of the calls and of the layout: calls do not
\* interleave, and no address lies behind the last page.
Setting ==
    /\ ~Preemptive
    /\ StackPage \in Pages
    /\ HeapMax \in Nat /\ HeapMax > HeapStart
    /\ page_align_up(HeapMax) <= NPages
    /\ \A a \in MmapAddrs \cup {HeapMax}, n \in MmapLengths :
         page_align_up(page_align_up(a) * PageBytes + n) <= NPages

\* lev gives the frames of the tree with entries e their levels; u is the bitmap.
Tree(e, lev, u) ==
    /\ e \in Ents /\ lev \in [Frames -> 0..5]
    /\ lev[0] = 0
    /\ \A f \in Frames : lev[f] = 1 <=> f = PML4
    /\ \A f \in Frames : lev[f] > 0 => f \in u
    /\ \A f \in Frames, i \in Index :
         lev[f] \in 1..4 /\ e[f][i] > 0 => lev[e[f][i]] = lev[f] + 1
    /\ \A f, g \in Frames, i, j \in Index :
         lev[f] \in 1..4 /\ lev[g] \in 1..4 /\ e[f][i] > 0 /\ e[f][i] = e[g][j]
           => f = g /\ i = j
    /\ \A f \in Frames : lev[f] \in 2..4 =>
         \E g \in Frames, i \in Index : lev[g] = lev[f] - 1 /\ e[g][i] = f
    /\ e[PML4][0] = BootPDPT /\ e[BootPDPT][0] = BootPD
    /\ \A i \in Index : i < HugeEntries => e[BootPD][i] = Huge(i * Fanout)
    /\ \A f \in Frames, i \in Index :
         lev[f] \in 1..4 /\ e[f][i] < 0 => f = BootPD /\ i < HugeEntries
    /\ \A f \in Frames : lev[f] \in 1..4 => f < Direct /\ f # Fanout

\* The walk of page v over entries e: the table at each level, and the frame.
Step(e, t, v, l) == IF t <= 0 THEN t ELSE e[t][Idx(v, l)]
W2(e, v) == Step(e, PML4, v, 1)
W3(e, v) == Step(e, W2(e, v), v, 2)
W4(e, v) == Step(e, W3(e, v), v, 3)
W5(e, v) == Step(e, W4(e, v), v, 4)
W(e, v, l) == CASE l = 1 -> PML4 [] l = 2 -> W2(e, v) [] l = 3 -> W3(e, v) [] OTHER -> W4(e, v)

\* Where the call j stands: its frame is its own and outside the tree, and its
\* walk has come to the table at which the processor's would be, or to the
\* first frame of a huge page, which is no table.
JobOK(j, e, lev, u) ==
    /\ j.pc = "idle" => j.first = 0 /\ j.v = 0
    /\ j.pc # "idle" => j.first <= j.v /\ j.end <= NPages
    /\ j.pc \in {"claim", "walk", "table"} => j.v < j.end
    /\ j.pc = "claim" => j.phys \notin u
    /\ j.pc \in {"walk", "table"} =>
         /\ j.phys \in u /\ j.phys > 0 /\ lev[j.phys] = 0
         /\ j.lvl \in 1..4
         /\ IF j.v < Direct /\ j.lvl = 4
            THEN j.pc = "walk" /\ j.tbl < Direct /\ lev[j.tbl] \notin 1..4
            ELSE j.tbl > 0 /\ j.tbl = W(e, j.v, j.lvl)
    /\ j.pc = "table" => j.lvl < 4 /\ e[j.tbl][Idx(j.v, j.lvl)] = 0

\* A break is moved to what the call has mapped up to.
BreakOK(p) ==
    job[p].pc # "idle" /\ job[p].op = "brk" =>
      /\ p \in Procs
      /\ job[p].first = page_align_up(brk[p])
      /\ job[p].arg \in HeapStart..(HeapMax - 1)
      /\ job[p].end = page_align_up(job[p].arg)

\* Calls do not interleave.
OneCall == \A p, q \in Actors : job[p].pc # "idle" /\ job[q].pc # "idle" => p = q

\* The frame found for a table is free until it is entered.
NewTableIsFree == \A p \in Actors : job[p].pc = "table" => job[p].new \notin used

\* The first frame handed out, which begins the second huge page, becomes the
\* memory of a page: tables are taken when it is gone.
FirstFrame ==
    \/ Fanout \in used
    \/ /\ used = Reserved
       /\ \A p \in Actors : /\ job[p].pc \notin {"walk", "table"}
                            /\ job[p].pc = "claim" => job[p].phys = Fanout

\* GrantedMemoryIsMapped while no table is astray.
Has(v) == Mapped(v) \/ v \in lost
Granted ==
    /\ \A p \in Procs :
         \A v \in page_align_up(HeapStart)..(page_align_up(brk[p]) - 1) : Has(v)
    /\ \A p \in Actors : \A v \in job[p].first..(job[p].v - 1) : Has(v)

InvWith(lev) ==
    /\ Tree(ent, lev, used)
    /\ \A p \in Actors : JobOK(job[p], ent, lev, used)

Inv == /\ TypeOK
       /\ ~astray
       /\ Reserved \subseteq used
       /\ OneCall
       /\ NewTableIsFree
       /\ FirstFrame
       /\ \A p \in Actors : BreakOK(p)
       /\ Granted
       /\ \E lev \in [Frames -> 0..5] : InvWith(lev)

-----------------------------------------------------------------------------
(* Page numbers and indices *)

LEMMA Sizes ==
    /\ Fanout \in Nat /\ Fanout > 3
    /\ NFrames \in Nat /\ NFrames > 2 * Fanout
    /\ PageBytes \in Nat /\ PageBytes > 0
    /\ HugeEntries = 2 /\ Direct = 2 * Fanout /\ Direct \in Nat
BY SizeAssumption DEF HugeEntries, Direct

LEMMA DivMod ==
    ASSUME NEW v \in Nat, NEW a \in Nat, a > 0
    PROVE  v \div a \in Nat /\ v % a \in 0..(a - 1) /\ v % a = v - a * (v \div a)
<1>1. v \div a \in Nat /\ v % a \in 0..(a - 1)
  OBVIOUS
<1>2. v % a = v - a * (v \div a)
  OBVIOUS
<1> QED
  BY <1>1, <1>2

\* A number is given by its quotient and its remainder.
LEMMA Digits ==
    ASSUME NEW a \in Nat, NEW v \in Nat, NEW w \in Nat, NEW q \in Nat,
           NEW r \in Int, r = v - a * q, r = w - a * q
    PROVE  v = w
<1>1. PICK x \in Nat : x = a * q
  OBVIOUS
<1> QED
  BY <1>1

LEMMA Monotone ==
    ASSUME NEW a \in Nat, NEW m \in Nat, NEW n \in Nat, m <= n
    PROVE  a * m <= a * n
OBVIOUS

\* Dividing takes one factor off a bound.
LEMMA DivBound ==
    ASSUME NEW a \in Nat, a > 0, NEW m \in Nat, NEW v \in Nat
    PROVE  /\ v < a * m => v \div a < m
           /\ v >= a * m => v \div a >= m
<1>1. PICK q \in Nat, r \in 0..(a - 1) : q = v \div a /\ r = v - a * q
  BY DivMod
<1>2. ASSUME v < a * m, q >= m PROVE FALSE
  <2>1. a * m <= a * q
    BY <1>2, Monotone
  <2>2. PICK x \in Nat, y \in Nat : x = a * m /\ y = a * q
    OBVIOUS
  <2> QED
    BY <1>1, <1>2, <2>1, <2>2
<1>3. ASSUME v >= a * m, q < m PROVE FALSE
  <2>1. a * (q + 1) <= a * m
    BY <1>3, Monotone
  <2>2. a * (q + 1) = a * q + a
    OBVIOUS
  <2>3. PICK x \in Nat, y \in Nat : x = a * m /\ y = a * q
    OBVIOUS
  <2> QED
    BY <1>1, <1>3, <2>1, <2>2, <2>3
<1> QED
  BY <1>1, <1>2, <1>3

LEMMA UpType ==
    ASSUME NEW v \in Nat
    PROVE  Up(v) \in Nat /\ v % Fanout \in Index /\ v % Fanout = v - Fanout * Up(v)
BY DivMod, Sizes DEF Up, Index

\* A page is given by its four indices.
LEMMA Indices ==
    ASSUME NEW v \in Nat
    PROVE  /\ Idx(v, 1) = Up(Up(Up(v))) % Fanout
           /\ Idx(v, 2) = Up(Up(v)) % Fanout
           /\ Idx(v, 3) = Up(v) % Fanout
           /\ Idx(v, 4) = v % Fanout
           /\ \A l \in 1..4 : Idx(v, l) \in Index
<1>1. /\ Idx(v, 1) = Up(Up(Up(v))) % Fanout
      /\ Idx(v, 2) = Up(Up(v)) % Fanout
      /\ Idx(v, 3) = Up(v) % Fanout
      /\ Idx(v, 4) = v % Fanout
  BY DEF Idx
<1>2. Up(v) \in Nat /\ Up(Up(v)) \in Nat /\ Up(Up(Up(v))) \in Nat
  BY UpType
<1>3. /\ Up(Up(Up(v))) % Fanout \in Index /\ Up(Up(v)) % Fanout \in Index
      /\ Up(v) % Fanout \in Index /\ v % Fanout \in Index
  BY <1>2, UpType
<1>4. \A l \in 1..4 : l = 1 \/ l = 2 \/ l = 3 \/ l = 4
  OBVIOUS
<1> QED
  BY <1>1, <1>3, <1>4

\* The topmost index of a page in range is its topmost digit.
LEMMA TopDigit ==
    ASSUME NEW v \in Nat, v < NPages
    PROVE  Idx(v, 1) = Up(Up(Up(v)))
<1>1. Up(v) \in Nat /\ Up(Up(v)) \in Nat /\ Up(Up(Up(v))) \in Nat
  BY UpType
<1>2. PICK a \in Nat : a = Fanout /\ a > 0
  BY Sizes
<1>3. v < a * (a * (a * a))
  BY <1>2 DEF NPages
<1>4. Up(v) < a * (a * a)
  BY <1>2, <1>3, DivBound DEF Up
<1>5. Up(Up(v)) < a * a
  BY <1>1, <1>2, <1>4, DivBound DEF Up
<1>6. Up(Up(Up(v))) < a
  BY <1>1, <1>2, <1>5, DivBound DEF Up
<1>7. PICK x \in Nat : x = Up(Up(Up(v)))
  BY <1>1
<1>8. x % a = x
  BY <1>2, <1>6, <1>7
<1> QED
  BY <1>2, <1>7, <1>8, Indices

LEMMA SamePage ==
    ASSUME NEW v \in Nat, v < NPages, NEW w \in Nat, w < NPages,
           \A l \in 1..4 : Idx(v, l) = Idx(w, l)
    PROVE  v = w
<1>1. ASSUME NEW x \in Nat, NEW y \in Nat, Up(x) = Up(y), x % Fanout = y % Fanout
      PROVE  x = y
  <2>1. PICK q \in Nat : q = Up(x)
    BY UpType
  <2>2. PICK r \in Int : r = x % Fanout
    BY DivMod, Sizes
  <2>3. r = x - Fanout * q /\ r = y - Fanout * q
    BY <1>1, <2>1, <2>2, UpType
  <2> QED
    BY <2>3, Digits, Sizes
<1>2. /\ Up(v) \in Nat /\ Up(Up(v)) \in Nat /\ Up(Up(Up(v))) \in Nat
      /\ Up(w) \in Nat /\ Up(Up(w)) \in Nat /\ Up(Up(Up(w))) \in Nat
  BY UpType
<1>3. Up(Up(Up(v))) = Up(Up(Up(w)))
  BY TopDigit
<1>4. Up(Up(v)) = Up(Up(w))
  BY <1>1, <1>2, <1>3, Indices
<1>5. Up(v) = Up(w)
  BY <1>1, <1>2, <1>4, Indices
<1> QED
  BY <1>1, <1>2, <1>5, Indices

\* A page whose first two indices are 0 is in a huge page if and only if the
\* third says so.
LEMMA HugeIndex ==
    ASSUME NEW v \in Nat, v < NPages
    PROVE  /\ Good(v) /\ Idx(v, 1) = 0 /\ Idx(v, 2) = 0 => Idx(v, 3) >= HugeEntries
           /\ ~Good(v) =>
                /\ Idx(v, 1) = 0 /\ Idx(v, 2) = 0 /\ Idx(v, 3) < HugeEntries
                /\ Idx(v, 3) = Up(v)
<1>1. Up(v) \in Nat /\ Up(Up(v)) \in Nat /\ Up(Up(Up(v))) \in Nat
  BY UpType
<1>2. PICK a \in Nat, h \in Nat : a = Fanout /\ a > 3 /\ h = HugeEntries /\ h > 0
  BY Sizes
<1>3. Good(v) <=> v >= a * h
  BY <1>2 DEF Good, Direct
<1>4. ASSUME Good(v), Idx(v, 1) = 0, Idx(v, 2) = 0
      PROVE  Idx(v, 3) >= HugeEntries
  <2>1. Up(Up(Up(v))) = 0
    BY <1>4, TopDigit
  <2>2. 0 = Up(Up(v)) - Fanout * 0
    BY <1>1, <1>4, <2>1, UpType, Indices
  <2>3. Up(Up(v)) = 0
    BY <1>1, <2>2, Sizes
  <2>4. Idx(v, 3) = Up(v) - Fanout * 0
    BY <1>1, <2>3, UpType, Indices
  <2>5. Up(v) = Idx(v, 3)
    BY <1>1, <2>4, Sizes
  <2>6. Up(v) >= h
    BY <1>2, <1>3, <1>4, DivBound DEF Up
  <2> QED
    BY <1>2, <2>5, <2>6
<1>5. ASSUME ~Good(v)
      PROVE  /\ Idx(v, 1) = 0 /\ Idx(v, 2) = 0 /\ Idx(v, 3) < HugeEntries
             /\ Idx(v, 3) = Up(v)
  <2>1. v < a * h
    BY <1>2, <1>3, <1>5
  <2>2. Up(v) < h /\ Up(v) < a
    BY <1>1, <1>2, <1>5, <2>1, DivBound, Sizes DEF Up
  <2>3. PICK x \in Nat : x = Up(v) /\ x < a
    BY <1>1, <2>2
  <2>4. x % a = x /\ x \div a = 0 /\ 0 % a = 0 /\ 0 \div a = 0
    BY <1>2, <2>3
  <2>5. Up(Up(v)) = 0 /\ Up(Up(Up(v))) = 0
    BY <1>2, <2>3, <2>4 DEF Up
  <2> QED
    BY <1>2, <2>2, <2>3, <2>4, <2>5, Indices
<1> QED
  BY <1>4, <1>5

LEMMA DirectInRange == Direct < NPages /\ NPages \in Nat
<1>1. PICK a \in Nat : a = Fanout /\ a > 3
  BY Sizes
<1>2. PICK x \in Nat : x = a * a
  OBVIOUS
<1>3. a * 2 <= a * a
  BY <1>1, Monotone
<1>4. PICK y \in Nat : y = a * x
  BY <1>2
<1>5. a * 1 <= a * x
  <2>1. 1 <= x
    BY <1>1, <1>2, <1>3
  <2> QED
    BY <2>1, Monotone
<1>6. a * a <= a * y
  BY <1>4, <1>5, Monotone
<1>7. NPages = a * y /\ Direct = a * 2
  BY <1>1, <1>2, <1>4, Sizes DEF NPages
<1>8. a * 2 # a * a
  <2>1. a * 3 <= a * a
    BY <1>1, Monotone
  <2> QED
    BY <1>1, <1>2, <2>1
<1>9. PICK z \in Nat : z = a * y
  BY <1>4
<1> QED
  BY <1>2, <1>3, <1>6, <1>7, <1>8, <1>9

-----------------------------------------------------------------------------
(* Rounding *)

LEMMA AlignMonotone ==
    ASSUME NEW a \in Nat, NEW b \in Nat, a <= b
    PROVE  page_align_up(a) \in Nat /\ page_align_up(a) <= page_align_up(b)
<1>1. PICK x \in Nat, y \in Nat : x = a + PageBytes - 1 /\ y = b + PageBytes - 1 /\ x <= y
  BY Sizes
<1>2. PICK m \in Nat, n \in Nat : m = x \div PageBytes /\ n = y \div PageBytes
  BY DivMod, Sizes
<1>3. PICK k \in Nat : k = PageBytes * m
  BY Sizes
<1>4. x >= k
  <2>1. x % PageBytes \in 0..(PageBytes - 1) /\ x % PageBytes = x - k
    BY <1>2, <1>3, DivMod, Sizes
  <2> QED
    BY <2>1, Sizes
<1>5. n >= m
  BY <1>1, <1>2, <1>3, <1>4, DivBound, Sizes
<1> QED
  BY <1>1, <1>2, <1>5 DEF page_align_up

\* The heap begins at the first page behind the huge pages.
LEMMA HeapStartPage ==
    HeapStart \in Nat /\ page_align_up(HeapStart) = Direct
<1>1. PICK m \in Nat : m = Direct
  BY Sizes
<1>2. PICK b \in Nat : b = PageBytes /\ b > 0
  BY Sizes
<1>3. PICK h \in Nat : h = b * m
  OBVIOUS
<1>4. HeapStart = h
  BY <1>1, <1>2, <1>3 DEF HeapStart
<1>5. b * (m + 1) = h + b
  BY <1>3
<1>6. PICK x \in Nat : x = h + b - 1
  BY <1>2
<1>7. x >= h /\ x < h + b
  BY <1>2, <1>6
<1>8. x \div b >= m /\ x \div b < m + 1 /\ x \div b \in Nat
  BY <1>2, <1>3, <1>5, <1>7, DivBound, DivMod
<1>9. x \div b = m
  BY <1>8
<1> QED
  BY <1>1, <1>2, <1>4, <1>6, <1>9 DEF page_align_up

\* A multiple of the page size is a page boundary, and rounding behind it does
\* not go back.
LEMMA AlignBehind ==
    ASSUME NEW m \in Nat, NEW n \in Nat
    PROVE  page_align_up(m * PageBytes + n) \in Nat
<1>1. m * PageBytes + n \in Nat
  BY Sizes
<1> QED
  BY <1>1, AlignMonotone

-----------------------------------------------------------------------------
(* Walks in a tree *)

LEMMA BootFrames == /\ PML4 = 1 /\ BootPDPT = 2 /\ BootPD = 3
                    /\ {0, 1, 2, 3} \subseteq Frames /\ {0, 1, 2, 3} \subseteq Reserved
                    /\ 0 \in Index /\ Reserved \subseteq Frames
BY Sizes DEF PML4, BootPDPT, BootPD, Frames, Reserved, Index

LEMMA EntryType ==
    ASSUME NEW x \in Entries
    PROVE  x \in Int /\ (x > 0 => x \in Frames)
BY Sizes DEF Entries, Frames, Huge

\* One step down from a table of the tree.
LEMMA StepDown ==
    ASSUME NEW e, NEW lev, NEW u, Tree(e, lev, u), NEW v \in Nat, NEW l \in 1..4,
           NEW t \in Int, t > 0 => t \in Frames /\ lev[t] = l
    PROVE  /\ Step(e, t, v, l) \in Int
           /\ Step(e, t, v, l) > 0 => /\ Step(e, t, v, l) \in Frames
                                      /\ lev[Step(e, t, v, l)] = l + 1
                                      /\ t > 0
<1>1. CASE t <= 0
  BY <1>1 DEF Step
<1>2. CASE t > 0
  <2>1. t \in Frames /\ lev[t] = l /\ Idx(v, l) \in Index
    BY <1>2, Indices
  <2>2. PICK x \in Entries : x = e[t][Idx(v, l)]
    BY <2>1 DEF Tree, Ents
  <2>3. Step(e, t, v, l) = x
    BY <1>2, <2>2 DEF Step
  <2>4. x \in Int /\ (x > 0 => x \in Frames)
    BY EntryType
  <2>5. x > 0 => lev[x] = l + 1
    BY <2>1, <2>2 DEF Tree
  <2> QED
    BY <1>2, <2>3, <2>4, <2>5
<1> QED
  BY <1>1, <1>2

\* The walk goes down one level at a time.
LEMMA WalkLevels ==
    ASSUME NEW e, NEW lev, NEW u, Tree(e, lev, u), NEW v \in Nat
    PROVE  /\ PML4 \in Frames /\ lev[PML4] = 1
           /\ W2(e, v) \in Int /\ W3(e, v) \in Int /\ W4(e, v) \in Int /\ W5(e, v) \in Int
           /\ W2(e, v) > 0 => W2(e, v) \in Frames /\ lev[W2(e, v)] = 2
           /\ W3(e, v) > 0 => W3(e, v) \in Frames /\ lev[W3(e, v)] = 3 /\ W2(e, v) > 0
           /\ W4(e, v) > 0 => W4(e, v) \in Frames /\ lev[W4(e, v)] = 4 /\ W3(e, v) > 0
           /\ W5(e, v) > 0 => W5(e, v) \in Frames /\ lev[W5(e, v)] = 5 /\ W4(e, v) > 0
<1>1. PML4 \in Frames /\ lev[PML4] = 1 /\ PML4 \in Int
  BY BootFrames DEF Tree
<1>2. W2(e, v) \in Int /\ (W2(e, v) > 0 => W2(e, v) \in Frames /\ lev[W2(e, v)] = 2)
  BY <1>1, StepDown DEF W2
<1>3. W3(e, v) \in Int /\ (W3(e, v) > 0 => W3(e, v) \in Frames /\ lev[W3(e, v)] = 3 /\ W2(e, v) > 0)
  <2>1. PICK t \in Int : t = W2(e, v) /\ (t > 0 => t \in Frames /\ lev[t] = 2)
    BY <1>2
  <2>2. W3(e, v) = Step(e, t, v, 2) /\ 2 \in 1..4 /\ 2 + 1 = 3
    BY <2>1 DEF W3
  <2>3. PICK l \in 1..4 : l = 2
    OBVIOUS
  <2>4. /\ Step(e, t, v, l) \in Int
        /\ Step(e, t, v, l) > 0 => /\ Step(e, t, v, l) \in Frames
                                   /\ lev[Step(e, t, v, l)] = l + 1
                                   /\ t > 0
    BY <2>1, <2>3, StepDown
  <2> QED
    BY <2>1, <2>2, <2>3, <2>4
<1>4. W4(e, v) \in Int /\ (W4(e, v) > 0 => W4(e, v) \in Frames /\ lev[W4(e, v)] = 4 /\ W3(e, v) > 0)
  <2>1. PICK t \in Int : t = W3(e, v) /\ (t > 0 => t \in Frames /\ lev[t] = 3)
    BY <1>3
  <2>2. W4(e, v) = Step(e, t, v, 3) /\ 3 \in 1..4 /\ 3 + 1 = 4
    BY <2>1 DEF W4
  <2>3. PICK l \in 1..4 : l = 3
    OBVIOUS
  <2>4. /\ Step(e, t, v, l) \in Int
        /\ Step(e, t, v, l) > 0 => /\ Step(e, t, v, l) \in Frames
                                   /\ lev[Step(e, t, v, l)] = l + 1
                                   /\ t > 0
    BY <2>1, <2>3, StepDown
  <2> QED
    BY <2>1, <2>2, <2>3, <2>4
<1>5. W5(e, v) \in Int /\ (W5(e, v) > 0 => W5(e, v) \in Frames /\ lev[W5(e, v)] = 5 /\ W4(e, v) > 0)
  <2>1. PICK t \in Int : t = W4(e, v) /\ (t > 0 => t \in Frames /\ lev[t] = 4)
    BY <1>4
  <2>2. W5(e, v) = Step(e, t, v, 4) /\ 4 \in 1..4 /\ 4 + 1 = 5
    BY <2>1 DEF W5
  <2>3. PICK l \in 1..4 : l = 4
    OBVIOUS
  <2>4. /\ Step(e, t, v, l) \in Int
        /\ Step(e, t, v, l) > 0 => /\ Step(e, t, v, l) \in Frames
                                   /\ lev[Step(e, t, v, l)] = l + 1
                                   /\ t > 0
    BY <2>1, <2>3, StepDown
  <2> QED
    BY <2>1, <2>2, <2>3, <2>4
<1> QED
  BY <1>1, <1>2, <1>3, <1>4, <1>5

LEMMA WalkAt ==
    ASSUME NEW e, NEW lev, NEW u, Tree(e, lev, u), NEW v \in Nat, NEW l \in 1..4
    PROVE  /\ W(e, v, l) \in Int
           /\ W(e, v, l) > 0 => W(e, v, l) \in Frames /\ lev[W(e, v, l)] = l
           /\ l < 4 => W(e, v, l + 1) = Step(e, W(e, v, l), v, l)
<1>1. PML4 \in Int /\ PML4 > 0
  BY BootFrames
<1>2. CASE l = 1
  BY <1>1, <1>2, WalkLevels DEF W, W2
<1>3. CASE l = 2
  BY <1>3, WalkLevels DEF W, W3
<1>4. CASE l = 3
  BY <1>4, WalkLevels DEF W, W4
<1>5. CASE l = 4
  BY <1>5, WalkLevels DEF W
<1> QED
  BY <1>2, <1>3, <1>4, <1>5

\* Two walks that reach one frame came from one table by one index.
LEMMA StepsMeet ==
    ASSUME NEW e, NEW lev, NEW u, Tree(e, lev, u), NEW v \in Nat, NEW w \in Nat,
           NEW l \in 1..4,
           NEW t \in Int, t > 0 => t \in Frames /\ lev[t] = l,
           NEW s \in Int, s > 0 => s \in Frames /\ lev[s] = l,
           Step(e, t, v, l) > 0, Step(e, t, v, l) = Step(e, s, w, l)
    PROVE  t = s /\ t > 0 /\ Idx(v, l) = Idx(w, l)
<1>1. t > 0 /\ s > 0
  BY StepDown
<1>2. t \in Frames /\ s \in Frames /\ lev[t] \in 1..4 /\ lev[s] \in 1..4
  BY <1>1
<1>3. Step(e, t, v, l) = e[t][Idx(v, l)] /\ Step(e, s, w, l) = e[s][Idx(w, l)]
  BY <1>1 DEF Step
<1>4. Idx(v, l) \in Index /\ Idx(w, l) \in Index
  BY Indices
<1>5. PICK i \in Index, j \in Index : i = Idx(v, l) /\ j = Idx(w, l)
  BY <1>4
<1>6. e[t][i] > 0 /\ e[t][i] = e[s][j]
  BY <1>3, <1>5
<1>7. t = s /\ i = j
  BY <1>2, <1>6 DEF Tree
<1> QED
  BY <1>1, <1>5, <1>7

LEMMA WalksMeet ==
    ASSUME NEW e, NEW lev, NEW u, Tree(e, lev, u), NEW v \in Nat, NEW w \in Nat,
           NEW l \in 1..3, W(e, v, l + 1) > 0, W(e, v, l + 1) = W(e, w, l + 1)
    PROVE  W(e, v, l) = W(e, w, l) /\ W(e, v, l) > 0 /\ Idx(v, l) = Idx(w, l)
<1>1. l \in 1..4 /\ l < 4
  OBVIOUS
<1>2. PICK t \in Int : t = W(e, v, l) /\ (t > 0 => t \in Frames /\ lev[t] = l)
  BY <1>1, WalkAt
<1>3. PICK s \in Int : s = W(e, w, l) /\ (s > 0 => s \in Frames /\ lev[s] = l)
  BY <1>1, WalkAt
<1>4. Step(e, t, v, l) > 0 /\ Step(e, t, v, l) = Step(e, s, w, l)
  BY <1>1, <1>2, <1>3, WalkAt
<1>5. t = s /\ t > 0 /\ Idx(v, l) = Idx(w, l)
  BY <1>1, <1>2, <1>3, <1>4, StepsMeet
<1> QED
  BY <1>2, <1>3, <1>5

\* So pages that meet in a page table and use one entry of it are one page.
LEMMA OnePage ==
    ASSUME NEW e, NEW lev, NEW u, Tree(e, lev, u),
           NEW v \in Nat, v < NPages, NEW w \in Nat, w < NPages,
           W4(e, v) > 0, W4(e, v) = W4(e, w), Idx(v, 4) = Idx(w, 4)
    PROVE  v = w
<1>1. PICK k \in 1..3 : k = 3
  OBVIOUS
<1>2. W(e, v, 4) = W4(e, v) /\ W(e, w, 4) = W4(e, w) /\ k + 1 = 4
  BY <1>1 DEF W
<1>3. W(e, v, k) = W(e, w, k) /\ W(e, v, k) > 0 /\ Idx(v, k) = Idx(w, k)
  BY <1>2, WalksMeet
<1>4. PICK j \in 1..3 : j = 2 /\ j + 1 = k
  BY <1>1
<1>5. W(e, v, j) = W(e, w, j) /\ W(e, v, j) > 0 /\ Idx(v, j) = Idx(w, j)
  BY <1>3, <1>4, WalksMeet
<1>6. PICK i \in 1..3 : i = 1 /\ i + 1 = j
  BY <1>4
<1>7. Idx(v, i) = Idx(w, i)
  BY <1>5, <1>6, WalksMeet
<1>8. \A l \in 1..4 : l = i \/ l = j \/ l = k \/ l = 4
  BY <1>1, <1>4, <1>6
<1>9. \A l \in 1..4 : Idx(v, l) = Idx(w, l)
  BY <1>3, <1>5, <1>7, <1>8
<1> QED
  BY <1>9, SamePage

\* The walk of page 0 is that of the boot tables.
LEMMA BootWalk ==
    ASSUME NEW e, NEW lev, NEW u, Tree(e, lev, u), NEW v \in Nat,
           Idx(v, 1) = 0, Idx(v, 2) = 0
    PROVE  W2(e, v) = BootPDPT /\ W3(e, v) = BootPD /\ lev[BootPD] = 3 /\ BootPD \in Frames
<1>1. W2(e, v) = BootPDPT
  BY BootFrames DEF W2, Step, Tree
<1>2. W3(e, v) = BootPD
  BY <1>1, BootFrames DEF W3, Step, Tree
<1> QED
  BY <1>1, <1>2, BootFrames, WalkLevels

\* Page 0 has the indices 0.
LEMMA PageZero == \A l \in 1..4 : Idx(0, l) = 0
<1>1. 0 \div Fanout = 0 /\ 0 % Fanout = 0
  BY Sizes
<1>2. Up(0) = 0
  BY <1>1 DEF Up
<1> QED
  BY <1>1, <1>2 DEF Idx

\* The huge pages are mapped, and no walk of a user page meets one.
LEMMA HugeIsMapped ==
    ASSUME NEW e, NEW lev, NEW u, Tree(e, lev, u), NEW v \in Nat, v < NPages,
           ~Good(v)
    PROVE  /\ W5(e, v) = Huge(Up(v) * Fanout) /\ W5(e, v) < 0
           /\ W2(e, v) = BootPDPT /\ W3(e, v) = BootPD
           /\ e[BootPD][Idx(v, 3)] = Huge(Up(v) * Fanout)
           /\ Up(v) \in {0, 1}
<1>1. Idx(v, 1) = 0 /\ Idx(v, 2) = 0 /\ Idx(v, 3) < HugeEntries /\ Idx(v, 3) \in Index
  BY HugeIndex, Indices
<1>2. W3(e, v) = BootPD
  BY <1>1, BootWalk
<1>3. W4(e, v) = e[BootPD][Idx(v, 3)]
  BY <1>2, BootFrames DEF W4, Step
<1>4. Idx(v, 3) = Up(v) /\ Up(v) \in {0, 1} /\ W2(e, v) = BootPDPT
  <2>1. Idx(v, 3) = Up(v) /\ W2(e, v) = BootPDPT
    BY <1>1, HugeIndex, BootWalk
  <2>2. PICK x \in Nat : x = Up(v)
    BY UpType
  <2>3. x < 2
    BY <1>1, <2>1, <2>2, Sizes
  <2> QED
    BY <2>1, <2>2, <2>3
<1>5. e[BootPD][Idx(v, 3)] = Huge(Up(v) * Fanout)
  BY <1>1, <1>4 DEF Tree
<1>6. Huge(Up(v) * Fanout) < 0
  BY <1>4, Sizes DEF Huge
<1>7. W5(e, v) = W4(e, v)
  <2>1. PICK x \in Int : x = W4(e, v) /\ x < 0
    BY <1>3, <1>5, <1>6, WalkLevels
  <2> QED
    BY <2>1 DEF W5, Step
<1> QED
  BY <1>2, <1>3, <1>4, <1>5, <1>6, <1>7

LEMMA NoHuge ==
    ASSUME NEW e, NEW lev, NEW u, Tree(e, lev, u), NEW v, Good(v), NEW l \in 1..4,
           W(e, v, l) > 0
    PROVE  e[W(e, v, l)][Idx(v, l)] >= 0 /\ e[W(e, v, l)][Idx(v, l)] \in Int
<1>1. v \in Nat /\ v < NPages /\ Idx(v, l) \in Index
  BY Indices DEF Good
<1>2. PICK t \in Frames : t = W(e, v, l) /\ lev[t] = l /\ t > 0
  BY <1>1, WalkAt
<1>3. PICK x \in Int : x = e[t][Idx(v, l)]
  BY <1>1, EntryType DEF Tree, Ents
<1>4. ASSUME x < 0 PROVE FALSE
  <2>1. t = BootPD /\ Idx(v, l) < HugeEntries
    BY <1>1, <1>2, <1>3, <1>4 DEF Tree
  <2>2. Idx(0, 1) = 0 /\ Idx(0, 2) = 0 /\ 0 \in Nat
    BY PageZero
  <2>3. W3(e, 0) = BootPD /\ lev[BootPD] = 3
    BY <2>2, BootWalk
  <2>4. l = 3 /\ W3(e, v) = W3(e, 0) /\ W3(e, v) > 0
    BY <1>2, <2>1, <2>3 DEF W
  <2>5. PICK j \in 1..3 : j = 2
    OBVIOUS
  <2>6. W(e, v, j + 1) > 0 /\ W(e, v, j + 1) = W(e, 0, j + 1)
    BY <2>4, <2>5 DEF W
  <2>7. W(e, v, j) = W(e, 0, j) /\ W(e, v, j) > 0 /\ Idx(v, j) = Idx(0, j)
    BY <1>1, <2>2, <2>6, WalksMeet
  <2>8. PICK i \in 1..3 : i = 1 /\ i + 1 = j
    BY <2>5
  <2>9. Idx(v, i) = Idx(0, i)
    BY <1>1, <2>2, <2>7, <2>8, WalksMeet
  <2>10. Idx(v, 1) = 0 /\ Idx(v, 2) = 0
    BY <2>2, <2>5, <2>7, <2>8, <2>9
  <2>11. Idx(v, 3) >= HugeEntries
    BY <1>1, <2>10, HugeIndex
  <2>12. Idx(v, 3) < HugeEntries /\ Idx(v, 3) \in Int
    BY <1>1, <2>1, <2>4, Sizes DEF Index
  <2> QED
    BY <2>11, <2>12, Sizes
<1> QED
  BY <1>2, <1>3, <1>4

-----------------------------------------------------------------------------
(* A new table *)

\* e1 is e with the table n, cleared, entered at index i of table t.
WithTable(e, e1, t, i, n) ==
    /\ e1 \in Ents
    /\ n # t
    /\ e1[t][i] = n
    /\ \A j \in Index : e1[n][j] = 0
    /\ \A j \in Index : j # i => e1[t][j] = e[t][j]
    /\ \A f \in Frames : f # t /\ f # n => e1[f] = e[f]

TableEntered(e, t, i, n) == [e EXCEPT ![n] = Zeroed, ![t][i] = n]

LEMMA MakeTable ==
    ASSUME NEW e \in Ents, NEW t \in Frames, NEW i \in Index, NEW n \in Frames, n # t
    PROVE  WithTable(e, TableEntered(e, t, i, n), t, i, n)
<1>1. 0 \in Entries /\ n \in Entries
  BY BootFrames DEF Entries
<1>2. Zeroed \in [Index -> Entries] /\ \A j \in Index : Zeroed[j] = 0
  BY <1>1 DEF Zeroed
<1>3. PICK e0 : e0 = [e EXCEPT ![n] = Zeroed]
  OBVIOUS
<1>4. /\ e0 \in Ents /\ e0[n] = Zeroed
      /\ \A f \in Frames : f # n => e0[f] = e[f]
  BY <1>2, <1>3 DEF Ents
<1>5. PICK e1 : e1 = [e0 EXCEPT ![t][i] = n]
  OBVIOUS
<1>6. /\ e1 \in Ents
      /\ e1[t] = [e0[t] EXCEPT ![i] = n]
      /\ \A f \in Frames : f # t => e1[f] = e0[f]
  BY <1>1, <1>4, <1>5 DEF Ents
<1>7. /\ e1[t][i] = n
      /\ \A j \in Index : j # i => e1[t][j] = e[t][j]
  BY <1>4, <1>6 DEF Ents
<1>8. \A j \in Index : e1[n][j] = 0
  BY <1>2, <1>4, <1>6
<1>9. WithTable(e, e1, t, i, n)
  BY <1>4, <1>6, <1>7, <1>8 DEF WithTable
<1> QED
  BY <1>3, <1>5, <1>9 DEF TableEntered

LEMMA Downward ==
    ASSUME NEW e, NEW lev, NEW u, Tree(e, lev, u), NEW f \in Frames, NEW j \in Index,
           lev[f] \in 1..4, NEW x, x = e[f][j], x > 0
    PROVE  lev[x] = lev[f] + 1
<1>1. e[f][j] > 0
  OBVIOUS
<1>2. lev[e[f][j]] = lev[f] + 1
  BY <1>1 DEF Tree
<1> QED
  BY <1>2

\* A frame outside the tree is in no entry of it.
LEMMA Outside ==
    ASSUME NEW e, NEW lev, NEW u, Tree(e, lev, u), NEW n \in Frames, n > 0, lev[n] = 0,
           NEW f \in Frames, lev[f] \in 1..4, NEW j \in Index
    PROVE  e[f][j] # n
<1>1. n \in Int /\ lev[f] \in Int /\ lev[f] + 1 # 0
  BY Sizes DEF Frames
<1> QED
  BY <1>1 DEF Tree

LEMMA AddTable ==
    ASSUME NEW e, NEW lev, NEW u, Tree(e, lev, u),
           NEW t \in Frames, lev[t] \in 1..3, NEW i \in Index, e[t][i] = 0,
           NEW n \in Frames, n > 0, n \notin u, n < Direct, n # Fanout,
           NEW e1, WithTable(e, e1, t, i, n),
           NEW lev1, lev1 = [lev EXCEPT ![n] = lev[t] + 1]
    PROVE  Tree(e1, lev1, u \cup {n})
<1>1. /\ lev[n] = 0 /\ n # t
      /\ lev1[n] = lev[t] + 1 /\ lev1 \in [Frames -> 0..5]
      /\ \A f \in Frames : f # n => lev1[f] = lev[f]
      /\ lev \in [Frames -> 0..5]
  BY DEF Tree, WithTable
<1>2. \A f \in Frames, j \in Index : lev[f] \in 1..4 => e[f][j] # n
  BY <1>1, Outside
<1>3. \A f \in Frames, j \in Index :
        f # n => \/ f = t /\ j = i /\ e1[f][j] = n /\ e[f][j] = 0
                 \/ ~(f = t /\ j = i) /\ e1[f][j] = e[f][j]
  BY DEF WithTable
<1>4. \A j \in Index : e1[n][j] = 0
  BY DEF WithTable
<1>5. /\ e1 \in Ents
      /\ lev1[0] = 0
      /\ \A f \in Frames : lev1[f] = 1 <=> f = PML4
      /\ \A f \in Frames : lev1[f] > 0 => f \in u \cup {n}
  BY <1>1, BootFrames DEF WithTable, Tree
<1>6. ASSUME NEW f \in Frames, NEW j \in Index, lev1[f] \in 1..4, e1[f][j] > 0
      PROVE  lev1[e1[f][j]] = lev1[f] + 1
  <2>1. f # n /\ lev1[f] = lev[f]
    BY <1>1, <1>4, <1>6
  <2>2. CASE f = t /\ j = i
    BY <1>1, <1>3, <2>1, <2>2
  <2>3. CASE ~(f = t /\ j = i)
    <3>1. PICK x \in Entries : x = e[f][j] /\ x = e1[f][j] /\ x > 0
      BY <1>3, <1>6, <2>1, <2>3 DEF Tree, Ents
    <3>2. x \in Frames /\ x # n /\ lev[f] \in 1..4
      BY <1>2, <1>6, <2>1, <3>1, EntryType
    <3>3. e[f][j] > 0
      BY <3>1
    <3>4. lev[e[f][j]] = lev[f] + 1
      BY <3>2, <3>3, Downward
    <3> QED
      BY <1>1, <2>1, <3>1, <3>2, <3>4
  <2> QED
    BY <2>2, <2>3
<1>7. ASSUME NEW f \in Frames, NEW g \in Frames, NEW j \in Index, NEW k \in Index,
             lev1[f] \in 1..4, lev1[g] \in 1..4, e1[f][j] > 0, e1[f][j] = e1[g][k]
      PROVE  f = g /\ j = k
  <2>1. f # n /\ g # n /\ lev1[f] = lev[f] /\ lev1[g] = lev[g]
    BY <1>1, <1>4, <1>7
  <2>2. CASE f = t /\ j = i
    BY <1>2, <1>3, <1>7, <2>1, <2>2
  <2>3. CASE g = t /\ k = i
    BY <1>2, <1>3, <1>7, <2>1, <2>3
  <2>4. CASE ~(f = t /\ j = i) /\ ~(g = t /\ k = i)
    <3>1. e[f][j] > 0 /\ e[f][j] = e[g][k]
      BY <1>3, <1>7, <2>1, <2>4
    <3> QED
      BY <1>7, <2>1, <3>1 DEF Tree
  <2> QED
    BY <2>2, <2>3, <2>4
<1>8. ASSUME NEW f \in Frames, lev1[f] \in 2..4
      PROVE  \E g \in Frames, j \in Index : lev1[g] = lev1[f] - 1 /\ e1[g][j] = f
  <2>1. CASE f = n
    <3>1. lev1[t] = lev1[n] - 1 /\ e1[t][i] = n
      BY <1>1 DEF WithTable
    <3> QED
      BY <2>1, <3>1
  <2>2. CASE f # n
    <3>1. lev[f] \in 2..4
      BY <1>1, <1>8, <2>2
    <3>2. PICK g \in Frames, j \in Index : lev[g] = lev[f] - 1 /\ e[g][j] = f
      BY <3>1 DEF Tree
    <3>3. lev[g] \in 1..4 /\ g # n /\ f # 0
      BY <1>1, <3>1, <3>2 DEF Tree
    <3>4. e1[g][j] = f
      BY <1>3, <3>2, <3>3
    <3> QED
      BY <1>1, <2>2, <3>2, <3>3, <3>4
  <2> QED
    BY <2>1, <2>2
<1>9. lev[PML4] = 1 /\ lev[BootPDPT] = 2 /\ lev[BootPD] = 3 /\ {PML4, BootPDPT, BootPD} \subseteq Frames
  <2>1. {PML4, BootPDPT, BootPD} \subseteq Frames /\ lev[PML4] = 1
    BY BootFrames DEF Tree
  <2>2. lev[BootPDPT] = 2
    BY <2>1, BootFrames DEF Tree
  <2>3. lev[BootPD] = 3
    BY <2>1, <2>2, BootFrames DEF Tree
  <2> QED
    BY <2>1, <2>2, <2>3
<1>10. e1[PML4][0] = BootPDPT /\ e1[BootPDPT][0] = BootPD
  <2>1. PML4 # n /\ BootPDPT # n /\ e[PML4][0] = BootPDPT /\ e[BootPDPT][0] = BootPD
    BY <1>1, <1>9 DEF Tree
  <2> QED
    BY <1>3, <1>9, <2>1, BootFrames
<1>11. \A j \in Index : j < HugeEntries => e1[BootPD][j] = Huge(j * Fanout)
  <2>1. BootPD # n /\ \A j \in Index : j < HugeEntries => e[BootPD][j] = Huge(j * Fanout)
    BY <1>1, <1>9 DEF Tree
  <2>2. \A j \in Index : j < HugeEntries => e[BootPD][j] # 0
    BY <2>1, Sizes DEF Huge, Index
  <2> QED
    BY <1>3, <1>9, <2>1, <2>2
<1>12. ASSUME NEW f \in Frames, NEW j \in Index, lev1[f] \in 1..4, e1[f][j] < 0
       PROVE  f = BootPD /\ j < HugeEntries
  <2>1. f # n /\ lev1[f] = lev[f]
    BY <1>1, <1>4, <1>12
  <2>2. ~(n < 0)
    BY Sizes DEF Frames
  <2>3. e1[f][j] = e[f][j]
    BY <1>3, <1>12, <2>1, <2>2
  <2> QED
    BY <1>12, <2>1, <2>3 DEF Tree
<1>13. \A f \in Frames : lev1[f] \in 1..4 => f < Direct /\ f # Fanout
  BY <1>1 DEF Tree
<1> QED
  BY <1>1, <1>5, <1>6, <1>7, <1>8, <1>10, <1>11, <1>12, <1>13 DEF Tree

\* No translation changes: where the walk now finds n it found nothing before,
\* and finds nothing in n.
Follows(x, y, n) == (x = y /\ y # n) \/ (x = n /\ y = 0)

LEMMA StepFollows ==
    ASSUME NEW e, NEW lev, NEW u, Tree(e, lev, u),
           NEW t \in Frames, lev[t] \in 1..3, NEW i \in Index, e[t][i] = 0,
           NEW n \in Frames, n > 0, lev[n] = 0,
           NEW e1, WithTable(e, e1, t, i, n),
           NEW v \in Nat, NEW l \in 1..4,
           NEW x, NEW y \in Int, Follows(x, y, n), y > 0 => y \in Frames /\ lev[y] = l
    PROVE  /\ Follows(Step(e1, x, v, l), Step(e, y, v, l), n)
           /\ Step(e1, x, v, l) = n => lev[t] = l
<1>1. n \in Int /\ Idx(v, l) \in Index
  BY Indices, Sizes DEF Frames
<1>2. CASE x = n /\ y = 0
  <2>1. Step(e1, x, v, l) = 0 /\ Step(e, y, v, l) = 0
    BY <1>1, <1>2 DEF Step, WithTable
  <2> QED
    BY <1>1, <2>1 DEF Follows
<1>3. CASE x = y /\ y # n /\ y <= 0
  BY <1>1, <1>3 DEF Step, Follows
<1>4. CASE x = y /\ y # n /\ y > 0
  <2>1. y \in Frames /\ lev[y] = l
    BY <1>4
  <2>2. Step(e1, x, v, l) = e1[y][Idx(v, l)] /\ Step(e, y, v, l) = e[y][Idx(v, l)]
    BY <1>4 DEF Step
  <2>3. CASE y = t /\ Idx(v, l) = i
    <3>1. e1[y][Idx(v, l)] = n /\ e[y][Idx(v, l)] = 0
      BY <2>3 DEF WithTable
    <3> QED
      BY <2>1, <2>2, <2>3, <3>1 DEF Follows
  <2>4. CASE ~(y = t /\ Idx(v, l) = i)
    <3>1. e1[y][Idx(v, l)] = e[y][Idx(v, l)]
      BY <1>1, <1>4, <2>1, <2>4 DEF WithTable
    <3>2. e[y][Idx(v, l)] # n
      BY <1>1, <2>1, Outside
    <3> QED
      BY <2>2, <3>1, <3>2 DEF Follows
  <2> QED
    BY <2>3, <2>4
<1> QED
  BY <1>2, <1>3, <1>4 DEF Follows

LEMMA TableHidesNothing ==
    ASSUME NEW e, NEW lev, NEW u, Tree(e, lev, u),
           NEW t \in Frames, lev[t] \in 1..3, NEW i \in Index, e[t][i] = 0,
           NEW n \in Frames, n > 0, lev[n] = 0,
           NEW e1, WithTable(e, e1, t, i, n), NEW v \in Nat
    PROVE  /\ W5(e1, v) = W5(e, v)
           /\ \A l \in 1..3 : W(e, v, l) = t /\ Idx(v, l) = i => W(e1, v, l + 1) = n
<1>0. PML4 \in Int /\ PML4 # n /\ PML4 \in Frames /\ lev[PML4] = 1
  BY BootFrames DEF Tree
<1>1. Follows(PML4, PML4, n)
  BY <1>0 DEF Follows
<1>2. Follows(W2(e1, v), W2(e, v), n)
  BY <1>0, <1>1, StepFollows DEF W2
<1>3. Follows(W3(e1, v), W3(e, v), n)
  <2>1. PICK x, y : x = W2(e1, v) /\ y = W2(e, v)
    OBVIOUS
  <2>2. y \in Int /\ (y > 0 => y \in Frames /\ lev[y] = 2)
    BY <2>1, WalkLevels
  <2>3. PICK l \in 1..4 : l = 2
    OBVIOUS
  <2>4. Follows(Step(e1, x, v, l), Step(e, y, v, l), n)
    BY <1>2, <2>1, <2>2, <2>3, StepFollows
  <2> QED
    BY <2>1, <2>3, <2>4 DEF W3
<1>4. Follows(W4(e1, v), W4(e, v), n)
  <2>1. PICK x, y : x = W3(e1, v) /\ y = W3(e, v)
    OBVIOUS
  <2>2. y \in Int /\ (y > 0 => y \in Frames /\ lev[y] = 3)
    BY <2>1, WalkLevels
  <2>3. PICK l \in 1..4 : l = 3
    OBVIOUS
  <2>4. Follows(Step(e1, x, v, l), Step(e, y, v, l), n)
    BY <1>3, <2>1, <2>2, <2>3, StepFollows
  <2> QED
    BY <2>1, <2>3, <2>4 DEF W4
<1>5. W5(e1, v) = W5(e, v)
  <2>1. PICK x, y : x = W4(e1, v) /\ y = W4(e, v)
    OBVIOUS
  <2>2. y \in Int /\ (y > 0 => y \in Frames /\ lev[y] = 4)
    BY <2>1, WalkLevels
  <2>3. PICK l \in 1..4 : l = 4
    OBVIOUS
  <2>4. /\ Follows(Step(e1, x, v, l), Step(e, y, v, l), n)
        /\ Step(e1, x, v, l) = n => lev[t] = l
    BY <1>4, <2>1, <2>2, <2>3, StepFollows
  <2>5. Step(e1, x, v, l) # n
    BY <2>3, <2>4
  <2> QED
    BY <2>1, <2>3, <2>4, <2>5 DEF W5, Follows
<1>6. ASSUME NEW l \in 1..3, W(e, v, l) = t, Idx(v, l) = i
      PROVE  W(e1, v, l + 1) = n
  <2>1. Follows(W(e1, v, l), W(e, v, l), n)
    BY <1>1, <1>2, <1>3 DEF W
  <2>2. t > 0 /\ t # 0 /\ t \in Int
    BY <1>6, BootFrames, Sizes DEF Tree, Frames
  <2>3. W(e1, v, l) = t
    BY <1>6, <2>1, <2>2 DEF Follows
  <2>4. W(e1, v, l + 1) = Step(e1, W(e1, v, l), v, l)
    BY DEF W, W2, W3, W4
  <2>5. Step(e1, t, v, l) = e1[t][i]
    BY <1>6, <2>2 DEF Step
  <2> QED
    BY <2>3, <2>4, <2>5 DEF WithTable
<1> QED
  BY <1>5, <1>6

-----------------------------------------------------------------------------
(* A new mapping *)

\* e1 is e with frame n entered at index i of the page table t.
WithPage(e, e1, t, i, n) ==
    /\ e1 \in Ents
    /\ e1[t][i] = n
    /\ \A j \in Index : j # i => e1[t][j] = e[t][j]
    /\ \A f \in Frames : f # t => e1[f] = e[f]

PageEntered(e, t, i, n) == [e EXCEPT ![t][i] = n]

LEMMA MakePage ==
    ASSUME NEW e \in Ents, NEW t \in Frames, NEW i \in Index, NEW n \in Frames
    PROVE  WithPage(e, PageEntered(e, t, i, n), t, i, n)
<1>1. n \in Entries
  BY DEF Entries
<1>2. PICK e1 : e1 = [e EXCEPT ![t][i] = n]
  OBVIOUS
<1>3. /\ e1 \in Ents
      /\ e1[t] = [e[t] EXCEPT ![i] = n]
      /\ \A f \in Frames : f # t => e1[f] = e[f]
  BY <1>1, <1>2 DEF Ents
<1>4. /\ e1[t][i] = n
      /\ \A j \in Index : j # i => e1[t][j] = e[t][j]
  BY <1>3 DEF Ents
<1> QED
  BY <1>2, <1>3, <1>4 DEF WithPage, PageEntered

LEMMA BootLevels ==
    ASSUME NEW e, NEW lev, NEW u, Tree(e, lev, u)
    PROVE  /\ lev[PML4] = 1 /\ lev[BootPDPT] = 2 /\ lev[BootPD] = 3
           /\ {PML4, BootPDPT, BootPD} \subseteq Frames
<1>1. {PML4, BootPDPT, BootPD} \subseteq Frames /\ lev[PML4] = 1
  BY BootFrames DEF Tree
<1>2. lev[BootPDPT] = 2
  BY <1>1, BootFrames DEF Tree
<1>3. lev[BootPD] = 3
  BY <1>1, <1>2, BootFrames DEF Tree
<1> QED
  BY <1>1, <1>2, <1>3

\* The frame that the entry led to before leaves the tree.
LEMMA AddPage ==
    ASSUME NEW e, NEW lev, NEW u, Tree(e, lev, u),
           NEW t \in Frames, lev[t] = 4, NEW i \in Index,
           NEW n \in Frames, n > 0, n \in u, lev[n] = 0,
           NEW e1, WithPage(e, e1, t, i, n),
           NEW lev1, lev1 = [f \in Frames |-> IF f = n THEN 5
                                              ELSE IF f = e[t][i] THEN 0 ELSE lev[f]]
    PROVE  Tree(e1, lev1, u)
<1>1. PICK old \in Entries : old = e[t][i]
  BY DEF Tree, Ents
<1>2. old \in Int /\ (old > 0 => old \in Frames /\ lev[old] = 5)
  BY <1>1, EntryType, Downward
<1>3. old >= 0
  <2>1. ASSUME old < 0 PROVE FALSE
    <3>1. t = BootPD
      BY <1>1, <2>1 DEF Tree
    <3> QED
      BY <3>1, BootLevels
  <2> QED
    BY <1>2, <2>1
<1>4. lev \in [Frames -> 0..5] /\ lev[0] = 0
  BY DEF Tree
<1>5. /\ lev1 \in [Frames -> 0..5] /\ lev1[n] = 5
      /\ \A f \in Frames : f # n /\ f # old => lev1[f] = lev[f]
      /\ \A f \in Frames : lev1[f] \in 1..4 => f # n /\ f # old
      /\ \A f \in Frames : lev1[f] \in 1..4 \/ lev[f] \in 1..4 => lev1[f] = lev[f]
  BY <1>1, <1>2, <1>3, <1>4
<1>6. \A f \in Frames, j \in Index :
        \/ f = t /\ j = i /\ e1[f][j] = n
        \/ ~(f = t /\ j = i) /\ e1[f][j] = e[f][j]
  BY DEF WithPage
<1>7. /\ e1 \in Ents
      /\ lev1[0] = 0
      /\ \A f \in Frames : lev1[f] = 1 <=> f = PML4
  BY <1>2, <1>3, <1>4, <1>5, BootFrames DEF WithPage, Tree
<1>8. \A f \in Frames : lev1[f] > 0 => f \in u
  BY <1>1, <1>4, <1>5 DEF Tree
<1>9. \A f \in Frames, j \in Index : lev[f] \in 1..4 => e[f][j] # n
  BY Outside
<1>10. \A f \in Frames, j \in Index :
         lev[f] \in 1..4 /\ e[f][j] > 0 /\ e[f][j] = old => f = t /\ j = i
  BY <1>1 DEF Tree
<1>11. ASSUME NEW f \in Frames, NEW j \in Index, lev1[f] \in 1..4, e1[f][j] > 0
       PROVE  lev1[e1[f][j]] = lev1[f] + 1
  <2>1. lev1[f] = lev[f]
    BY <1>5, <1>11
  <2>2. CASE f = t /\ j = i
    BY <1>5, <1>6, <2>1, <2>2
  <2>3. CASE ~(f = t /\ j = i)
    <3>1. PICK x \in Entries : x = e[f][j] /\ x = e1[f][j] /\ x > 0
      BY <1>6, <1>11, <2>3 DEF Tree, Ents
    <3>2. x \in Frames /\ x # n /\ x # old /\ lev[f] \in 1..4
      BY <1>9, <1>10, <1>11, <2>1, <2>3, <3>1, EntryType
    <3>3. e[f][j] > 0
      BY <3>1
    <3>4. lev[e[f][j]] = lev[f] + 1
      BY <3>2, <3>3, Downward
    <3> QED
      BY <1>5, <2>1, <3>1, <3>2, <3>4
  <2> QED
    BY <2>2, <2>3
<1>12. ASSUME NEW f \in Frames, NEW g \in Frames, NEW j \in Index, NEW k \in Index,
              lev1[f] \in 1..4, lev1[g] \in 1..4, e1[f][j] > 0, e1[f][j] = e1[g][k]
       PROVE  f = g /\ j = k
  <2>1. lev1[f] = lev[f] /\ lev1[g] = lev[g]
    BY <1>5, <1>12
  <2>2. CASE f = t /\ j = i
    BY <1>6, <1>9, <1>12, <2>1, <2>2
  <2>3. CASE g = t /\ k = i
    BY <1>6, <1>9, <1>12, <2>1, <2>3
  <2>4. CASE ~(f = t /\ j = i) /\ ~(g = t /\ k = i)
    <3>1. e[f][j] > 0 /\ e[f][j] = e[g][k]
      BY <1>6, <1>12, <2>4
    <3> QED
      BY <1>12, <2>1, <3>1 DEF Tree
  <2> QED
    BY <2>2, <2>3, <2>4
<1>13. ASSUME NEW f \in Frames, lev1[f] \in 2..4
       PROVE  \E g \in Frames, j \in Index : lev1[g] = lev1[f] - 1 /\ e1[g][j] = f
  <2>1. lev[f] = lev1[f] /\ lev[f] \in 2..4
    BY <1>5, <1>13
  <2>2. PICK g \in Frames, j \in Index : lev[g] = lev[f] - 1 /\ e[g][j] = f
    BY <2>1 DEF Tree
  <2>3. lev[g] \in 1..3 /\ g # t
    BY <2>1, <2>2
  <2>4. lev1[g] = lev[g] /\ e1[g][j] = f
    BY <1>5, <1>6, <2>2, <2>3
  <2> QED
    BY <2>1, <2>2, <2>4
<1>14. PML4 # t /\ BootPDPT # t /\ BootPD # t
  BY BootLevels
<1>15. /\ e1[PML4][0] = BootPDPT /\ e1[BootPDPT][0] = BootPD
       /\ \A j \in Index : j < HugeEntries => e1[BootPD][j] = Huge(j * Fanout)
  BY <1>6, <1>14, BootFrames, BootLevels DEF Tree
<1>16. ASSUME NEW f \in Frames, NEW j \in Index, lev1[f] \in 1..4, e1[f][j] < 0
       PROVE  f = BootPD /\ j < HugeEntries
  <2>1. ~(n < 0) /\ lev1[f] = lev[f]
    BY <1>5, <1>16, Sizes DEF Frames
  <2>2. e1[f][j] = e[f][j]
    BY <1>6, <1>16, <2>1
  <2> QED
    BY <1>16, <2>1, <2>2 DEF Tree
<1>17. \A f \in Frames : lev1[f] \in 1..4 => f < Direct /\ f # Fanout
  BY <1>5 DEF Tree
<1> QED
  BY <1>5, <1>7, <1>8, <1>11, <1>12, <1>13, <1>15, <1>16, <1>17 DEF Tree

\* One translation changes: that of the page whose walk ends in this entry.
LEMMA PageChangesOne ==
    ASSUME NEW e, NEW lev, NEW u, Tree(e, lev, u),
           NEW t \in Frames, lev[t] = 4, NEW i \in Index, NEW n,
           NEW e1, WithPage(e, e1, t, i, n), NEW v \in Nat
    PROVE  /\ W4(e, v) = t /\ Idx(v, 4) = i => W5(e1, v) = n
           /\ ~(W4(e, v) = t /\ Idx(v, 4) = i) => W5(e1, v) = W5(e, v)
<1>1. ASSUME NEW x \in Int, x > 0 => x \in Frames /\ lev[x] # 4, NEW l
      PROVE  Step(e1, x, v, l) = Step(e, x, v, l)
  BY <1>1 DEF Step, WithPage
<1>2. PML4 \in Int /\ PML4 \in Frames /\ lev[PML4] = 1
  BY BootFrames DEF Tree
<1>3. W2(e1, v) = W2(e, v)
  BY <1>1, <1>2 DEF W2
<1>4. PICK x \in Int : x = W2(e, v) /\ (x > 0 => x \in Frames /\ lev[x] = 2)
  BY WalkLevels
<1>5. W3(e1, v) = W3(e, v)
  BY <1>1, <1>3, <1>4 DEF W3
<1>6. PICK y \in Int : y = W3(e, v) /\ (y > 0 => y \in Frames /\ lev[y] = 3)
  BY WalkLevels
<1>7. W4(e1, v) = W4(e, v)
  BY <1>1, <1>5, <1>6 DEF W4
<1>8. PICK z \in Int : z = W4(e, v) /\ (z > 0 => z \in Frames)
  BY WalkLevels
<1>9. t > 0 /\ Idx(v, 4) \in Index
  <2>1. lev[0] = 0
    BY DEF Tree
  <2>2. t # 0
    BY <2>1
  <2> QED
    BY <2>2, Indices, Sizes DEF Frames
<1>10. W5(e1, v) = Step(e1, z, v, 4) /\ W5(e, v) = Step(e, z, v, 4)
  BY <1>7, <1>8 DEF W5
<1>11. ASSUME z = t, Idx(v, 4) = i
       PROVE  W5(e1, v) = n
  BY <1>9, <1>10, <1>11 DEF Step, WithPage
<1>12. ASSUME ~(z = t /\ Idx(v, 4) = i)
       PROVE  W5(e1, v) = W5(e, v)
  BY <1>8, <1>9, <1>10, <1>12 DEF Step, WithPage
<1> QED
  BY <1>8, <1>11, <1>12

\* A store into a frame that is no table leaves the tree and every walk alone.
LEMMA StoreOutside ==
    ASSUME NEW e, NEW lev, NEW u, Tree(e, lev, u),
           NEW t \in Frames, lev[t] \notin 1..4, NEW i \in Index, NEW n,
           NEW e1, WithPage(e, e1, t, i, n)
    PROVE  /\ Tree(e1, lev, u)
           /\ \A v \in Nat : W5(e1, v) = W5(e, v)
<1>1. \A f \in Frames : lev[f] \in 1..4 => e1[f] = e[f]
  BY DEF WithPage
<1>2. Tree(e1, lev, u)
  <2>1. e1 \in Ents
    BY DEF WithPage
  <2>2. /\ lev \in [Frames -> 0..5] /\ lev[0] = 0
        /\ \A f \in Frames : lev[f] = 1 <=> f = PML4
        /\ \A f \in Frames : lev[f] > 0 => f \in u
        /\ \A f \in Frames : lev[f] \in 1..4 => f < Direct /\ f # Fanout
    BY DEF Tree
  <2>3. \A f \in Frames, j \in Index :
          lev[f] \in 1..4 /\ e1[f][j] > 0 => lev[e1[f][j]] = lev[f] + 1
    BY <1>1 DEF Tree
  <2>4. \A f, g \in Frames, j, k \in Index :
          lev[f] \in 1..4 /\ lev[g] \in 1..4 /\ e1[f][j] > 0 /\ e1[f][j] = e1[g][k]
            => f = g /\ j = k
    BY <1>1 DEF Tree
  <2>5. \A f \in Frames : lev[f] \in 2..4 =>
          \E g \in Frames, j \in Index : lev[g] = lev[f] - 1 /\ e1[g][j] = f
    <3> SUFFICES ASSUME NEW f \in Frames, lev[f] \in 2..4
                 PROVE  \E g \in Frames, j \in Index : lev[g] = lev[f] - 1 /\ e1[g][j] = f
      OBVIOUS
    <3>1. PICK g \in Frames, j \in Index : lev[g] = lev[f] - 1 /\ e[g][j] = f
      BY DEF Tree
    <3>2. e1[g][j] = f
      BY <1>1, <3>1
    <3> QED
      BY <3>1, <3>2
  <2>6. /\ e1[PML4] = e[PML4] /\ e1[BootPDPT] = e[BootPDPT] /\ e1[BootPD] = e[BootPD]
    BY <1>1, BootLevels
  <2>7. /\ e1[PML4][0] = BootPDPT /\ e1[BootPDPT][0] = BootPD
        /\ \A j \in Index : j < HugeEntries => e1[BootPD][j] = Huge(j * Fanout)
    BY <2>6 DEF Tree
  <2>8. \A f \in Frames, j \in Index :
          lev[f] \in 1..4 /\ e1[f][j] < 0 => f = BootPD /\ j < HugeEntries
    BY <1>1 DEF Tree
  <2> QED
    BY <2>1, <2>2, <2>3, <2>4, <2>5, <2>7, <2>8 DEF Tree
<1>3. ASSUME NEW x \in Int, x > 0 => x \in Frames /\ lev[x] \in 1..4, NEW v, NEW l
      PROVE  Step(e1, x, v, l) = Step(e, x, v, l)
  BY <1>1, <1>3 DEF Step
<1>4. ASSUME NEW v \in Nat PROVE W5(e1, v) = W5(e, v)
  <2>1. PML4 \in Int /\ PML4 \in Frames /\ lev[PML4] \in 1..4
    BY BootFrames DEF Tree
  <2>2. W2(e1, v) = W2(e, v)
    BY <1>3, <2>1 DEF W2
  <2>3. PICK x \in Int : x = W2(e, v) /\ (x > 0 => x \in Frames /\ lev[x] \in 1..4)
    BY WalkLevels
  <2>4. W3(e1, v) = W3(e, v)
    BY <1>3, <2>2, <2>3 DEF W3
  <2>5. PICK y \in Int : y = W3(e, v) /\ (y > 0 => y \in Frames /\ lev[y] \in 1..4)
    BY WalkLevels
  <2>6. W4(e1, v) = W4(e, v)
    BY <1>3, <2>4, <2>5 DEF W4
  <2>7. PICK z \in Int : z = W4(e, v) /\ (z > 0 => z \in Frames /\ lev[z] \in 1..4)
    BY WalkLevels
  <2> QED
    BY <1>3, <2>6, <2>7 DEF W5
<1> QED
  BY <1>2, <1>4

-----------------------------------------------------------------------------
(* The tables of the processor's walk are the frames of levels 1 to 4 *)

LEMMA PointersDown ==
    ASSUME NEW lev, Tree(ent, lev, used), NEW l \in 1..3, NEW T,
           \A f : f \in T <=> f \in Frames /\ lev[f] = l
    PROVE  \A f : f \in Pointers(T) <=> f \in Frames /\ lev[f] = l + 1
<1>1. lev[0] = 0 /\ lev \in [Frames -> 0..5] /\ \A f \in Frames : f # 0 => f > 0
  BY Sizes DEF Tree, Frames
<1>2. ASSUME NEW f \in Pointers(T)
      PROVE  f \in Frames /\ lev[f] = l + 1
  <2>1. PICK t \in T, i \in Index : f = ent[t][i] /\ f \in Frames /\ f # 0
    BY DEF Pointers
  <2>2. t \in Frames /\ lev[t] = l /\ lev[t] \in 1..4 /\ f > 0
    BY <1>1, <2>1
  <2>3. ent[t][i] > 0
    BY <2>1, <2>2
  <2>4. lev[ent[t][i]] = lev[t] + 1
    BY <2>2, <2>3, Downward
  <2> QED
    BY <2>1, <2>2, <2>4
<1>3. ASSUME NEW f \in Frames, lev[f] = l + 1
      PROVE  f \in Pointers(T)
  <2>1. lev[f] \in 2..4 /\ f # 0
    BY <1>1, <1>3
  <2>2. PICK g \in Frames, i \in Index : lev[g] = lev[f] - 1 /\ ent[g][i] = f
    BY <2>1 DEF Tree
  <2>3. g \in T
    BY <1>3, <2>2
  <2> QED
    BY <2>1, <2>2, <2>3 DEF Pointers
<1> QED
  BY <1>2, <1>3

LEMMA TablesAre ==
    ASSUME NEW lev, Tree(ent, lev, used)
    PROVE  \A f : f \in Tables <=> f \in Frames /\ lev[f] \in 1..4
<1> DEFINE pdpts == Pointers({PML4})
           pds == Pointers(pdpts)
           pts == Pointers(pds)
<1>1. \A f : f \in {PML4} <=> f \in Frames /\ lev[f] = 1
  BY BootFrames DEF Tree
<1> HIDE DEF pdpts, pds, pts
<1>2. \A f : f \in pdpts <=> f \in Frames /\ lev[f] = 2
  <2>1. PICK l \in 1..3 : l = 1 /\ l + 1 = 2
    OBVIOUS
  <2>2. \A f : f \in Pointers({PML4}) <=> f \in Frames /\ lev[f] = l + 1
    BY <1>1, <2>1, PointersDown
  <2> QED
    BY <2>1, <2>2 DEF pdpts
<1>3. \A f : f \in pds <=> f \in Frames /\ lev[f] = 3
  <2>1. PICK l \in 1..3 : l = 2 /\ l + 1 = 3
    OBVIOUS
  <2>2. \A f : f \in Pointers(pdpts) <=> f \in Frames /\ lev[f] = l + 1
    BY <1>2, <2>1, PointersDown
  <2> QED
    BY <2>1, <2>2 DEF pds
<1>4. \A f : f \in pts <=> f \in Frames /\ lev[f] = 4
  <2>1. PICK l \in 1..3 : l = 3 /\ l + 1 = 4
    OBVIOUS
  <2>2. \A f : f \in Pointers(pds) <=> f \in Frames /\ lev[f] = l + 1
    BY <1>3, <2>1, PointersDown
  <2> QED
    BY <2>1, <2>2 DEF pts
<1>5. Tables = {PML4} \cup pdpts \cup pds \cup pts
  BY DEF Tables, pdpts, pds, pts
<1>6. \A f \in Frames : lev[f] \in 1..4 <=> lev[f] = 1 \/ lev[f] = 2 \/ lev[f] = 3 \/ lev[f] = 4
  BY DEF Tree
<1> QED
  BY <1>1, <1>2, <1>3, <1>4, <1>5, <1>6

\* What the properties say, from the levels.
LEMMA InvImplies == Inv => EveryFrameHasOneOwner /\ WalksStayInTheTree /\ GrantedMemoryIsMapped
<1> SUFFICES ASSUME Inv
             PROVE  EveryFrameHasOneOwner /\ WalksStayInTheTree /\ GrantedMemoryIsMapped
  OBVIOUS
<1>1. PICK lev \in [Frames -> 0..5] : InvWith(lev)
  BY DEF Inv
<1>2. Tree(ent, lev, used) /\ TypeOK
  BY <1>1 DEF Inv, InvWith
<1>3. \A f : f \in Tables <=> f \in Frames /\ lev[f] \in 1..4
  BY <1>2, TablesAre
<1>4. ASSUME NEW s \in Slots
      PROVE  /\ s[1] \in Frames /\ lev[s[1]] \in 1..4 /\ s[2] \in Index /\ s = <<s[1], s[2]>>
             /\ ent[s[1]][s[2]] > 0 /\ ent[s[1]][s[2]] \in Frames
             /\ lev[ent[s[1]][s[2]]] = lev[s[1]] + 1
  <2>1. s \in Tables \X Index /\ ent[s[1]][s[2]] > 0
    BY DEF Slots
  <2>2. s[1] \in Frames /\ lev[s[1]] \in 1..4 /\ s[2] \in Index /\ s = <<s[1], s[2]>>
    BY <1>3, <2>1
  <2>3. ent[s[1]][s[2]] \in Frames
    BY <1>2, <2>1, <2>2, EntryType DEF Tree, Ents
  <2>4. lev[ent[s[1]][s[2]]] = lev[s[1]] + 1
    BY <1>2, <2>1, <2>2, Downward
  <2> QED
    BY <2>1, <2>2, <2>3, <2>4
<1>5. ASSUME NEW s \in Slots, NEW t \in Slots, ent[s[1]][s[2]] = ent[t[1]][t[2]]
      PROVE  s = t
  <2>1. s[1] = t[1] /\ s[2] = t[2]
    BY <1>2, <1>4, <1>5 DEF Tree
  <2> QED
    BY <1>4, <2>1
<1>6. ASSUME NEW s \in Slots
      PROVE  ent[s[1]][s[2]] \in used \ {PML4}
  <2>1. PICK x \in Frames : x = ent[s[1]][s[2]] /\ lev[x] > 1
    BY <1>4
  <2>2. x \in used /\ x # PML4
    BY <1>2, <2>1 DEF Tree
  <2> QED
    BY <2>1, <2>2
<1>7. ASSUME NEW p \in Actors, job[p].pc \in {"walk", "table"}
      PROVE  /\ lev[job[p].phys] = 0 /\ job[p].v \in Nat /\ job[p].lvl \in 1..4
             /\ IF job[p].v < Direct /\ job[p].lvl = 4
                THEN job[p].pc = "walk" /\ lev[job[p].tbl] \notin 1..4
                ELSE job[p].tbl > 0 /\ job[p].tbl = W(ent, job[p].v, job[p].lvl)
  BY <1>1, <1>2, <1>7 DEF InvWith, JobOK, TypeOK
<1>8. ASSUME NEW p \in Actors, job[p].pc \in {"walk", "table"}, NEW s \in Slots
      PROVE  ent[s[1]][s[2]] # job[p].phys
  BY <1>4, <1>7, <1>8
<1>9. ASSUME NEW p \in Actors, NEW q \in Actors \ {p},
             job[p].pc \in {"walk", "table"}, job[q].pc \in {"walk", "table"}
      PROVE  FALSE
  BY <1>9 DEF Inv, OneCall
<1>10. ASSUME NEW p \in Actors, job[p].pc \in {"walk", "table"}
       PROVE  IF job[p].v < Direct /\ job[p].lvl = 4
              THEN job[p].pc = "walk" /\ job[p].tbl \notin Tables
              ELSE job[p].tbl \in Tables
  <2>1. PICK t : t = job[p].tbl
    OBVIOUS
  <2>2. CASE job[p].v < Direct /\ job[p].lvl = 4
    BY <1>3, <1>7, <1>10, <2>1, <2>2
  <2>3. CASE ~(job[p].v < Direct /\ job[p].lvl = 4)
    <3>1. t > 0 /\ t = W(ent, job[p].v, job[p].lvl) /\ job[p].v \in Nat /\ job[p].lvl \in 1..4
      BY <1>7, <1>10, <2>1, <2>3
    <3>2. t \in Frames /\ lev[t] \in 1..4
      BY <1>2, <3>1, WalkAt
    <3> QED
      BY <1>3, <2>1, <2>3, <3>2
  <2> QED
    BY <2>2, <2>3
<1>11. EveryFrameHasOneOwner
  BY <1>2, <1>5, <1>6, <1>8, <1>9 DEF EveryFrameHasOneOwner
<1>12. WalksStayInTheTree
  BY <1>10 DEF WalksStayInTheTree
<1>13. GrantedMemoryIsMapped
  BY DEF Inv, Granted, Has, GrantedMemoryIsMapped
<1> QED
  BY <1>11, <1>12, <1>13

-----------------------------------------------------------------------------
(* The initial state *)

Ops == {"none", "stack", "brk", "mmap"}
PCs == {"idle", "page", "claim", "walk", "table"}
Jobs == [op : Ops, pc : PCs, first : Nat, v : Nat, end : Nat, arg : Nat,
         phys : Frames, tbl : Frames, lvl : 0..4, new : Frames]

LEMMA CallType ==
    ASSUME NEW op \in Ops, NEW first \in Nat, NEW end \in Nat, NEW arg \in Nat
    PROVE  /\ Call(op, first, end, arg) \in Jobs
           /\ Call(op, first, end, arg).op = op
           /\ Call(op, first, end, arg).pc = "page"
           /\ Call(op, first, end, arg).first = first
           /\ Call(op, first, end, arg).v = first
           /\ Call(op, first, end, arg).end = end
           /\ Call(op, first, end, arg).arg = arg
BY BootFrames DEF Call, Jobs, PCs

LEMMA IdleType == Idle \in Jobs /\ Idle.pc = "idle" /\ Idle.first = 0 /\ Idle.v = 0
BY BootFrames DEF Idle, Jobs, Ops, PCs

\* A call at the top of its loop, before its first page.
LEMMA CallOK ==
    ASSUME NEW op \in Ops, NEW first \in Nat, NEW end \in Nat, NEW arg \in Nat,
           end <= NPages, NEW e, NEW lev, NEW u
    PROVE  JobOK(Call(op, first, end, arg), e, lev, u)
BY CallType DEF JobOK

LEMMA IdleOK ==
    ASSUME NEW j, j.pc = "idle", j.first = 0, j.v = 0, NEW e, NEW lev, NEW u
    PROVE  JobOK(j, e, lev, u)
BY DEF JobOK

\* The tree of boot.asm.
LEMMA BootTree ==
    ASSUME Setting, Init
    PROVE  \E lev \in [Frames -> 0..5] : Tree(ent, lev, used)
<1>1. PICK lev : lev = [f \in Frames |-> IF f \in 1..3 THEN f ELSE 0]
  OBVIOUS
<1>2. /\ lev \in [Frames -> 0..5]
      /\ \A f \in Frames : lev[f] > 0 <=> f \in {1, 2, 3}
      /\ lev[0] = 0 /\ lev[1] = 1 /\ lev[2] = 2 /\ lev[3] = 3
  BY <1>1, BootFrames
<1>a. PICK x \in Leftovers :
         ent = [f \in Frames |-> [i \in Index |->
                  CASE f = PML4 -> IF i = 0 THEN BootPDPT ELSE 0
                    [] f = BootPDPT -> IF i = 0 THEN BootPD ELSE 0
                    [] f = BootPD -> IF i < HugeEntries THEN Huge(i * Fanout) ELSE 0
                    [] OTHER -> x]]
  BY DEF Init
<1> DEFINE H(f, i) == CASE f = PML4 -> IF i = 0 THEN BootPDPT ELSE 0
                         [] f = BootPDPT -> IF i = 0 THEN BootPD ELSE 0
                         [] f = BootPD -> IF i < HugeEntries THEN Huge(i * Fanout) ELSE 0
                         [] OTHER -> x
<1>0. ent = [f \in Frames |-> [i \in Index |-> H(f, i)]]
  BY <1>a
<1>b. x \in Frames
  BY SizeAssumption DEF Frames
<1> HIDE DEF H
<1>3. \A f \in Frames, i \in Index :
        /\ ent[f][i] = H(f, i)
        /\ f = 1 /\ i = 0 => ent[f][i] = 2
        /\ f = 2 /\ i = 0 => ent[f][i] = 3
        /\ f = 3 /\ i < HugeEntries => ent[f][i] = Huge(i * Fanout)
        /\ f \in {1, 2, 3} /\ ~(f = 1 /\ i = 0) /\ ~(f = 2 /\ i = 0)
           /\ ~(f = 3 /\ i < HugeEntries) => ent[f][i] = 0
        /\ f \notin {1, 2, 3} => ent[f][i] = x
  <2> SUFFICES ASSUME NEW f \in Frames, NEW i \in Index
               PROVE  /\ ent[f][i] = H(f, i)
                      /\ f = 1 /\ i = 0 => ent[f][i] = 2
                      /\ f = 2 /\ i = 0 => ent[f][i] = 3
                      /\ f = 3 /\ i < HugeEntries => ent[f][i] = Huge(i * Fanout)
                      /\ f \in {1, 2, 3} /\ ~(f = 1 /\ i = 0) /\ ~(f = 2 /\ i = 0)
                         /\ ~(f = 3 /\ i < HugeEntries) => ent[f][i] = 0
                      /\ f \notin {1, 2, 3} => ent[f][i] = x
    OBVIOUS
  <2>1. ent[f][i] = H(f, i)
    BY <1>0
  <2>2. PML4 = 1 /\ BootPDPT = 2 /\ BootPD = 3
    BY BootFrames
  <2>3. f = 1 /\ i = 0 => H(f, i) = 2
    BY <2>2 DEF H
  <2>4. f = 2 /\ i = 0 => H(f, i) = 3
    BY <2>2 DEF H
  <2>5. f = 3 /\ i < HugeEntries => H(f, i) = Huge(i * Fanout)
    BY <2>2 DEF H
  <2>6. f \in {1, 2, 3} /\ ~(f = 1 /\ i = 0) /\ ~(f = 2 /\ i = 0)
          /\ ~(f = 3 /\ i < HugeEntries) => H(f, i) = 0
    BY <2>2 DEF H
  <2>7. f \notin {1, 2, 3} => H(f, i) = x
    BY <2>2 DEF H
  <2> QED
    BY <2>1, <2>3, <2>4, <2>5, <2>6, <2>7
<1>4. \A i \in Index : i < HugeEntries => i * Fanout \in Frames /\ i * Fanout >= 0
  <2> SUFFICES ASSUME NEW i \in Index, i < HugeEntries
               PROVE  i * Fanout \in Frames /\ i * Fanout >= 0
    OBVIOUS
  <2>1. i = 0 \/ i = 1
    BY Sizes DEF Index
  <2> QED
    BY <2>1, Sizes DEF Frames
<1>5. \A i \in Index : i < HugeEntries => Huge(i * Fanout) \in Entries /\ Huge(i * Fanout) < 0
                                          /\ Huge(i * Fanout) \in Int
  BY <1>4, Sizes DEF Entries, Huge, Frames
<1>6. \A f \in Frames, i \in Index : ent[f][i] \in Entries
  BY <1>3, <1>5, <1>b, BootFrames DEF Entries
<1>7. ent \in Ents
  <2>1. \A f \in Frames, i \in Index : H(f, i) \in Entries
    BY <1>3, <1>6
  <2> QED
    BY <1>0, <2>1 DEF Ents
<1>8. \A f \in {1, 2, 3}, i \in Index :
        ent[f][i] > 0 => (f = 1 /\ i = 0 /\ ent[f][i] = 2) \/ (f = 2 /\ i = 0 /\ ent[f][i] = 3)
  BY <1>3, <1>5, BootFrames
<1>9. ent[1][0] = 2 /\ ent[2][0] = 3 /\ 0 \in Index /\ {1, 2, 3} \subseteq Frames
  BY <1>3, BootFrames
<1>10. \A f \in Frames : lev[f] > 0 => f \in used
  BY <1>2, BootFrames DEF Init
<1>11. \A f \in Frames, i \in Index :
         lev[f] \in 1..4 /\ ent[f][i] > 0 => lev[ent[f][i]] = lev[f] + 1
  BY <1>2, <1>8
<1>12. \A f, g \in Frames, i, j \in Index :
         lev[f] \in 1..4 /\ lev[g] \in 1..4 /\ ent[f][i] > 0 /\ ent[f][i] = ent[g][j]
           => f = g /\ i = j
  BY <1>2, <1>8
<1>13. \A f \in Frames : lev[f] \in 2..4 =>
         \E g \in Frames, i \in Index : lev[g] = lev[f] - 1 /\ ent[g][i] = f
  <2> SUFFICES ASSUME NEW f \in Frames, lev[f] \in 2..4
               PROVE  \E g \in Frames, i \in Index : lev[g] = lev[f] - 1 /\ ent[g][i] = f
    OBVIOUS
  <2>1. f = 2 \/ f = 3
    BY <1>2
  <2>2. CASE f = 2
    BY <1>2, <1>9, <2>2
  <2>3. CASE f = 3
    BY <1>2, <1>9, <2>3
  <2> QED
    BY <2>1, <2>2, <2>3
<1>14. \A i \in Index : i < HugeEntries => ent[3][i] = Huge(i * Fanout)
  BY <1>3, <1>9
<1>15. \A f \in Frames, i \in Index :
         lev[f] \in 1..4 /\ ent[f][i] < 0 => f = 3 /\ i < HugeEntries
  BY <1>2, <1>3
<1>16. \A f \in Frames : lev[f] = 1 <=> f = 1
  BY <1>2
<1>17. \A f \in Frames : lev[f] \in 1..4 => f < Direct /\ f # Fanout
  BY <1>2, Sizes
<1> QED
  BY <1>2, <1>7, <1>9, <1>10, <1>11, <1>12, <1>13, <1>14, <1>15, <1>16, <1>17, BootFrames DEF Tree

LEMMA TypeIs ==
    TypeOK <=> /\ used \subseteq Frames /\ ent \in Ents
               /\ brk \in [Procs -> HeapStart..(HeapMax - 1)]
               /\ job \in [Actors -> Jobs] /\ lost \subseteq Nat
               /\ {astray, halted} \subseteq BOOLEAN
BY DEF TypeOK, Ents, Entries, Jobs, Ops, PCs

LEMMA InitInv == Setting /\ Init => Inv
<1> SUFFICES ASSUME Setting, Init PROVE Inv
  OBVIOUS
<1>1. PICK lev \in [Frames -> 0..5] : Tree(ent, lev, used)
  BY BootTree
<1>2. StackPage \in Nat /\ StackPage + 1 <= NPages
  BY DirectInRange DEF Setting, Pages
<1>3. PICK c : c = Call("stack", StackPage, StackPage + 1, 0)
  OBVIOUS
<1>4. /\ c \in Jobs /\ c.op = "stack" /\ c.pc = "page" /\ c.first = StackPage
      /\ c.v = StackPage
  BY <1>2, <1>3, CallType DEF Ops
<1>5. JobOK(c, ent, lev, used)
  <2>2. "stack" \in Ops /\ StackPage + 1 \in Nat /\ 0 \in Nat
    BY <1>2 DEF Ops
  <2>3. JobOK(Call("stack", StackPage, StackPage + 1, 0), ent, lev, used)
    BY <1>2, <2>2, CallOK
  <2> QED
    BY <1>3, <2>3
<1>6. JobOK(Idle, ent, lev, used)
  BY IdleType, IdleOK
<1>7. \A p \in Actors : job[p] = IF p = KERNEL THEN c ELSE Idle
  BY <1>3 DEF Init
<1>8. job \in [Actors -> Jobs]
  <2>1. \A p \in Actors : job[p] \in Jobs
    BY <1>4, <1>7, IdleType
  <2>2. job = [p \in Actors |-> IF p = KERNEL THEN c ELSE Idle]
    BY <1>3 DEF Init
  <2> QED
    BY <1>4, <2>2, IdleType
<1>9. brk \in [Procs -> HeapStart..(HeapMax - 1)]
  BY HeapStartPage DEF Init, Setting
<1>10. TypeOK
  BY <1>1, <1>8, <1>9, TypeIs, BootFrames DEF Init, Tree
<1>11. OneCall
  BY <1>4, <1>7, IdleType DEF OneCall
<1>12. NewTableIsFree
  BY <1>4, <1>7, IdleType DEF NewTableIsFree
<1>13. \A p \in Actors : BreakOK(p)
  BY <1>4, <1>7, IdleType DEF BreakOK
<1>14. Granted
  <2>1. \A p \in Procs : brk[p] = HeapStart
    BY DEF Init
  <2>2. page_align_up(HeapStart) \in Int
    BY HeapStartPage, Sizes
  <2>3. \A p \in Actors : job[p].first..(job[p].v - 1) = {}
    BY <1>2, <1>4, <1>7, IdleType
  <2>4. page_align_up(HeapStart)..(page_align_up(HeapStart) - 1) = {}
    BY <2>2
  <2> QED
    BY <2>1, <2>3, <2>4 DEF Granted
<1>15. InvWith(lev)
  BY <1>1, <1>5, <1>6, <1>7 DEF InvWith
<1>16. FirstFrame
  BY <1>4, <1>7, IdleType DEF FirstFrame, Init
<1> QED
  BY <1>10, <1>11, <1>12, <1>13, <1>14, <1>15, <1>16 DEF Inv, Init

-----------------------------------------------------------------------------
(* Steps *)

\* A call that runs is alone.
LEMMA Alone ==
    ASSUME Setting, NEW p \in Actors, CanRun(p)
    PROVE  \A q \in Actors \ {p} : job[q].pc = "idle"
BY DEF CanRun, Setting

LEMMA TranslationIs ==
    \A v : /\ Translation(v) = W5(ent, v)
           /\ Mapped(v) <=> W5(ent, v) # 0
BY DEF Mapped, Translation, Below, W2, W3, W4, W5, Step

LEMMA TranslationWillBe ==
    ASSUME NEW v
    PROVE  /\ Translation(v)' = W5(ent', v)
           /\ Mapped(v)' <=> W5(ent', v) # 0
BY DEF Mapped, Translation, Below, W2, W3, W4, W5, Step

\* The kernel reaches the frames of the huge pages at their own addresses.
LEMMA HomeIs ==
    ASSUME NEW lev, Tree(ent, lev, used), NEW f \in Nat, f < Direct
    PROVE  Mapped(f) /\ Home(f) = f
<1>1. f < NPages /\ ~Good(f)
  BY DirectInRange, Sizes DEF Good
<1>2. Translation(f) = Huge(Up(f) * Fanout) /\ Translation(f) < 0 /\ Up(f) \in {0, 1}
  BY <1>1, HugeIsMapped, TranslationIs
<1>3. f % Fanout \in Int /\ f % Fanout = f - Fanout * Up(f)
  BY UpType, DivMod, Sizes
<1>4. Address(Huge(Up(f) * Fanout)) = Up(f) * Fanout
  BY <1>2, Sizes DEF Address, Huge
<1>5. Home(f) = Up(f) * Fanout + (f % Fanout)
  BY <1>2, <1>4 DEF Home
<1>6. Up(f) * Fanout + (f % Fanout) = f
  BY <1>2, <1>3, Sizes
<1> QED
  BY <1>2, <1>5, <1>6 DEF Mapped

\* So every table is where the walk of a call looks for it.
LEMMA TableHome ==
    ASSUME NEW p \in Actors, NEW lev, Tree(ent, lev, used),
           JobOK(job[p], ent, lev, used), job[p].pc \in {"walk", "table"},
           job[p] \in Jobs
    PROVE  /\ Mapped(job[p].tbl) /\ Home(job[p].tbl) = job[p].tbl
           /\ Entry(p) = ent[job[p].tbl][Idx(job[p].v, job[p].lvl)]
<1>1. PICK t \in Frames : t = job[p].tbl
  BY DEF Jobs
<1>2. t < Direct
  <2>1. CASE job[p].v < Direct /\ job[p].lvl = 4
    BY <1>1, <2>1 DEF JobOK
  <2>2. CASE ~(job[p].v < Direct /\ job[p].lvl = 4)
    <3>1. PICK l \in 1..4 : l = job[p].lvl
      BY DEF JobOK
    <3>2. PICK v \in Nat : v = job[p].v
      BY DEF Jobs
    <3>3. t > 0 /\ t = W(ent, v, l)
      BY <1>1, <2>2, <3>1, <3>2 DEF JobOK
    <3>4. lev[t] \in 1..4
      BY <3>3, WalkAt
    <3> QED
      BY <3>4 DEF Tree
  <2> QED
    BY <2>1, <2>2
<1>3. Mapped(t) /\ Home(t) = t
  <2>1. t \in Nat
    BY Sizes DEF Frames
  <2> QED
    BY <1>2, <2>1, HomeIs
<1> QED
  BY <1>1, <1>3 DEF Entry

\* Below the huge pages no walk finds a table missing.
LEMMA LowEntries ==
    ASSUME NEW e, NEW lev, NEW u, Tree(e, lev, u), NEW v \in Nat, v < Direct,
           NEW l \in 1..3
    PROVE  /\ l < 3 => e[W(e, v, l)][Idx(v, l)] > 0
           /\ l = 3 => e[W(e, v, l)][Idx(v, l)] = Huge(Up(v) * Fanout) /\ Up(v) \in {0, 1}
<1>1. v < NPages /\ ~Good(v)
  BY DirectInRange, Sizes DEF Good
<1>2. /\ W2(e, v) = BootPDPT /\ W3(e, v) = BootPD
      /\ e[BootPD][Idx(v, 3)] = Huge(Up(v) * Fanout) /\ Up(v) \in {0, 1}
  BY <1>1, HugeIsMapped
<1>3. Idx(v, 1) = 0 /\ Idx(v, 2) = 0
  BY <1>1, HugeIndex
<1>4. e[PML4][0] > 0 /\ e[BootPDPT][0] > 0
  BY BootFrames DEF Tree
<1>5. CASE l = 1
  BY <1>3, <1>4, <1>5 DEF W
<1>6. CASE l = 2
  BY <1>2, <1>3, <1>4, <1>6 DEF W
<1>7. CASE l = 3
  BY <1>2, <1>7 DEF W
<1> QED
  BY <1>5, <1>6, <1>7

\* What the step of one call has to keep, for the invariant to hold again.
LEMMA Assemble ==
    ASSUME Inv, NEW p \in Actors, \A q \in Actors \ {p} : job[q].pc = "idle",
           TypeOK', ~astray', used \subseteq used', \A q \in Actors \ {p} : job'[q] = job[q],
           NEW lev \in [Frames -> 0..5], Tree(ent', lev, used'),
           JobOK(job'[p], ent', lev, used'), BreakOK(p)',
           job'[p].pc = "table" => job'[p].new \notin used',
           \/ Fanout \in used'
           \/ /\ used' = Reserved
              /\ job'[p].pc \notin {"walk", "table"}
              /\ job'[p].pc = "claim" => job'[p].phys = Fanout,
           Granted'
    PROVE  Inv'
<1>1. \A q \in Actors \ {p} : job'[q].pc = "idle" /\ job'[q].first = 0 /\ job'[q].v = 0
  BY DEF Inv, InvWith, JobOK
<1>2. OneCall'
  BY <1>1 DEF OneCall
<1>3. NewTableIsFree'
  BY <1>1 DEF NewTableIsFree
<1>4. \A q \in Actors : BreakOK(q)'
  BY <1>1 DEF BreakOK
<1>5. \A q \in Actors \ {p} : JobOK(job'[q], ent', lev, used')
  BY <1>1, IdleOK
<1>6. InvWith(lev)'
  BY <1>5 DEF InvWith
<1>7. FirstFrame'
  BY <1>1 DEF FirstFrame
<1> QED
  BY <1>2, <1>3, <1>4, <1>6, <1>7 DEF Inv

\* What was mapped stays granted when nothing is unmapped and nothing more promised.
LEMMA GrantedKept ==
    ASSUME Granted, TypeOK, brk' = brk,
           \A v \in Nat : Has(v) => Has(v)',
           \A q \in Actors : job'[q].first..(job'[q].v - 1) \subseteq job[q].first..(job[q].v - 1)
    PROVE  Granted'
<1>1. \A q \in Actors : job[q].first..(job[q].v - 1) \subseteq Nat
  BY TypeIs DEF Jobs
<1>2. \A p \in Procs : page_align_up(HeapStart)..(page_align_up(brk[p]) - 1) \subseteq Nat
  <2>1. page_align_up(HeapStart) \in Nat
    BY HeapStartPage, AlignMonotone
  <2> QED
    BY <2>1
<1> QED
  BY <1>1, <1>2 DEF Granted

\* Steps that touch neither the tables nor the break.
LEMMA SameTree ==
    ASSUME Inv, NEW p \in Actors, \A q \in Actors \ {p} : job[q].pc = "idle",
           UNCHANGED <<ent, brk, lost, astray>>, used \subseteq used', used' \subseteq Frames,
           halted' \in BOOLEAN,
           NEW j \in Jobs, job' = [job EXCEPT ![p] = j],
           \/ j.first = job[p].first /\ j.v = job[p].v
           \/ j.first = j.v,
           \A lev \in [Frames -> 0..5] : InvWith(lev) => JobOK(j, ent, lev, used'),
           j.pc # "idle" /\ j.op = "brk" =>
              /\ p \in Procs /\ j.first = page_align_up(brk[p])
              /\ j.arg \in HeapStart..(HeapMax - 1) /\ j.end = page_align_up(j.arg),
           j.pc = "table" => j.new \notin used',
           \/ Fanout \in used'
           \/ used' = used /\ j.pc \in {"idle", "page"}
           \/ used' = Reserved /\ j.pc = "claim" /\ j.phys = Fanout
    PROVE  Inv'
<1>1. PICK lev \in [Frames -> 0..5] : InvWith(lev)
  BY DEF Inv
<1>2. TypeOK /\ job \in [Actors -> Jobs]
  BY TypeIs DEF Inv
<1>3. job'[p] = j /\ job' \in [Actors -> Jobs] /\ \A q \in Actors \ {p} : job'[q] = job[q]
  BY <1>2
<1>4. TypeOK'
  BY <1>2, <1>3, TypeIs DEF TypeOK, Ents, Entries, Jobs, Ops, PCs
<1>5. Tree(ent', lev, used')
  BY <1>1 DEF InvWith, Tree
<1>6. JobOK(job'[p], ent', lev, used')
  BY <1>1, <1>3
<1>7. BreakOK(p)'
  BY <1>3 DEF BreakOK
<1>8. Granted'
  <2>1. \A v \in Nat : Has(v) => Has(v)'
    BY TranslationIs, TranslationWillBe DEF Has
  <2>2. j.v \in Nat /\ j.first \in Nat
    BY DEF Jobs
  <2>3. j.first..(j.v - 1) \subseteq job[p].first..(job[p].v - 1)
    BY <2>2
  <2>4. \A q \in Actors : job'[q].first..(job'[q].v - 1) \subseteq job[q].first..(job[q].v - 1)
    BY <1>3, <2>3
  <2> QED
    BY <1>2, <2>1, <2>4, GrantedKept DEF Inv
<1>9. \/ Fanout \in used'
      \/ /\ used' = Reserved
         /\ job'[p].pc \notin {"walk", "table"}
         /\ job'[p].pc = "claim" => job'[p].phys = Fanout
  BY <1>3 DEF Inv, FirstFrame
<1>10. ~astray'
  BY DEF Inv
<1> QED
  BY <1>1, <1>3, <1>4, <1>5, <1>6, <1>7, <1>8, <1>9, <1>10, Assemble

\* What holds of the call that runs.
LEMMA Running ==
    ASSUME Inv, NEW p \in Actors
    PROVE  /\ job \in [Actors -> Jobs] /\ job[p] \in Jobs
           /\ used \subseteq Frames /\ lost \subseteq Nat
           /\ astray \in BOOLEAN /\ halted \in BOOLEAN
           /\ brk \in [Procs -> HeapStart..(HeapMax - 1)]
           /\ Reserved \subseteq used
BY TypeIs DEF Inv

\* The changes that steps make to the record of a call.
Walking(r, t, l) == [r EXCEPT !.pc = "walk", !.tbl = t, !.lvl = l]
Descending(r, t, l) == [r EXCEPT !.tbl = t, !.lvl = l]
Passing(r, n) == [r EXCEPT !.pc = "page", !.v = n]

LEMMA StartWalk ==
    ASSUME NEW r \in Jobs, NEW t \in Frames, NEW l \in 0..4
    PROVE  /\ Walking(r, t, l) \in Jobs /\ Walking(r, t, l).pc = "walk"
           /\ Walking(r, t, l).tbl = t /\ Walking(r, t, l).lvl = l
           /\ Walking(r, t, l).phys = r.phys /\ Walking(r, t, l).op = r.op
           /\ Walking(r, t, l).first = r.first /\ Walking(r, t, l).v = r.v
           /\ Walking(r, t, l).end = r.end /\ Walking(r, t, l).arg = r.arg
<1>1. Walking(r, t, l) \in Jobs
  BY DEF Jobs, PCs, Walking
<1>2. /\ Walking(r, t, l).pc = "walk"
      /\ Walking(r, t, l).tbl = t /\ Walking(r, t, l).lvl = l
      /\ Walking(r, t, l).phys = r.phys /\ Walking(r, t, l).op = r.op
      /\ Walking(r, t, l).first = r.first /\ Walking(r, t, l).v = r.v
      /\ Walking(r, t, l).end = r.end /\ Walking(r, t, l).arg = r.arg
  BY DEF Jobs, Walking
<1> QED
  BY <1>1, <1>2

LEMMA GoDown ==
    ASSUME NEW r \in Jobs, NEW t \in Frames, NEW l \in 0..4
    PROVE  /\ Descending(r, t, l) \in Jobs /\ Descending(r, t, l).pc = r.pc
           /\ Descending(r, t, l).tbl = t /\ Descending(r, t, l).lvl = l
           /\ Descending(r, t, l).phys = r.phys /\ Descending(r, t, l).op = r.op
           /\ Descending(r, t, l).first = r.first /\ Descending(r, t, l).v = r.v
           /\ Descending(r, t, l).end = r.end /\ Descending(r, t, l).arg = r.arg
<1>1. Descending(r, t, l) \in Jobs
  BY DEF Jobs, Descending
<1>2. /\ Descending(r, t, l).pc = r.pc
      /\ Descending(r, t, l).tbl = t /\ Descending(r, t, l).lvl = l
      /\ Descending(r, t, l).phys = r.phys /\ Descending(r, t, l).op = r.op
      /\ Descending(r, t, l).first = r.first /\ Descending(r, t, l).v = r.v
      /\ Descending(r, t, l).end = r.end /\ Descending(r, t, l).arg = r.arg
  BY DEF Jobs, Descending
<1> QED
  BY <1>1, <1>2

LEMMA NextPage ==
    ASSUME NEW r \in Jobs, NEW n \in Nat
    PROVE  /\ Passing(r, n) \in Jobs /\ Passing(r, n).pc = "page" /\ Passing(r, n).v = n
           /\ Passing(r, n).op = r.op /\ Passing(r, n).first = r.first
           /\ Passing(r, n).end = r.end /\ Passing(r, n).arg = r.arg
<1>1. Passing(r, n) \in Jobs
  BY DEF Jobs, PCs, Passing
<1>2. /\ Passing(r, n).pc = "page" /\ Passing(r, n).v = n
      /\ Passing(r, n).op = r.op /\ Passing(r, n).first = r.first
      /\ Passing(r, n).end = r.end /\ Passing(r, n).arg = r.arg
  BY DEF Jobs, Passing
<1> QED
  BY <1>1, <1>2

LEMMA FirstTaken ==
    ASSUME Inv, NEW p \in Actors, job[p].pc \in {"walk", "table"}
    PROVE  Fanout \in used
<1>1. FirstFrame
  BY DEF Inv
<1> QED
  BY <1>1 DEF FirstFrame

\* A call has passed one more page, which is mapped or lost.
LEMMA GrantedPage ==
    ASSUME Inv, NEW p \in Actors, brk' = brk, NEW v \in Nat, v = job[p].v,
           \A w \in Nat : Has(w) => Has(w)', Has(v)',
           job'[p].first = job[p].first, job'[p].v = job[p].v + 1,
           \A q \in Actors \ {p} : job'[q] = job[q]
    PROVE  Granted'
<1>1. \A q \in Actors : job[q].first \in Nat /\ job[q].v \in Nat
  BY TypeIs DEF Inv, Jobs
<1>2. /\ \A q \in Procs :
           \A w \in page_align_up(HeapStart)..(page_align_up(brk[q]) - 1) : Has(w)
      /\ \A q \in Actors : \A w \in job[q].first..(job[q].v - 1) : Has(w)
  BY DEF Inv, Granted
<1>3. page_align_up(HeapStart) \in Nat
  BY HeapStartPage, AlignMonotone
<1>4. \A q \in Procs :
        \A w \in page_align_up(HeapStart)..(page_align_up(brk'[q]) - 1) : Has(w)'
  BY <1>2, <1>3
<1>5. \A q \in Actors \ {p} : \A w \in job'[q].first..(job'[q].v - 1) : Has(w)'
  BY <1>1, <1>2
<1>6. ASSUME NEW w \in job'[p].first..(job'[p].v - 1)
      PROVE  Has(w)'
  <2>1. w \in job[p].first..job[p].v /\ w \in Nat
    BY <1>1
  <2>2. CASE w = v
    BY <2>2
  <2>3. CASE w # v
    <3>1. w \in job[p].first..(job[p].v - 1)
      BY <1>1, <2>1, <2>3
    <3> QED
      BY <1>2, <2>1, <3>1
  <2> QED
    BY <2>2, <2>3
<1> QED
  BY <1>4, <1>5, <1>6 DEF Granted

LEMMA FindFrameInv ==
    ASSUME Setting, Inv, NEW p \in Actors, FindFrame(p)
    PROVE  Inv'
<1>1. CanRun(p) /\ job[p].pc = "page" /\ job[p].v < job[p].end
  BY DEF FindFrame, At
<1>2. job \in [Actors -> Jobs] /\ job[p] \in Jobs
  BY Running
<1>3. PICK f \in Frames : LowestFree(f) /\ job' = [job EXCEPT ![p].pc = "claim", ![p].phys = f]
  BY DEF FindFrame
<1>4. PICK j : j = [job[p] EXCEPT !.pc = "claim", !.phys = f]
  OBVIOUS
<1>5. /\ j \in Jobs /\ j.pc = "claim" /\ j.phys = f
      /\ j.op = job[p].op /\ j.first = job[p].first /\ j.v = job[p].v
      /\ j.end = job[p].end /\ j.arg = job[p].arg
  BY <1>2, <1>4 DEF Jobs, PCs
<1>6. job' = [job EXCEPT ![p] = j]
  BY <1>2, <1>3, <1>4
<1>7. \A lev \in [Frames -> 0..5] : InvWith(lev) => JobOK(j, ent, lev, used)
  BY <1>1, <1>3, <1>5 DEF InvWith, JobOK, LowestFree
<1>8. j.op = "brk" => /\ p \in Procs /\ j.first = page_align_up(brk[p])
                      /\ j.arg \in HeapStart..(HeapMax - 1) /\ j.end = page_align_up(j.arg)
  BY <1>1, <1>5 DEF Inv, BreakOK
<1>9. UNCHANGED <<used, ent, brk, lost, astray, halted>>
  BY DEF FindFrame
<1>10. Fanout \in used \/ (used = Reserved /\ j.phys = Fanout)
  <2>1. CASE Fanout \in used
    BY <2>1
  <2>2. CASE Fanout \notin used
    <3>1. used = Reserved
      BY <2>2 DEF Inv, FirstFrame
    <3>2. f \notin Reserved /\ \A g \in Frames : g < f => g \in Reserved
      BY <1>3, <3>1 DEF LowestFree
    <3>3. Fanout \in Frames /\ Fanout \notin Reserved
      BY Sizes DEF Frames, Reserved
    <3>4. f = Fanout
      BY <3>2, <3>3, Sizes DEF Frames, Reserved
    <3> QED
      BY <1>5, <3>1, <3>4
  <2> QED
    BY <2>1, <2>2
<1>11. /\ \A q \in Actors \ {p} : job[q].pc = "idle"
       /\ used \subseteq used' /\ used' \subseteq Frames /\ halted' \in BOOLEAN
  BY <1>1, <1>9, Alone, Running
<1>12. \A lev \in [Frames -> 0..5] : InvWith(lev) => JobOK(j, ent, lev, used')
  BY <1>7, <1>9
<1> QED
  BY <1>5, <1>6, <1>8, <1>9, <1>10, <1>11, <1>12, SameTree

LEMMA NoFrameInv ==
    ASSUME Setting, Inv, NEW p \in Actors, NoFrame(p)
    PROVE  Inv'
<1>1. CanRun(p) /\ job' = [job EXCEPT ![p] = Idle] /\ UNCHANGED <<used, ent, brk, lost, astray, halted>>
  BY DEF NoFrame, At
<1>3. \A lev \in [Frames -> 0..5] : JobOK(Idle, ent, lev, used)
  BY IdleType, IdleOK
<1> QED
  BY <1>1, <1>3, IdleType, Alone, Running, SameTree

LEMMA ClaimFrameInv ==
    ASSUME Setting, Inv, NEW p \in Actors, ClaimFrame(p)
    PROVE  Inv'
<1>1. CanRun(p) /\ job[p].pc = "claim" /\ used' = used \cup {job[p].phys}
  BY DEF ClaimFrame, At
<1>2. job \in [Actors -> Jobs] /\ job[p] \in Jobs /\ Reserved \subseteq used /\ job[p].phys \in Frames
  BY Running DEF Jobs
<1>3. PICK j : j = Walking(job[p], PML4, 1)
  OBVIOUS
<1>4. /\ j \in Jobs /\ j.pc = "walk" /\ j.tbl = PML4 /\ j.lvl = 1 /\ j.phys = job[p].phys
      /\ j.op = job[p].op /\ j.first = job[p].first /\ j.v = job[p].v
      /\ j.end = job[p].end /\ j.arg = job[p].arg
  <2>1. PML4 \in Frames /\ 1 \in 0..4
    BY BootFrames
  <2>2. PICK r \in Jobs : r = job[p]
    BY <1>2
  <2>3. /\ Walking(r, PML4, 1) \in Jobs /\ Walking(r, PML4, 1).pc = "walk"
        /\ Walking(r, PML4, 1).tbl = PML4 /\ Walking(r, PML4, 1).lvl = 1
        /\ Walking(r, PML4, 1).phys = r.phys /\ Walking(r, PML4, 1).op = r.op
        /\ Walking(r, PML4, 1).first = r.first /\ Walking(r, PML4, 1).v = r.v
        /\ Walking(r, PML4, 1).end = r.end /\ Walking(r, PML4, 1).arg = r.arg
    BY <2>1, StartWalk
  <2> QED
    BY <1>3, <2>2, <2>3
<1>5. job' = [job EXCEPT ![p] = j]
  BY <1>2, <1>3 DEF ClaimFrame, Walking
<1>6. ASSUME NEW lev \in [Frames -> 0..5], InvWith(lev)
      PROVE  JobOK(j, ent, lev, used')
  <2>1. JobOK(job[p], ent, lev, used) /\ Tree(ent, lev, used)
    BY <1>6 DEF InvWith
  <2>2. job[p].phys \notin used /\ lev[job[p].phys] = 0
    BY <1>1, <1>2, <2>1 DEF JobOK, Tree
  <2>3. job[p].phys > 0
    <3>1. 0 \in used
      BY <1>2, BootFrames
    <3> QED
      BY <1>2, <2>2, <3>1, Sizes DEF Frames
  <2>4. W(ent, j.v, 1) = PML4 /\ PML4 > 0
    BY BootFrames DEF W
  <2> QED
    BY <1>1, <1>4, <2>1, <2>2, <2>3, <2>4 DEF JobOK
<1>10. Fanout \in used'
  BY <1>1 DEF Inv, FirstFrame
<1>7. j.op = "brk" => /\ p \in Procs /\ j.first = page_align_up(brk[p])
                      /\ j.arg \in HeapStart..(HeapMax - 1) /\ j.end = page_align_up(j.arg)
  BY <1>1, <1>4 DEF Inv, BreakOK
<1>8. UNCHANGED <<ent, brk, lost, astray, halted>>
  BY DEF ClaimFrame
<1>9. used \subseteq used' /\ used' \subseteq Frames
  BY <1>1, <1>2, Running
<1>11. /\ \A q \in Actors \ {p} : job[q].pc = "idle"
       /\ used \subseteq used' /\ used' \subseteq Frames /\ halted' \in BOOLEAN
  BY <1>1, <1>8, <1>9, Alone, Running
<1>12. \A lev \in [Frames -> 0..5] : InvWith(lev) => JobOK(j, ent, lev, used')
  BY <1>6
<1> QED
  BY <1>4, <1>5, <1>7, <1>8, <1>10, <1>11, <1>12, SameTree

\* The walk follows an entry: to the next table, or out of the tree when the
\* entry is that of a huge page.
LEMMA DescendInv ==
    ASSUME Setting, Inv, NEW p \in Actors, Descend(p)
    PROVE  Inv'
<1>1. CanRun(p) /\ job[p].pc = "walk" /\ job[p].lvl < 4 /\ Entry(p) # 0
  BY DEF Descend, At
<1>2. job \in [Actors -> Jobs] /\ job[p] \in Jobs /\ job[p].v \in Nat
  BY Running DEF Jobs
<1>3. PICK lev \in [Frames -> 0..5] : InvWith(lev)
  BY DEF Inv
<1>4. /\ Tree(ent, lev, used) /\ JobOK(job[p], ent, lev, used)
  BY <1>3 DEF InvWith
<1>5. PICK l \in 1..3 : l = job[p].lvl /\ l \in 1..4 /\ l < 4 /\ l + 1 \in 1..4
  BY <1>1, <1>4 DEF JobOK
<1>6. PICK v \in Nat : v = job[p].v /\ v < NPages
  <2>1. job[p].v < job[p].end /\ job[p].end <= NPages /\ job[p].end \in Nat
    BY <1>1, <1>2, <1>4 DEF JobOK, Jobs
  <2> QED
    BY <1>2, <2>1, DirectInRange
<1>7. PICK t \in Int : t = job[p].tbl /\ t > 0 /\ t = W(ent, v, l)
  BY <1>1, <1>2, <1>4, <1>5, <1>6, WalkAt DEF JobOK
<1>8. Entry(p) = ent[t][Idx(v, l)]
  BY <1>1, <1>2, <1>4, <1>5, <1>6, <1>7, TableHome
<1>9. PICK x \in Frames : /\ x = Address(Entry(p))
                          /\ IF v < Direct /\ l + 1 = 4
                             THEN x \in {0, Fanout}
                             ELSE x > 0 /\ x = W(ent, v, l + 1)
  <2>1. W(ent, v, l + 1) = Step(ent, t, v, l)
    BY <1>4, <1>5, <1>6, <1>7, WalkAt
  <2>2. W(ent, v, l + 1) = Entry(p)
    BY <1>7, <1>8, <2>1 DEF Step
  <2>3. CASE v < Direct /\ l = 3
    <3>1. Entry(p) = Huge(Up(v) * Fanout) /\ Up(v) \in {0, 1}
      BY <1>4, <1>5, <1>7, <1>8, <2>3, LowEntries
    <3>2. Address(Entry(p)) = Up(v) * Fanout
      BY <3>1, Sizes DEF Address, Huge
    <3>3. Up(v) * Fanout \in Frames /\ Up(v) * Fanout \in {0, Fanout}
      BY <3>1, Sizes DEF Frames
    <3> QED
      BY <2>3, <3>2, <3>3
  <2>4. CASE ~(v < Direct /\ l = 3)
    <3>1. PICK y \in Int : y = Entry(p) /\ y = W(ent, v, l + 1)
      BY <1>4, <1>5, <2>2, WalkAt
    <3>2. y > 0
      <4>1. CASE v < Direct
        <5>1. l < 3
          BY <2>4, <4>1
        <5>2. ent[W(ent, v, l)][Idx(v, l)] > 0
          BY <1>4, <4>1, <5>1, LowEntries
        <5> QED
          BY <1>7, <1>8, <3>1, <5>2
      <4>2. CASE ~(v < Direct)
        <5>1. Good(v)
          BY <1>6, <4>2, Sizes DEF Good
        <5>2. ent[t][Idx(v, l)] >= 0
          BY <1>4, <1>5, <1>7, <5>1, NoHuge
        <5> QED
          BY <1>1, <1>8, <3>1, <5>2
      <4> QED
        BY <4>1, <4>2
    <3>3. y \in Frames /\ Address(y) = y
      BY <1>4, <1>5, <3>1, <3>2, WalkAt DEF Address
    <3> QED
      BY <1>5, <2>4, <3>1, <3>2, <3>3
  <2> QED
    BY <2>3, <2>4
<1>11. PICK j : j = Descending(job[p], x, l + 1)
  OBVIOUS
<1>12. /\ j \in Jobs /\ j.pc = "walk" /\ j.tbl = x /\ j.lvl = l + 1 /\ j.phys = job[p].phys
       /\ j.op = job[p].op /\ j.first = job[p].first /\ j.v = v
       /\ j.end = job[p].end /\ j.arg = job[p].arg
  <2>1. PICK k \in 0..4 : k = l + 1
    BY <1>5
  <2>2. PICK r \in Jobs : r = job[p]
    BY <1>2
  <2>3. /\ Descending(r, x, k) \in Jobs /\ Descending(r, x, k).pc = r.pc
        /\ Descending(r, x, k).tbl = x /\ Descending(r, x, k).lvl = k
        /\ Descending(r, x, k).phys = r.phys /\ Descending(r, x, k).op = r.op
        /\ Descending(r, x, k).first = r.first /\ Descending(r, x, k).v = r.v
        /\ Descending(r, x, k).end = r.end /\ Descending(r, x, k).arg = r.arg
    BY GoDown
  <2> QED
    BY <1>1, <1>6, <1>11, <2>1, <2>2, <2>3
<1>13. job' = [job EXCEPT ![p] = j]
  BY <1>2, <1>5, <1>9, <1>11 DEF Descend, Descending
<1>14. ASSUME NEW lv \in [Frames -> 0..5], InvWith(lv)
       PROVE  JobOK(j, ent, lv, used)
  <2>1. JobOK(job[p], ent, lv, used) /\ Tree(ent, lv, used)
    BY <1>14 DEF InvWith
  <2>2. x \in {0, Fanout} => lv[x] \notin 1..4 /\ x < Direct
    BY <2>1, Sizes DEF Tree
  <2>3. /\ j.phys \in used /\ j.phys > 0 /\ lv[j.phys] = 0
        /\ j.first <= j.v /\ j.end <= NPages /\ j.v < j.end
    BY <1>1, <1>6, <1>12, <2>1 DEF JobOK
  <2>4. IF j.v < Direct /\ j.lvl = 4
        THEN j.pc = "walk" /\ j.tbl < Direct /\ lv[j.tbl] \notin 1..4
        ELSE j.tbl > 0 /\ j.tbl = W(ent, j.v, j.lvl)
    BY <1>5, <1>9, <1>12, <2>2
  <2> QED
    BY <1>5, <1>12, <2>3, <2>4 DEF JobOK
<1>15. j.op = "brk" => /\ p \in Procs /\ j.first = page_align_up(brk[p])
                       /\ j.arg \in HeapStart..(HeapMax - 1) /\ j.end = page_align_up(j.arg)
  BY <1>1, <1>12 DEF Inv, BreakOK
<1>16. UNCHANGED <<used, ent, brk, lost, astray, halted>>
  BY DEF Descend
<1>17. Fanout \in used'
  BY <1>1, <1>16, FirstTaken
<1>18. /\ \A q \in Actors \ {p} : job[q].pc = "idle"
       /\ used \subseteq used' /\ used' \subseteq Frames /\ halted' \in BOOLEAN
  BY <1>1, <1>16, Alone, Running
<1>19. \A lv \in [Frames -> 0..5] : InvWith(lv) => JobOK(j, ent, lv, used')
  BY <1>14, <1>16
<1> QED
  BY <1>6, <1>12, <1>13, <1>15, <1>16, <1>17, <1>18, <1>19, SameTree

LEMMA FindTableInv ==
    ASSUME Setting, Inv, NEW p \in Actors, FindTable(p)
    PROVE  Inv'
<1>1. CanRun(p) /\ job[p].pc = "walk" /\ job[p].lvl < 4 /\ Entry(p) = 0
  BY DEF FindTable, At
<1>2. job \in [Actors -> Jobs] /\ job[p] \in Jobs
  BY Running
<1>3. PICK f \in Frames : f \notin used /\ job' = [job EXCEPT ![p].pc = "table", ![p].new = f]
  BY DEF FindTable, LowestFree
<1>4. PICK j : j = [job[p] EXCEPT !.pc = "table", !.new = f]
  OBVIOUS
<1>5. /\ j \in Jobs /\ j.pc = "table" /\ j.new = f /\ j.phys = job[p].phys
      /\ j.tbl = job[p].tbl /\ j.lvl = job[p].lvl
      /\ j.op = job[p].op /\ j.first = job[p].first /\ j.v = job[p].v
      /\ j.end = job[p].end /\ j.arg = job[p].arg
  BY <1>2, <1>4 DEF Jobs, PCs
<1>6. job' = [job EXCEPT ![p] = j]
  BY <1>2, <1>3, <1>4
<1>7. \A lev \in [Frames -> 0..5] : InvWith(lev) => JobOK(j, ent, lev, used)
  <2> SUFFICES ASSUME NEW lev \in [Frames -> 0..5], InvWith(lev)
               PROVE  JobOK(j, ent, lev, used)
    OBVIOUS
  <2>1. Tree(ent, lev, used) /\ JobOK(job[p], ent, lev, used)
    BY DEF InvWith
  <2>2. ent[job[p].tbl][Idx(job[p].v, job[p].lvl)] = 0
    BY <1>1, <1>2, <2>1, TableHome
  <2> QED
    BY <1>1, <1>5, <2>1, <2>2 DEF JobOK
<1>10. Fanout \in used
  BY <1>1, FirstTaken
<1>8. j.op = "brk" => /\ p \in Procs /\ j.first = page_align_up(brk[p])
                      /\ j.arg \in HeapStart..(HeapMax - 1) /\ j.end = page_align_up(j.arg)
  BY <1>1, <1>5 DEF Inv, BreakOK
<1>9. UNCHANGED <<used, ent, brk, lost, astray, halted>>
  BY DEF FindTable
<1>11. /\ \A q \in Actors \ {p} : job[q].pc = "idle"
       /\ used \subseteq used' /\ used' \subseteq Frames /\ halted' \in BOOLEAN
  BY <1>1, <1>9, Alone, Running
<1>12. \A lev \in [Frames -> 0..5] : InvWith(lev) => JobOK(j, ent, lev, used')
  BY <1>7, <1>9
<1>13. Fanout \in used' /\ j.new \notin used'
  BY <1>3, <1>5, <1>9, <1>10
<1> QED
  BY <1>5, <1>6, <1>8, <1>9, <1>11, <1>12, <1>13, SameTree

\* No frame for a table: the page is lost.
LEMMA NoTableInv ==
    ASSUME Setting, Inv, NEW p \in Actors, NoTable(p)
    PROVE  Inv'
<1>1. /\ CanRun(p) /\ job[p].pc = "walk" /\ lost' = lost \cup {job[p].v}
      /\ UNCHANGED <<used, ent, brk, astray, halted>>
  BY DEF NoTable, At
<1>2. job \in [Actors -> Jobs] /\ job[p] \in Jobs /\ job[p].v \in Nat /\ job[p].v + 1 \in Nat
      /\ job[p].first \in Nat
  BY Running DEF Jobs
<1>3. PICK lev \in [Frames -> 0..5] : InvWith(lev)
  BY DEF Inv
<1>4. PICK j : j = Passing(job[p], job[p].v + 1)
  OBVIOUS
<1>5. /\ j \in Jobs /\ j.pc = "page" /\ j.v = job[p].v + 1
      /\ j.op = job[p].op /\ j.first = job[p].first /\ j.end = job[p].end /\ j.arg = job[p].arg
  BY <1>2, <1>4, NextPage
<1>6. job' = [job EXCEPT ![p] = j]
  BY <1>2, <1>4 DEF NoTable, Passing
<1>7. job'[p] = j /\ job' \in [Actors -> Jobs] /\ \A q \in Actors \ {p} : job'[q] = job[q]
  BY <1>2, <1>5, <1>6
<1>8. TypeOK'
  <2>1. lost' \subseteq Nat
    BY <1>1, <1>2, Running
  <2> QED
    BY <1>1, <1>7, <2>1, TypeIs DEF Inv, TypeOK, Ents, Entries, Jobs, Ops, PCs
<1>9. Tree(ent', lev, used') /\ JobOK(job[p], ent, lev, used)
  BY <1>1, <1>3 DEF InvWith
<1>10. JobOK(job'[p], ent', lev, used')
  <2>1. j.first <= j.v /\ j.end <= NPages
    BY <1>1, <1>2, <1>5, <1>9 DEF JobOK
  <2> QED
    BY <1>5, <1>7, <2>1 DEF JobOK
<1>11. BreakOK(p)'
  BY <1>1, <1>5, <1>7 DEF Inv, BreakOK
<1>12. Granted'
  <2>1. \A w \in Nat : Has(w) => Has(w)'
    BY <1>1, TranslationIs, TranslationWillBe DEF Has
  <2>2. PICK v \in Nat : v = job[p].v
    BY <1>2
  <2>3. Has(v)'
    BY <1>1, <2>2 DEF Has
  <2> QED
    BY <1>1, <1>5, <1>7, <2>1, <2>2, <2>3, GrantedPage
<1>13. Fanout \in used' /\ ~astray'
  BY <1>1, FirstTaken DEF Inv
<1> QED
  BY <1>1, <1>5, <1>7, <1>8, <1>9, <1>10, <1>11, <1>12, <1>13, Alone, Assemble

\* The new table is entered at the place where the walk stands.
LEMMA EnterTableInv ==
    ASSUME Setting, Inv, NEW p \in Actors, EnterTable(p), ~astray'
    PROVE  /\ Inv'
           /\ \A v \in Nat : Translation(v)' = Translation(v)
<1>1. /\ CanRun(p) /\ job[p].pc = "table" /\ used' = used \cup {job[p].new}
      /\ astray' = (astray \/ job[p].new >= Direct) /\ UNCHANGED <<brk, lost, halted>>
  BY DEF EnterTable, At
<1>2. /\ job \in [Actors -> Jobs] /\ job[p] \in Jobs /\ job[p].v \in Nat
      /\ job[p].tbl \in Frames /\ job[p].new \in Frames /\ Reserved \subseteq used
  BY Running DEF Jobs
<1>3. PICK lev \in [Frames -> 0..5] : InvWith(lev)
  BY DEF Inv
<1>4. Tree(ent, lev, used) /\ JobOK(job[p], ent, lev, used)
  BY <1>3 DEF InvWith
<1>5. PICK l \in 1..3 : l = job[p].lvl /\ l \in 1..4 /\ l + 1 \in 1..4 /\ l + 1 \in 0..4
  BY <1>1, <1>4 DEF JobOK
<1>6. PICK v \in Nat : v = job[p].v
  BY <1>2
<1>7. PICK i \in Index : i = Idx(v, l)
  BY <1>5, Indices
<1>8. PICK t \in Frames : t = job[p].tbl /\ t > 0 /\ t = W(ent, v, l) /\ Home(t) = t
  BY <1>1, <1>2, <1>4, <1>5, <1>6, TableHome DEF JobOK
<1>9. lev[t] = l /\ lev[t] \in 1..3 /\ ent[t][i] = 0
  <2>1. lev[t] = l
    BY <1>4, <1>5, <1>6, <1>8, WalkAt
  <2>2. ent[t][i] = 0
    BY <1>1, <1>4, <1>5, <1>6, <1>7, <1>8 DEF JobOK
  <2> QED
    BY <2>1, <2>2
<1>10. PICK n \in Frames : /\ n = job[p].new /\ n \notin used /\ n > 0 /\ n # t
                           /\ n < Direct /\ n # Fanout /\ Home(n) = n
  <2>1. job[p].new \notin used
    BY <1>1 DEF Inv, NewTableIsFree
  <2>2. 0 \in used /\ t \in used
    BY <1>2, <1>4, <1>9, BootFrames DEF Tree
  <2>3. Fanout \in used
    BY <1>1, FirstTaken
  <2>4. job[p].new < Direct /\ job[p].new \in Nat /\ job[p].new # 0
    <3>1. ~(job[p].new >= Direct)
      BY <1>1
    <3>2. job[p].new \in Nat
      BY <1>2, Sizes DEF Frames
    <3> QED
      BY <2>1, <2>2, <3>1, <3>2, Sizes
  <2>5. Home(job[p].new) = job[p].new
    BY <1>4, <2>4, HomeIs
  <2> QED
    BY <1>2, <2>1, <2>2, <2>3, <2>4, <2>5
<1>11. lev[n] = 0
  BY <1>4, <1>10 DEF Tree
<1>12. ent' = TableEntered(ent, t, i, n)
  BY <1>5, <1>6, <1>7, <1>8, <1>10 DEF EnterTable, NewTable, TableEntered
<1>13. WithTable(ent, ent', t, i, n)
  <2>1. ent \in Ents
    BY <1>4 DEF Tree
  <2> QED
    BY <1>10, <1>12, <2>1, MakeTable
<1>14. PICK lev1 : lev1 = [lev EXCEPT ![n] = lev[t] + 1]
  OBVIOUS
<1>15. Tree(ent', lev1, used')
  BY <1>1, <1>4, <1>9, <1>10, <1>13, <1>14, AddTable
<1>16. ASSUME NEW w \in Nat
       PROVE  /\ W5(ent', w) = W5(ent, w)
              /\ \A k \in 1..3 : W(ent, w, k) = t /\ Idx(w, k) = i => W(ent', w, k + 1) = n
  BY <1>4, <1>9, <1>10, <1>11, <1>13, TableHidesNothing
<1>17. W(ent', v, l + 1) = n
  BY <1>5, <1>7, <1>8, <1>16
<1>18. \A w \in Nat : Translation(w)' = Translation(w) /\ (Mapped(w) => Mapped(w)')
  BY <1>16, TranslationIs, TranslationWillBe
<1>19. PICK j : j = Walking(job[p], n, l + 1)
  OBVIOUS
<1>20. /\ j \in Jobs /\ j.pc = "walk" /\ j.tbl = n /\ j.lvl = l + 1 /\ j.phys = job[p].phys
       /\ j.op = job[p].op /\ j.first = job[p].first /\ j.v = job[p].v
       /\ j.end = job[p].end /\ j.arg = job[p].arg
  <2>1. PICK k \in 0..4 : k = l + 1
    BY <1>5
  <2>2. PICK r \in Jobs : r = job[p]
    BY <1>2
  <2>3. /\ Walking(r, n, k) \in Jobs /\ Walking(r, n, k).pc = "walk"
        /\ Walking(r, n, k).tbl = n /\ Walking(r, n, k).lvl = k
        /\ Walking(r, n, k).phys = r.phys /\ Walking(r, n, k).op = r.op
        /\ Walking(r, n, k).first = r.first /\ Walking(r, n, k).v = r.v
        /\ Walking(r, n, k).end = r.end /\ Walking(r, n, k).arg = r.arg
    BY StartWalk
  <2> QED
    BY <1>19, <2>1, <2>2, <2>3
<1>21. job' = [job EXCEPT ![p] = j]
  BY <1>2, <1>5, <1>10, <1>19 DEF EnterTable, Walking
<1>22. job'[p] = j /\ job' \in [Actors -> Jobs] /\ \A q \in Actors \ {p} : job'[q] = job[q]
  BY <1>2, <1>20, <1>21
<1>23. TypeOK'
  <2>1. used' \subseteq Frames /\ ent' \in Ents /\ astray' \in BOOLEAN
    BY <1>1, <1>2, <1>13, Running DEF WithTable
  <2> QED
    BY <1>1, <1>22, <2>1, TypeIs DEF Inv, TypeOK, Ents, Entries, Jobs, Ops, PCs
<1>24. JobOK(job'[p], ent', lev1, used')
  <2>1. /\ job[p].phys \in used /\ job[p].phys > 0 /\ lev[job[p].phys] = 0
        /\ job[p].first <= job[p].v /\ job[p].end <= NPages
        /\ job[p].v < job[p].end
    BY <1>1, <1>4 DEF JobOK
  <2>3. ~(v < Direct)
    <3>1. ASSUME v < Direct PROVE FALSE
      <4>1. /\ l < 3 => ent[t][i] > 0
            /\ l = 3 => ent[t][i] = Huge(Up(v) * Fanout) /\ Up(v) \in {0, 1}
        BY <1>4, <1>5, <1>7, <1>8, <3>1, LowEntries
      <4>2. Up(v) \in {0, 1} => Huge(Up(v) * Fanout) # 0
        BY Sizes DEF Huge
      <4> QED
        BY <1>5, <1>9, <4>1, <4>2
    <3> QED
      BY <3>1
  <2>2. lev1[job[p].phys] = 0 /\ job[p].phys \in used'
    BY <1>1, <1>2, <1>10, <1>14, <2>1 DEF Jobs
  <2> QED
    BY <1>5, <1>6, <1>10, <1>17, <1>20, <1>22, <2>1, <2>2, <2>3 DEF JobOK
<1>25. BreakOK(p)'
  BY <1>1, <1>20, <1>22 DEF Inv, BreakOK
<1>26. Granted'
  <2>2. \A w \in Nat : Has(w) => Has(w)'
    BY <1>1, <1>18 DEF Has
  <2>1. \A q \in Actors : job'[q].first..(job'[q].v - 1) \subseteq job[q].first..(job[q].v - 1)
    BY <1>20, <1>22
  <2> QED
    BY <1>1, <2>1, <2>2, GrantedKept DEF Inv
<1>27. lev1 \in [Frames -> 0..5] /\ used \subseteq used' /\ Fanout \in used'
  BY <1>1, <1>15, FirstTaken DEF Tree
<1>28. Inv'
  BY <1>1, <1>15, <1>20, <1>22, <1>23, <1>24, <1>25, <1>26, <1>27, Alone, Assemble
<1> QED
  BY <1>18, <1>28

\* The frame is entered for the page of the call, and for no other.
LEMMA EnterGoodPage ==
    ASSUME NEW lev, Tree(ent, lev, used), NEW v \in Nat, v < NPages,
           NEW t \in Frames, t > 0, t = W4(ent, v), NEW i \in Index, i = Idx(v, 4),
           NEW n \in Frames, n > 0, n \in used, lev[n] = 0,
           WithPage(ent, ent', t, i, n)
    PROVE  /\ \E lev1 \in [Frames -> 0..5] : Tree(ent', lev1, used)
           /\ \A w \in Pages : w # v => Translation(w)' = Translation(w)
           /\ Translation(v)' = n
           /\ \A w \in Nat : Mapped(w) => Mapped(w)'
<1>1. lev[t] = 4
  BY WalkLevels
<1>2. PICK lev1 : lev1 = [f \in Frames |-> IF f = n THEN 5
                                            ELSE IF f = ent[t][i] THEN 0 ELSE lev[f]]
  OBVIOUS
<1>3. Tree(ent', lev1, used)
  BY <1>1, <1>2, AddPage
<1>4. ASSUME NEW w \in Nat
      PROVE  /\ W4(ent, w) = t /\ Idx(w, 4) = i => W5(ent', w) = n
             /\ ~(W4(ent, w) = t /\ Idx(w, 4) = i) => W5(ent', w) = W5(ent, w)
  BY <1>1, PageChangesOne
<1>5. ASSUME NEW w \in Pages, w # v
      PROVE  Translation(w)' = Translation(w)
  <2>1. w \in Nat /\ w < NPages
    BY DirectInRange DEF Pages
  <2>2. ~(W4(ent, w) = t /\ Idx(w, 4) = i)
    BY <1>5, <2>1, OnePage
  <2> QED
    BY <1>4, <2>1, <2>2, TranslationIs, TranslationWillBe
<1>6. Translation(v)' = n
  BY <1>4, TranslationWillBe
<1>7. \A w \in Nat : Mapped(w) => Mapped(w)'
  BY <1>4, TranslationIs, TranslationWillBe
<1>8. lev1 \in [Frames -> 0..5]
  BY <1>3 DEF Tree
<1> QED
  BY <1>3, <1>5, <1>6, <1>7, <1>8

LEMMA EnterPageInv ==
    ASSUME Setting, Inv, NEW p \in Actors, EnterPage(p)
    PROVE  /\ Inv'
           /\ \A v \in Pages : Translation(v)' # Translation(v) =>
                v = job[p].v /\ Translation(v)' = job[p].phys
<1>1. /\ CanRun(p) /\ job[p].pc = "walk" /\ job[p].lvl = 4
      /\ lost' = lost \ {job[p].v} /\ UNCHANGED <<used, brk, astray, halted>>
  BY DEF EnterPage, At
<1>2. /\ job \in [Actors -> Jobs] /\ job[p] \in Jobs /\ job[p].v \in Nat /\ job[p].v + 1 \in Nat
      /\ job[p].tbl \in Frames /\ job[p].phys \in Frames /\ job[p].first \in Nat
  BY Running DEF Jobs
<1>3. PICK lev \in [Frames -> 0..5] : InvWith(lev)
  BY DEF Inv
<1>4. Tree(ent, lev, used) /\ JobOK(job[p], ent, lev, used)
  BY <1>3 DEF InvWith
<1>5. /\ job[p].phys \in used /\ job[p].phys > 0 /\ lev[job[p].phys] = 0
      /\ job[p].first <= job[p].v /\ job[p].v < job[p].end /\ job[p].end <= NPages
      /\ IF job[p].v < Direct
         THEN lev[job[p].tbl] \notin 1..4
         ELSE job[p].tbl > 0 /\ job[p].tbl = W(ent, job[p].v, 4)
  BY <1>1, <1>4 DEF JobOK
<1>6. PICK v \in Nat : v = job[p].v /\ v < NPages
  <2>1. job[p].end \in Nat
    BY <1>2 DEF Jobs
  <2> QED
    BY <1>2, <1>5, <2>1, DirectInRange
<1>7. PICK i \in Index : i = Idx(v, 4)
  BY Indices
<1>8. PICK t \in Frames : t = job[p].tbl /\ Home(t) = t
  BY <1>1, <1>2, <1>4, TableHome
<1>9. PICK n \in Frames : n = job[p].phys /\ n > 0 /\ n \in used /\ lev[n] = 0
  BY <1>2, <1>5
<1>11. ent' = PageEntered(ent, t, i, n)
  BY <1>6, <1>7, <1>8, <1>9 DEF EnterPage, PageEntered
<1>12. WithPage(ent, ent', t, i, n)
  <2>1. ent \in Ents
    BY <1>4 DEF Tree
  <2> QED
    BY <1>11, <2>1, MakePage
<1>13. /\ \E lev1 \in [Frames -> 0..5] : Tree(ent', lev1, used)
       /\ \A w \in Pages : Translation(w)' # Translation(w) => w = v /\ Translation(w)' = n
       /\ \A w \in Nat : Mapped(w) => Mapped(w)'
       /\ Mapped(v)'
  <2>1. CASE v < Direct
    <3>1. lev[t] \notin 1..4
      BY <1>5, <1>6, <1>8, <2>1
    <3>2. Tree(ent', lev, used) /\ \A w \in Nat : W5(ent', w) = W5(ent, w)
      BY <1>4, <1>12, <3>1, StoreOutside
    <3>3. \A w \in Nat : Translation(w)' = Translation(w) /\ (Mapped(w) => Mapped(w)')
      BY <3>2, TranslationIs, TranslationWillBe
    <3>4. Mapped(v)
      BY <1>4, <2>1, HomeIs
    <3>5. Pages \subseteq Nat
      BY DirectInRange DEF Pages
    <3> QED
      BY <3>2, <3>3, <3>4, <3>5
  <2>2. CASE ~(v < Direct)
    <3>1. t > 0 /\ t = W4(ent, v)
      BY <1>5, <1>6, <1>8, <2>2 DEF W
    <3>2. /\ \E lev1 \in [Frames -> 0..5] : Tree(ent', lev1, used)
          /\ \A w \in Pages : w # v => Translation(w)' = Translation(w)
          /\ Translation(v)' = n
          /\ \A w \in Nat : Mapped(w) => Mapped(w)'
      BY <1>4, <1>6, <1>7, <1>9, <1>12, <3>1, EnterGoodPage
    <3>3. Mapped(v)'
      BY <1>9, <3>2 DEF Mapped
    <3>4. ASSUME NEW w \in Pages, Translation(w)' # Translation(w)
          PROVE  w = v /\ Translation(w)' = n
      <4>1. w = v
        BY <3>2, <3>4
      <4> QED
        BY <3>2, <4>1
    <3> QED
      BY <3>2, <3>3, <3>4
  <2> QED
    BY <2>1, <2>2
<1>14. PICK lev1 \in [Frames -> 0..5] : Tree(ent', lev1, used')
  BY <1>1, <1>13
<1>20. PICK j : j = Passing(job[p], job[p].v + 1)
  OBVIOUS
<1>21. /\ j \in Jobs /\ j.pc = "page" /\ j.v = job[p].v + 1
       /\ j.op = job[p].op /\ j.first = job[p].first /\ j.end = job[p].end /\ j.arg = job[p].arg
  BY <1>2, <1>20, NextPage
<1>22. job' = [job EXCEPT ![p] = j]
  BY <1>2, <1>20 DEF EnterPage, Passing
<1>23. job'[p] = j /\ job' \in [Actors -> Jobs] /\ \A q \in Actors \ {p} : job'[q] = job[q]
  BY <1>2, <1>21, <1>22
<1>24. TypeOK'
  <2>1. ent' \in Ents /\ lost' \subseteq Nat
    BY <1>1, <1>12, Running DEF WithPage
  <2> QED
    BY <1>1, <1>23, <2>1, TypeIs DEF Inv, TypeOK, Ents, Entries, Jobs, Ops, PCs
<1>25. JobOK(job'[p], ent', lev1, used')
  <2>1. j.first <= j.v /\ j.end <= NPages
    BY <1>2, <1>5, <1>21
  <2> QED
    BY <1>21, <1>23, <2>1 DEF JobOK
<1>26. BreakOK(p)'
  BY <1>1, <1>21, <1>23 DEF Inv, BreakOK
<1>27. Granted'
  <2>1. Has(v)'
    BY <1>13 DEF Has
  <2>2. ASSUME NEW w \in Nat, Has(w) PROVE Has(w)'
    <3>1. CASE w = v
      BY <2>1, <3>1
    <3>2. CASE w # v
      BY <1>1, <1>6, <1>13, <2>2, <3>2 DEF Has
    <3> QED
      BY <3>1, <3>2
  <2> QED
    BY <1>1, <1>6, <1>21, <1>23, <2>1, <2>2, GrantedPage
<1>28. used \subseteq used' /\ Fanout \in used' /\ ~astray'
  BY <1>1, FirstTaken DEF Inv
<1>29. Inv'
  BY <1>1, <1>14, <1>21, <1>23, <1>24, <1>25, <1>26, <1>27, <1>28, Alone, Assemble
<1> QED
  BY <1>6, <1>9, <1>13, <1>29

\* The break moves to the end of what the call has mapped.
LEMMA FinishInv ==
    ASSUME Setting, Inv, NEW p \in Actors, Finish(p)
    PROVE  Inv'
<1>1. /\ CanRun(p) /\ job[p].pc = "page" /\ job[p].v >= job[p].end
      /\ job' = [job EXCEPT ![p] = Idle]
      /\ brk' = IF job[p].op = "brk" THEN [brk EXCEPT ![p] = job[p].arg] ELSE brk
      /\ UNCHANGED <<used, ent, lost, astray, halted>>
  BY DEF Finish, At
<1>2. CASE job[p].op # "brk"
  <2>1. brk' = brk
    BY <1>1, <1>2
  <2>2. \A lev \in [Frames -> 0..5] : JobOK(Idle, ent, lev, used)
    BY IdleType, IdleOK
  <2> QED
    BY <1>1, <2>1, <2>2, IdleType, Alone, Running, SameTree
<1>3. CASE job[p].op = "brk"
  <2>1. PICK lev \in [Frames -> 0..5] : InvWith(lev)
    BY DEF Inv
  <2>2. /\ job \in [Actors -> Jobs] /\ job[p] \in Jobs /\ job[p].first \in Nat
        /\ job[p].v \in Nat /\ job[p].end \in Nat
    BY Running DEF Jobs
  <2>3. /\ p \in Procs /\ job[p].first = page_align_up(brk[p])
        /\ job[p].arg \in HeapStart..(HeapMax - 1) /\ job[p].end = page_align_up(job[p].arg)
    BY <1>1, <1>3 DEF Inv, BreakOK
  <2>4. brk' = [brk EXCEPT ![p] = job[p].arg] /\ brk \in [Procs -> HeapStart..(HeapMax - 1)]
    BY <1>1, <1>3, Running
  <2>5. brk' \in [Procs -> HeapStart..(HeapMax - 1)] /\ brk'[p] = job[p].arg
        /\ \A q \in Procs \ {p} : brk'[q] = brk[q]
    BY <2>3, <2>4
  <2>6. job'[p] = Idle /\ job' \in [Actors -> Jobs] /\ \A q \in Actors \ {p} : job'[q] = job[q]
    BY <1>1, <2>2, IdleType
  <2>7. TypeOK'
    BY <1>1, <2>5, <2>6, TypeIs DEF Inv, TypeOK, Ents, Entries, Jobs, Ops, PCs
  <2>8. Tree(ent', lev, used')
    BY <1>1, <2>1 DEF InvWith
  <2>9. JobOK(job'[p], ent', lev, used') /\ BreakOK(p)'
    BY <2>6, IdleType, IdleOK DEF BreakOK
  <2>10. Granted'
    <3>1. /\ \A q \in Procs :
              \A w \in page_align_up(HeapStart)..(page_align_up(brk[q]) - 1) : Has(w)
          /\ \A q \in Actors : \A w \in job[q].first..(job[q].v - 1) : Has(w)
      BY DEF Inv, Granted
    <3>2. \A w : Has(w)' <=> Has(w)
      BY <1>1, TranslationIs, TranslationWillBe DEF Has
    <3>3. PICK h \in Nat : h = page_align_up(HeapStart)
      BY HeapStartPage, AlignMonotone
    <3>4. ASSUME NEW w \in h..(page_align_up(brk'[p]) - 1)
          PROVE  Has(w)
      <4>1. w \in h..(job[p].end - 1) /\ w \in Nat
        BY <2>2, <2>3, <2>5
      <4>2. CASE w < job[p].first
        BY <2>2, <2>3, <3>1, <3>3, <4>1, <4>2
      <4>3. CASE w >= job[p].first
        BY <1>1, <2>2, <3>1, <4>1, <4>3
      <4> QED
        BY <2>2, <4>1, <4>2, <4>3
    <3>5. \A q \in Procs : \A w \in h..(page_align_up(brk'[q]) - 1) : Has(w)'
      BY <2>5, <3>1, <3>2, <3>3, <3>4
    <3>6. \A q \in Actors : \A w \in job'[q].first..(job'[q].v - 1) : Has(w)'
      BY <2>6, <3>1, <3>2, IdleType
    <3> QED
      BY <3>3, <3>5, <3>6 DEF Granted
  <2>11. /\ job'[p].pc \notin {"claim", "walk", "table"} /\ used \subseteq used' /\ ~astray'
         /\ Fanout \in used' \/ used' = Reserved
    BY <1>1, <2>6, IdleType DEF Inv, FirstFrame
  <2> QED
    BY <1>1, <2>6, <2>7, <2>8, <2>9, <2>10, <2>11, Alone, Assemble
<1> QED
  BY <1>2, <1>3

-----------------------------------------------------------------------------
(* The callers *)

\* A call may begin whose pages are all in range.
LEMMA BeginCall ==
    ASSUME Setting, Inv, NEW p \in Procs, At(p, "idle"),
           NEW op \in Ops, NEW first \in Nat, NEW end \in Nat, NEW arg \in Nat,
           end <= NPages,
           op = "brk" => /\ first = page_align_up(brk[p])
                         /\ arg \in HeapStart..(HeapMax - 1) /\ end = page_align_up(arg),
           job' = [job EXCEPT ![p] = Call(op, first, end, arg)],
           UNCHANGED <<used, ent, brk, lost, astray, halted>>
    PROVE  Inv'
<1>1. p \in Actors /\ CanRun(p)
  BY DEF Actors, At
<1>2. PICK j : j = Call(op, first, end, arg)
  OBVIOUS
<1>3. /\ j \in Jobs /\ j.op = op /\ j.pc = "page" /\ j.first = first /\ j.v = first
      /\ j.end = end /\ j.arg = arg
  BY <1>2, CallType
<1>4. \A lev \in [Frames -> 0..5] : JobOK(j, ent, lev, used')
  BY <1>2, CallOK
<1>5. job' = [job EXCEPT ![p] = j]
  BY <1>2
<1>6. \A q \in Actors \ {p} : job[q].pc = "idle"
  BY <1>1, Alone
<1>7. used' \subseteq Frames /\ used \subseteq used' /\ halted' \in BOOLEAN
  BY <1>1, Running
<1> QED
  BY <1>1, <1>3, <1>4, <1>5, <1>6, <1>7, SameTree

LEMMA BrkGrowInv ==
    ASSUME Setting, Inv, NEW p \in Procs, NEW b \in HeapStart..HeapMax, BrkGrow(p, b)
    PROVE  Inv'
<1>1. /\ At(p, "idle") /\ b > brk[p] /\ b < HeapMax
      /\ job' = [job EXCEPT ![p] = Call("brk", page_align_up(brk[p]), page_align_up(b), b)]
      /\ UNCHANGED <<used, ent, brk, lost, astray, halted>>
  BY DEF BrkGrow, GrowthStart
<1>2. HeapStart \in Nat /\ HeapMax \in Nat /\ brk \in [Procs -> HeapStart..(HeapMax - 1)]
  BY HeapStartPage, Running DEF Setting, Actors
<1>3. /\ b \in Nat /\ b \in HeapStart..(HeapMax - 1)
      /\ brk[p] \in Nat /\ brk[p] >= HeapStart /\ b <= HeapMax
  BY <1>1, <1>2
<1>4. /\ page_align_up(brk[p]) \in Nat /\ page_align_up(b) \in Nat
      /\ page_align_up(b) <= NPages
  <2>1. /\ page_align_up(brk[p]) \in Nat /\ page_align_up(b) \in Nat
        /\ page_align_up(HeapMax) \in Nat /\ page_align_up(b) <= page_align_up(HeapMax)
    BY <1>2, <1>3, AlignMonotone
  <2>2. page_align_up(HeapMax) <= NPages /\ NPages \in Nat
    BY Sizes DEF Setting, NPages
  <2> QED
    BY <2>1, <2>2
<1>6. "brk" \in Ops
  BY DEF Ops
<1> QED
  BY <1>1, <1>3, <1>4, <1>6, BeginCall

\* Nothing is unmapped, and a smaller break promises less.
LEMMA BrkShrinkInv ==
    ASSUME Setting, Inv, NEW p \in Procs, NEW b \in HeapStart..HeapMax, BrkShrink(p, b)
    PROVE  Inv'
<1>1. /\ p \in Actors /\ CanRun(p) /\ job[p].pc = "idle" /\ b < brk[p]
      /\ brk' = [brk EXCEPT ![p] = b]
      /\ UNCHANGED <<used, ent, job, lost, astray, halted>>
  BY DEF BrkShrink, At, Actors
<1>2. HeapStart \in Nat /\ HeapMax \in Nat /\ brk \in [Procs -> HeapStart..(HeapMax - 1)]
  BY <1>1, HeapStartPage, Running DEF Setting
<1>3. b \in Nat /\ brk[p] \in Nat /\ b <= brk[p] /\ b \in HeapStart..(HeapMax - 1)
  BY <1>1, <1>2
<1>4. /\ brk' \in [Procs -> HeapStart..(HeapMax - 1)] /\ brk'[p] = b
      /\ \A q \in Procs \ {p} : brk'[q] = brk[q]
  BY <1>1, <1>2, <1>3
<1>5. TypeOK'
  BY <1>1, <1>4, TypeIs DEF Inv, TypeOK, Ents, Entries, Jobs, Ops, PCs
<1>6. PICK lev \in [Frames -> 0..5] : InvWith(lev)
  BY DEF Inv
<1>7. Tree(ent', lev, used') /\ JobOK(job'[p], ent', lev, used') /\ BreakOK(p)'
  BY <1>1, <1>6 DEF InvWith, BreakOK
<1>8. Granted'
  <2>1. /\ \A q \in Procs :
             \A w \in page_align_up(HeapStart)..(page_align_up(brk[q]) - 1) : Has(w)
        /\ \A q \in Actors : \A w \in job[q].first..(job[q].v - 1) : Has(w)
    BY DEF Inv, Granted
  <2>2. \A w : Has(w)' <=> Has(w)
    BY <1>1, TranslationIs, TranslationWillBe DEF Has
  <2>3. page_align_up(b) \in Nat /\ page_align_up(b) <= page_align_up(brk[p])
        /\ page_align_up(brk[p]) \in Nat /\ page_align_up(HeapStart) \in Nat
    BY <1>2, <1>3, AlignMonotone
  <2>4. \A q \in Procs :
          \A w \in page_align_up(HeapStart)..(page_align_up(brk'[q]) - 1) : Has(w)'
    BY <1>4, <2>1, <2>2, <2>3
  <2>5. \A q \in Actors : \A w \in job'[q].first..(job'[q].v - 1) : Has(w)'
    BY <1>1, <2>1, <2>2
  <2> QED
    BY <2>4, <2>5 DEF Granted
<1>9. /\ job'[p].pc \notin {"claim", "walk", "table"} /\ used \subseteq used' /\ ~astray'
      /\ Fanout \in used' \/ used' = Reserved
  BY <1>1 DEF Inv, FirstFrame
<1> QED
  BY <1>1, <1>5, <1>6, <1>7, <1>8, <1>9, Alone, Assemble

LEMMA MmapInv ==
    ASSUME Setting, Inv, NEW p \in Procs, NEW addr \in MmapAddrs, NEW length \in MmapLengths,
           Mmap(p, addr, length)
    PROVE  Inv'
<1>1. HeapStart \in Nat /\ HeapMax \in Nat /\ brk \in [Procs -> HeapStart..(HeapMax - 1)]
  BY HeapStartPage, Running DEF Setting, Actors
<1>2. addr \in Nat /\ length \in Nat /\ NPages \in Nat
  BY SizeAssumption, Sizes DEF NPages
<1>3. PICK a \in Nat : a = IF addr = 0 THEN brk[p] ELSE addr
  BY <1>1, <1>2
<1>5. PICK start \in Nat : start = page_align_up(a)
  BY AlignMonotone
<1>6. PICK end \in Nat : end = page_align_up(start * PageBytes + length)
  BY <1>2, <1>5, AlignBehind
<1>7. end <= NPages
  <2>1. CASE addr = 0
    <3>1. a <= HeapMax
      BY <1>1, <1>3, <2>1
    <3>2. PICK top \in Nat : top = page_align_up(HeapMax) /\ start <= top
      BY <1>1, <1>5, <3>1, AlignMonotone
    <3>3. PICK b \in Nat : b = PageBytes
      BY Sizes
    <3>4. b * start <= b * top
      BY <3>2, Monotone
    <3>5. /\ start * b + length \in Nat /\ top * b + length \in Nat
          /\ start * b + length <= top * b + length
      BY <1>2, <3>4
    <3>6. page_align_up(start * b + length) <= page_align_up(top * b + length)
      BY <3>5, AlignMonotone
    <3>7. page_align_up(top * b + length) <= NPages
      BY <3>2, <3>3 DEF Setting
    <3>8. page_align_up(top * b + length) \in Nat
      BY <3>5, AlignMonotone
    <3> QED
      BY <1>2, <1>6, <3>3, <3>6, <3>7, <3>8
  <2>2. CASE addr # 0
    BY <1>3, <1>5, <1>6, <2>2 DEF Setting
  <2> QED
    BY <2>1, <2>2
<1>9. /\ At(p, "idle") /\ job' = [job EXCEPT ![p] = Call("mmap", start, end, 0)]
      /\ UNCHANGED <<used, ent, brk, lost, astray, halted>>
  BY <1>3, <1>5, <1>6 DEF Mmap
<1>10. "mmap" \in Ops /\ "mmap" # "brk" /\ 0 \in Nat
  BY DEF Ops
<1> QED
  BY <1>7, <1>9, <1>10, BeginCall

\* The machine stops, or no step is taken: every part of the state but halted stays.
LEMMA NothingChanges ==
    ASSUME Inv, UNCHANGED <<used, ent, brk, job, lost, astray>>,
           halted' \in BOOLEAN
    PROVE  Inv'
<1>1. TypeOK'
  BY DEF Inv, TypeOK
<1>2. OneCall' /\ NewTableIsFree' /\ FirstFrame' /\ \A p \in Actors : BreakOK(p)'
  BY DEF Inv, OneCall, NewTableIsFree, FirstFrame, BreakOK
<1>3. Granted'
  <2>1. \A v \in Nat : Has(v) => Has(v)'
    BY TranslationIs, TranslationWillBe DEF Has
  <2>2. \A q \in Actors : job'[q].first..(job'[q].v - 1) \subseteq job[q].first..(job[q].v - 1)
    OBVIOUS
  <2> QED
    BY <2>1, <2>2, GrantedKept DEF Inv
<1>4. PICK lev \in [Frames -> 0..5] : InvWith(lev)
  BY DEF Inv
<1>5. InvWith(lev)'
  BY <1>4 DEF InvWith
<1> QED
  BY <1>1, <1>2, <1>3, <1>5 DEF Inv

-----------------------------------------------------------------------------
(* Theorems *)

\* A step keeps the invariant, and changes the translation of at most the page
\* of the call that runs, to the frame of that call, unless it takes a table
\* from behind the huge pages.
LEMMA NextInv ==
    ASSUME Setting, Inv, [Next]_vars, ~astray'
    PROVE  /\ Inv'
           /\ \A v \in Pages : Translation(v)' # Translation(v) =>
                \E p \in Actors : job[p].v = v /\ Translation(v)' = job[p].phys
<1>1. ASSUME ent' = ent
      PROVE  \A v \in Pages : Translation(v)' = Translation(v)
  BY <1>1, TranslationIs, TranslationWillBe
<1>2. CASE UNCHANGED vars
  <2>1. Inv' /\ ent' = ent
    BY <1>2, NothingChanges DEF vars, Inv, TypeOK
  <2> QED
    BY <1>1, <2>1
<1>3. ASSUME NEW p \in Actors, MapStep(p)
      PROVE  /\ Inv'
             /\ \A v \in Pages : Translation(v)' # Translation(v) =>
                  job[p].v = v /\ Translation(v)' = job[p].phys
  <2>1. CASE FindFrame(p) \/ NoFrame(p) \/ ClaimFrame(p) \/ Descend(p) \/ FindTable(p)
             \/ NoTable(p) \/ Finish(p)
    <3>1. ent' = ent
      BY <2>1 DEF FindFrame, NoFrame, ClaimFrame, Descend, FindTable, NoTable, Finish
    <3>2. Inv'
      BY <2>1, FindFrameInv, NoFrameInv, ClaimFrameInv, DescendInv, FindTableInv, NoTableInv,
         FinishInv
    <3> QED
      BY <1>1, <3>1, <3>2
  <2>2. CASE EnterTable(p)
    <3>1. Inv' /\ \A v \in Nat : Translation(v)' = Translation(v)
      BY <2>2, EnterTableInv
    <3>2. Pages \subseteq Nat
      BY Sizes DEF Pages, NPages
    <3> QED
      BY <3>1, <3>2
  <2>3. CASE EnterPage(p)
    BY <2>3, EnterPageInv
  <2>4. CASE KernelFault(p)
    <3>1. Inv' /\ ent' = ent
      BY <2>4, NothingChanges DEF KernelFault
    <3> QED
      BY <1>1, <3>1
  <2> QED
    BY <1>3, <2>1, <2>2, <2>3, <2>4 DEF MapStep
<1>4. ASSUME NEW p \in Procs, UserStep(p)
      PROVE  Inv' /\ ent' = ent
  <2>1. ASSUME NEW b \in HeapStart..HeapMax, BrkGrow(p, b) \/ BrkShrink(p, b)
        PROVE  Inv' /\ ent' = ent
    BY <2>1, BrkGrowInv, BrkShrinkInv DEF BrkGrow, BrkShrink
  <2>2. ASSUME NEW addr \in MmapAddrs, NEW length \in MmapLengths, Mmap(p, addr, length)
        PROVE  Inv' /\ ent' = ent
    BY <2>2, MmapInv DEF Mmap
  <2>3. ASSUME NEW v \in FaultPages, Halt(p, v)
        PROVE  Inv' /\ ent' = ent
    BY <2>3, NothingChanges DEF Halt
  <2> QED
    BY <1>4, <2>1, <2>2, <2>3 DEF UserStep
<1>5. CASE \E p \in Actors : MapStep(p)
  BY <1>3, <1>5
<1>6. CASE \E p \in Procs : UserStep(p)
  BY <1>1, <1>4, <1>6
<1> QED
  BY <1>2, <1>5, <1>6 DEF Next

\* A table behind the huge pages is not undone.
LEMMA AstrayStays ==
    ASSUME astray, [Next]_vars
    PROVE  astray'
<1>1. CASE UNCHANGED vars
  BY <1>1 DEF vars
<1>2. ASSUME NEW p \in Actors, MapStep(p) PROVE astray'
  BY <1>2 DEF MapStep, FindFrame, NoFrame, ClaimFrame, Descend, FindTable, NoTable, Finish,
     EnterTable, EnterPage, KernelFault
<1>3. ASSUME NEW p \in Procs, UserStep(p) PROVE astray'
  BY <1>3 DEF UserStep, BrkGrow, BrkShrink, Mmap, Halt
<1> QED
  BY <1>1, <1>2, <1>3 DEF Next

\* The invariant holds in every state of calls that do not interleave, until a
\* table is taken from behind the huge pages.
LEMMA InvHolds == Setting => (Spec => [](astray \/ Inv))
<1> SUFFICES ASSUME Setting PROVE Spec => [](astray \/ Inv)
  OBVIOUS
<1>1. Init => (astray \/ Inv)
  BY InitInv
<1>2. (astray \/ Inv) /\ [Next]_vars => (astray \/ Inv)'
  BY NextInv, AstrayStays
<1> QED
  BY <1>1, <1>2, PTL DEF Spec

\* No frame is mapped twice, used both as a table and as memory, or free while
\* mapped: find_free_page, alloc_table and mm_map_page hand every frame to one owner.
THEOREM OwnersCorrect == Setting => (Spec => []EveryFrameHasOneOwner)
<1>1. (astray \/ Inv) => EveryFrameHasOneOwner
  BY InvImplies DEF EveryFrameHasOneOwner
<1> QED
  BY <1>1, InvHolds, PTL

\* mm_map_page stores into tables of the tree only, whatever address sys_mmap is
\* given: where it takes a huge page for a table, it writes into no table.
THEOREM WalksCorrect == Setting => (Spec => []WalksStayInTheTree)
<1>1. (astray \/ Inv) => WalksStayInTheTree
  BY InvImplies DEF WalksStayInTheTree
<1> QED
  BY <1>1, InvHolds, PTL

\* What sys_brk and sys_mmap grant is mapped, page by page, but for the pages
\* whose mm_map_page found no frame for a table.
THEOREM GrantedCorrect == Setting => (Spec => []GrantedMemoryIsMapped)
<1>1. (astray \/ Inv) => GrantedMemoryIsMapped
  BY InvImplies DEF GrantedMemoryIsMapped
<1> QED
  BY <1>1, InvHolds, PTL

\* A step of mm_map_page changes the translation of the page it is called for,
\* and of no other page of the address space.
THEOREM MappingCorrect == Setting => (Spec => OnlyTheMappedPageChanges)
<1> SUFFICES ASSUME Setting PROVE Spec => OnlyTheMappedPageChanges
  OBVIOUS
<1>1. (astray \/ Inv) /\ [Next]_vars =>
        [ent' # ent /\ ~astray' => \A v \in Pages : Translation(v)' # Translation(v) =>
           \E p \in Actors : job[p].v = v /\ Translation(v)' = job[p].phys]_vars
  BY NextInv, AstrayStays
<1>2. Spec => [](astray \/ Inv)
  BY InvHolds
<1> QED
  BY <1>1, <1>2, PTL DEF Spec, OnlyTheMappedPageChanges
=============================================================================
