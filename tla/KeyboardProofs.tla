--------------------------- MODULE KeyboardProofs ---------------------------
(***************************************************************************)
(* Proofs about console input, for a ring of any size and any readers.     *)
(* Inv is inductive: it adds to the properties of Keyboard where the head  *)
(* of the ring is (HeadFollowsTheRing) and how far each console_read has   *)
(* come (ReadsInProgress).                                                 *)
(***************************************************************************)
EXTENDS Keyboard, SequenceTheorems, TLAPS

\* head is the slot behind the newest character, and the slots in between hold
\* characters, never the 0 of an empty ring.
HeadFollowsTheRing ==
    /\ head = (tail + count) % Size
    /\ \A i \in 1..count : Contents[i] \in Chars

\* A reader inside console_read has room left and has stored no end of line.
ReadsInProgress ==
    \A r \in Readers : pc[r] # "idle" =>
        /\ Len(dst[r]) < asked[r]
        /\ \A i \in 1..Len(dst[r]) : dst[r][i] # Newline

Inv == /\ EchoIsWhatIsRead
       /\ HeadFollowsTheRing
       /\ ReadsReturnLines
       /\ ReadsInProgress

-----------------------------------------------------------------------------
(* The ring as a sequence *)

\* The slot with character i of a ring that begins at slot t.
Slot(t, i) == (t + i - 1) % Size

\* The n characters of a ring b from slot t on.
Ring(b, t, n) == [i \in 1..n |-> b[Slot(t, i)]]

\* q is these characters.
IsRing(q, b, t, n) ==
    /\ q \in Seq(Chars) /\ Len(q) = n
    /\ \A i \in 1..n : q[i] = b[Slot(t, i)]

\* What the array kb_buffer can hold.
Arrays == [0..(Size - 1) -> Chars \cup {NoChar}]

LEMMA SizeIsPositive == Size \in Nat /\ Size > 0
BY SizeAssumption

\* An index into the ring is taken modulo Size at most once.
LEMMA ModOnce ==
    ASSUME NEW n \in 0..(2 * Size - 1)
    PROVE  /\ n % Size \in 0..(Size - 1)
           /\ n % Size = IF n < Size THEN n ELSE n - Size
BY SizeIsPositive

LEMMA SlotRange ==
    ASSUME NEW t \in 0..(Size - 1), NEW i \in 1..Size
    PROVE  /\ Slot(t, i) \in 0..(Size - 1)
           /\ Slot(t, i) = IF t + i - 1 < Size THEN t + i - 1 ELSE t + i - 1 - Size
<1>1. PICK n \in 0..(2 * Size - 1) : n = t + i - 1
  BY SizeIsPositive
<1>2. n % Size \in 0..(Size - 1) /\ n % Size = IF n < Size THEN n ELSE n - Size
  BY ModOnce
<1>3. Slot(t, i) = n % Size
  BY <1>1 DEF Slot
<1>4. PICK m : m = n % Size
  OBVIOUS
<1> QED
  BY <1>1, <1>2, <1>3, <1>4, SizeIsPositive

\* Two characters of the ring are in different slots.
LEMMA SlotsDiffer ==
    ASSUME NEW t \in 0..(Size - 1), NEW i \in 1..Size, NEW j \in 1..Size, i # j
    PROVE  Slot(t, i) # Slot(t, j)
<1>1. Slot(t, i) = IF t + i - 1 < Size THEN t + i - 1 ELSE t + i - 1 - Size
  BY SlotRange
<1>2. Slot(t, j) = IF t + j - 1 < Size THEN t + j - 1 ELSE t + j - 1 - Size
  BY SlotRange
<1> QED
  BY <1>1, <1>2, SizeIsPositive

\* Where head and tail go: a push fills the slot at the head and moves it on, a
\* Backspace moves it back to the newest character, a pop moves the tail on.
LEMMA HeadAndTail ==
    ASSUME NEW t \in 0..(Size - 1), NEW n \in 0..Size, NEW h, h = (t + n) % Size
    PROVE  /\ h \in 0..(Size - 1)
           /\ Slot(t, 1) = t
           /\ (t + 1) % Size \in 0..(Size - 1)
           /\ n < Size => h = Slot(t, n + 1) /\ (h + 1) % Size = (t + (n + 1)) % Size
           /\ n > 0 => /\ (h + Size - 1) % Size = Slot(t, n)
                       /\ (h + Size - 1) % Size = (t + (n - 1)) % Size
                       /\ (((t + 1) % Size) + (n - 1)) % Size = h
                       /\ \A i \in 1..(n - 1) : Slot((t + 1) % Size, i) = Slot(t, i + 1)
<1>1. t + n \in 0..(2 * Size - 1) /\ t + 1 \in 0..(2 * Size - 1)
  BY SizeIsPositive
<1>2. h = IF t + n < Size THEN t + n ELSE t + n - Size
  BY <1>1, ModOnce, SizeIsPositive
<1>3. h \in 0..(Size - 1)
  BY <1>1, ModOnce
<1>4. PICK u \in 0..(Size - 1) : u = (t + 1) % Size
  BY <1>1, ModOnce
<1>5. u = IF t + 1 < Size THEN t + 1 ELSE 0
  BY <1>1, <1>4, ModOnce, SizeIsPositive
<1>6. Slot(t, 1) = t
  BY SlotRange, SizeIsPositive
<1>7. ASSUME n < Size
      PROVE  h = Slot(t, n + 1) /\ (h + 1) % Size = (t + (n + 1)) % Size
  <2>1. n + 1 \in 1..Size /\ t + (n + 1) - 1 = t + n
    BY <1>7, SizeIsPositive
  <2>2. h = Slot(t, n + 1)
    BY <2>1 DEF Slot
  <2>3. h + 1 \in 0..(2 * Size - 1) /\ t + (n + 1) \in 0..(2 * Size - 1)
    BY <1>3, <1>7, SizeIsPositive
  <2>4. (h + 1) % Size = IF h + 1 < Size THEN h + 1 ELSE h + 1 - Size
    BY <2>3, ModOnce, SizeIsPositive
  <2>5. (t + (n + 1)) % Size = IF t + (n + 1) < Size THEN t + (n + 1) ELSE t + (n + 1) - Size
    BY <2>3, ModOnce, SizeIsPositive
  <2> QED
    BY <1>2, <1>3, <2>2, <2>4, <2>5, SizeIsPositive
<1>8. ASSUME n > 0
      PROVE  /\ (h + Size - 1) % Size = Slot(t, n)
             /\ (h + Size - 1) % Size = (t + (n - 1)) % Size
             /\ (u + (n - 1)) % Size = h
             /\ \A i \in 1..(n - 1) : Slot(u, i) = Slot(t, i + 1)
  <2>1. /\ h + Size - 1 \in 0..(2 * Size - 1) /\ t + (n - 1) \in 0..(2 * Size - 1)
        /\ u + (n - 1) \in 0..(2 * Size - 1) /\ n \in 1..Size
    BY <1>3, <1>8, SizeIsPositive
  <2>2. (h + Size - 1) % Size = IF h + Size - 1 < Size THEN h + Size - 1 ELSE h + Size - 1 - Size
    BY <2>1, ModOnce, SizeIsPositive
  <2>3. (t + (n - 1)) % Size = IF t + (n - 1) < Size THEN t + (n - 1) ELSE t + (n - 1) - Size
    BY <2>1, ModOnce, SizeIsPositive
  <2>4. (u + (n - 1)) % Size = IF u + (n - 1) < Size THEN u + (n - 1) ELSE u + (n - 1) - Size
    BY <2>1, ModOnce, SizeIsPositive
  <2>5. Slot(t, n) = IF t + n - 1 < Size THEN t + n - 1 ELSE t + n - 1 - Size
    BY <2>1, SlotRange
  <2>6. (h + Size - 1) % Size = Slot(t, n) /\ (h + Size - 1) % Size = (t + (n - 1)) % Size
    BY <1>2, <1>3, <1>8, <2>2, <2>3, <2>5, SizeIsPositive
  <2>7. (u + (n - 1)) % Size = h
    BY <1>2, <1>5, <1>8, <2>4, SizeIsPositive
  <2>8. ASSUME NEW i \in 1..(n - 1)
        PROVE  Slot(u, i) = Slot(t, i + 1)
    <3>1. i \in 1..Size /\ i + 1 \in 1..Size
      BY <1>8, SizeIsPositive
    <3>2. Slot(u, i) = IF u + i - 1 < Size THEN u + i - 1 ELSE u + i - 1 - Size
      BY <3>1, SlotRange
    <3>3. Slot(t, i + 1) = IF t + (i + 1) - 1 < Size THEN t + (i + 1) - 1
                                                     ELSE t + (i + 1) - 1 - Size
      BY <3>1, SlotRange
    <3> QED
      BY <1>5, <3>1, <3>2, <3>3, SizeIsPositive
  <2> QED
    BY <2>6, <2>7, <2>8
<1> QED
  BY <1>3, <1>4, <1>6, <1>7, <1>8

\* There is one sequence of the characters of a ring.
LEMMA RingIsUnique ==
    ASSUME NEW b, NEW t, NEW n \in 0..Size, NEW q, IsRing(q, b, t, n)
    PROVE  q = Ring(b, t, n)
<1>1. n \in Nat
  BY SizeIsPositive
<1> QED
  BY <1>1 DEF IsRing, Ring

LEMMA RingIsRing ==
    ASSUME NEW b, NEW t, NEW n \in 0..Size, \A i \in 1..n : Ring(b, t, n)[i] \in Chars
    PROVE  IsRing(Ring(b, t, n), b, t, n)
<1>1. n \in Nat
  BY SizeIsPositive
<1> QED
  BY <1>1 DEF IsRing, Ring

\* A character stored in the slot behind n others is the last of n + 1.
LEMMA RingPush ==
    ASSUME NEW b \in Arrays, NEW t \in 0..(Size - 1), NEW n \in 0..(Size - 1),
           NEW q, IsRing(q, b, t, n), NEW c \in Chars
    PROVE  IsRing(Append(q, c), [b EXCEPT ![Slot(t, n + 1)] = c], t, n + 1)
<1>1. \A i \in 1..(n + 1) : Slot(t, i) \in 0..(Size - 1)
  BY SlotRange, SizeIsPositive
<1>2. \A i \in 1..n : Slot(t, i) # Slot(t, n + 1)
  BY SlotsDiffer, SizeIsPositive
<1>3. q \in Seq(Chars) /\ Len(q) = n /\ \A i \in 1..n : q[i] = b[Slot(t, i)]
  BY DEF IsRing
<1>4. PICK a : a = Append(q, c)
  OBVIOUS
<1>5. a \in Seq(Chars) /\ Len(a) = n + 1 /\ a[n + 1] = c /\ \A i \in 1..n : a[i] = q[i]
  BY <1>3, <1>4, AppendProperties
<1>6. PICK d : d = [b EXCEPT ![Slot(t, n + 1)] = c]
  OBVIOUS
<1>7. d[Slot(t, n + 1)] = c /\ \A i \in 1..n : d[Slot(t, i)] = b[Slot(t, i)]
  BY <1>1, <1>2, <1>6, SizeIsPositive DEF Arrays
<1>8. \A i \in 1..(n + 1) : a[i] = d[Slot(t, i)]
  <2> TAKE i \in 1..(n + 1)
  <2>1. i = n + 1 \/ i \in 1..n
    BY SizeIsPositive
  <2> QED
    BY <1>3, <1>5, <1>7, <2>1
<1> QED
  BY <1>4, <1>5, <1>6, <1>8 DEF IsRing

\* What Tail and Front leave of a sequence of characters.
LEMMA TailOf ==
    ASSUME NEW q \in Seq(Chars), NEW n \in Nat, n > 0, Len(q) = n
    PROVE  /\ Tail(q) \in Seq(Chars) /\ Len(Tail(q)) = n - 1
           /\ \A i \in 1..(n - 1) : Tail(q)[i] = q[i + 1]
<1>1. q # << >>
  BY EmptySeq
<1> QED
  BY <1>1, HeadTailProperties

LEMMA FrontOf ==
    ASSUME NEW q \in Seq(Chars), NEW n \in Nat, n > 0, Len(q) = n
    PROVE  /\ Front(q) \in Seq(Chars) /\ Len(Front(q)) = n - 1
           /\ \A i \in 1..(n - 1) : Front(q)[i] = q[i]
           /\ Last(q) = q[n]
<1>1. \A i \in 1..(n - 1) : q[i] \in Chars
  BY ElementOfSeq
<1>2. n - 1 \in Int /\ 1 \in Int
  OBVIOUS
<1>3. PICK m \in Int : m = n - 1
  BY <1>2
<1>4. PICK f : f = SubSeq(q, 1, m)
  OBVIOUS
<1>5. /\ f \in Seq(Chars)
      /\ Len(f) = IF 1 <= m THEN m - 1 + 1 ELSE 0
      /\ \A i \in 1..(m - 1 + 1) : f[i] = q[1 + i - 1]
  BY <1>1, <1>2, <1>3, <1>4, SubSeqProperties
<1>6. f = Front(q)
  BY <1>3, <1>4 DEF Front
<1> QED
  BY <1>3, <1>5, <1>6 DEF Last

\* A pop leaves the ring from the next slot on.
LEMMA RingPop ==
    ASSUME NEW b, NEW t \in 0..(Size - 1), NEW n \in 1..Size, NEW q, IsRing(q, b, t, n)
    PROVE  /\ IsRing(Tail(q), b, (t + 1) % Size, n - 1)
           /\ q[1] = b[t]
<1>1. PICK u : u = (t + 1) % Size
  OBVIOUS
<1>2. Slot(t, 1) = t /\ \A i \in 1..(n - 1) : Slot(u, i) = Slot(t, i + 1)
  BY <1>1, HeadAndTail, SizeIsPositive
<1>3. q \in Seq(Chars) /\ Len(q) = n /\ n \in Nat /\ \A i \in 1..n : q[i] = b[Slot(t, i)]
  BY SizeIsPositive DEF IsRing
<1>4. PICK p : p = Tail(q)
  OBVIOUS
<1>5. p \in Seq(Chars) /\ Len(p) = n - 1 /\ \A i \in 1..(n - 1) : p[i] = q[i + 1]
  BY <1>3, <1>4, TailOf
<1>6. \A i \in 1..(n - 1) : p[i] = b[Slot(u, i)]
  BY <1>2, <1>3, <1>5
<1> QED
  BY <1>1, <1>2, <1>3, <1>4, <1>5, <1>6, SizeIsPositive DEF IsRing

\* A Backspace leaves all but the last character.
LEMMA RingTakeBack ==
    ASSUME NEW b, NEW t \in 0..(Size - 1), NEW n \in 1..Size, NEW q, IsRing(q, b, t, n)
    PROVE  /\ IsRing(Front(q), b, t, n - 1)
           /\ Last(q) = b[Slot(t, n)]
<1>1. q \in Seq(Chars) /\ Len(q) = n /\ n \in Nat /\ n > 0
  BY SizeIsPositive DEF IsRing
<1>2. /\ Front(q) \in Seq(Chars) /\ Len(Front(q)) = n - 1
      /\ \A i \in 1..(n - 1) : Front(q)[i] = q[i]
      /\ Last(q) = q[n]
  BY <1>1, FrontOf, Zenon
<1>3. \A i \in 1..n : q[i] = b[Slot(t, i)]
  BY DEF IsRing
<1>4. \A i \in 1..(n - 1) : Front(q)[i] = b[Slot(t, i)]
  BY <1>2, <1>3
<1> QED
  BY <1>1, <1>2, <1>3, <1>4 DEF IsRing

-----------------------------------------------------------------------------
(* What shows of a sequence *)

\* at is the places of the m characters of t among the n of s.
Places(at, t, m, s, n) ==
    /\ at \in [1..m -> 1..n]
    /\ \A i, j \in 1..m : i < j => at[i] < at[j]
    /\ \A k \in 1..n : Shows(s[k]) <=> \E i \in 1..m : at[i] = k
    /\ \A i \in 1..m : t[i] = s[at[i]]

LEMMA VisibleByPlaces ==
    ASSUME NEW t, NEW s
    PROVE  IsVisiblePart(t, s) <=> \E at : Places(at, t, Len(t), s, Len(s))
BY DEF IsVisiblePart, Places

\* A character that is queued and echoed adds to both, a silent one to the
\* queue only.
LEMMA VisibleAppend ==
    ASSUME NEW t \in Seq(Chars), NEW s \in Seq(Chars), IsVisiblePart(t, s), NEW c \in Chars
    PROVE  /\ Shows(c) => IsVisiblePart(Append(t, c), Append(s, c))
           /\ ~Shows(c) => IsVisiblePart(t, Append(s, c))
<1>1. PICK m \in Nat, n \in Nat : m = Len(t) /\ n = Len(s)
  BY LenProperties
<1>2. PICK at : Places(at, t, m, s, n)
  BY <1>1, VisibleByPlaces
<1>3. PICK s1 : s1 = Append(s, c)
  OBVIOUS
<1>4. Len(s1) = n + 1 /\ s1[n + 1] = c /\ \A k \in 1..n : s1[k] = s[k]
  BY <1>1, <1>3, AppendProperties
<1>5. ASSUME Shows(c)
      PROVE  IsVisiblePart(Append(t, c), s1)
  <2>1. PICK t1 : t1 = Append(t, c)
    OBVIOUS
  <2>2. Len(t1) = m + 1 /\ t1[m + 1] = c /\ \A i \in 1..m : t1[i] = t[i]
    BY <1>1, <2>1, AppendProperties
  <2>3. PICK at1 : at1 = [i \in 1..(m + 1) |-> IF i = m + 1 THEN n + 1 ELSE at[i]]
    OBVIOUS
  <2>4. at1[m + 1] = n + 1 /\ \A i \in 1..m : at1[i] = at[i] /\ at1[i] \in 1..n
    BY <1>2, <2>3 DEF Places
  <2>5. at1 \in [1..(m + 1) -> 1..(n + 1)]
    BY <1>2, <2>3 DEF Places
  <2>6. ASSUME NEW i \in 1..(m + 1), NEW j \in 1..(m + 1), i < j
        PROVE  at1[i] < at1[j]
    <3>1. i \in 1..m /\ (j = m + 1 \/ j \in 1..m)
      BY <2>6
    <3>2. CASE j = m + 1
      <4>1. at1[i] \in 1..n
        BY <2>4, <3>1
      <4> QED
        BY <2>4, <3>2, <4>1
    <3>3. CASE j \in 1..m
      <4>1. at[i] < at[j] /\ at1[i] = at[i] /\ at1[j] = at[j]
        BY <1>2, <2>4, <2>6, <3>1, <3>3 DEF Places
      <4> QED
        BY <4>1
    <3> QED
      BY <3>1, <3>2, <3>3
  <2>7. \A k \in 1..(n + 1) : Shows(s1[k]) <=> \E i \in 1..(m + 1) : at1[i] = k
    <3> TAKE k \in 1..(n + 1)
    <3>1. CASE k = n + 1
      BY <1>4, <1>5, <2>4, <3>1
    <3>2. CASE k \in 1..n
      <4>1. (\E i \in 1..(m + 1) : at1[i] = k) <=> (\E i \in 1..m : at[i] = k)
        BY <2>4, <3>2
      <4> QED
        BY <1>2, <1>4, <3>2, <4>1 DEF Places
    <3> QED
      BY <3>1, <3>2
  <2>8. ASSUME NEW i \in 1..(m + 1)
        PROVE  t1[i] = s1[at1[i]]
    <3>1. CASE i = m + 1
      BY <1>4, <2>2, <2>4, <3>1
    <3>2. CASE i \in 1..m
      <4>1. at1[i] = at[i] /\ at1[i] \in 1..n
        BY <2>4, <3>2
      <4>2. t1[i] = s[at[i]]
        BY <1>2, <2>2, <3>2 DEF Places
      <4> QED
        BY <1>4, <4>1, <4>2
    <3> QED
      BY <3>1, <3>2
  <2>9. Places(at1, t1, m + 1, s1, n + 1)
    BY <2>5, <2>6, <2>7, <2>8 DEF Places
  <2> QED
    BY <1>4, <2>1, <2>2, <2>9, VisibleByPlaces
<1>6. ASSUME ~Shows(c)
      PROVE  IsVisiblePart(t, s1)
  <2>1. at \in [1..m -> 1..(n + 1)] /\ \A i \in 1..m : at[i] \in 1..n
    BY <1>2 DEF Places
  <2>2. \A k \in 1..(n + 1) : Shows(s1[k]) <=> \E i \in 1..m : at[i] = k
    <3> TAKE k \in 1..(n + 1)
    <3>1. CASE k = n + 1
      BY <1>4, <1>6, <2>1, <3>1
    <3>2. CASE k \in 1..n
      BY <1>2, <1>4, <3>2 DEF Places
    <3> QED
      BY <3>1, <3>2
  <2>3. \A i \in 1..m : t[i] = s1[at[i]]
    BY <1>2, <1>4, <2>1 DEF Places
  <2>4. Places(at, t, m, s1, n + 1)
    BY <1>2, <2>1, <2>2, <2>3 DEF Places
  <2> QED
    BY <1>1, <1>4, <2>4, VisibleByPlaces
<1> QED
  BY <1>3, <1>5, <1>6

\* A pop takes the first character of both if it shows.
LEMMA VisibleTail ==
    ASSUME NEW t \in Seq(Chars), NEW s \in Seq(Chars), IsVisiblePart(t, s), s # << >>
    PROVE  /\ Shows(s[1]) => t # << >> /\ IsVisiblePart(Tail(t), Tail(s))
           /\ ~Shows(s[1]) => IsVisiblePart(t, Tail(s))
<1>1. PICK m \in Nat, n \in Nat : m = Len(t) /\ n = Len(s) /\ n > 0
  BY LenProperties, EmptySeq
<1>2. PICK at : Places(at, t, m, s, n)
  BY <1>1, VisibleByPlaces
<1>3. PICK s1 : s1 = Tail(s)
  OBVIOUS
<1>4. Len(s1) = n - 1 /\ \A k \in 1..(n - 1) : s1[k] = s[k + 1]
  BY <1>1, <1>3, TailOf
<1>5. \A i \in 1..m : at[i] \in 1..n
  BY <1>2 DEF Places
<1>6. ASSUME Shows(s[1])
      PROVE  t # << >> /\ IsVisiblePart(Tail(t), s1)
  <2>1. PICK i \in 1..m : at[i] = 1
    BY <1>1, <1>2, <1>6 DEF Places
  <2>2. m > 0 /\ 1 \in 1..m
    BY <2>1
  <2>3. at[1] = 1
    BY <1>2, <1>5, <2>1, <2>2 DEF Places
  <2>4. \A j \in 1..(m - 1) : j + 1 \in 1..m /\ at[j + 1] \in 2..n
    <3> TAKE j \in 1..(m - 1)
    <3>1. j + 1 \in 1..m /\ 1 < j + 1
      BY <2>2
    <3>2. at[1] < at[j + 1] /\ at[j + 1] \in 1..n
      BY <1>2, <1>5, <2>2, <3>1 DEF Places
    <3> QED
      BY <2>3, <3>1, <3>2
  <2>5. PICK t1 : t1 = Tail(t)
    OBVIOUS
  <2>6. Len(t1) = m - 1 /\ \A j \in 1..(m - 1) : t1[j] = t[j + 1]
    BY <1>1, <2>2, <2>5, TailOf
  <2>7. PICK at1 : at1 = [j \in 1..(m - 1) |-> at[j + 1] - 1]
    OBVIOUS
  <2>8. \A j \in 1..(m - 1) : at1[j] = at[j + 1] - 1 /\ at1[j] \in 1..(n - 1)
    BY <2>4, <2>7
  <2>9. at1 \in [1..(m - 1) -> 1..(n - 1)]
    BY <2>7, <2>8
  <2>10. ASSUME NEW j \in 1..(m - 1), NEW k \in 1..(m - 1), j < k
         PROVE  at1[j] < at1[k]
    <3>1. at[j + 1] < at[k + 1]
      BY <1>2, <2>4, <2>10 DEF Places
    <3> QED
      BY <2>4, <2>8, <3>1
  <2>11. ASSUME NEW k \in 1..(n - 1)
         PROVE  Shows(s1[k]) <=> \E j \in 1..(m - 1) : at1[j] = k
    <3>1. k + 1 \in 1..n /\ k + 1 # 1
      BY <1>1
    <3>2. Shows(s1[k]) <=> \E j \in 1..m : at[j] = k + 1
      BY <1>2, <1>4, <3>1 DEF Places
    <3>3. ASSUME NEW j \in 1..m, at[j] = k + 1
          PROVE  \E l \in 1..(m - 1) : at1[l] = k
      <4>1. j - 1 \in 1..(m - 1) /\ (j - 1) + 1 = j
        BY <2>3, <3>1, <3>3
      <4>2. at1[j - 1] = at[j] - 1
        BY <2>8, <4>1
      <4> QED
        BY <3>3, <4>1, <4>2
    <3>4. ASSUME NEW j \in 1..(m - 1), at1[j] = k
          PROVE  \E l \in 1..m : at[l] = k + 1
      <4>1. j + 1 \in 1..m /\ at[j + 1] = k + 1
        BY <2>4, <2>8, <3>4
      <4> QED
        BY <4>1
    <3> QED
      BY <3>2, <3>3, <3>4
  <2>12. ASSUME NEW j \in 1..(m - 1)
         PROVE  t1[j] = s1[at1[j]]
    <3>1. t1[j] = s[at[j + 1]]
      BY <1>2, <2>4, <2>6 DEF Places
    <3>2. PICK x \in 2..n : x = at[j + 1]
      BY <2>4
    <3>3. at1[j] = x - 1
      BY <2>8, <3>2
    <3>4. x - 1 \in 1..(n - 1) /\ (x - 1) + 1 = x
      BY <1>1, <3>2
    <3> QED
      BY <1>4, <3>1, <3>2, <3>3, <3>4
  <2>13. Places(at1, t1, m - 1, s1, n - 1)
    BY <2>9, <2>10, <2>11, <2>12 DEF Places
  <2>14. t # << >>
    BY <1>1, <2>2, EmptySeq
  <2> QED
    BY <1>4, <2>5, <2>6, <2>13, <2>14, VisibleByPlaces
<1>7. ASSUME ~Shows(s[1])
      PROVE  IsVisiblePart(t, s1)
  <2>1. ASSUME NEW i \in 1..m
        PROVE  at[i] \in 2..n
    <3>1. at[i] # 1
      BY <1>1, <1>2, <1>7 DEF Places
    <3> QED
      BY <1>5, <3>1
  <2>2. PICK at1 : at1 = [i \in 1..m |-> at[i] - 1]
    OBVIOUS
  <2>3. \A i \in 1..m : at1[i] = at[i] - 1 /\ at1[i] \in 1..(n - 1)
    BY <2>1, <2>2
  <2>4. at1 \in [1..m -> 1..(n - 1)]
    BY <2>2, <2>3
  <2>5. ASSUME NEW i \in 1..m, NEW j \in 1..m, i < j
        PROVE  at1[i] < at1[j]
    <3>1. at[i] < at[j]
      BY <1>2, <2>5 DEF Places
    <3> QED
      BY <2>1, <2>3, <3>1
  <2>6. ASSUME NEW k \in 1..(n - 1)
        PROVE  Shows(s1[k]) <=> \E i \in 1..m : at1[i] = k
    <3>1. k + 1 \in 1..n
      BY <1>1
    <3>2. Shows(s1[k]) <=> \E i \in 1..m : at[i] = k + 1
      BY <1>2, <1>4, <3>1 DEF Places
    <3>3. \A i \in 1..m : at1[i] = k <=> at[i] = k + 1
      BY <2>1, <2>3
    <3> QED
      BY <3>2, <3>3
  <2>7. ASSUME NEW i \in 1..m
        PROVE  t[i] = s1[at1[i]]
    <3>1. t[i] = s[at[i]]
      BY <1>2 DEF Places
    <3>2. PICK x \in 2..n : x = at[i]
      BY <2>1
    <3>3. at1[i] = x - 1
      BY <2>3, <3>2
    <3>4. x - 1 \in 1..(n - 1) /\ (x - 1) + 1 = x
      BY <1>1, <3>2
    <3> QED
      BY <1>4, <3>1, <3>2, <3>3, <3>4
  <2>8. Places(at1, t, m, s1, n - 1)
    BY <2>4, <2>5, <2>6, <2>7 DEF Places
  <2> QED
    BY <1>1, <1>4, <2>8, VisibleByPlaces
<1> QED
  BY <1>3, <1>6, <1>7

\* A Backspace over a character that shows takes the last one of both.
LEMMA VisibleFront ==
    ASSUME NEW t \in Seq(Chars), NEW s \in Seq(Chars), IsVisiblePart(t, s), s # << >>,
           Shows(Last(s))
    PROVE  t # << >> /\ IsVisiblePart(Front(t), Front(s))
<1>1. PICK m \in Nat, n \in Nat : m = Len(t) /\ n = Len(s) /\ n > 0
  BY LenProperties, EmptySeq
<1>2. PICK at : Places(at, t, m, s, n)
  BY <1>1, VisibleByPlaces
<1>3. PICK s1 : s1 = Front(s)
  OBVIOUS
<1>4. Len(s1) = n - 1 /\ Last(s) = s[n] /\ \A k \in 1..(n - 1) : s1[k] = s[k]
  BY <1>1, <1>3, FrontOf
<1>5. \A i \in 1..m : at[i] \in 1..n
  BY <1>2 DEF Places
<1>6. PICK i \in 1..m : at[i] = n
  BY <1>1, <1>2, <1>4 DEF Places
<1>7. m > 0 /\ m \in 1..m
  BY <1>6
<1>8. at[m] = n
  <2>1. i < m => at[i] < at[m]
    BY <1>2, <1>7 DEF Places
  <2> QED
    BY <1>5, <1>6, <1>7, <2>1
<1>9. ASSUME NEW j \in 1..(m - 1)
      PROVE  j \in 1..m /\ at[j] \in 1..(n - 1)
  <2>1. j \in 1..m /\ j < m
    OBVIOUS
  <2>2. at[j] < at[m]
    BY <1>2, <1>7, <2>1 DEF Places
  <2> QED
    BY <1>5, <1>8, <2>1, <2>2
<1>10. PICK t1 : t1 = Front(t)
  OBVIOUS
<1>11. Len(t1) = m - 1 /\ \A j \in 1..(m - 1) : t1[j] = t[j]
  BY <1>1, <1>7, <1>10, FrontOf
<1>12. PICK at1 : at1 = [j \in 1..(m - 1) |-> at[j]]
  OBVIOUS
<1>13. at1 \in [1..(m - 1) -> 1..(n - 1)] /\ \A j \in 1..(m - 1) : at1[j] = at[j]
  BY <1>9, <1>12
<1>14. \A j, k \in 1..(m - 1) : j < k => at1[j] < at1[k]
  BY <1>2, <1>9, <1>13 DEF Places
<1>15. ASSUME NEW k \in 1..(n - 1)
       PROVE  Shows(s1[k]) <=> \E j \in 1..(m - 1) : at1[j] = k
  <2>1. k \in 1..n /\ k # n
    BY <1>1
  <2>2. Shows(s1[k]) <=> \E j \in 1..m : at[j] = k
    BY <1>2, <1>4, <2>1 DEF Places
  <2>3. \A j \in 1..m : at[j] = k => j \in 1..(m - 1)
    BY <1>8, <2>1
  <2> QED
    BY <1>9, <1>13, <2>2, <2>3
<1>16. ASSUME NEW j \in 1..(m - 1)
       PROVE  t1[j] = s1[at1[j]]
  BY <1>2, <1>4, <1>9, <1>11, <1>13 DEF Places
<1>17. Places(at1, t1, m - 1, s1, n - 1)
  BY <1>13, <1>14, <1>15, <1>16 DEF Places
<1>18. t # << >>
  BY <1>1, <1>7, EmptySeq
<1> QED
  BY <1>3, <1>4, <1>10, <1>11, <1>17, <1>18, VisibleByPlaces

\* Nothing shows of an empty queue.
LEMMA VisibleEmpty == IsVisiblePart(<< >>, << >>)
<1>1. PICK at : at = [i \in 1..0 |-> i]
  OBVIOUS
<1>2. Places(at, << >>, 0, << >>, 0)
  BY <1>1 DEF Places
<1> QED
  BY <1>2, VisibleByPlaces, EmptySeq

-----------------------------------------------------------------------------
(* The three operations on the ring are those of the queue *)

RingOK == /\ buffer \in Arrays
          /\ head \in 0..(Size - 1) /\ tail \in 0..(Size - 1) /\ count \in 0..Size
          /\ HeadFollowsTheRing

EchoOK == /\ shown \in Seq(Chars) /\ astray \in BOOLEAN
          /\ ~astray => IsVisiblePart(shown, Contents)

LEMMA ContentsIsRing == RingOK => IsRing(Contents, buffer, tail, count)
<1>1. Contents = Ring(buffer, tail, count)
  BY DEF Contents, Ring, Slot
<1> QED
  BY <1>1, RingIsRing DEF RingOK, HeadFollowsTheRing

\* Every ring the code can be in is one for which the slots from tail on are known.
LEMMA RingAfter ==
    ASSUME NEW q, IsRing(q, buffer', tail', count'),
           buffer' \in Arrays, tail' \in 0..(Size - 1), count' \in 0..Size,
           head' = (tail' + count') % Size
    PROVE  RingOK' /\ Contents' = q
<1>1. Contents' = Ring(buffer', tail', count')
  BY DEF Contents, Ring, Slot
<1>2. Contents' = q
  BY <1>1, RingIsUnique
<1>3. \A i \in 1..count' : Contents'[i] \in Chars
  BY <1>2, ElementOfSeq DEF IsRing
<1>4. head' \in 0..(Size - 1)
  BY HeadAndTail
<1> QED
  BY <1>2, <1>3, <1>4 DEF RingOK, HeadFollowsTheRing

LEMMA KeepStep ==
    ASSUME RingOK, UNCHANGED ring
    PROVE  RingOK' /\ Contents' = Contents
BY DEF RingOK, HeadFollowsTheRing, Contents, ring

LEMMA PushStep ==
    ASSUME RingOK, NEW c \in Chars, Push(c)
    PROVE  /\ RingOK' /\ Contents \in Seq(Chars)
           /\ Full => Contents' = Contents
           /\ ~Full => Len(Contents) < Size /\ Contents' = Append(Contents, c)
<1>1. PICK q : q = Contents
  OBVIOUS
<1>2. IsRing(q, buffer, tail, count)
  BY <1>1, ContentsIsRing
<1>3. q \in Seq(Chars) /\ Len(q) = count
  BY <1>2 DEF IsRing
<1>4. CASE Full
  <2>1. UNCHANGED ring
    BY <1>4 DEF Push
  <2> QED
    BY <1>1, <1>3, <1>4, <2>1, KeepStep
<1>5. CASE ~Full
  <2>1. count \in 0..(Size - 1) /\ count + 1 \in 0..Size /\ count < Size
    BY <1>5, SizeIsPositive DEF RingOK, Full
  <2>2. head = Slot(tail, count + 1) /\ (head + 1) % Size = (tail + (count + 1)) % Size
    BY <2>1, HeadAndTail DEF RingOK, HeadFollowsTheRing
  <2>3. /\ buffer' = [buffer EXCEPT ![Slot(tail, count + 1)] = c]
        /\ head' = (tail + (count + 1)) % Size
        /\ count' = count + 1 /\ tail' = tail
    BY <1>5, <2>2 DEF Push
  <2>4. IsRing(Append(q, c), buffer', tail', count')
    BY <1>2, <2>1, <2>3, RingPush DEF RingOK
  <2>5. buffer' \in Arrays
    BY <2>3 DEF RingOK, Arrays
  <2>6. tail' \in 0..(Size - 1) /\ count' \in 0..Size /\ head' = (tail' + count') % Size
    BY <2>1, <2>3 DEF RingOK
  <2>7. RingOK' /\ Contents' = Append(q, c)
    BY <2>4, <2>5, <2>6, RingAfter
  <2> QED
    BY <1>1, <1>3, <1>5, <2>1, <2>7
<1> QED
  BY <1>4, <1>5

LEMMA TakeBackStep ==
    ASSUME RingOK, CanTakeBack, TakeBack
    PROVE  /\ RingOK' /\ Contents \in Seq(Chars) /\ Contents # << >>
           /\ Last(Contents) = buffer[LastIndex]
           /\ Contents' = Front(Contents)
<1>1. PICK q : q = Contents
  OBVIOUS
<1>2. IsRing(q, buffer, tail, count)
  BY <1>1, ContentsIsRing
<1>3. q \in Seq(Chars) /\ Len(q) = count
  BY <1>2 DEF IsRing
<1>4. count \in 1..Size /\ count > 0 /\ count - 1 \in 0..Size
  BY SizeIsPositive DEF RingOK, CanTakeBack
<1>5. LastIndex = Slot(tail, count) /\ LastIndex = (tail + (count - 1)) % Size
  BY <1>4, HeadAndTail DEF RingOK, HeadFollowsTheRing, LastIndex
<1>6. IsRing(Front(q), buffer, tail, count - 1) /\ Last(q) = buffer[LastIndex]
  <2>1. tail \in 0..(Size - 1) /\ count \in 1..Size
    BY <1>4 DEF RingOK
  <2>2. IsRing(Front(q), buffer, tail, count - 1) /\ Last(q) = buffer[Slot(tail, count)]
    BY <1>2, <2>1, RingTakeBack
  <2> QED
    BY <1>5, <2>2
<1>7. /\ buffer' = buffer /\ tail' = tail /\ count' = count - 1
      /\ head' = (tail + (count - 1)) % Size
  BY <1>5 DEF TakeBack
<1>8. RingOK' /\ Contents' = Front(q)
  BY <1>4, <1>6, <1>7, RingAfter DEF RingOK
<1>9. q # << >>
  BY <1>3, <1>4, EmptySeq
<1> QED
  BY <1>1, <1>3, <1>6, <1>8, <1>9

LEMMA PopStep ==
    ASSUME RingOK, Pop
    PROVE  /\ RingOK' /\ Contents \in Seq(Chars) /\ Contents # << >>
           /\ Contents[1] = buffer[tail] /\ buffer[tail] \in Chars
           /\ Contents' = Tail(Contents)
<1>1. PICK q : q = Contents
  OBVIOUS
<1>2. IsRing(q, buffer, tail, count)
  BY <1>1, ContentsIsRing
<1>3. q \in Seq(Chars) /\ Len(q) = count
  BY <1>2 DEF IsRing
<1>4. count \in 1..Size /\ count > 0 /\ count - 1 \in 0..Size /\ 1 \in 1..count
  BY SizeIsPositive DEF RingOK, Pop
<1>5. /\ (tail + 1) % Size \in 0..(Size - 1)
      /\ (((tail + 1) % Size) + (count - 1)) % Size = head
  BY <1>4, HeadAndTail DEF RingOK, HeadFollowsTheRing
<1>6. IsRing(Tail(q), buffer, (tail + 1) % Size, count - 1) /\ q[1] = buffer[tail]
  BY <1>2, <1>4, RingPop DEF RingOK
<1>7. /\ buffer' = buffer /\ head' = head /\ count' = count - 1
      /\ tail' = (tail + 1) % Size
  BY DEF Pop
<1>8. RingOK' /\ Contents' = Tail(q)
  BY <1>4, <1>5, <1>6, <1>7, RingAfter DEF RingOK
<1>9. q # << >>
  BY <1>3, <1>4, EmptySeq
<1>10. q[1] \in Chars
  BY <1>3, <1>4, ElementOfSeq
<1> QED
  BY <1>1, <1>3, <1>6, <1>8, <1>9, <1>10

-----------------------------------------------------------------------------
(* The steps of keyboard_handle_scancode and of the pop in console_read *)

\* The keycode tables hold characters.
LEMMA AsciiIsChars ==
    ASSUME NEW key, NEW shift, scancode_to_ascii(key, shift) # NoChar
    PROVE  scancode_to_ascii(key, shift) \in Chars
<1>1. Ascii.upper \in [{"a", "l", "ENTER", "TAB", "ESC"} -> Chars]
  BY DEF Ascii, Chars, Newline
<1>2. Ascii.lower \in [{"a", "l", "ENTER", "TAB", "ESC"} -> Chars]
  BY DEF Ascii, Chars, Newline
<1> QED
  BY <1>1, <1>2, Zenon DEF scancode_to_ascii

\* What the queue of InputQueue allows.
QueueStep == [Q!Next]_Contents

\* Pushing a character and echoing it if it shows, as a key does; with a full
\* ring neither happens.
LEMMA TypeStep ==
    ASSUME RingOK, EchoOK, NEW c \in Chars, Push(c), UNCHANGED astray,
           shown' = IF ~Full /\ Shows(c) /\ ~astray THEN Append(shown, c) ELSE shown
    PROVE  RingOK' /\ EchoOK' /\ QueueStep
<1>1. /\ RingOK' /\ Contents \in Seq(Chars)
      /\ Full => Contents' = Contents
      /\ ~Full => Len(Contents) < Size /\ Contents' = Append(Contents, c)
  BY PushStep
<1>2. shown' \in Seq(Chars) /\ astray' \in BOOLEAN
  BY AppendProperties DEF EchoOK
<1>3. ASSUME ~astray'
      PROVE  IsVisiblePart(shown', Contents')
  <2>1. IsVisiblePart(shown, Contents) /\ shown \in Seq(Chars) /\ ~astray
    BY <1>3 DEF EchoOK
  <2> QED
    BY <1>1, <2>1, VisibleAppend
<1>4. QueueStep
  BY <1>1 DEF QueueStep, Q!Next, Q!Typed
<1> QED
  BY <1>1, <1>2, <1>3, <1>4 DEF EchoOK

\* An arrow is pushed and does not show.
LEMMA ArrowStep ==
    ASSUME RingOK, EchoOK, NEW c \in Arrows, Push(c), UNCHANGED <<shown, astray>>
    PROVE  RingOK' /\ EchoOK' /\ QueueStep
<1>1. c \in Chars /\ ~Shows(c)
  BY DEF Chars, Shows
<1> QED
  BY <1>1, TypeStep

LEMMA NothingStep ==
    ASSUME RingOK, EchoOK, UNCHANGED <<ring, shown, astray>>
    PROVE  RingOK' /\ EchoOK' /\ QueueStep
<1>1. RingOK' /\ Contents' = Contents
  BY KeepStep
<1> QED
  BY <1>1 DEF EchoOK, QueueStep

LEMMA EraseStep ==
    ASSUME RingOK, EchoOK, CanTakeBack, TakeBack, EchoErase
    PROVE  RingOK' /\ EchoOK' /\ QueueStep
<1>1. /\ RingOK' /\ Contents \in Seq(Chars) /\ Contents # << >>
      /\ Last(Contents) = buffer[LastIndex]
      /\ Contents' = Front(Contents)
  BY TakeBackStep
<1>2. QueueStep
  BY <1>1 DEF QueueStep, Q!Next, Q!TakenBack, Q!Last, Q!Front, Last, Front, CanTakeBack
<1>3. astray' \in BOOLEAN
  BY DEF EchoErase
<1>4. CASE astray'
  <2>1. shown' = << >>
    BY <1>4 DEF EchoErase
  <2>2. shown' \in Seq(Chars)
    BY <2>1, EmptySeq
  <2> QED
    BY <1>1, <1>2, <1>3, <1>4, <2>2 DEF EchoOK
<1>5. CASE ~astray'
  <2>1. ~astray /\ Shows(buffer[LastIndex]) /\ shown' = Front(shown)
    BY <1>5 DEF EchoErase
  <2>2. shown \in Seq(Chars) /\ IsVisiblePart(shown, Contents)
    BY <2>1 DEF EchoOK
  <2>3. shown # << >> /\ IsVisiblePart(Front(shown), Front(Contents))
    BY <1>1, <2>1, <2>2, VisibleFront
  <2>4. Front(shown) \in Seq(Chars)
    BY <2>2, <2>3, LenProperties, EmptySeq, FrontOf
  <2> QED
    BY <1>1, <1>2, <1>3, <2>1, <2>3, <2>4 DEF EchoOK
<1> QED
  BY <1>4, <1>5

LEMMA ReadStep ==
    ASSUME RingOK, EchoOK, Pop, UNCHANGED astray,
           shown' = IF Shows(buffer[tail]) /\ ~astray THEN Tail(shown) ELSE shown
    PROVE  RingOK' /\ EchoOK' /\ QueueStep
<1>1. /\ RingOK' /\ Contents \in Seq(Chars) /\ Contents # << >>
      /\ Contents[1] = buffer[tail]
      /\ Contents' = Tail(Contents)
  BY PopStep
<1>2. QueueStep
  BY <1>1 DEF QueueStep, Q!Next, Q!Read
<1>3. CASE Shows(buffer[tail]) /\ ~astray
  <2>1. shown \in Seq(Chars) /\ IsVisiblePart(shown, Contents)
    BY <1>3 DEF EchoOK
  <2>2. shown # << >> /\ IsVisiblePart(Tail(shown), Tail(Contents))
    BY <1>1, <1>3, <2>1, VisibleTail
  <2>3. Tail(shown) \in Seq(Chars)
    BY <2>1, <2>2, LenProperties, EmptySeq, TailOf
  <2> QED
    BY <1>1, <1>2, <1>3, <2>2, <2>3 DEF EchoOK
<1>4. CASE ~(Shows(buffer[tail]) /\ ~astray)
  <2>1. shown' = shown /\ shown \in Seq(Chars) /\ astray' \in BOOLEAN
    BY <1>4 DEF EchoOK
  <2>2. ASSUME ~astray'
        PROVE  IsVisiblePart(shown', Contents')
    <3>1. ~Shows(buffer[tail]) /\ IsVisiblePart(shown, Contents)
      BY <1>4, <2>2 DEF EchoOK
    <3> QED
      BY <1>1, <2>1, <3>1, VisibleTail
  <2> QED
    BY <1>1, <1>2, <2>1, <2>2 DEF EchoOK
<1> QED
  BY <1>3, <1>4

-----------------------------------------------------------------------------
(* The invariant, by the parts of the state it is about *)

FlagsOK == /\ keys \in KeySets
           /\ shift_pressed \in BOOLEAN /\ ctrl_pressed \in BOOLEAN
           /\ caps_lock \in BOOLEAN /\ extended_key \in BOOLEAN

PCs == {"idle", "pop", "halting", "halted"}

ReadersOK == /\ pc \in [Readers -> PCs] /\ asked \in [Readers -> Nat]
             /\ dst \in [Readers -> Seq(Chars)]
             /\ ReadsReturnLines /\ ReadsInProgress

LEMMA InvParts == Inv <=> FlagsOK /\ RingOK /\ EchoOK /\ ReadersOK
<1>1. TypeOK <=> /\ FlagsOK
                 /\ buffer \in Arrays
                 /\ head \in 0..(Size - 1) /\ tail \in 0..(Size - 1) /\ count \in 0..Size
                 /\ pc \in [Readers -> PCs] /\ asked \in [Readers -> Nat]
                 /\ dst \in [Readers -> Seq(Chars)]
                 /\ shown \in Seq(Chars) /\ astray \in BOOLEAN
  BY DEF TypeOK, FlagsOK, Arrays, PCs
<1> QED
  BY <1>1, Zenon DEF Inv, EchoIsWhatIsRead, RingOK, EchoOK, ReadersOK

\* One reader's part of ReadersOK, over what it consists of.
ReadOK(p, n, d) ==
    /\ p \in PCs /\ n \in Nat /\ d \in Seq(Chars)
    /\ Len(d) <= n
    /\ \A i \in 1..Len(d) : d[i] \notin Arrows
    /\ \A i \in 1..Len(d) : d[i] = Newline => i = Len(d) /\ p = "idle"
    /\ p # "idle" => Len(d) < n /\ \A i \in 1..Len(d) : d[i] # Newline

LEMMA ReadersOne ==
    ReadersOK => /\ pc \in [Readers -> PCs] /\ asked \in [Readers -> Nat]
                 /\ dst \in [Readers -> Seq(Chars)]
                 /\ \A r \in Readers : ReadOK(pc[r], asked[r], dst[r])
<1>1. ASSUME ReadersOK, NEW r \in Readers
      PROVE  ReadOK(pc[r], asked[r], dst[r])
  BY <1>1 DEF ReadersOK, ReadOK, ReadsReturnLines, ReadsInProgress
<1> QED
  BY <1>1 DEF ReadersOK

LEMMA ReadersAfter ==
    ASSUME pc' \in [Readers -> PCs], asked' \in [Readers -> Nat],
           dst' \in [Readers -> Seq(Chars)],
           \A r \in Readers : ReadOK(pc'[r], asked'[r], dst'[r])
    PROVE  ReadersOK'
BY DEF ReadersOK, ReadOK, ReadsReturnLines, ReadsInProgress

\* A reader that goes on, or wakes, inside console_read.
LEMMA ReadGoesOn ==
    ASSUME NEW p, NEW n, NEW d, ReadOK(p, n, d), p # "idle", NEW p1 \in PCs
    PROVE  ReadOK(p1, n, d)
BY DEF ReadOK

\* A reader that takes a character other than an arrow, and stays only if there
\* is room and the line goes on.
LEMMA ReadTakes ==
    ASSUME NEW p, NEW n, NEW d, ReadOK(p, n, d), p # "idle",
           NEW c \in Chars, c \notin Arrows,
           NEW p1, p1 = IF c = Newline \/ Len(Append(d, c)) = n THEN "idle" ELSE p
    PROVE  ReadOK(p1, n, Append(d, c))
<1>1. PICK e : e = Append(d, c)
  OBVIOUS
<1>2. PICK m \in Nat : m = Len(d)
  BY LenProperties DEF ReadOK
<1>3. /\ e \in Seq(Chars) /\ Len(e) = m + 1 /\ e[m + 1] = c
      /\ \A i \in 1..m : e[i] = d[i]
  BY <1>1, <1>2, AppendProperties DEF ReadOK
<1>4. m < n /\ n \in Nat /\ \A i \in 1..m : d[i] # Newline /\ d[i] \notin Arrows
  BY <1>1, <1>2 DEF ReadOK
<1>5. \A i \in 1..(m + 1) : i = m + 1 \/ i \in 1..m
  BY <1>2
<1>6. \A i \in 1..(m + 1) : e[i] \notin Arrows /\ (e[i] = Newline => i = m + 1 /\ c = Newline)
  BY <1>3, <1>4, <1>5
<1>7. p1 \in PCs
  BY DEF ReadOK, PCs
<1>8. m + 1 <= n /\ (m + 1 # n => m + 1 < n)
  BY <1>1, <1>2, <1>4
<1>9. p1 = IF c = Newline \/ m + 1 = n THEN "idle" ELSE p
  BY <1>1, <1>2, <1>3
<1>10. p1 # "idle" => m + 1 < n /\ c # Newline
  BY <1>8, <1>9
<1>11. c = Newline => p1 = "idle"
  BY <1>9
<1> QED
  BY <1>1, <1>2, <1>3, <1>4, <1>6, <1>7, <1>8, <1>10, <1>11 DEF ReadOK

LEMMA WakeStep ==
    ASSUME ReadersOK, WakeReaders, UNCHANGED <<asked, dst>>
    PROVE  ReadersOK'
<1>1. /\ pc \in [Readers -> PCs] /\ asked \in [Readers -> Nat]
      /\ dst \in [Readers -> Seq(Chars)]
      /\ \A r \in Readers : ReadOK(pc[r], asked[r], dst[r])
  BY ReadersOne
<1>2. pc' \in [Readers -> PCs]
  BY <1>1 DEF WakeReaders, PCs
<1>3. ASSUME NEW r \in Readers
      PROVE  ReadOK(pc'[r], asked'[r], dst'[r])
  <2>1. CASE pc[r] = "halted"
    <3>1. pc'[r] = "pop" /\ "pop" \in PCs /\ pc[r] # "idle"
      BY <2>1 DEF WakeReaders, PCs
    <3> QED
      BY <1>1, <3>1, ReadGoesOn
  <2>2. CASE pc[r] # "halted"
    BY <1>1, <2>2 DEF WakeReaders
  <2> QED
    BY <2>1, <2>2
<1>4. asked' \in [Readers -> Nat] /\ dst' \in [Readers -> Seq(Chars)]
  BY <1>1
<1> QED
  BY <1>2, <1>3, <1>4, ReadersAfter

LEMMA ReadCallStep ==
    ASSUME ReadersOK, NEW r \in Readers, NEW n \in Counts, ReadCall(r, n)
    PROVE  ReadersOK'
<1>1. /\ pc \in [Readers -> PCs] /\ asked \in [Readers -> Nat]
      /\ dst \in [Readers -> Seq(Chars)]
      /\ \A s \in Readers : ReadOK(pc[s], asked[s], dst[s])
  BY ReadersOne
<1>2. pc' \in [Readers -> PCs] /\ asked' \in [Readers -> Nat] /\ n \in Nat /\ n > 0
  BY <1>1, CountsAssumption DEF ReadCall, PCs
<1>3. ReadOK("pop", n, << >>)
  BY <1>2, EmptySeq DEF ReadOK, PCs
<1>4. ASSUME NEW s \in Readers
      PROVE  ReadOK(pc'[s], asked'[s], dst'[s])
  BY <1>1, <1>3 DEF ReadCall
<1>5. dst' \in [Readers -> Seq(Chars)]
  BY <1>1, EmptySeq DEF ReadCall
<1> QED
  BY <1>2, <1>4, <1>5, ReadersAfter

LEMMA ReadPopStep ==
    ASSUME ReadersOK, NEW r \in Readers, ReadPop(r), buffer[tail] \in Chars
    PROVE  ReadersOK'
<1>1. /\ pc \in [Readers -> PCs] /\ asked \in [Readers -> Nat]
      /\ dst \in [Readers -> Seq(Chars)]
      /\ \A s \in Readers : ReadOK(pc[s], asked[s], dst[s])
  BY ReadersOne
<1>2. PICK c \in Chars : c = buffer[tail]
  OBVIOUS
<1>3. PICK got : got = IF c \in Arrows THEN dst[r] ELSE Append(dst[r], c)
  OBVIOUS
<1>4. /\ pc[r] = "pop" /\ asked' = asked /\ dst' = [dst EXCEPT ![r] = got]
      /\ pc' = IF c = Newline \/ Len(got) = asked[r]
               THEN [pc EXCEPT ![r] = "idle"] ELSE pc
  BY <1>2, <1>3 DEF ReadPop
<1>5. pc' \in [Readers -> PCs] /\ asked' \in [Readers -> Nat]
  BY <1>1, <1>4 DEF PCs
<1>6. \A s \in Readers \ {r} : ReadOK(pc'[s], asked'[s], dst'[s])
  BY <1>1, <1>4
<1>7. pc'[r] = IF c = Newline \/ Len(got) = asked[r] THEN "idle" ELSE pc[r]
  BY <1>1, <1>4
<1>8. ReadOK(pc'[r], asked[r], got)
  <2>1. CASE c \in Arrows
    <3>1. got = dst[r] /\ pc'[r] \in PCs /\ pc[r] # "idle"
      BY <1>3, <1>4, <1>5, <2>1
    <3> QED
      BY <1>1, <3>1, ReadGoesOn
  <2>2. CASE c \notin Arrows
    <3>1. got = Append(dst[r], c) /\ pc[r] # "idle"
      BY <1>3, <1>4, <2>2
    <3> QED
      BY <1>1, <1>7, <2>2, <3>1, ReadTakes
  <2> QED
    BY <2>1, <2>2
<1>9. got \in Seq(Chars)
  BY <1>8 DEF ReadOK
<1>10. dst' \in [Readers -> Seq(Chars)] /\ dst'[r] = got
  BY <1>1, <1>4, <1>9
<1> QED
  BY <1>4, <1>5, <1>6, <1>8, <1>10, ReadersAfter

-----------------------------------------------------------------------------
(* The invariant is inductive *)

LEMMA InitInv == Init => Inv
<1> SUFFICES ASSUME Init PROVE Inv
  OBVIOUS
<1>1. FlagsOK
  BY DEF Init, FlagsOK
<1>2. Contents = << >> /\ RingOK
  <2>1. IsRing(<< >>, buffer, tail, 0)
    BY EmptySeq DEF IsRing
  <2>2. Contents = << >>
    BY <2>1, RingIsUnique, SizeIsPositive DEF Init, Contents, Ring, Slot
  <2>3. buffer \in Arrays /\ 0 \in 0..(Size - 1) /\ 0 \in 0..Size /\ (0 + 0) % Size = 0
    BY SizeIsPositive DEF Init, Arrays
  <2> QED
    BY <2>2, <2>3 DEF Init, RingOK, HeadFollowsTheRing
<1>3. EchoOK
  BY <1>2, VisibleEmpty, EmptySeq DEF Init, EchoOK
<1>4. ReadersOK
  BY EmptySeq DEF Init, ReadersOK, ReadsReturnLines, ReadsInProgress, PCs
<1> QED
  BY <1>1, <1>2, <1>3, <1>4, InvParts

\* What one interrupt of the keyboard does to the queue and its echo.
LEMMA ScancodeStep ==
    ASSUME RingOK, EchoOK, FlagsOK, keyboard_handle_scancode
    PROVE  RingOK' /\ EchoOK' /\ QueueStep /\ FlagsOK' /\ Irq1
<1>1. CASE Prefix
  BY <1>1, NothingStep DEF Prefix, Irq1, FlagsOK
<1>2. ASSUME NEW key \in keys, NEW release \in BOOLEAN, ExtendedKey(key, release)
      PROVE  RingOK' /\ EchoOK' /\ QueueStep /\ FlagsOK' /\ Irq1
  <2>1. FlagsOK' /\ Irq1
    BY <1>2 DEF ExtendedKey, Irq1, FlagsOK
  <2>2. UNCHANGED <<shown, astray>>
    BY <1>2 DEF ExtendedKey
  <2>3. CASE ~release /\ key \in Arrows
    BY <1>2, <2>1, <2>2, <2>3, ArrowStep DEF ExtendedKey
  <2>4. CASE ~(~release /\ key \in Arrows)
    BY <1>2, <2>1, <2>2, <2>4, NothingStep DEF ExtendedKey
  <2> QED
    BY <2>3, <2>4
<1>3. ASSUME NEW key \in keys, NEW release \in BOOLEAN, ModifierKey(key, release)
      PROVE  RingOK' /\ EchoOK' /\ QueueStep /\ FlagsOK' /\ Irq1
  <2>1. FlagsOK' /\ Irq1
    BY <1>3 DEF ModifierKey, Irq1, FlagsOK
  <2> QED
    BY <1>3, <2>1, NothingStep DEF ModifierKey
<1>4. CASE Backspace
  <2>1. FlagsOK' /\ Irq1
    BY <1>4 DEF Backspace, Irq1, FlagsOK, modifiers
  <2>2. CASE CanTakeBack
    BY <1>4, <2>1, <2>2, EraseStep DEF Backspace
  <2>3. CASE ~CanTakeBack
    BY <1>4, <2>1, <2>3, NothingStep DEF Backspace
  <2> QED
    BY <2>2, <2>3
<1>5. ASSUME NEW key \in keys, CharKey(key)
      PROVE  RingOK' /\ EchoOK' /\ QueueStep /\ FlagsOK' /\ Irq1
  <2>1. PICK c : c = scancode_to_ascii(key, shift_pressed)
    OBVIOUS
  <2>2. FlagsOK' /\ Irq1 /\ UNCHANGED astray
    BY <1>5 DEF CharKey, Irq1, FlagsOK, modifiers
  <2>3. CASE c = NoChar \/ (ctrl_pressed /\ c \in {"l", "L"})
    BY <1>5, <2>1, <2>2, <2>3, NothingStep DEF CharKey
  <2>4. CASE ~(c = NoChar \/ (ctrl_pressed /\ c \in {"l", "L"}))
    <3>1. c \in Chars
      BY <2>1, <2>4, AsciiIsChars
    <3>2. /\ Push(c)
          /\ shown' = IF ~Full /\ Shows(c) /\ ~astray THEN Append(shown, c) ELSE shown
      BY <1>5, <2>1, <2>4 DEF CharKey
    <3> QED
      BY <2>2, <3>1, <3>2, TypeStep
  <2> QED
    BY <2>3, <2>4
<1>6. ASSUME NEW key \in keys, IgnoredRelease(key)
      PROVE  RingOK' /\ EchoOK' /\ QueueStep /\ FlagsOK' /\ Irq1
  <2>1. FlagsOK' /\ Irq1
    BY <1>6 DEF IgnoredRelease, Irq1, FlagsOK, modifiers
  <2> QED
    BY <1>6, <2>1, NothingStep DEF IgnoredRelease
<1> QED
  BY <1>1, <1>2, <1>3, <1>4, <1>5, <1>6 DEF keyboard_handle_scancode

\* The flags belong to the interrupt handler.
LEMMA FlagsKept ==
    ASSUME FlagsOK, UNCHANGED keys, UNCHANGED modifiers
    PROVE  FlagsOK'
BY DEF FlagsOK, modifiers

LEMMA NextInv == Inv /\ [Next]_vars => Inv' /\ QueueStep
<1> SUFFICES ASSUME Inv, [Next]_vars
             PROVE  FlagsOK' /\ RingOK' /\ EchoOK' /\ ReadersOK' /\ QueueStep
  BY DEF Inv, EchoIsWhatIsRead, TypeOK, FlagsOK, RingOK, EchoOK, ReadersOK, Arrays, PCs
<1>1. FlagsOK /\ RingOK /\ EchoOK /\ ReadersOK
  BY InvParts
<1>2. CASE keyboard_handle_scancode
  <2>1. RingOK' /\ EchoOK' /\ QueueStep /\ FlagsOK' /\ Irq1
    BY <1>1, <1>2, ScancodeStep
  <2>2. ReadersOK'
    BY <1>1, <2>1, WakeStep DEF Irq1
  <2> QED
    BY <2>1, <2>2
<1>3. CASE TimerInterrupt
  <2>1. ReadersOK'
    BY <1>1, <1>3, WakeStep DEF TimerInterrupt
  <2> QED
    BY <1>1, <1>3, <2>1, FlagsKept, NothingStep DEF TimerInterrupt
<1>4. ASSUME NEW r \in Readers, ReadPop(r)
      PROVE  FlagsOK' /\ RingOK' /\ EchoOK' /\ ReadersOK' /\ QueueStep
  <2>1. RingOK' /\ EchoOK' /\ QueueStep
    BY <1>1, <1>4, ReadStep DEF ReadPop
  <2>2. buffer[tail] \in Chars
    BY <1>1, <1>4, PopStep DEF ReadPop
  <2>3. ReadersOK'
    BY <1>1, <1>4, <2>2, ReadPopStep
  <2>4. FlagsOK'
    BY <1>1, <1>4, FlagsKept DEF ReadPop
  <2> QED
    BY <2>1, <2>3, <2>4
<1>5. ASSUME NEW r \in Readers, ReadEmpty(r) \/ ReadHalt(r)
      PROVE  FlagsOK' /\ RingOK' /\ EchoOK' /\ ReadersOK' /\ QueueStep
  <2>1. PICK p1 \in PCs : pc' = [pc EXCEPT ![r] = p1]
    BY <1>5 DEF ReadEmpty, ReadHalt, PCs
  <2>2. pc[r] # "idle" /\ UNCHANGED <<asked, dst>>
    BY <1>5 DEF ReadEmpty, ReadHalt
  <2>3. /\ pc \in [Readers -> PCs] /\ asked \in [Readers -> Nat]
        /\ dst \in [Readers -> Seq(Chars)]
        /\ \A s \in Readers : ReadOK(pc[s], asked[s], dst[s])
    BY <1>1, ReadersOne
  <2>4. pc' \in [Readers -> PCs] /\ pc'[r] = p1 /\ \A s \in Readers \ {r} : pc'[s] = pc[s]
    BY <2>1, <2>3
  <2>5. ReadOK(p1, asked[r], dst[r])
    BY <2>2, <2>3, ReadGoesOn
  <2>6. ReadersOK'
    BY <2>2, <2>3, <2>4, <2>5, ReadersAfter
  <2>7. UNCHANGED <<keys, ring, modifiers, shown, astray>>
    BY <1>5 DEF ReadEmpty, ReadHalt
  <2> QED
    BY <1>1, <2>6, <2>7, FlagsKept, NothingStep
<1>6. ASSUME NEW r \in Readers, NEW n \in Counts, ReadCall(r, n)
      PROVE  FlagsOK' /\ RingOK' /\ EchoOK' /\ ReadersOK' /\ QueueStep
  <2>1. ReadersOK'
    BY <1>1, <1>6, ReadCallStep
  <2> QED
    BY <1>1, <1>6, <2>1, FlagsKept, NothingStep DEF ReadCall
<1>7. CASE UNCHANGED vars
  <2>1. ReadersOK'
    BY <1>1, <1>7 DEF vars, readers, ReadersOK, ReadsReturnLines, ReadsInProgress
  <2> QED
    BY <1>1, <1>7, <2>1, FlagsKept, NothingStep DEF vars
<1> QED
  BY <1>2, <1>3, <1>4, <1>5, <1>6, <1>7 DEF Next, Reader

LEMMA InvHolds == Spec => []Inv
BY InitInv, NextInv, PTL DEF Spec

-----------------------------------------------------------------------------
(* What the component guarantees *)

\* Whatever is typed, taken back and read, and however often the ring wraps or
\* overflows: a character stands on the screen unread if and only if a later
\* console_read will return it (keyboard_handle_scancode).
THEOREM EchoCorrect == Spec => []EchoIsWhatIsRead
<1>1. Inv => EchoIsWhatIsRead
  BY DEF Inv
<1> QED
  BY <1>1, InvHolds, PTL

\* However many processes read the console at once, each gets at most what it
\* asked for, no arrow codes and nothing behind the end of a line (console_read).
THEOREM ReadsCorrect == Spec => []ReadsReturnLines
<1>1. Inv => ReadsReturnLines
  BY DEF Inv
<1> QED
  BY <1>1, InvHolds, PTL

\* The ring of keyboard.c, of any size, implements the bounded queue of
\* InputQueue: every step of the system is a step of the queue or leaves it alone.
THEOREM RingRefinesQueue == Spec => RingIsAQueue
<1>1. Init => Q!Init
  <2> SUFFICES ASSUME Init PROVE Contents = << >>
    BY DEF Q!Init
  <2>1. IsRing(<< >>, buffer, tail, 0)
    BY EmptySeq DEF IsRing
  <2> QED
    BY <2>1, RingIsUnique, SizeIsPositive DEF Init, Contents, Ring, Slot
<1>2. Inv /\ [Next]_vars => [Q!Next]_Contents
  BY NextInv DEF QueueStep
<1> QED
  BY <1>1, <1>2, InvHolds, PTL DEF Spec, RingIsAQueue, Q!Spec
=============================================================================
