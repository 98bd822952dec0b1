---------------------------- MODULE KheapProofs ----------------------------
(***************************************************************************)
(* Proofs about the kernel heap, for any set of processes, any request     *)
(* sizes and any heap size.  The inductive invariant Inv adds to the       *)
(* properties of Kheap who owns each used block (Ownership), and how far   *)
(* the two list walks have come (ScanProgress, SweepProgress).             *)
(***************************************************************************)
EXTENDS Kheap, TLAPS

\* Headers claimed by process p: its allocations, the block kmalloc is about to
\* return to it and the block it has handed to kfree but not yet marked free.
Claims(p) ==
    {h.ptr : h \in held[p]}
        \cup (IF pc[p] \in {"found", "kfree"} THEN {cur[p]} ELSE {})

\* Every used block has one claimant, and claimed blocks are used and large
\* enough for what was asked.
Ownership ==
    /\ \A p \in Procs : \A b \in Claims(p) : b \in DOMAIN blk /\ ~blk[b].free
    /\ \A b \in DOMAIN blk : ~blk[b].free => \E p \in Procs : b \in Claims(p)
    /\ \A p, q \in Procs : p # q => Claims(p) \cap Claims(q) = {}
    /\ \A p \in Procs : \A h, g \in held[p] : h.ptr = g.ptr => h = g
    /\ \A p \in Procs : pc[p] \in {"found", "kfree"} =>
          \A h \in held[p] : h.ptr # cur[p]
    /\ \A p \in Procs : \A h \in held[p] : h.len <= blk[h.ptr].size
    /\ \A p \in Procs : pc[p] = "found" => want[p] <= blk[cur[p]].size

\* kmalloc has passed only blocks that do not fit.
ScanProgress ==
    \A p \in Procs : pc[p] = "scan" =>
        /\ cur[p] \in DOMAIN blk \cup {NULL}
        /\ \A b \in DOMAIN blk :
              cur[p] = NULL \/ b < cur[p] => ~Fits(b, align16(want[p]))

\* No two free neighbours, except ahead of a sweep in progress.
SweepProgress ==
    /\ \A p \in Procs : pc[p] = "coalesce" => cur[p] \in DOMAIN blk
    /\ \A b \in DOMAIN blk :
          \/ blk[b].next = NULL
          \/ ~BothFree(b)
          \/ \E p \in Procs : pc[p] = "coalesce" /\ cur[p] <= b

Inv == /\ TypeOK
       /\ LockIsExclusive
       /\ BlocksTileTheHeap
       /\ Ownership
       /\ ScanProgress
       /\ SweepProgress

-----------------------------------------------------------------------------

\* align16 never asks for less than the caller did.
LEMMA AlignRoundsUp ==
    ASSUME NEW n \in Nat
    PROVE  align16(n) \in Nat /\ n <= align16(n)
BY DEF align16, Align

LEMMA InitInv == Init => Inv
<1> SUFFICES ASSUME Init PROVE Inv
  OBVIOUS
<1> USE HeapSizeAssumption DEF Init, HeaderSize, kheap_head, NULL
<1>1. TypeOK
  <2>1. HeapSize - HeaderSize \in Nat
    BY HeapSizeAssumption
  <2>2. blk \in [DOMAIN blk -> Header] /\ DOMAIN blk \subseteq Nat
    BY <2>1 DEF Header
  <2> QED
    BY <2>2 DEF TypeOK, Allocation, Locations
<1>2. LockIsExclusive
  BY DEF LockIsExclusive, Critical
<1>3. BlocksTileTheHeap
  BY DEF BlocksTileTheHeap, EndOf, Payload
<1>4. Ownership
  BY DEF Ownership, Claims
<1>5. ScanProgress /\ SweepProgress
  BY DEF ScanProgress, SweepProgress
<1> QED
  BY <1>1, <1>2, <1>3, <1>4, <1>5 DEF Inv

\* The steps that leave the list alone keep it tiled.
LEMMA UnchangedTiling == BlocksTileTheHeap /\ UNCHANGED blk => BlocksTileTheHeap'
BY DEF BlocksTileTheHeap, EndOf, Payload

LEMMA KmallocInv ==
    ASSUME Inv, NEW p \in Procs, NEW n \in Sizes, Kmalloc(p, n)
    PROVE  Inv'
<1> USE DEF Inv
<1>1. TypeOK'
  BY SizesAssumption DEF TypeOK, Kmalloc, Locations
<1>2. LockIsExclusive'
  BY DEF TypeOK, LockIsExclusive, Critical, Kmalloc
<1>3. BlocksTileTheHeap'
  BY UnchangedTiling DEF Kmalloc
<1>4. Ownership'
  <2>1. \A q \in Procs : Claims(q)' = Claims(q)
    BY DEF TypeOK, Claims, Kmalloc
  <2> QED
    BY <2>1 DEF TypeOK, Ownership, Kmalloc
<1>5. ScanProgress'
  BY DEF TypeOK, ScanProgress, Fits, Kmalloc
<1>6. SweepProgress'
  BY DEF TypeOK, SweepProgress, BothFree, Kmalloc
<1> QED
  BY <1>1, <1>2, <1>3, <1>4, <1>5, <1>6

LEMMA KmallocLockInv ==
    ASSUME Inv, NEW p \in Procs, KmallocLock(p)
    PROVE  Inv'
<1> USE DEF Inv
<1>1. TypeOK'
  BY DEF TypeOK, KmallocLock, Acquire, Locations, kheap_head
<1>2. LockIsExclusive'
  BY DEF TypeOK, LockIsExclusive, Critical, KmallocLock, Acquire
<1>3. BlocksTileTheHeap'
  BY UnchangedTiling DEF KmallocLock
<1>4. Ownership'
  <2>1. \A q \in Procs : Claims(q)' = Claims(q)
    BY DEF TypeOK, Claims, KmallocLock
  <2> QED
    BY <2>1 DEF TypeOK, Ownership, KmallocLock
<1>5. ScanProgress'
  BY DEF TypeOK, ScanProgress, Fits, KmallocLock, kheap_head, NULL, BlocksTileTheHeap
<1>6. SweepProgress'
  BY DEF TypeOK, SweepProgress, BothFree, KmallocLock
<1> QED
  BY <1>1, <1>2, <1>3, <1>4, <1>5, <1>6

LEMMA KmallocAdvanceInv ==
    ASSUME Inv, NEW p \in Procs, KmallocAdvance(p)
    PROVE  Inv'
<1> USE DEF Inv
<1>0. cur[p] \in DOMAIN blk /\ blk[cur[p]] \in Header /\ pc[p] = "scan"
  BY DEF ScanProgress, KmallocAdvance, TypeOK
<1>1. TypeOK'
  BY <1>0 DEF TypeOK, KmallocAdvance, Header
<1>2. LockIsExclusive'
  BY DEF LockIsExclusive, KmallocAdvance
<1>3. BlocksTileTheHeap'
  BY UnchangedTiling DEF KmallocAdvance
<1>4. Ownership'
  <2>1. \A q \in Procs : Claims(q)' = Claims(q)
    BY <1>0 DEF TypeOK, Claims, KmallocAdvance
  <2> QED
    BY <1>0, <2>1 DEF TypeOK, Ownership, KmallocAdvance
<1>5. ScanProgress'
  <2>1. \A b \in DOMAIN blk : blk[cur[p]].next = NULL => b <= cur[p]
    <3> SUFFICES ASSUME NEW b \in DOMAIN blk, blk[cur[p]].next = NULL, cur[p] < b
                 PROVE  FALSE
      BY <1>0 DEF TypeOK
    <3>1. EndOf(cur[p]) = HeapSize /\ HeapSize <= b
      BY <1>0 DEF BlocksTileTheHeap
    <3>2. blk[b] \in Header /\ b \in Nat
      BY DEF TypeOK
    <3>3. EndOf(b) > b
      BY <3>2 DEF EndOf, Payload, HeaderSize, Header
    <3>4. EndOf(b) <= HeapSize
      BY DEF BlocksTileTheHeap
    <3> QED
      BY <3>1, <3>2, <3>3, <3>4, HeapSizeAssumption DEF EndOf, Payload, HeaderSize, Header
  <2>2. \A b \in DOMAIN blk : blk[cur[p]].next # NULL /\ b < blk[cur[p]].next => b <= cur[p]
    BY <1>0 DEF BlocksTileTheHeap, TypeOK
  <2> QED
    BY <1>0, <2>1, <2>2 DEF TypeOK, BlocksTileTheHeap, ScanProgress, Fits, KmallocAdvance
<1>6. SweepProgress'
  BY <1>0 DEF TypeOK, SweepProgress, BothFree, KmallocAdvance
<1> QED
  BY <1>1, <1>2, <1>3, <1>4, <1>5, <1>6

LEMMA KmallocReturnInv ==
    ASSUME Inv, NEW p \in Procs, KmallocReturn(p)
    PROVE  Inv'
<1> USE DEF Inv, Return, Release
<1>0. pc[p] = "found" /\ cur[p] \in DOMAIN blk /\ cur[p] \in Nat /\ want[p] \in Nat
  BY DEF Ownership, KmallocReturn, TypeOK, Claims
<1> DEFINE h0 == [ptr |-> cur[p], len |-> want[p]]
<1>h. h0 \in Allocation /\ h0.ptr = cur[p] /\ h0.len = want[p]
  BY <1>0 DEF Allocation
<1>g. /\ held' = [held EXCEPT ![p] = @ \cup {h0}]
      /\ pc' = [pc EXCEPT ![p] = "idle"] /\ cur' = [cur EXCEPT ![p] = NULL]
      /\ want' = [want EXCEPT ![p] = 0] /\ locked' = FALSE /\ blk' = blk
  BY DEF KmallocReturn
<1> HIDE DEF h0
<1>1. TypeOK'
  BY <1>h, <1>g DEF TypeOK, Locations
<1>2. LockIsExclusive'
  BY <1>0, <1>g DEF TypeOK, LockIsExclusive, Critical
<1>3. BlocksTileTheHeap'
  BY UnchangedTiling DEF KmallocReturn
<1>4. Ownership'
  <2>1. \A q \in Procs : Claims(q)' = Claims(q)
    BY <1>0, <1>h, <1>g DEF TypeOK, Claims
  <2>2. \A q \in Procs \ {p} : held'[q] = held[q] /\ pc'[q] = pc[q] /\ cur'[q] = cur[q] /\ want'[q] = want[q]
    BY <1>g DEF TypeOK
  <2>3. held'[p] = held[p] \cup {h0} /\ pc'[p] = "idle"
    BY <1>g DEF TypeOK
  <2>4. \A q \in Procs : \A h, g \in held'[q] : h.ptr = g.ptr => h = g
    BY <1>0, <1>h, <2>2, <2>3 DEF Ownership
  <2>5. \A q \in Procs : \A h \in held'[q] : h.len <= blk[h.ptr].size
    BY <1>0, <1>h, <2>2, <2>3 DEF Ownership
  <2> QED
    BY <1>g, <2>1, <2>2, <2>3, <2>4, <2>5 DEF Ownership
<1>5. ScanProgress'
  BY <1>g DEF TypeOK, ScanProgress, Fits
<1>6. SweepProgress'
  BY <1>0, <1>g DEF TypeOK, SweepProgress, BothFree
<1> QED
  BY <1>1, <1>2, <1>3, <1>4, <1>5, <1>6

LEMMA KmallocFailInv ==
    ASSUME Inv, NEW p \in Procs, KmallocFail(p)
    PROVE  Inv'
<1> USE DEF Inv, Return, Release
<1>0. pc[p] = "scan"
  BY DEF KmallocFail
<1>1. TypeOK'
  BY DEF TypeOK, KmallocFail, Locations
<1>2. LockIsExclusive'
  BY DEF TypeOK, LockIsExclusive, Critical, KmallocFail
<1>3. BlocksTileTheHeap'
  BY UnchangedTiling DEF KmallocFail
<1>4. Ownership'
  <2>1. \A q \in Procs : Claims(q)' = Claims(q)
    BY <1>0 DEF TypeOK, Claims, KmallocFail
  <2> QED
    BY <1>0, <2>1 DEF TypeOK, Ownership, KmallocFail
<1>5. ScanProgress'
  BY DEF TypeOK, ScanProgress, Fits, KmallocFail
<1>6. SweepProgress'
  BY <1>0 DEF TypeOK, SweepProgress, BothFree, KmallocFail
<1> QED
  BY <1>1, <1>2, <1>3, <1>4, <1>5, <1>6

LEMMA KfreeInv ==
    ASSUME Inv, NEW p \in Procs, NEW f \in held[p], Kfree(p, f)
    PROVE  Inv'
<1> USE DEF Inv
<1>0. pc[p] = "idle" /\ f \in Allocation /\ f.ptr \in Nat
  BY DEF Kfree, TypeOK, Allocation
<1>1. TypeOK'
  BY <1>0 DEF TypeOK, Kfree, Locations
<1>2. LockIsExclusive'
  BY DEF TypeOK, LockIsExclusive, Critical, Kfree
<1>3. BlocksTileTheHeap'
  BY UnchangedTiling DEF Kfree
<1>4. Ownership'
  <2>1. held'[p] = held[p] \ {f} /\ pc'[p] = "kfree" /\ cur'[p] = f.ptr
    BY DEF TypeOK, Kfree
  <2>2. \A q \in Procs \ {p} : held'[q] = held[q] /\ pc'[q] = pc[q] /\ cur'[q] = cur[q]
    BY DEF TypeOK, Kfree
  <2>3. Claims(p)' = Claims(p)
    BY <1>0, <2>1 DEF Claims
  <2>4. \A q \in Procs : Claims(q)' = Claims(q)
    BY <2>2, <2>3 DEF Claims
  <2>5. \A h \in held'[p] : h.ptr # cur'[p]
    BY <2>1 DEF Ownership
  <2> QED
    BY <2>1, <2>2, <2>4, <2>5 DEF Ownership, Kfree
<1>5. ScanProgress'
  BY DEF TypeOK, ScanProgress, Fits, Kfree
<1>6. SweepProgress'
  BY <1>0 DEF TypeOK, SweepProgress, BothFree, Kfree
<1> QED
  BY <1>1, <1>2, <1>3, <1>4, <1>5, <1>6

LEMMA KfreeLockInv ==
    ASSUME Inv, NEW p \in Procs, KfreeLock(p)
    PROVE  Inv'
<1> USE DEF Inv, Acquire, kheap_head
<1> DEFINE c == cur[p]
<1>0. pc[p] = "kfree" /\ c \in DOMAIN blk /\ c \in Nat /\ blk[c] \in Header /\ ~blk[c].free
  BY DEF Ownership, KfreeLock, TypeOK, Claims
<1>g. /\ pc' = [pc EXCEPT ![p] = "coalesce"] /\ cur' = [cur EXCEPT ![p] = 0]
      /\ UNCHANGED <<want, held>> /\ ~locked /\ locked' = TRUE
  BY DEF KfreeLock
<1>b. /\ DOMAIN blk' = DOMAIN blk
      /\ blk'[c] = [blk[c] EXCEPT !.free = TRUE]
      /\ \A b \in DOMAIN blk : b # c => blk'[b] = blk[b]
      /\ \A b \in DOMAIN blk : blk'[b].size = blk[b].size /\ blk'[b].next = blk[b].next
      /\ blk' \in [DOMAIN blk -> Header]
      /\ blk'[c].free
  BY <1>0 DEF KfreeLock, TypeOK, Header
<1>n. \A q \in Procs : pc[q] \notin Critical
  BY <1>g DEF LockIsExclusive
<1> HIDE DEF c
<1>1. TypeOK'
  BY <1>g, <1>b DEF TypeOK, Locations
<1>2. LockIsExclusive'
  BY <1>g, <1>n DEF TypeOK, LockIsExclusive, Critical
<1>3. BlocksTileTheHeap'
  BY <1>b DEF BlocksTileTheHeap, EndOf, Payload
<1>4. Ownership'
  <2>1. \A q \in Procs \ {p} : Claims(q)' = Claims(q) /\ pc'[q] = pc[q] /\ cur'[q] = cur[q]
    BY <1>g DEF TypeOK, Claims
  <2>2. /\ c \in Claims(p) /\ c \notin Claims(p)'
        /\ \A b : b # c => (b \in Claims(p)' <=> b \in Claims(p))
        /\ pc'[p] = "coalesce"
    BY <1>0, <1>g DEF TypeOK, Claims, Ownership, c
  <2>3. \A q \in Procs : \A b \in Claims(q)' : b \in Claims(q) /\ b # c
    BY <2>1, <2>2 DEF Ownership
  <2>4. \A q \in Procs : \A b \in Claims(q)' : b \in DOMAIN blk' /\ ~blk'[b].free
    BY <2>3, <1>b DEF Ownership
  <2>5. \A b \in DOMAIN blk' : ~blk'[b].free => \E q \in Procs : b \in Claims(q)'
    <3> SUFFICES ASSUME NEW b \in DOMAIN blk, ~blk'[b].free
                 PROVE  \E q \in Procs : b \in Claims(q)'
      BY <1>b
    <3>1. b # c /\ ~blk[b].free
      BY <1>b
    <3>2. PICK q \in Procs : b \in Claims(q)
      BY <3>1 DEF Ownership
    <3> QED
      BY <2>1, <2>2, <3>1, <3>2
  <2>6. \A q, r \in Procs : q # r => Claims(q)' \cap Claims(r)' = {}
    BY <2>3 DEF Ownership
  <2>7. \A q \in Procs : \A h \in held'[q] : h.len <= blk'[h.ptr].size
    <3> SUFFICES ASSUME NEW q \in Procs, NEW h \in held[q]
                 PROVE  h.len <= blk'[h.ptr].size
      BY <1>g
    <3>1. h.ptr \in DOMAIN blk
      BY DEF Ownership, Claims
    <3> QED
      BY <3>1, <1>b DEF Ownership
  <2>8. \A q \in Procs : pc'[q] = "found" => want'[q] <= blk'[cur'[q]].size
    BY <1>n, <2>1, <2>2 DEF Critical
  <2>9. \A q \in Procs : pc'[q] \in {"found", "kfree"} => \A h \in held'[q] : h.ptr # cur'[q]
    BY <1>g, <2>1, <2>2 DEF Ownership
  <2> QED
    BY <1>g, <2>4, <2>5, <2>6, <2>7, <2>8, <2>9 DEF Ownership
<1>5. ScanProgress'
  BY <1>g, <1>n DEF TypeOK, ScanProgress, Critical
<1>6. SweepProgress'
  <2>1. pc'[p] = "coalesce" /\ cur'[p] = 0
    BY <1>g DEF TypeOK
  <2>2. \A q \in Procs : pc'[q] = "coalesce" => cur'[q] \in DOMAIN blk'
    BY <1>g, <1>b, <1>n DEF BlocksTileTheHeap, Critical, TypeOK
  <2>3. \A b \in DOMAIN blk' : cur'[p] <= b
    BY <2>1, <1>b DEF TypeOK
  <2> QED
    BY <2>1, <2>2, <2>3 DEF SweepProgress
<1> QED
  BY <1>1, <1>2, <1>3, <1>4, <1>5, <1>6

LEMMA KfreeAdvanceInv ==
    ASSUME Inv, NEW p \in Procs, KfreeAdvance(p)
    PROVE  Inv'
<1> USE DEF Inv
<1>0. /\ pc[p] = "coalesce" /\ cur[p] \in DOMAIN blk /\ blk[cur[p]] \in Header
      /\ blk[cur[p]].next \in DOMAIN blk /\ EndOf(cur[p]) = blk[cur[p]].next
      /\ cur' = [cur EXCEPT ![p] = blk[cur[p]].next]
      /\ UNCHANGED <<blk, locked, pc, want, held>>
      /\ ~BothFree(cur[p])
  BY DEF SweepProgress, KfreeAdvance, TypeOK, BlocksTileTheHeap
<1>1. TypeOK'
  BY <1>0 DEF TypeOK, Header
<1>2. LockIsExclusive'
  BY <1>0 DEF LockIsExclusive
<1>3. BlocksTileTheHeap'
  BY <1>0, UnchangedTiling
<1>4. Ownership'
  <2>1. \A q \in Procs : Claims(q)' = Claims(q)
    BY <1>0 DEF TypeOK, Claims
  <2> QED
    BY <1>0, <2>1 DEF TypeOK, Ownership
<1>5. ScanProgress'
  BY <1>0 DEF TypeOK, ScanProgress, Fits
<1>6. SweepProgress'
  <2>1. \A b \in DOMAIN blk : cur[p] < b => blk[cur[p]].next <= b
    BY <1>0 DEF BlocksTileTheHeap
  <2>2. \A b \in DOMAIN blk : cur[p] <= b => b = cur[p] \/ blk[cur[p]].next <= b
    BY <1>0, <2>1 DEF TypeOK
  <2>3. \A q \in Procs : pc[q] = "coalesce" => q = p
    BY <1>0 DEF LockIsExclusive, Critical
  <2>4. pc'[p] = "coalesce" /\ cur'[p] = blk[cur[p]].next
    BY <1>0 DEF TypeOK
  <2>5. \A b \in DOMAIN blk : blk[b].next = NULL \/ ~BothFree(b) \/ cur'[p] <= b
    BY <1>0, <2>2, <2>3, <2>4 DEF SweepProgress
  <2>6. \A b \in DOMAIN blk' : blk'[b].next = NULL \/ ~BothFree(b)' \/ cur'[p] <= b
    BY <1>0, <2>5 DEF BothFree
  <2>7. \A q \in Procs : pc'[q] = "coalesce" => cur'[q] \in DOMAIN blk'
    BY <1>0, <2>3, <2>4
  <2> QED
    BY <2>4, <2>6, <2>7 DEF SweepProgress
<1> QED
  BY <1>1, <1>2, <1>3, <1>4, <1>5, <1>6

LEMMA KfreeReturnInv ==
    ASSUME Inv, NEW p \in Procs, KfreeReturn(p)
    PROVE  Inv'
<1> USE DEF Inv, Return, Release
<1>0. /\ pc[p] = "coalesce" /\ cur[p] \in DOMAIN blk /\ cur[p] \in Nat
      /\ blk[cur[p]].next = NULL /\ blk' = blk
  BY DEF SweepProgress, KfreeReturn, TypeOK, NULL
<1>1. TypeOK'
  BY DEF TypeOK, KfreeReturn, Locations
<1>2. LockIsExclusive'
  BY DEF TypeOK, LockIsExclusive, Critical, KfreeReturn
<1>3. BlocksTileTheHeap'
  BY <1>0, UnchangedTiling
<1>4. Ownership'
  <2>1. \A q \in Procs : Claims(q)' = Claims(q)
    BY <1>0 DEF TypeOK, Claims, KfreeReturn
  <2> QED
    BY <1>0, <2>1 DEF TypeOK, Ownership, KfreeReturn
<1>5. ScanProgress'
  BY DEF TypeOK, ScanProgress, Fits, KfreeReturn
<1>6. SweepProgress'
  <2>1. \A b \in DOMAIN blk : cur[p] <= b => b = cur[p]
    <3> SUFFICES ASSUME NEW b \in DOMAIN blk, cur[p] < b PROVE FALSE
      BY <1>0 DEF TypeOK
    <3>1. HeapSize <= b /\ EndOf(b) <= HeapSize /\ b \in Nat /\ blk[b].size \in Nat
      BY <1>0 DEF BlocksTileTheHeap, TypeOK, Header
    <3> QED
      BY <3>1, HeapSizeAssumption DEF EndOf, Payload, HeaderSize
  <2>2. \A q \in Procs : pc[q] = "coalesce" => q = p
    BY <1>0 DEF LockIsExclusive, Critical
  <2>3. \A b \in DOMAIN blk : blk[b].next = NULL \/ ~BothFree(b)
    BY <1>0, <2>1, <2>2 DEF SweepProgress
  <2>4. \A q \in Procs : pc'[q] # "coalesce"
    BY <2>2 DEF TypeOK, KfreeReturn
  <2> QED
    BY <1>0, <2>3, <2>4 DEF SweepProgress, BothFree
<1> QED
  BY <1>1, <1>2, <1>3, <1>4, <1>5, <1>6

LEMMA KfreeMergeInv ==
    ASSUME Inv, NEW p \in Procs, KfreeMerge(p)
    PROVE  Inv'
<1> USE DEF Inv
<1>x. PICK c : c = cur[p]
  OBVIOUS
<1>y. PICK n : n = blk[c].next
  OBVIOUS
<1>0. /\ pc[p] = "coalesce" /\ c \in DOMAIN blk /\ n \in DOMAIN blk /\ n # NULL
      /\ blk[c] \in Header /\ blk[n] \in Header /\ c \in Nat /\ n \in Nat
      /\ EndOf(c) = n /\ blk[c].free /\ blk[n].free
      /\ UNCHANGED <<locked, pc, cur, want, held>>
  BY <1>x, <1>y DEF SweepProgress, KfreeMerge, BothFree, TypeOK, BlocksTileTheHeap
<1>1. c < n /\ n < EndOf(n) /\ c # n /\ EndOf(n) \in Nat
  BY <1>0 DEF EndOf, Payload, HeaderSize, Header
<1>2. /\ DOMAIN blk' = DOMAIN blk \ {n}
      /\ \A b \in DOMAIN blk' : b # c => blk'[b] = blk[b]
      /\ blk'[c] = [size |-> blk[c].size + HeaderSize + blk[n].size,
                    next |-> blk[n].next, free |-> TRUE]
  BY <1>x, <1>y, <1>0, <1>1 DEF KfreeMerge, Merged
<1>3. /\ blk'[c] \in Header /\ blk'[c].next = blk[n].next /\ blk'[c].free
      /\ EndOf(c)' = EndOf(n)
  BY <1>0, <1>2 DEF Header, EndOf, Payload, HeaderSize
<1>4. \A b \in DOMAIN blk' : b # c => EndOf(b)' = EndOf(b)
  BY <1>2 DEF EndOf
<1>5. \A b \in DOMAIN blk : b # c => blk[b].next # n
  <2> SUFFICES ASSUME NEW b \in DOMAIN blk, b # c, blk[b].next = n
               PROVE  FALSE
    OBVIOUS
  <2>1. b \in Nat /\ blk[b].size \in Nat /\ EndOf(b) = n
    BY <1>0 DEF TypeOK, BlocksTileTheHeap, Header
  <2>2. b < EndOf(b)
    BY <2>1 DEF EndOf, Payload, HeaderSize
  <2>3. CASE b < c
    BY <2>1, <2>3, <1>0, <1>1 DEF BlocksTileTheHeap
  <2>4. CASE c < b
    BY <2>1, <2>2, <2>4, <1>0, <1>1 DEF BlocksTileTheHeap
  <2> QED
    BY <2>1, <2>3, <2>4, <1>0
<1>6. \A q \in Procs : Claims(q)' = Claims(q) /\ n \notin Claims(q) /\ c \notin Claims(q)
  BY <1>0 DEF Claims, Ownership
<1>a. TypeOK'
  <2>1. blk' \in [DOMAIN blk' -> Header]
    <3>1. \A b \in DOMAIN blk' : blk'[b] \in Header
      BY <1>2, <1>3 DEF TypeOK
    <3>2. blk' = [b \in DOMAIN blk' |-> blk'[b]]
      BY DEF KfreeMerge
    <3> QED
      BY <3>1, <3>2
  <2> QED
    BY <2>1, <1>0, <1>2 DEF TypeOK
<1>b. LockIsExclusive'
  BY <1>0 DEF LockIsExclusive
<1>c. BlocksTileTheHeap'
  <2>1. kheap_head \in DOMAIN blk'
    BY <1>0, <1>1, <1>2 DEF BlocksTileTheHeap, kheap_head
  <2>2. ASSUME NEW b \in DOMAIN blk'
        PROVE  /\ EndOf(b)' <= HeapSize
               /\ blk'[b].next = NULL => EndOf(b)' = HeapSize
               /\ blk'[b].next # NULL => /\ blk'[b].next \in DOMAIN blk'
                                         /\ EndOf(b)' = blk'[b].next
    <3>1. CASE b = c
      <4>1. blk[n].next # n
        BY <1>0, <1>1 DEF BlocksTileTheHeap
      <4> QED
        BY <3>1, <4>1, <1>0, <1>2, <1>3 DEF BlocksTileTheHeap
    <3>2. CASE b # c
      BY <3>2, <1>2, <1>4, <1>5 DEF BlocksTileTheHeap
    <3> QED
      BY <3>1, <3>2
  <2>3. ASSUME NEW b \in DOMAIN blk', NEW d \in DOMAIN blk', b < d
        PROVE  EndOf(b)' <= d
    <3>0. b \in DOMAIN blk /\ d \in DOMAIN blk /\ d # n /\ d \in Nat /\ b \in Nat
      BY <1>2 DEF TypeOK
    <3>1. CASE b = c
      <4>1. n < d
        BY <3>0, <3>1, <2>3, <1>0 DEF BlocksTileTheHeap
      <4> QED
        BY <3>0, <3>1, <4>1, <1>0, <1>3 DEF BlocksTileTheHeap
    <3>2. CASE b # c
      BY <3>0, <3>2, <2>3, <1>4 DEF BlocksTileTheHeap
    <3> QED
      BY <3>1, <3>2
  <2> QED
    BY <2>1, <2>2, <2>3 DEF BlocksTileTheHeap
<1>d. Ownership'
  <2>1. \A q \in Procs : \A b \in Claims(q) : b \in DOMAIN blk' /\ blk'[b] = blk[b]
    BY <1>2, <1>6 DEF Ownership
  <2>2. \A q \in Procs : \A h \in held[q] : h.ptr \in Claims(q)
    BY DEF Claims
  <2>3. \A q \in Procs : pc[q] = "found" => cur[q] \in Claims(q)
    BY DEF Claims
  <2>4. \A b \in DOMAIN blk' : ~blk'[b].free => \E q \in Procs : b \in Claims(q)'
    BY <1>2, <1>3, <1>6 DEF Ownership
  <2>5. \A q \in Procs : \A h \in held'[q] : h.len <= blk'[h.ptr].size
    BY <1>0, <2>1, <2>2 DEF Ownership
  <2>6. \A q \in Procs : pc'[q] = "found" => want'[q] <= blk'[cur'[q]].size
    BY <1>0, <2>1, <2>3 DEF Ownership
  <2>7. \A q \in Procs : \A b \in Claims(q)' : b \in DOMAIN blk' /\ ~blk'[b].free
    BY <1>6, <2>1 DEF Ownership
  <2>8. \A q, r \in Procs : q # r => Claims(q)' \cap Claims(r)' = {}
    BY <1>6 DEF Ownership
  <2> QED
    BY <1>0, <2>4, <2>5, <2>6, <2>7, <2>8 DEF Ownership
<1>e. ScanProgress'
  <2>1. \A q \in Procs : pc'[q] # "scan"
    BY <1>0 DEF LockIsExclusive, Critical
  <2> QED
    BY <2>1 DEF ScanProgress
<1>f. SweepProgress'
  <2>1. \A q \in Procs : pc[q] = "coalesce" => q = p
    BY <1>0 DEF LockIsExclusive, Critical
  <2>2. \A q \in Procs : pc'[q] = "coalesce" => cur'[q] \in DOMAIN blk'
    BY <2>1, <1>x, <1>0, <1>1, <1>2
  <2>3. ASSUME NEW b \in DOMAIN blk', blk'[b].next # NULL, BothFree(b)'
        PROVE  c <= b
    <3>1. CASE b = c
      BY <3>1, <1>0
    <3>2. CASE b # c
      <4>1. b \in DOMAIN blk /\ blk'[b] = blk[b] /\ blk[b].free /\ blk[b].next \in DOMAIN blk'
        BY <3>2, <2>3, <1>2, <1>c DEF BothFree, BlocksTileTheHeap
      <4>2. blk[blk[b].next].free
        BY <4>1, <2>3, <1>0, <1>2 DEF BothFree
      <4> QED
        BY <4>1, <4>2, <2>1, <2>3, <1>x DEF SweepProgress, BothFree
    <3> QED
      BY <3>1, <3>2
  <2> QED
    BY <2>2, <2>3, <1>x, <1>0 DEF SweepProgress
<1> QED
  BY <1>a, <1>b, <1>c, <1>d, <1>e, <1>f

\* Headers built from their fields, as a split builds them.
LEMMA UsedHeader ==
    ASSUME NEW s \in Nat, NEW x \in Nat \cup {NULL}
    PROVE  LET r == [size |-> s, next |-> x, free |-> FALSE]
           IN  r \in Header /\ r.size = s /\ r.next = x /\ ~r.free
BY DEF Header

LEMMA FreeHeader ==
    ASSUME NEW s \in Nat, NEW x \in Nat \cup {NULL}
    PROVE  LET r == [size |-> s, next |-> x, free |-> TRUE]
           IN  r \in Header /\ r.size = s /\ r.next = x /\ r.free
BY DEF Header

\* What a successful search does to the list: block c becomes a used block of at
\* least `size` bytes, nothing else changes but for one new free block that a
\* split may put behind it, and the list still tiles the heap.
LEMMA TakeEffect ==
    ASSUME TypeOK, BlocksTileTheHeap, NEW c \in DOMAIN blk, NEW size \in Nat,
           Fits(c, size),
           blk' = IF Splits(c, size) THEN SplitAt(c, size)
                                     ELSE [blk EXCEPT ![c].free = FALSE]
    PROVE  /\ DOMAIN blk' \subseteq Nat /\ blk' \in [DOMAIN blk' -> Header]
           /\ DOMAIN blk \subseteq DOMAIN blk'
           /\ \A b \in DOMAIN blk : b # c => blk'[b] = blk[b]
           /\ ~blk'[c].free /\ size <= blk'[c].size
           /\ \A b \in DOMAIN blk' \ DOMAIN blk :
                 /\ blk'[b].free /\ blk'[b].next = blk[c].next
                 /\ \A d \in DOMAIN blk : blk[d].next # b
           /\ BlocksTileTheHeap'
<1>0. /\ blk[c] \in Header /\ c \in Nat /\ blk[c].free /\ blk[c].size \in Nat
      /\ size <= blk[c].size
  BY DEF TypeOK, Header, Fits
<1>1. CASE ~Splits(c, size)
  <2>1. /\ DOMAIN blk' = DOMAIN blk
        /\ \A b \in DOMAIN blk : b # c => blk'[b] = blk[b]
        /\ blk'[c] = [blk[c] EXCEPT !.free = FALSE]
        /\ blk' \in [DOMAIN blk -> Header]
    BY <1>0, <1>1 DEF TypeOK, Header
  <2>2. blk'[c].size = blk[c].size /\ blk'[c].next = blk[c].next /\ ~blk'[c].free
    BY <2>1, <1>0 DEF Header
  <2>3. BlocksTileTheHeap'
    BY <2>1, <2>2 DEF BlocksTileTheHeap, EndOf, Payload
  <2> QED
    BY <2>1, <2>2, <2>3, <1>0 DEF TypeOK
<1>2. CASE Splits(c, size)
  <2>0. PICK m : m = c + HeaderSize + size
    OBVIOUS
  <2>1. /\ DOMAIN blk' = DOMAIN blk \cup {m}
        /\ blk'[c] = [size |-> size, next |-> m, free |-> FALSE]
        /\ m # c => blk'[m] = [size |-> blk[c].size - size - HeaderSize,
                              next |-> blk[c].next, free |-> TRUE]
        /\ \A b \in DOMAIN blk \ {c, m} : blk'[b] = blk[b]
        /\ blk' = [b \in DOMAIN blk' |-> blk'[b]]
    BY <1>2, <2>0 DEF SplitAt, Payload
  <2>2. /\ m \in Nat /\ c < m /\ m # c /\ m + HeaderSize < EndOf(c) /\ EndOf(c) \in Nat
        /\ blk[c].size - size - HeaderSize \in Nat
    BY <1>0, <1>2, <2>0 DEF Splits, HeaderSize, EndOf, Payload
  <2>3. m \notin DOMAIN blk
    BY <2>2 DEF BlocksTileTheHeap, HeaderSize
  <2>4. /\ blk'[c] \in Header /\ blk'[m] \in Header /\ blk'[m].free
        /\ blk'[c].next = m /\ blk'[m].next = blk[c].next
        /\ ~blk'[c].free /\ blk'[c].size = size /\ m # NULL
    <3>1. /\ blk'[c] \in Header /\ blk'[c].next = m /\ ~blk'[c].free
          /\ blk'[c].size = size /\ m # NULL
      <4>1. m \in Nat \cup {NULL} /\ m # NULL
        BY <2>2 DEF NULL
      <4> QED
        <5>1. PICK u : u = [size |-> size, next |-> m, free |-> FALSE]
          OBVIOUS
        <5>2. u \in Header /\ u.next = m /\ ~u.free /\ u.size = size
          BY <4>1, <5>1, UsedHeader
        <5>3. blk'[c] = u
          BY <2>1, <5>1
        <5> QED
          BY <4>1, <5>2, <5>3
    <3>2. PICK r \in Nat : r = blk[c].size - size - HeaderSize
      BY <2>2
    <3>3. blk'[m] = [size |-> r, next |-> blk[c].next, free |-> TRUE]
      BY <2>1, <2>2, <3>2
    <3>4. blk'[m] \in Header /\ blk'[m].free /\ blk'[m].next = blk[c].next
      <4>1. blk[c].next \in Nat \cup {NULL}
        BY <1>0 DEF Header
      <4> QED
        <5>1. PICK u : u = [size |-> r, next |-> blk[c].next, free |-> TRUE]
          OBVIOUS
        <5>2. u \in Header /\ u.next = blk[c].next /\ u.free
          BY <4>1, <5>1, FreeHeader
        <5>3. blk'[m] = u
          BY <3>3, <5>1
        <5> QED
          BY <5>2, <5>3
    <3> QED
      BY <3>1, <3>4
  <2>5. EndOf(c)' = m /\ EndOf(m)' = EndOf(c)
    BY <1>0, <2>0, <2>1, <2>2 DEF EndOf, Payload, HeaderSize
  <2>6. \A b \in DOMAIN blk : b # c => blk'[b] = blk[b] /\ EndOf(b)' = EndOf(b)
    BY <2>1, <2>3 DEF EndOf
  <2>7. \A d \in DOMAIN blk : blk[d].next # m
    BY <2>2, <2>3, <2>4 DEF BlocksTileTheHeap
  <2>8. DOMAIN blk' \subseteq Nat /\ blk' \in [DOMAIN blk' -> Header]
    <3>1. \A b \in DOMAIN blk' : b \in Nat /\ blk'[b] \in Header
      BY <2>1, <2>2, <2>4, <2>6 DEF TypeOK
    <3> QED
      BY <3>1, <2>1
  <2>9. BlocksTileTheHeap'
    <3>1. kheap_head \in DOMAIN blk'
      BY <2>1 DEF BlocksTileTheHeap
    <3>2. ASSUME NEW b \in DOMAIN blk'
          PROVE  /\ EndOf(b)' <= HeapSize
                 /\ blk'[b].next = NULL => EndOf(b)' = HeapSize
                 /\ blk'[b].next # NULL => /\ blk'[b].next \in DOMAIN blk'
                                           /\ EndOf(b)' = blk'[b].next
      <4>1. CASE b = c
        <5>1. m <= HeapSize
          BY <2>2, HeapSizeAssumption DEF BlocksTileTheHeap, HeaderSize
        <5> QED
          BY <4>1, <5>1, <2>1, <2>4, <2>5
      <4>2. CASE b = m
        BY <4>2, <2>1, <2>4, <2>5 DEF BlocksTileTheHeap
      <4>3. CASE b # c /\ b # m
        BY <4>3, <2>1, <2>6 DEF BlocksTileTheHeap
      <4> QED
        BY <4>1, <4>2, <4>3
    <3>3. ASSUME NEW b \in DOMAIN blk', NEW d \in DOMAIN blk', b < d
          PROVE  EndOf(b)' <= d
      <4>0. b \in Nat /\ d \in Nat
        BY <2>8
      <4>1. CASE b = c
        <5>1. CASE d = m
          BY <4>0, <4>1, <5>1, <2>5
        <5>2. CASE d # m
          <6>1. EndOf(c) <= d
            BY <4>1, <5>2, <3>3, <2>1 DEF BlocksTileTheHeap
          <6>2. m <= d
            BY <6>1, <4>0, <2>2 DEF HeaderSize
          <6> QED
            BY <6>2, <4>1, <2>5
        <5> QED
          BY <5>1, <5>2
      <4>2. CASE b = m
        <5>1. d \in DOMAIN blk /\ c < d
          BY <4>0, <4>2, <3>3, <1>0, <2>1, <2>2
        <5>2. EndOf(c) <= d
          BY <5>1 DEF BlocksTileTheHeap
        <5> QED
          BY <5>2, <4>2, <2>5
      <4>3. CASE b # c /\ b # m /\ d = m
        <5>1. b \in DOMAIN blk /\ EndOf(b)' = EndOf(b)
          BY <4>3, <2>1, <2>6
        <5>2. CASE c < b
          BY <4>0, <5>1, <5>2, <4>3, <3>3, <2>2 DEF BlocksTileTheHeap, HeaderSize
        <5>3. CASE b < c
          <6>1. EndOf(b) <= c /\ blk[b].size \in Nat
            BY <5>1, <5>3 DEF BlocksTileTheHeap, TypeOK, Header
          <6>2. EndOf(b) \in Nat
            BY <6>1, <4>0 DEF EndOf, Payload, HeaderSize
          <6> QED
            BY <5>1, <6>1, <6>2, <4>3, <1>0, <2>2
        <5> QED
          BY <4>0, <4>3, <5>2, <5>3, <1>0
      <4>4. CASE b # c /\ b # m /\ d # m
        BY <4>4, <3>3, <2>1, <2>6 DEF BlocksTileTheHeap
      <4> QED
        BY <4>1, <4>2, <4>3, <4>4
    <3> QED
      BY <3>1, <3>2, <3>3 DEF BlocksTileTheHeap
  <2> QED
    BY <1>0, <2>1, <2>3, <2>4, <2>6, <2>7, <2>8, <2>9
<1> QED
  BY <1>1, <1>2

LEMMA KmallocTakeInv ==
    ASSUME Inv, NEW p \in Procs, KmallocTake(p)
    PROVE  Inv'
<1> USE DEF Inv
<1>x. PICK c : c = cur[p]
  OBVIOUS
<1>0. /\ pc[p] = "scan" /\ c \in DOMAIN blk /\ c \in Nat /\ blk[c].free /\ want[p] \in Nat
      /\ pc' = [pc EXCEPT ![p] = "found"] /\ UNCHANGED <<locked, cur, want, held>>
  BY <1>x DEF ScanProgress, KmallocTake, Fits, TypeOK
<1>1. align16(want[p]) \in Nat /\ want[p] <= align16(want[p])
  BY <1>0, AlignRoundsUp
<1>2. /\ DOMAIN blk' \subseteq Nat /\ blk' \in [DOMAIN blk' -> Header]
      /\ DOMAIN blk \subseteq DOMAIN blk'
      /\ \A b \in DOMAIN blk : b # c => blk'[b] = blk[b]
      /\ ~blk'[c].free /\ align16(want[p]) <= blk'[c].size
      /\ \A b \in DOMAIN blk' \ DOMAIN blk :
            /\ blk'[b].free /\ blk'[b].next = blk[c].next
            /\ \A d \in DOMAIN blk : blk[d].next # b
      /\ BlocksTileTheHeap'
  BY <1>x, <1>0, <1>1, TakeEffect DEF KmallocTake
<1>3. blk'[c].size \in Nat
  BY <1>0, <1>2 DEF Header
<1>4. \A q \in Procs : c \notin Claims(q)
  BY <1>0 DEF Ownership
<1>5. /\ \A q \in Procs \ {p} : Claims(q)' = Claims(q) /\ pc'[q] = pc[q]
      /\ \A b : b \in Claims(p)' <=> b \in Claims(p) \/ b = c
      /\ pc'[p] = "found"
  BY <1>x, <1>0 DEF TypeOK, Claims
<1>6. \A q \in Procs : pc[q] \in Critical => q = p
  BY <1>0 DEF LockIsExclusive, Critical
<1>a. TypeOK'
  BY <1>0, <1>2 DEF TypeOK, Locations
<1>b. LockIsExclusive'
  BY <1>0, <1>5 DEF LockIsExclusive, Critical
<1>d. Ownership'
  <2>1. \A q \in Procs : \A b \in Claims(q) : b \in DOMAIN blk' /\ blk'[b] = blk[b]
    BY <1>2, <1>4 DEF Ownership
  <2>2. \A q \in Procs : \A h \in held[q] : h.ptr \in Claims(q) /\ h.ptr # c
    BY <1>4 DEF Claims
  <2>3. \A b \in DOMAIN blk' : ~blk'[b].free => \E q \in Procs : b \in Claims(q)'
    <3> SUFFICES ASSUME NEW b \in DOMAIN blk', ~blk'[b].free
                 PROVE  \E q \in Procs : b \in Claims(q)'
      OBVIOUS
    <3>1. CASE b = c
      BY <3>1, <1>5
    <3>2. CASE b # c
      <4>1. b \in DOMAIN blk /\ ~blk[b].free
        BY <3>2, <1>2
      <4>2. PICK q \in Procs : b \in Claims(q)
        BY <4>1 DEF Ownership
      <4> QED
        BY <4>2, <1>5
    <3> QED
      BY <3>1, <3>2
  <2>4. \A q \in Procs : \A h \in held'[q] : h.len <= blk'[h.ptr].size
    BY <1>0, <2>1, <2>2 DEF Ownership
  <2>5. \A q \in Procs : pc'[q] = "found" => want'[q] <= blk'[cur'[q]].size
    <3>1. want[p] <= blk'[c].size
      BY <1>0, <1>1, <1>2, <1>3
    <3>2. \A q \in Procs : pc'[q] = "found" => q = p
      BY <1>5, <1>6 DEF Critical
    <3> QED
      BY <3>1, <3>2, <1>0, <1>x
  <2>6. \A q \in Procs : \A b \in Claims(q)' : b \in DOMAIN blk' /\ ~blk'[b].free
    BY <1>0, <1>2, <1>5, <2>1 DEF Ownership
  <2>7. \A q, r \in Procs : q # r => Claims(q)' \cap Claims(r)' = {}
    BY <1>4, <1>5 DEF Ownership
  <2>8. \A q \in Procs : pc'[q] \in {"found", "kfree"} => \A h \in held'[q] : h.ptr # cur'[q]
    BY <1>0, <1>x, <1>5, <2>2 DEF Ownership
  <2> QED
    BY <1>0, <2>3, <2>4, <2>5, <2>6, <2>7, <2>8 DEF Ownership
<1>e. ScanProgress'
  <2>1. \A q \in Procs : pc'[q] # "scan"
    BY <1>5, <1>6 DEF Critical
  <2> QED
    BY <2>1 DEF ScanProgress
<1>f. SweepProgress'
  <2>1. \A q \in Procs : pc'[q] # "coalesce" /\ pc[q] # "coalesce"
    BY <1>0, <1>5, <1>6 DEF Critical
  <2>2. ASSUME NEW b \in DOMAIN blk', blk'[b].next # NULL, BothFree(b)'
        PROVE  FALSE
    <3>0. b # c /\ blk'[b].free /\ blk'[blk'[b].next].free
      BY <2>2, <1>2 DEF BothFree
    <3>1. CASE b \in DOMAIN blk
      <4>1. blk'[b] = blk[b] /\ blk[b].next \in DOMAIN blk /\ blk[b].next # NULL
        BY <2>2, <3>0, <3>1, <1>2 DEF BlocksTileTheHeap
      <4>2. blk[b].next # c
        BY <3>0, <4>1, <1>2
      <4>3. BothFree(b)
        BY <3>0, <4>1, <4>2, <1>2 DEF BothFree
      <4> QED
        BY <3>1, <4>1, <4>3, <2>1 DEF SweepProgress
    <3>2. CASE b \notin DOMAIN blk
      <4>1. blk'[b].next = blk[c].next /\ blk[c].next \in DOMAIN blk /\ blk[c].next # NULL
        BY <2>2, <3>2, <1>0, <1>2 DEF BlocksTileTheHeap
      <4>2. blk[c].next # c
        BY <3>0, <4>1, <1>2
      <4>3. BothFree(c)
        BY <3>0, <4>1, <4>2, <1>0, <1>2 DEF BothFree
      <4> QED
        BY <1>0, <4>1, <4>3, <2>1 DEF SweepProgress
    <3> QED
      BY <3>1, <3>2
  <2> QED
    BY <2>1, <2>2 DEF SweepProgress
<1> QED
  BY <1>2, <1>a, <1>b, <1>d, <1>e, <1>f

-----------------------------------------------------------------------------

LEMMA NextInv == Inv /\ [Next]_vars => Inv'
<1> SUFFICES ASSUME Inv, [Next]_vars PROVE Inv'
  OBVIOUS
<1>1. ASSUME NEW p \in Procs, Call(p) PROVE Inv'
  BY <1>1, KmallocInv, KfreeInv DEF Call
<1>2. ASSUME NEW p \in Procs, KmallocLock(p) \/ KfreeLock(p) PROVE Inv'
  BY <1>2, KmallocLockInv, KfreeLockInv
<1>3. ASSUME NEW p \in Procs, Walk(p) PROVE Inv'
  BY <1>3, KmallocTakeInv, KmallocAdvanceInv, KmallocReturnInv, KmallocFailInv,
     KfreeMergeInv, KfreeAdvanceInv, KfreeReturnInv DEF Walk
<1>4. CASE UNCHANGED vars
  BY <1>4 DEF vars, Inv, TypeOK, LockIsExclusive, BlocksTileTheHeap, EndOf, Payload,
     Ownership, Claims, ScanProgress, Fits, SweepProgress, BothFree
<1> QED
  BY <1>1, <1>2, <1>3, <1>4 DEF Next

\* The inductive invariant holds in every reachable state.
THEOREM HeapInvariant == Spec => []Inv
BY InitInv, NextInv, PTL DEF Spec

\* Types are preserved: no size computed by kmalloc or kfree underflows.
THEOREM TypeCorrect == Spec => []TypeOK
<1>1. Inv => TypeOK
  BY DEF Inv
<1> QED
  BY <1>1, HeapInvariant, PTL

\* The spinlock serialises the list walks of any number of processes.
THEOREM LockCorrect == Spec => []LockIsExclusive
<1>1. Inv => LockIsExclusive
  BY DEF Inv
<1> QED
  BY <1>1, HeapInvariant, PTL

\* The block list always partitions the heap.
THEOREM TilingCorrect == Spec => []BlocksTileTheHeap
<1>1. Inv => BlocksTileTheHeap
  BY DEF Inv
<1> QED
  BY <1>1, HeapInvariant, PTL

LEMMA InvExclusive == Inv => LiveMemoryIsExclusive
<1> SUFFICES ASSUME Inv PROVE LiveMemoryIsExclusive
  OBVIOUS
<1> USE DEF Inv
<1>1. ASSUME NEW p \in Procs, NEW h \in held[p]
      PROVE  /\ h.ptr \in DOMAIN blk /\ h.ptr \in Nat /\ h.len \in Nat
             /\ blk[h.ptr].size \in Nat /\ h.len <= blk[h.ptr].size
             /\ Payload(h.ptr) + h.len <= EndOf(h.ptr) /\ h.ptr \in Claims(p)
  <2>1. h.ptr \in Nat /\ h.len \in Nat
    BY DEF TypeOK, Allocation
  <2>2. h.ptr \in Claims(p) /\ h.ptr \in DOMAIN blk /\ h.len <= blk[h.ptr].size
    BY DEF Ownership, Claims
  <2>3. blk[h.ptr].size \in Nat
    BY <2>2 DEF TypeOK, Header
  <2> QED
    BY <2>1, <2>2, <2>3 DEF EndOf, Payload, HeaderSize
<1>2. ASSUME NEW b \in DOMAIN blk
      PROVE  /\ b \in Nat /\ blk[b].size \in Nat /\ EndOf(b) \in Nat
             /\ b + HeaderSize <= EndOf(b)
  BY DEF TypeOK, Header, EndOf, Payload, HeaderSize
<1>3. ASSUME NEW p \in Procs, NEW h \in held[p]
      PROVE  Payload(h.ptr) + h.len <= HeapSize
  BY <1>1, <1>2, HeapSizeAssumption DEF BlocksTileTheHeap, Payload, HeaderSize
<1>4. ASSUME NEW p \in Procs, NEW h \in held[p], NEW b \in DOMAIN blk
      PROVE  Apart(b, HeaderSize, Payload(h.ptr), h.len)
  <2>1. h.ptr < b => EndOf(h.ptr) <= b
    BY <1>1 DEF BlocksTileTheHeap
  <2>2. b < h.ptr => EndOf(b) <= h.ptr
    BY <1>1 DEF BlocksTileTheHeap
  <2> QED
    BY <2>1, <2>2, <1>1, <1>2 DEF Apart, Payload, HeaderSize
<1>5. ASSUME NEW p \in Procs, NEW h \in held[p], NEW q \in Procs, NEW g \in held[q],
             p # q \/ g # h
      PROVE  Apart(Payload(g.ptr), g.len, Payload(h.ptr), h.len)
  <2>1. g.ptr # h.ptr
    BY <1>1, <1>5 DEF Ownership
  <2>2. /\ h.ptr < g.ptr => EndOf(h.ptr) <= g.ptr
        /\ g.ptr < h.ptr => EndOf(g.ptr) <= h.ptr
    BY <1>1 DEF BlocksTileTheHeap
  <2> QED
    BY <2>1, <2>2, <1>1, <1>2 DEF Apart, Payload, HeaderSize
<1> QED
  BY <1>3, <1>4, <1>5 DEF LiveMemoryIsExclusive

\* No two live allocations overlap, none overlaps a header or leaves the heap:
\* for every number of processes, every heap size and every mix of requests.
THEOREM MemoryIsExclusive == Spec => []LiveMemoryIsExclusive
BY InvExclusive, HeapInvariant, PTL

\* kmalloc returns NULL only when no free block fits.
THEOREM OutOfMemoryCorrect == Spec => []OutOfMemoryIsHonest
<1>1. Inv => OutOfMemoryIsHonest
  BY DEF Inv, OutOfMemoryIsHonest, ScanProgress
<1> QED
  BY <1>1, HeapInvariant, PTL

LEMMA InvCoalesced == Inv => FullyCoalesced
BY DEF Inv, FullyCoalesced, SweepProgress, LockIsExclusive, Critical

\* One sweep per kfree keeps free neighbours merged.
THEOREM CoalescingCorrect == Spec => []FullyCoalesced
BY InvCoalesced, HeapInvariant, PTL

LEMMA InvAllFreed == Inv => AllFreedRestoresTheHeap
<1> SUFFICES ASSUME Inv, \A p \in Procs : pc[p] = "idle" /\ held[p] = {}
             PROVE  /\ DOMAIN blk = {kheap_head}
                    /\ blk[kheap_head] = [size |-> HeapSize - HeaderSize,
                                          next |-> NULL, free |-> TRUE]
  BY DEF AllFreedRestoresTheHeap
<1> USE DEF Inv
<1>1. \A b \in DOMAIN blk : blk[b].free
  BY DEF Ownership, Claims
<1>2. \A b \in DOMAIN blk : blk[b].next = NULL
  <2>1. ~locked
    BY DEF LockIsExclusive, Critical
  <2> QED
    BY <1>1, <2>1, InvCoalesced DEF FullyCoalesced, BothFree, BlocksTileTheHeap
<1>3. 0 \in DOMAIN blk /\ blk[0] \in Header /\ EndOf(0) = HeapSize
  BY <1>2 DEF BlocksTileTheHeap, TypeOK, kheap_head
<1>4. \A b \in DOMAIN blk : b = 0
  <2> SUFFICES ASSUME NEW b \in DOMAIN blk, b # 0 PROVE FALSE
    OBVIOUS
  <2>1. b \in Nat /\ blk[b].size \in Nat /\ 0 < b
    BY DEF TypeOK, Header
  <2>2. HeapSize <= b /\ EndOf(b) <= HeapSize
    BY <1>3, <2>1 DEF BlocksTileTheHeap
  <2> QED
    BY <2>1, <2>2, HeapSizeAssumption DEF EndOf, Payload, HeaderSize
<1>5. blk[0].size = HeapSize - HeaderSize
  BY <1>3, HeapSizeAssumption DEF EndOf, Payload, HeaderSize, Header
<1>6. blk[0] = [size |-> blk[0].size, next |-> blk[0].next, free |-> blk[0].free]
  BY <1>3 DEF Header
<1>7. blk[0].free = TRUE
  BY <1>1, <1>3 DEF Header
<1> QED
  BY <1>2, <1>3, <1>4, <1>5, <1>6, <1>7 DEF kheap_head

\* Freeing everything leaves the one block the heap began with.
THEOREM NothingLeaks == Spec => []AllFreedRestoresTheHeap
BY InvAllFreed, HeapInvariant, PTL
=============================================================================
