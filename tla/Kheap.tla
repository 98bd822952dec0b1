------------------------------- MODULE Kheap -------------------------------
(***************************************************************************)
(* The kernel heap of mm/kheap.c: a first-fit allocator over one address   *)
(* ordered list of blocks, protected by a spinlock (include/spinlock.h).   *)
(* Addresses are byte offsets from KHEAP_START, sizes are bytes, and the   *)
(* header has its real size.  Every iteration of a list walk is a step of  *)
(* its own, so that other processes run between two iterations and only    *)
(* the lock keeps them out.                                                *)
(*                                                                         *)
(* The callers are processes inside a system call (sys_exec reads a file   *)
(* into a kmalloc'ed buffer and frees it): they free only what kmalloc     *)
(* gave them, and once.                                                    *)
(*                                                                         *)
(* An operator whose comment begins with "Fault:" is a plausible mistake   *)
(* in the definition after it; substituting it must break a property.      *)
(***************************************************************************)
EXTENDS Integers

CONSTANTS Procs,     \* the processes that call the allocator
          Sizes,     \* the sizes they ask for
          HeapSize   \* KHEAP_SIZE: 4 MiB in the build

ASSUME SizesAssumption == Sizes \subseteq Nat
ASSUME HeapSizeAssumption == HeapSize \in Nat /\ HeapSize > 24

VARIABLES
    blk,      \* the block headers in memory: address -> header
    locked,   \* kheap_lock.locked
    pc,       \* where each process is inside kmalloc or kfree
    cur,      \* the local variable cur, or kfree's block before its walk
    want,     \* kmalloc's argument (both locals are dead, and reset, outside a call)
    held      \* what kmalloc returned to each process and it has not freed

vars == <<blk, locked, pc, cur, want, held>>

NULL == -1

\* sizeof(kheap_block_t): two 8-byte words, the flag and padding[7].
HeaderSize == 24

Align == 16

\* Fault: rounds down instead of up.
align16_Down(size) == (size \div Align) * Align

align16(size) == ((size + (Align - 1)) \div Align) * Align

\* kheap_head never moves: the first header is at KHEAP_START.
kheap_head == 0

Payload(b) == b + HeaderSize

\* The first byte after block b, seen from its own header.
EndOf(b) == Payload(b) + blk[b].size

Locations == {"idle", "kmalloc", "scan", "found", "kfree", "coalesce"}

\* The locations between spin_lock and spin_unlock.
Critical == {"scan", "found", "coalesce"}

Init ==
    /\ blk = [b \in {kheap_head} |->
                [size |-> HeapSize - HeaderSize, next |-> NULL, free |-> TRUE]]
    /\ locked = FALSE
    /\ pc = [p \in Procs |-> "idle"]
    /\ cur = [p \in Procs |-> NULL]
    /\ want = [p \in Procs |-> 0]
    /\ held = [p \in Procs |-> {}]

-----------------------------------------------------------------------------
(* spinlock.h.  A failed xchg leaves everything as it was: the process     *)
(* spins, which is a stuttering step.                                      *)

\* Fault: a plain store instead of an atomic exchange, so the old value is lost.
Acquire_Store == locked' = TRUE

Acquire == ~locked /\ locked' = TRUE

Release == locked' = FALSE

-----------------------------------------------------------------------------
(* kmalloc *)

\* A request of 0 bytes returns NULL before it touches anything.
Kmalloc(p, size) ==
    /\ pc[p] = "idle"
    /\ size # 0
    /\ want' = [want EXCEPT ![p] = size]
    /\ pc' = [pc EXCEPT ![p] = "kmalloc"]
    /\ UNCHANGED <<blk, locked, cur, held>>

\* Fault: the search starts behind the first block.
KmallocLock_SkipHead(p) ==
    /\ pc[p] = "kmalloc"
    /\ Acquire
    /\ cur' = [cur EXCEPT ![p] = blk[kheap_head].next]
    /\ pc' = [pc EXCEPT ![p] = "scan"]
    /\ UNCHANGED <<blk, want, held>>

KmallocLock(p) ==
    /\ pc[p] = "kmalloc"
    /\ Acquire
    /\ cur' = [cur EXCEPT ![p] = kheap_head]
    /\ pc' = [pc EXCEPT ![p] = "scan"]
    /\ UNCHANGED <<blk, want, held>>

Fits(c, size) == blk[c].free /\ blk[c].size >= size

\* Fault: cuts a remainder that has no room for a header.
Splits_NoRoom(c, size) == blk[c].size > size

\* The remainder is worth a block of its own.
Splits(c, size) == blk[c].size - size > HeaderSize + 16

\* The list after block c was cut to `size` bytes, with the rest behind it.
SplitAt(c, size) ==
    LET new_block == Payload(c) + size
    IN  [b \in DOMAIN blk \cup {new_block} |->
           IF b = c THEN [size |-> size, next |-> new_block, free |-> FALSE]
           ELSE IF b = new_block
                THEN [size |-> blk[c].size - size - HeaderSize,
                      next |-> blk[c].next, free |-> TRUE]
                ELSE blk[b]]

KmallocTake(p) ==
    LET c == cur[p]  size == align16(want[p])
    IN  /\ pc[p] = "scan"
        /\ c # NULL
        /\ Fits(c, size)
        /\ blk' = IF Splits(c, size) THEN SplitAt(c, size)
                                     ELSE [blk EXCEPT ![c].free = FALSE]
        /\ pc' = [pc EXCEPT ![p] = "found"]
        /\ UNCHANGED <<locked, cur, want, held>>

\* Fault: the list treated as circular.
KmallocAdvance_Circular(p) ==
    LET n == blk[cur[p]].next
    IN  /\ pc[p] = "scan"
        /\ cur[p] # NULL
        /\ ~Fits(cur[p], align16(want[p]))
        /\ cur' = [cur EXCEPT ![p] = IF n = NULL THEN kheap_head ELSE n]
        /\ UNCHANGED <<blk, locked, pc, want, held>>

KmallocAdvance(p) ==
    /\ pc[p] = "scan"
    /\ cur[p] # NULL
    /\ ~Fits(cur[p], align16(want[p]))
    /\ cur' = [cur EXCEPT ![p] = blk[cur[p]].next]
    /\ UNCHANGED <<blk, locked, pc, want, held>>

\* A call returns: its locals are gone.
Return(p) ==
    /\ Release
    /\ pc' = [pc EXCEPT ![p] = "idle"]
    /\ cur' = [cur EXCEPT ![p] = NULL]
    /\ want' = [want EXCEPT ![p] = 0]

\* `ret` is remembered by its header address, with the size asked for.
KmallocReturn(p) ==
    /\ pc[p] = "found"
    /\ held' = [held EXCEPT ![p] = @ \cup {[ptr |-> cur[p], len |-> want[p]]}]
    /\ Return(p)
    /\ UNCHANGED blk

\* The walk ended: out of memory.
KmallocFail(p) ==
    /\ pc[p] = "scan"
    /\ cur[p] = NULL
    /\ Return(p)
    /\ UNCHANGED <<blk, held>>

-----------------------------------------------------------------------------
(* kfree.  kfree(NULL) returns at once and changes nothing. *)

Kfree(p, h) ==
    /\ pc[p] = "idle"
    /\ held' = [held EXCEPT ![p] = @ \ {h}]
    /\ cur' = [cur EXCEPT ![p] = h.ptr]
    /\ pc' = [pc EXCEPT ![p] = "kfree"]
    /\ UNCHANGED <<blk, locked, want>>

\* Fault: the sweep starts at the freed block and misses its left neighbour.
KfreeLock_FromBlock(p) ==
    /\ pc[p] = "kfree"
    /\ Acquire
    /\ blk' = [blk EXCEPT ![cur[p]].free = TRUE]
    /\ pc' = [pc EXCEPT ![p] = "coalesce"]
    /\ UNCHANGED <<cur, want, held>>

KfreeLock(p) ==
    /\ pc[p] = "kfree"
    /\ Acquire
    /\ blk' = [blk EXCEPT ![cur[p]].free = TRUE]
    /\ cur' = [cur EXCEPT ![p] = kheap_head]
    /\ pc' = [pc EXCEPT ![p] = "coalesce"]
    /\ UNCHANGED <<want, held>>

\* Fault: the absorbed header's own bytes are forgotten.
Merged_LosesHeader(c) ==
    LET n == blk[c].next
    IN  [size |-> blk[c].size + blk[n].size, next |-> blk[n].next, free |-> TRUE]

\* The header of c once its neighbour has been absorbed.
Merged(c) ==
    LET n == blk[c].next
    IN  [size |-> blk[c].size + HeaderSize + blk[n].size,
         next |-> blk[n].next, free |-> TRUE]

BothFree(c) == blk[c].free /\ blk[blk[c].next].free

\* Fault: the sweep moves on after every merge.
KfreeMerge_Advances(p) ==
    LET c == cur[p]
    IN  /\ pc[p] = "coalesce"
        /\ c # NULL /\ blk[c].next # NULL
        /\ BothFree(c)
        /\ blk' = [b \in DOMAIN blk \ {blk[c].next} |->
                     IF b = c THEN Merged(c) ELSE blk[b]]
        /\ cur' = [cur EXCEPT ![p] = blk'[c].next]
        /\ UNCHANGED <<locked, pc, want, held>>

KfreeMerge(p) ==
    LET c == cur[p]
    IN  /\ pc[p] = "coalesce"
        /\ c # NULL /\ blk[c].next # NULL
        /\ BothFree(c)
        /\ blk' = [b \in DOMAIN blk \ {blk[c].next} |->
                     IF b = c THEN Merged(c) ELSE blk[b]]
        /\ UNCHANGED <<locked, pc, cur, want, held>>

KfreeAdvance(p) ==
    LET c == cur[p]
    IN  /\ pc[p] = "coalesce"
        /\ c # NULL /\ blk[c].next # NULL
        /\ ~BothFree(c)
        /\ cur' = [cur EXCEPT ![p] = blk[c].next]
        /\ UNCHANGED <<blk, locked, pc, want, held>>

KfreeReturn(p) ==
    /\ pc[p] = "coalesce"
    /\ cur[p] # NULL => blk[cur[p]].next = NULL
    /\ Return(p)
    /\ UNCHANGED <<blk, held>>

-----------------------------------------------------------------------------

Call(p) == \/ \E size \in Sizes : Kmalloc(p, size)
           \/ \E h \in held[p] : Kfree(p, h)

\* What a process does by itself once it holds the lock.
Walk(p) ==
    \/ KmallocTake(p) \/ KmallocAdvance(p) \/ KmallocReturn(p) \/ KmallocFail(p)
    \/ KfreeMerge(p) \/ KfreeAdvance(p) \/ KfreeReturn(p)

Next == \E p \in Procs : Call(p) \/ KmallocLock(p) \/ KfreeLock(p) \/ Walk(p)

\* The timer interrupt preempts whoever holds the lock but comes back to it
\* (round robin), so its walk goes on.  Nothing is assumed of the spinning
\* processes: xchg may lose every race.
Fairness == \A p \in Procs : WF_vars(Walk(p))

Spec == Init /\ [][Next]_vars /\ Fairness

-----------------------------------------------------------------------------
(* Properties *)

Header == [size : Nat, next : Nat \cup {NULL}, free : BOOLEAN]

Allocation == [ptr : Nat, len : Nat]

\* The variables have their types; in particular no size underflowed.
TypeOK ==
    /\ DOMAIN blk \subseteq Nat
    /\ blk \in [DOMAIN blk -> Header]
    /\ locked \in BOOLEAN
    /\ pc \in [Procs -> Locations]
    /\ cur \in [Procs -> Nat \cup {NULL}]
    /\ want \in [Procs -> Nat]
    /\ held \in [Procs -> SUBSET Allocation]

\* The half-open byte ranges [a, a+n) and [b, b+m) do not meet.
Apart(a, n, b, m) == a + n <= b \/ b + m <= a

\* kmalloc's promise to its callers, across every interleaving of splits and
\* merges by other processes: the bytes asked for lie inside the heap, apart
\* from those of every other live allocation and from every block header, so a
\* caller that stays within its buffer corrupts neither data nor the list.
LiveMemoryIsExclusive ==
    \A p \in Procs : \A h \in held[p] :
        /\ Payload(h.ptr) + h.len <= HeapSize
        /\ \A b \in DOMAIN blk : Apart(b, HeaderSize, Payload(h.ptr), h.len)
        /\ \A q \in Procs : \A g \in held[q] :
              p # q \/ g # h =>
                  Apart(Payload(g.ptr), g.len, Payload(h.ptr), h.len)

\* The list, followed by `next`, partitions the heap: each block ends where the
\* next one begins and the last one at KHEAP_END.  No splitting or merging
\* loses a byte or counts one twice.
BlocksTileTheHeap ==
    /\ kheap_head \in DOMAIN blk
    /\ \A b \in DOMAIN blk :
          /\ EndOf(b) <= HeapSize
          /\ blk[b].next = NULL => EndOf(b) = HeapSize
          /\ blk[b].next # NULL => /\ blk[b].next \in DOMAIN blk
                                   /\ EndOf(b) = blk[b].next
    /\ \A b, c \in DOMAIN blk : b < c => EndOf(b) <= c

\* spin_lock admits one process at a time, and the lock is taken exactly when
\* some process is between spin_lock and spin_unlock: no early return of kmalloc
\* leaves it locked.
LockIsExclusive ==
    /\ \A p, q \in Procs : pc[p] \in Critical /\ pc[q] \in Critical => p = q
    /\ locked <=> \E p \in Procs : pc[p] \in Critical

\* A process whose walk ended without a block is told NULL rightly: no free
\* block anywhere in the list, before or after a split or merge, fits it.
OutOfMemoryIsHonest ==
    \A p \in Procs : pc[p] = "scan" /\ cur[p] = NULL =>
        \A b \in DOMAIN blk : ~Fits(b, align16(want[p]))

\* kfree's single forward sweep is enough: whenever the lock is free no two
\* neighbours are both free, so memory is never refused for lack of merging.
FullyCoalesced ==
    ~locked => \A b \in DOMAIN blk : blk[b].next # NULL => ~BothFree(b)

\* Nothing leaks: once every allocation has been freed and no call is in
\* progress the heap is back to the one block kheap_init built.
AllFreedRestoresTheHeap ==
    (\A p \in Procs : pc[p] = "idle" /\ held[p] = {}) =>
        /\ DOMAIN blk = {kheap_head}
        /\ blk[kheap_head] = [size |-> HeapSize - HeaderSize,
                              next |-> NULL, free |-> TRUE]

\* Every walk ends: a process that got the lock gives it back, because neither
\* the first-fit search nor the sweep can run for ever.
LockIsReleased ==
    \A p \in Procs : pc[p] \in Critical ~> pc[p] = "idle"
=============================================================================
