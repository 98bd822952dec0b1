------------------------------- MODULE Memory -------------------------------
(***************************************************************************)
(* Physical frames and page tables (mm/mm.c) with the callers that map     *)
(* user memory: mm_init, sys_brk and sys_mmap (kernel/syscall.c).  One     *)
(* tree of four levels, rooted in boot_pml4, is shared by every process.   *)
(*                                                                         *)
(* Memory is kept as the code keeps it: ent[f][i] is word i of frame f, an *)
(* entry if f is a table.  0 is an entry that is not present, f > 0 points *)
(* to frame f, and -1 - f is a huge entry for the frames from f on.  The   *)
(* kernel reads and writes a table at its physical address, which the      *)
(* processor translates like any other: through boot.asm's huge pages for  *)
(* the first 4 MiB, through the users' own mappings behind them.           *)
(*                                                                         *)
(* A system call runs with interrupts on (syscall_entry.asm executes sti   *)
(* before it calls the handler), so the search of the bitmap, the store to *)
(* it and each level of the walk are separate steps.  Preemptive = FALSE   *)
(* keeps system calls from interleaving, which the build does not.         *)
(*                                                                         *)
(* An operator whose comment begins with "Fault:" is a plausible mistake   *)
(* in the definition after it; substituting it must break a property.      *)
(***************************************************************************)
EXTENDS Integers, FiniteSets

CONSTANTS NProcs,
          NFrames,           \* MAX_PHYS_PAGES: 32768
          Fanout,            \* entries of a table: 512
          PageBytes,         \* PAGE_SIZE: 4096
          HeapMax,           \* USER_HEAP_MAX, in bytes
          StackPage,         \* the page below USER_STACK_TOP
          MmapAddrs, MmapLengths,  \* the arguments processes give to mmap
          FaultPages,              \* the pages processes touch
          Leftovers,               \* what memory may hold when the kernel starts
          Preemptive

ASSUME SizeAssumption ==
    /\ {NProcs, NFrames, Fanout, PageBytes} \subseteq Nat \ {0}
    /\ Fanout > 3 /\ NFrames > 2 * Fanout
    /\ Leftovers \subseteq 0..(NFrames - 1)
    /\ MmapAddrs \subseteq Nat /\ MmapLengths \subseteq Nat /\ FaultPages \subseteq Nat

VARIABLES
    used,       \* phys_bitmap: the frames whose bit is set
    ent,
    brk,        \* proc->brk
    job,        \* the call each process is in and its local variables
    lost,       \* history: the pages mm_map_page returned from without mapping them
    astray,     \* history: a table was taken from a frame no huge page covers
    halted      \* exception_handler reached its hlt loop

vars == <<used, ent, brk, job, lost, astray, halted>>

Procs == 1..NProcs
KERNEL == 0                        \* kernel_main in mm_init
Actors == Procs \cup {KERNEL}
Frames == 0..(NFrames - 1)
Index == 0..(Fanout - 1)
NPages == Fanout * (Fanout * (Fanout * Fanout))
Pages == 0..(NPages - 1)

\* boot_pd maps the first 4 MiB to themselves with two huge pages.
HugeEntries == 2
Direct == HugeEntries * Fanout

\* Fault: the loop of mm_init ends one page early.
Reserved_OneShort == 0..(Fanout - 2)

\* The first 2 MiB, one huge page, hold the kernel image and the boot tables.
Reserved == 0..(Fanout - 1)
PML4 == 1
BootPDPT == 2
BootPD == 3
Huge(f) == -1 - f
Address(e) == IF e < 0 THEN -1 - e ELSE e      \* e & PTE_ADDR_MASK

\* pml4_index, pdpt_index, pd_index and pt_index of page v, for levels 1 to 4.
Up(v) == v \div Fanout
Idx(v, l) == (CASE l = 1 -> Up(Up(Up(v)))
                [] l = 2 -> Up(Up(v))
                [] l = 3 -> Up(v)
                [] OTHER -> v) % Fanout

page_align_up(a) == (a + PageBytes - 1) \div PageBytes    \* as a page number
HeapStart == Direct * PageBytes                           \* USER_HEAP_START

\* The processor's walk.
Below(t, v, l) == IF t <= 0 THEN t ELSE ent[t][Idx(v, l)]
Translation(v) == Below(Below(Below(Below(PML4, v, 1), v, 2), v, 3), v, 4)
Mapped(v) == Translation(v) # 0

\* The frame that the kernel reaches at the physical address of frame f.
Home(f) == IF Translation(f) < 0 THEN Address(Translation(f)) + (f % Fanout)
                                 ELSE Translation(f)

Idle == [op |-> "none", pc |-> "idle", first |-> 0, v |-> 0, end |-> 0,
         arg |-> 0, phys |-> 0, tbl |-> 0, lvl |-> 0, new |-> 0]
Call(op, first, end, arg) ==
    [op |-> op, pc |-> "page", first |-> first, v |-> first, end |-> end,
     arg |-> arg, phys |-> 0, tbl |-> 0, lvl |-> 0, new |-> 0]

\* boot.asm's tree and mm_init's bitmap; mm_init is about to map the stack.
Init ==
    /\ used = Reserved
    /\ \E x \in Leftovers :
         ent = [f \in Frames |-> [i \in Index |->
                  CASE f = PML4 -> IF i = 0 THEN BootPDPT ELSE 0
                    [] f = BootPDPT -> IF i = 0 THEN BootPD ELSE 0
                    [] f = BootPD -> IF i < HugeEntries THEN Huge(i * Fanout) ELSE 0
                    [] OTHER -> x]]
    /\ brk = [p \in Procs |-> HeapStart]
    /\ job = [p \in Actors |-> IF p = KERNEL
                               THEN Call("stack", StackPage, StackPage + 1, 0)
                               ELSE Idle]
    /\ lost = {}
    /\ astray = FALSE
    /\ halted = FALSE

-----------------------------------------------------------------------------
(* The allocator *)

\* find_free_page
LowestFree(f) ==
    /\ f \notin used
    /\ \A g \in Frames : g < f => g \in used

OutOfFrames == Frames \subseteq used

-----------------------------------------------------------------------------
(* Who may take a step *)

\* mm_init precedes the processes.
CanRun(p) ==
    /\ ~halted
    /\ \A q \in Actors \ {p} : job[q].pc # "idle" => Preemptive /\ q # KERNEL

At(p, pc) == CanRun(p) /\ job[p].pc = pc

-----------------------------------------------------------------------------
(* The callers *)

\* old_aligned
GrowthStart(b) == page_align_up(b)

\* sys_brk with a larger break.  Requests below heap_start or from
\* USER_HEAP_MAX on return the old break and change nothing.
BrkGrow(p, b) ==
    /\ At(p, "idle")
    /\ b > brk[p] /\ b < HeapMax
    /\ job' = [job EXCEPT ![p] = Call("brk", GrowthStart(brk[p]), page_align_up(b), b)]
    /\ UNCHANGED <<used, ent, brk, lost, astray, halted>>

\* A smaller break: nothing is unmapped.
BrkShrink(p, b) ==
    /\ At(p, "idle")
    /\ b < brk[p] /\ b >= HeapStart
    /\ brk' = [brk EXCEPT ![p] = b]
    /\ UNCHANGED <<used, ent, job, lost, astray, halted>>

\* sys_mmap: address 0 stands for the break, which does not move.
Mmap(p, addr, length) ==
    LET start == page_align_up(IF addr = 0 THEN brk[p] ELSE addr)
    IN  /\ At(p, "idle")
        /\ job' = [job EXCEPT ![p] =
                     Call("mmap", start, page_align_up(start * PageBytes + length), 0)]
        /\ UNCHANGED <<used, ent, brk, lost, astray, halted>>

\* A user access to a page that is not present.  idt_init points every
\* exception to isr_stub_0, so exception_handler takes it for number 0: hlt,
\* interrupts off.
Halt(p, v) ==
    /\ At(p, "idle")
    /\ ~Mapped(v)
    /\ halted' = TRUE
    /\ UNCHANGED <<used, ent, brk, job, lost, astray>>

-----------------------------------------------------------------------------
(* The loop over the pages of a call *)

\* pmm_alloc_page: find_free_page has returned.
FindFrame(p) ==
    /\ At(p, "page")
    /\ job[p].v < job[p].end
    /\ \E f \in Frames :
         /\ LowestFree(f)
         /\ job' = [job EXCEPT ![p].pc = "claim", ![p].phys = f]
    /\ UNCHANGED <<used, ent, brk, lost, astray, halted>>

\* Fault: the break moves although the loop did not finish.
NoFrame_Commits(p) ==
    /\ At(p, "page")
    /\ job[p].v < job[p].end
    /\ OutOfFrames
    /\ brk' = IF job[p].op = "brk" THEN [brk EXCEPT ![p] = job[p].arg] ELSE brk
    /\ job' = [job EXCEPT ![p] = Idle]
    /\ UNCHANGED <<used, ent, lost, astray, halted>>

\* Fault: the loop waits for a frame.
NoFrame_Retries(p) ==
    /\ At(p, "page")
    /\ job[p].v < job[p].end
    /\ OutOfFrames
    /\ job' = [job EXCEPT ![p].pc = "page"]
    /\ UNCHANGED <<used, ent, brk, lost, astray, halted>>

\* No frame: the call fails and keeps what it mapped so far.
NoFrame(p) ==
    /\ At(p, "page")
    /\ job[p].v < job[p].end
    /\ OutOfFrames
    /\ job' = [job EXCEPT ![p] = Idle]
    /\ UNCHANGED <<used, ent, brk, lost, astray, halted>>

\* Fault: the bit is not set.
ClaimFrame_NoBit(p) ==
    /\ At(p, "claim")
    /\ job' = [job EXCEPT ![p].pc = "walk", ![p].tbl = PML4, ![p].lvl = 1]
    /\ UNCHANGED <<used, ent, brk, lost, astray, halted>>

\* bitmap_set, and mm_map_page begins at the root.
ClaimFrame(p) ==
    /\ At(p, "claim")
    /\ used' = used \cup {job[p].phys}
    /\ job' = [job EXCEPT ![p].pc = "walk", ![p].tbl = PML4, ![p].lvl = 1]
    /\ UNCHANGED <<ent, brk, lost, astray, halted>>

\* The entry the walk of p looks at, where the kernel finds the table.
Entry(p) == ent[Home(job[p].tbl)][Idx(job[p].v, job[p].lvl)]

\* The address of a table is not mapped: the kernel's own access faults.
KernelFault(p) ==
    /\ \/ At(p, "walk") /\ ~Mapped(job[p].tbl)
       \/ At(p, "table") /\ ~(Mapped(job[p].new) /\ Mapped(job[p].tbl))
    /\ halted' = TRUE
    /\ UNCHANGED <<used, ent, brk, job, lost, astray>>

\* A present entry: the next table is at its address.  An entry that is
\* present and huge takes this branch too.
Descend(p) ==
    /\ At(p, "walk") /\ Mapped(job[p].tbl)
    /\ job[p].lvl < 4
    /\ Entry(p) # 0
    /\ job' = [job EXCEPT ![p].tbl = Address(Entry(p)), ![p].lvl = @ + 1]
    /\ UNCHANGED <<used, ent, brk, lost, astray, halted>>

\* alloc_table: find_free_page has returned.
FindTable(p) ==
    /\ At(p, "walk") /\ Mapped(job[p].tbl)
    /\ job[p].lvl < 4
    /\ Entry(p) = 0
    /\ \E f \in Frames :
         /\ LowestFree(f)
         /\ job' = [job EXCEPT ![p].pc = "table", ![p].new = f]
    /\ UNCHANGED <<used, ent, brk, lost, astray, halted>>

\* No frame for a table: mm_map_page returns, and its callers cannot tell.
NoTable(p) ==
    /\ At(p, "walk") /\ Mapped(job[p].tbl)
    /\ job[p].lvl < 4
    /\ Entry(p) = 0
    /\ OutOfFrames
    /\ lost' = lost \cup {job[p].v}
    /\ job' = [job EXCEPT ![p].pc = "page", ![p].v = @ + 1]
    /\ UNCHANGED <<used, ent, brk, astray, halted>>

Zeroed == [i \in Index |-> 0]

\* Fault: the new table keeps what the frame held.
NewTable_Dirty(old) == old

\* alloc_table clears the frame.
NewTable(old) == Zeroed

\* Fault: the new table also replaces the entry before the one it is for.
EnterTable_Spills(p) ==
    /\ At(p, "table") /\ Mapped(job[p].new) /\ Mapped(job[p].tbl)
    /\ used' = used \cup {job[p].new}
    /\ LET i == Idx(job[p].v, job[p].lvl)
       IN  ent' = [ent EXCEPT ![Home(job[p].new)] = NewTable(@),
                              ![Home(job[p].tbl)][i] = job[p].new,
                              ![Home(job[p].tbl)][IF i = 0 THEN 1 ELSE i - 1] = 0]
    /\ job' = [job EXCEPT ![p].pc = "walk", ![p].tbl = job[p].new, ![p].lvl = @ + 1]
    /\ astray' = (astray \/ job[p].new >= Direct)
    /\ UNCHANGED <<brk, lost, halted>>

\* The table is claimed, cleared and entered.  Behind the huge pages the store
\* that clears it hits the user page at that address, the frame itself keeps
\* what it held, and the call goes on.
EnterTable(p) ==
    /\ At(p, "table") /\ Mapped(job[p].new) /\ Mapped(job[p].tbl)
    /\ used' = used \cup {job[p].new}
    /\ ent' = [ent EXCEPT ![Home(job[p].new)] = NewTable(@),
                          ![Home(job[p].tbl)][Idx(job[p].v, job[p].lvl)] = job[p].new]
    /\ job' = [job EXCEPT ![p].pc = "walk", ![p].tbl = job[p].new, ![p].lvl = @ + 1]
    /\ astray' = (astray \/ job[p].new >= Direct)
    /\ UNCHANGED <<brk, lost, halted>>

\* Fault: pt_index takes the bits of the next level up.
EnterPage_WrongIndex(p) ==
    /\ At(p, "walk") /\ Mapped(job[p].tbl)
    /\ job[p].lvl = 4
    /\ ent' = [ent EXCEPT ![Home(job[p].tbl)][Idx(job[p].v, 3)] = job[p].phys]
    /\ lost' = lost \ {job[p].v}
    /\ job' = [job EXCEPT ![p].pc = "page", ![p].v = @ + 1]
    /\ UNCHANGED <<used, brk, astray, halted>>

\* pt[pti] = phys | flags, and the loop goes on to the next page.  For a page
\* inside a huge one, pt is the huge page itself.
EnterPage(p) ==
    /\ At(p, "walk") /\ Mapped(job[p].tbl)
    /\ job[p].lvl = 4
    /\ ent' = [ent EXCEPT ![Home(job[p].tbl)][Idx(job[p].v, 4)] = job[p].phys]
    /\ lost' = lost \ {job[p].v}
    /\ job' = [job EXCEPT ![p].pc = "page", ![p].v = @ + 1]
    /\ UNCHANGED <<used, brk, astray, halted>>

\* The call returns; sys_brk moves the break first.
Finish(p) ==
    /\ At(p, "page")
    /\ job[p].v >= job[p].end
    /\ brk' = IF job[p].op = "brk" THEN [brk EXCEPT ![p] = job[p].arg] ELSE brk
    /\ job' = [job EXCEPT ![p] = Idle]
    /\ UNCHANGED <<used, ent, lost, astray, halted>>

-----------------------------------------------------------------------------
MapStep(p) ==
    \/ FindFrame(p) \/ NoFrame(p) \/ ClaimFrame(p)
    \/ Descend(p) \/ FindTable(p) \/ NoTable(p) \/ EnterTable(p) \/ KernelFault(p)
    \/ EnterPage(p) \/ Finish(p)

UserStep(p) ==
    \/ \E b \in HeapStart..HeapMax : BrkGrow(p, b) \/ BrkShrink(p, b)
    \/ \E addr \in MmapAddrs, length \in MmapLengths : Mmap(p, addr, length)
    \/ \E v \in FaultPages : Halt(p, v)

Next ==
    \/ \E p \in Actors : MapStep(p)
    \/ \E p \in Procs : UserStep(p)

\* The kernel does not block inside a call: a process that is dispatched goes
\* on with its loop.
Fairness == \A p \in Actors : WF_vars(MapStep(p))

Spec == Init /\ [][Next]_vars /\ Fairness

-----------------------------------------------------------------------------
(* Properties.  They end with the first table behind the huge pages       *)
(* (astray): from then on mm_map_page writes into user memory.             *)

\* Variables have the types of the code's data, and every entry is a frame.
TypeOK ==
    /\ used \subseteq Frames
    /\ ent \in [Frames -> [Index -> Frames \cup {Huge(f) : f \in Frames}]]
    /\ brk \in [Procs -> HeapStart..(HeapMax - 1)]
    /\ job \in [Actors -> [op : {"none", "stack", "brk", "mmap"},
                           pc : {"idle", "page", "claim", "walk", "table"},
                           first : Nat, v : Nat, end : Nat, arg : Nat,
                           phys : Frames, tbl : Frames, lvl : 0..4, new : Frames]]
    /\ lost \subseteq Nat
    /\ {astray, halted} \subseteq BOOLEAN

Pointers(tables) == {ent[t][i] : t \in tables, i \in Index} \cap (Frames \ {0})
Tables == LET pdpts == Pointers({PML4})
              pds == Pointers(pdpts)
          IN  {PML4} \cup pdpts \cup pds \cup Pointers(pds)

\* The table entries that point to a frame.
Slots == {s \in Tables \X Index : ent[s[1]][s[2]] > 0}

\* The state is well formed: no two entries of the live page tables point to
\* one frame, whether it is a table or user memory; every frame they point to
\* is marked in the bitmap; and the frame a call is about to map is in no entry
\* yet and in no other call's hands.  Otherwise two users share memory, or a
\* user page is a table.
EveryFrameHasOneOwner ==
    \/ astray
    \/ /\ TypeOK
       /\ \A s, t \in Slots : ent[s[1]][s[2]] = ent[t[1]][t[2]] => s = t
       /\ \A s \in Slots : ent[s[1]][s[2]] \in used \ {PML4}
       /\ \A p \in Actors : job[p].pc \in {"walk", "table"} =>
            /\ \A s \in Slots : ent[s[1]][s[2]] # job[p].phys
            /\ \A q \in Actors \ {p} :
                 job[q].pc \in {"walk", "table"} => job[q].phys # job[p].phys

\* mm_map_page stores into page tables of the live tree only: the table at
\* which a walk stands is one.  The exception is the page inside a huge page,
\* which sys_mmap accepts: its walk takes the huge page for a page table
\* (mm.c:153), and what it overwrites there is no table of the tree.
WalksStayInTheTree ==
    \/ astray
    \/ \A p \in Actors : job[p].pc \in {"walk", "table"} =>
         IF job[p].v < Direct /\ job[p].lvl = 4
         THEN job[p].pc = "walk" /\ job[p].tbl \notin Tables
         ELSE job[p].tbl \in Tables

\* What brk and mmap return exists: every page below a process's break, and
\* every page that a call has passed, is mapped, except the very pages for
\* which mm_map_page found no frame for a table and which nobody mapped since
\* (lost).  For those sys_brk moves the break although its comment
\* (syscall.c:184) guarantees the mapping.
GrantedMemoryIsMapped ==
    \/ astray
    \/ /\ \A p \in Procs :
            \A v \in page_align_up(HeapStart)..(page_align_up(brk[p]) - 1) :
               Mapped(v) \/ v \in lost
       /\ \A p \in Actors :
            \A v \in job[p].first..(job[p].v - 1) : Mapped(v) \/ v \in lost

\* A step changes the translation of one page at most, to the frame a call
\* allocated for it: a new table hides no mapping and creates none.
OnlyTheMappedPageChanges ==
    [][ent' # ent /\ ~astray' => \A v \in Pages : Translation(v)' # Translation(v) =>
         \E p \in Actors : job[p].v = v /\ Translation(v)' = job[p].phys]_vars

\* Every call returns, unless the machine stops: the loops end.
CallsReturn ==
    \A p \in Actors : job[p].pc # "idle" ~> (job[p].pc = "idle" \/ halted)
=============================================================================
