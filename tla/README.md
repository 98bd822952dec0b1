# Mesa-OS: TLA+ models, checks and proofs

Mesa-OS is a small x86-64 kernel in C and assembly: it boots through GRUB, sets up
paging, a heap, interrupts and system calls, creates five processes, and offers a
VGA console, a keyboard, an ATA disk with a partition table and MesaFS. This
directory models the parts of it that have state worth arguing about, checks them
with TLC on small instances, and proves with TLAPS, for every size, each of the safety properties that
the passing runs check: of the heap, the scheduler, the page tables, the interrupt and call frames,
the keyboard ring, the console, the boot from disk, the disk driver, the file calls of the shell,
the copies of system calls and the loader. Paths below are relative to the repository (`src/`).

* [1 The system](#1-the-system) · [2 Modules and code](#2-modules-and-the-code-they-model) ·
  [3 Runs](#3-runs-bounds-and-what-they-show) · [4 Findings](#4-findings) ·
  [5 Fairness](#5-fairness) · [6 Proofs](#6-proofs) ·
  [7 Not modelled](#7-what-is-not-modelled) · [8 Plan](#8-plan)

## 1 The system

One CPU. Concurrency has two sources: interrupts (timer IRQ 0, keyboard IRQ 1) and
the switch of processes in the timer interrupt. System calls run with interrupts
**on**: `kernel/syscall_entry.asm:74` executes `sti` before it calls the handler, so
a process can lose the CPU in the middle of any kernel function that does not
disable them. Interrupt handlers themselves run with interrupts off.

| Component | State | Operations | Interacts with | What makes it correct |
|---|---|---|---|---|
| Kernel heap `mm/kheap.c` | address-ordered block list, spinlock | `kheap_init`, `kmalloc`, `kfree` | system calls (`sys_exec`), disk driver | live buffers disjoint from each other and from headers; list tiles the heap; NULL only when nothing fits; merges complete; lock always returned |
| Frames and paging `mm/mm.c` | bitmap, one page-table tree for all processes | `find_free_page`, `pmm_alloc_page`, `alloc_table`, `mm_map_page`, `mm_init` | `sys_brk`, `sys_mmap`, ELF loader | one owner per frame; walks store only into tables; heap below the break is mapped |
| Processes, scheduler `proc/proc.c`, `sched/sched.c`, `kernel/idt.c`, `kernel/tss.c` | process table, circular list, `current_process`, `TSS.rsp0`, time slices | `proc_create`, `sched_add_process`, `schedule`, timer handler, `sys_exit`, IPC wait/wake | everything that is preempted | one RUNNING process, its stack in the TSS; nobody lost from the ring; bounded waiting; ZOMBIE and WAITING respected |
| Keyboard, console input `drivers/keyboard.c`, `drivers/vfs.c` | modifier flags, ring of 256 characters | IRQ 1 handler, push, pop, backspace, `console_read` | console (echo), scheduler (hlt) | ring is a FIFO queue; screen and input agree; no key slept on |
| Console `drivers/console.c` | cursor, screen, ring of 100 lines, view offset | `console_putchar`, `console_clear`, scroll up/down | writers, keyboard echo, arrow keys | cursor comes back to the screen; history is the last lines in order; view moves by a line |
| Disk, partitions, MesaFS `drivers/disk.c`, `partition.c`, `mesafs.c`, mount in `kernel.c` | sectors; mounted superblock | detect, MBR read/write, format, mount, inode and path reads | `kernel_main`, VFS | existing data never overwritten, across power failures; a mounted file system is complete |
| Disk driver `drivers/disk.c` | drive's registers and sector buffer, `disk_total_sectors` | detect, read and write a sector | MesaFS, partition code | a read returns what was last written; every operation returns |
| System-call entry `kernel/syscall_entry.asm`, `syscall.c` | `user_rsp` slot, GS, one kernel stack | entry, dispatch, 15 handlers | all | registers and stacks of different processes do not mix |
| Interrupt frames `isr.asm`, `idt.c` (`proc/switch.asm` and `usermode.asm` are never reached) | saved frames on kernel stacks | push, switch, pop | scheduler | a process goes on exactly as it was; frames do not pile up |
| IPC `include/ipc.h` (its `ipc.c` is not in the repository) | mailboxes | send, receive, call | scheduler, user programs | copies fit their buffers |
| User access `kernel/uaccess.c` | none | pointer check, copies | every call | exactly the ranges of user memory pass |
| ELF loader `elf/elf.c`, `sys_exec` | a kernel buffer, the loaded pages | find, read, validate, load, exit | MesaFS, heap, paging | loaded bytes are the file's bytes; the buffer is freed |
| User programs `user/*.c` | the shell's line and buffers, the server's peer | shell commands, messages | calls | what is typed is found, what is found is shown |
| Boot, GDT/TSS/IDT/PIC set-up, build files | | | | straight-line code |

The hard behaviours are: preemption inside unlocked kernel code (frames, console,
system-call entry), down to a test and the decrement it guards; the lock of the heap held across preemption; a key that arrives
between a reader's failed pop and its `hlt`; a process that exits, waits or is
woken within one time slice; the end of memory, of the heap, of the process table and
of the rings; power failing between two sector writes of a format; a drive that is slow,
silent or failing; frames of several processes on one stack; buffers, names, blocks and
pages at their last byte. `PROJECT.json`
lists each with its line and the properties aimed at it.

## 2 Modules and the code they model

Each module has its state as variables with the code's names, one action per handler
or per atomic step of a handler, and its properties at the end. `PROJECT.json` maps every
definition to the lines it stands for. `MC*.tla` modules only extend a specification so
that a `.cfg` can give its constants values. Operators named `X_Something`, marked
`Fault:` and placed before `X`, are plausible mistakes in `X`; replacing `X` by one must
break the property it is paired with.

**Kheap** (`mm/kheap.c`, `include/spinlock.h`). `blk` is the heap's memory seen as a
partial function from addresses to headers, with the real 24-byte header and
`align16`. `KmallocLock`/`KfreeLock` are the successful `xchg`; every iteration of the
first-fit search and of `kfree`'s coalescing sweep is one step of `Walk`, so other
processes run in between and only the lock keeps them out. Callers are system calls: they
free only what they got, once.

**Sched** (`proc/proc.c`, `sched/sched.c`, `kernel.c`, timer part of `kernel/idt.c`,
`kernel/tss.c`, `sys_exit`). `ProcCreate`, `ProcCreateFails`, `SchedAddProcess`,
`StartScheduler` are the boot; `TimerTick`, `TimerSearch` (one iteration),
`TimerSwitch`, `TimerKeep` are `irq_handler_with_switch` with its two EOI paths;
`TimerIdle` is the handler with no current process; `SysExit`, `IpcWait`, `IpcWake` are
what a process does to process states (the last two are external: how `syscall.c` uses the missing
`ipc.c`). `ScheduleFirst` is `schedule()` with no current process: it makes the head RUNNING and sets
its stack in the TSS, but the assignment of `current_process` stands behind `context_switch(&dummy, ...)`,
which goes on in the new process and never returns there (`sched.c:38-41`), so `current` stays NULL.
The timer handler is written for a kernel that has a current process. `HandOver`, which stands for no code
of the repository, is the first dispatch it relies on: with `SetsCurrent = FALSE` it never happens, which is
the kernel as built; with `TRUE` it may happen in place of `ScheduleFirst`, and the handler can be checked.

**InputQueue, Keyboard** (`drivers/keyboard.c`, `console_read` of `drivers/vfs.c`).
`InputQueue` is the abstract promise, a bounded FIFO queue whose last character may be taken
back unless it ends a line. `Keyboard` has the ring with its three indices, the
modifiers, the translation of scancodes, echo, Ctrl-L, Backspace, and readers that pop,
fail, and halt. `Q == INSTANCE InputQueue WITH queue <- Contents, ...` is the refinement
mapping: the ring read from `tail`.

**Memory** (`mm/mm.c`, `sys_brk`, `sys_mmap`, the hlt of `exception_handler`). Memory is what frames
hold: `ent[f][i]` is word *i* of frame *f*, an entry if the frame is a table; huge entries are negative. Search
of the bitmap, store to it and each level of `mm_map_page`'s walk are separate steps.
`Preemptive` selects whether calls interleave. The kernel reads and writes a table at its
physical address, which the processor translates like any other (`Home`): under the two huge pages of
`boot.asm` that is the frame itself; behind them it is whatever page a user has mapped there. A table
taken from such a frame (`astray`) is then not cleared, a page of the user's heap is, later entries go into that
page and the call goes on and commits; if nothing is mapped there the kernel's own access faults
(`KernelFault`) and the machine halts. `sys_mmap` takes addresses inside the huge pages too, whose walk takes
the huge page for a page table.

**Storage** (`drivers/disk.c`, `drivers/partition.c`, format and mount of
`drivers/mesafs.c`, `kernel.c`). The disk is a function from sectors to what the code tells
apart (a partition table, a superblock, an inode sector, zeros, junk). Each sector write is a
step and `Restart` may follow any of them.

**Console** (`drivers/console.c`). `console_putchar` and `console_scroll` have no lock, so a writer is cut
apart between any two accesses to the cursor and the ring: the test of a case and its stores (`Switch`, then
`StoreRow` and `StoreCol` in either order), the test at the right edge and its two stores (`Edge`), the loop's
test, and in a scroll the choice of the slot, the line, the counter, the move of the rows and the last
row. A writer works on copies of the counters; `LoadRow`, `LoadCol` and `LoadRing` read one again, so what the
compiler keeps in registers (the Makefile builds with `-O2`) and what it reads twice are both covered. Counters
wrap at `Word`. The keyboard interrupt (`Interrupts`) is a writer that, once begun, runs to its end. `Clear`,
a redraw and the move of all rows are one step each.

**SectorDisk, Ata** (`drivers/disk.c`). `SectorDisk` is what MesaFS expects, an array of
sectors. `Ata` has every port access of `ata_identify`, `disk_read_sector` and
`disk_write_sector` as a step, against an external drive that is busy as long as it
likes, ignores its registers while it is, and may report errors. `gaveUp` records that a wait before a command
ended with the drive busy, so that its ports were written for nothing. The mapping is
`store <- Committed`: a write counts once the drive has all its words. `Storage` uses the disk
as `SectorDisk` describes it.

**Context** (`kernel/isr.asm`, `irq_handler_with_switch`, `kernel/syscall_entry.asm`,
`include/usersyscall.h`, `sys_exit`). Stacks are sequences of words and every register has
a value that says whose it is. `IrqReturns` and `IrqSwitches` push the stub's frame where
the processor would (TSS.rsp0 from user mode), exchange stack pointers and pop through
`iretq`; `SyscallEnter` and `SyscallLeave` are the two halves of `syscall_entry` with
`swapgs`, the shared stack and the slot. `own` records what each process is entitled to
find. `Callers` are the processes that make system calls: with one of them the entry works,
with two it does not (finding 2). Processes start as interrupted ones, because the first
frame that `proc_create` builds is never resumed in this commit.

**UserAccess** (`kernel/uaccess.c`): the pointer check with sums modulo the address space.
**MesaFS** (reading side of `drivers/mesafs.c`): inodes, directories, paths and reads as operators
on a volume, which nobody writes, followed by what a volume means said without loops.
**Elf** (`elf/elf.c`): the header check and the loader as an operator on the bytes of memory, with 64-bit sums
that wrap and bytes behind the file that are not the program's.
**Userland** (`user/shell.c`, `user/ipc_test.c`, the file, message and exec calls of
`kernel/syscall.c`) composes the three: the shell with one action per system call, programs
that pass any pointer and size, the IPC server and client over external mailboxes, and
`sys_exec` with its kernel buffer. These groups of programs share only the volume, so a
behaviour has one of them (`group`); their interleaving in the kernel is the subject of the
other modules.

The components do not share variables in the model: the heap, the console and the keyboard
see the scheduler only as arbitrary interleaving plus fairness, which `Sched` justifies
for a kernel that has made its first dispatch (`NoStarvation`, `WaitIsBounded`; finding 1); the keyboard sees the console only as echo; `Context`
leaves the choice of the next process to `Sched`.

## 3 Runs, bounds and what they show

| Run | Instance | Distinct states | Checks |
|---|---|---|---|
| `kheap` | 2 processes, heap of 192 bytes, requests of 0, 1, 40 bytes | 62 797 | TypeOK, LiveMemoryIsExclusive, BlocksTileTheHeap, LockIsExclusive, OutOfMemoryIsHonest, FullyCoalesced, AllFreedRestoresTheHeap, LockIsReleased |
| `sched` | 4 slots, 5 creations, slices of 3 ticks | 23 480 | TypeOK, RunningOwnsRsp0, RingHasEveryProcess, WaitIsBounded, ZombiesStayDead, WaitersStayOffTheCpu, NoStarvation |
| `sched_as_built` | `SetsCurrent = FALSE` | — | SchedulerStarts, **violated** |
| `keyboard` | ring of 3, 2 readers, one of four groups of keys | 321 140 | EchoIsWhatIsRead, ReadsReturnLines, RingIsAQueue (refinement), NoSleepOnInput |
| `memory` | 2 processes, 15 frames, tables of 6 entries | 79 084 | EveryFrameHasOneOwner, WalksStayInTheTree, GrantedMemoryIsMapped, OnlyTheMappedPageChanges, CallsReturn |
| `memory_preempted` | 2 interleaving processes | — | EveryFrameHasOneOwner, **violated** |
| `console` | screen 2×2, history of 2 lines, a process and the interrupt, 6 calls | 2 472 710 | CursorComesBack, HistoryIsTheLastLines, ArrowsMoveByOneLine |
| `storage` | nine disk sizes, four partition sizes, at most 3 power failures | 2 535 | FoundDataAreKept, WritesStayInsideThePartition, FreshMountIsComplete, BootFinishes |
| `ata` | 12 sectors of 2 words, three LBAs, waits of 2 polls | 344 472 | IsASectorDisk (refinement), OperationsReturn |
| `context` | 3 processes, 1 of them calls | 7 520 | RunsAsItself, WaitingFramesAreIntact, StacksAreBounded |
| `context_calls` | 2 processes that call | — | RunsAsItself, **violated** |
| `userland` | nine volumes and none, all paths of up to five characters, five pointers, four sizes | 135 650 | PathsNameFiles, FilesAreShownAsStored, CopiesStayInBounds, ExecLoadsAndReleases |

Outside `kheap` and `sched`, where `TypeOK` is proved on its own, the type invariant is a conjunct of one of the
module's properties (EchoIsWhatIsRead, EveryFrameHasOneOwner, HistoryIsTheLastLines,
WritesStayInsideThePartition, IsASectorDisk, StacksAreBounded, PathsNameFiles).

Why the bounds are enough to be interesting:

* *kheap*: 192 bytes hold four blocks, so a split happens in the middle of the list, fits
  are exact or leave a remainder too small to split (24 + 16 bytes), merges happen on the
  left, on the right and on both sides, and requests are refused. What is proved holds for any heap.
* *sched*: four slots for five creations overflow the table once; with three ticks per
  slice events fall early and late in a slice; three other processes make the waiting bound
  nontrivial. `Word = 16` stands for 2^64: it only has to exceed the quantum for a wrap to show.
* *keyboard*: three places wrap, fill and overflow the ring; two readers compete for one line.
  The groups of keys are those that act on one another: letters with Enter, Backspace and
  an arrow; Ctrl with L; Shift with Caps Lock; Escape, Tab and Backspace.
* *memory*: scaled geometry. `Fanout = 6` for 512, `PageBytes = 2` for 4096; pages 0–11 are the two
  huge pages and frames 0–11 the direct map. The stack's page needs one table, the heap's pages one, page 220
  three. Fifteen frames run out in the middle of a call, and the last three lie behind the direct map, with the
  heap mapped at the addresses of two of them: tables are taken there with and without a user page in the way.
  Address 14 lies inside a huge page. When the machine halts nothing runs, so deadlock is not an error here.
* *console*: a 2×2 screen reaches wrap and scroll from every column; a history of two lines is full after two
  scrolls. Six calls fill the ring, store over its oldest line, and leave one to cut into any of the others.
  `Tab = 8` is wider than the screen, so a tab always wraps; `Word = 16` is above what the counters reach, so
  only a decrement below zero wraps. With the calls used up the model stops, so deadlock is not an error.
* *storage*: blocks of 2 sectors for 8 and 3 metadata blocks for 10; disks end before, in and
  behind the partition's metadata; partitions are too small to format, just large enough
  and larger. Power failures are capped by `MaxCrashes`. After the boot nothing writes, so
  the model stops there and deadlock is not an error.
* *ata*: with binary digits for bytes, LBAs 5 and 11 (0101 and 1011) set each port in one of them,
  and 12 is the first behind the end. Both waits of 2 polls can time out with the drive still busy; a drive that
  then misses some of the ports is left with a third sector or with an LBA it does not have.
* *context*: two processes besides the caller make chains of switches while a call is
  preempted; user code has two sets of register values, enough to tell old from new.
* *userland*: names of 1 and 2 characters with a name field of 2 and components of 3; blocks of
  3 bytes, so files cross two block borders; buffers of 4 to 7 bytes that are too short for
  some file and some listing; a table block of 8 inodes, the last of which lies behind it
  (`beyond`). Volumes have duplicate names, holes, a block out of range, a size beyond the blocks,
  a file with the number of stderr, or are freshly formatted. One executable has a segment whose end wraps
  around the address space, one that lies half behind the file, and a sane one. Blocks in use are eight apart:
  `read_block` takes a block number for a sector number, so nearer blocks would overlap.
  Message sizes are the real ones (256) in an address space of 2048 with the kernel in its upper
  half; mailboxes hold 2 messages for 16. After `exit` or `sys_exec` the program is gone, so deadlock is not an error.

Each property is paired with at least one fault in `PROJECT.json` ("mutants") that TLC
finds with the same configuration, so no property holds merely by the shape of the model.

## 4 Findings

Each is a violating run; TLC's trace is the evidence.

1. **No first dispatch** (`sched_as_built`): the timer switches only from an existing
   `current_process`, which nothing sets: nothing calls `schedule()`, and `schedule()` itself would assign it
   only behind a `context_switch` that does not return (`sched.c:38-41`), so the run fails even when it
   is called. `kernel.c:111` announces an active scheduler. `NeverStarts` proves it for any number of processes.
2. **Two callers of system calls** (`context_calls`): a process that enters a call while another is
   preempted inside one executes `swapgs` a second time and finds neither the kernel stack nor the
   slot (`syscall_entry.asm:24-28`); the comments at lines 23 and 90 say what should happen.
3. **One frame, two owners** (`memory_preempted`): `find_free_page` and `bitmap_set` are
   separate and preemptible because of the `sti` at `syscall_entry.asm:74`.

Seen while modelling and not the subject of a run, mostly because nothing in the
repository promises the contrary or because the run would add nothing to reading the line:

* `kheap.c:77`: the header is 24 bytes, so pointers are 8 modulo 16, against "Puntero alineado"
  at `kheap.h:18`.
* `mm.c:150`: `mm_map_page` gives up silently when no table can be allocated, and `sys_brk`
  commits the break over an unmapped page, against `syscall.c:184`. `GrantedMemoryIsMapped` allows for
  exactly those pages (`lost`).
* `mesafs.c:169`: the format writes the root inode one sector and one slot before the place where
  `mesafs_read_inode` looks, so a fresh volume has no readable root (modelled: `Formatted`).
* `mm.c:144/153`: the huge-page test is in the branch for entries that are not present, so `sys_mmap` of an
  address below 4 MiB stores into the huge page as if it were a page table (modelled).
* `mm.c:108`: a table allocated above the direct map of 4 MiB is cleared and filled through an address that is
  the user's heap, or not mapped (modelled: `astray`; the properties of `Memory` end there). `mm.c:48`: the frames of the kernel heap are not reserved in the bitmap.
* `idt.c:45/57`: all exceptions enter through one stub, so the handler never sees vector 14 and the
  page-fault branch at lines 56-100 is never taken (modelled: a fault halts).
* `disk.c:137`: the 16 MiB virtual disk can never be allocated from the 4 MiB heap
  (modelled: the boot continues without a disk).
* `partition.c:63/70`: the second default partition is erased by the loop after it.
* `mesafs.c:22`: block numbers are not multiplied by the sectors of a block; an inode is
  140 bytes where 128 are assumed. After a power failure in a format the half-written file
  system is mounted by the next boot; `FreshMountIsComplete` is limited to the formatting boot.
* `console.c:137`: a newline echoed between Backspace's test and its decrement leaves the column at 2^32 - 1, and a
  character stored before the next range check goes 8 GiB off the screen and faults (modelled: `StoreFaults`).
  `console.c:34-48`: a scroll inside a scroll saves a line twice or loses one (modelled: `cut`).
* `console.c:65`: scrolling down to offset 0 does not bring the live screen back.
* `sys_mmap` with address 0 uses the break as a hint and does not move it.
* `elf.c:107`: the first page of a segment that is not page aligned is zeroed, not copied; two
  segments in one page overwrite one another; and since all processes share one PML4, so do two
  programs (modelled; `ExecLoadsAndReleases` is about segments with pages of their own). `elf.c:88/116`: neither the
  end of a segment nor its place in the file is checked (modelled).
* `sys_exec` walks `argv` before any check, only counts the arguments, never starts what it
  loaded, and has no caller among the user programs.
* A descriptor is an inode number, so inodes 1 and 2 cannot be read; every read starts at
  offset 0 (modelled).
* `shell.c:104`: `cat` shows at most the 256 bytes that one `sys_write` takes of up to 511 it
  read, and prints its dots only at 511 (modelled: `CatIsExact`).
* `mesafs.c:83`: an inode has 140 bytes, not 128, so the last three slots of a table block are
  read from behind the buffer (modelled: `beyond`).
* `syscall.c:117`: `sys_read` takes the line out of the ring before it checks the destination.
* `syscall.c:308`: the receiver's size is not limited to the kernel's buffer; nothing overruns it only
  because senders are (`CopiesStayInBounds`).
* `usersyscall.h`: the macros do not declare the argument registers and the others that a C
  function may change (modelled: `AfterCall`).
* `proc.c:136`: the first frame has `usermode_entry` at its lowest word, where `context_switch` pops
  r15 (`switch.asm:40`), and ten words fewer than the 22 the interrupt return pops; nothing resumes it.
* `ipc_test.c:24/83`: the server's `from_pid` is not initialised and serves as a filter; the client
  writes to PID 1, which `kernel.c:84` gives to the shell (modelled).
* `disk.c:49`: when the wait before a command gives up, nobody is told and the ports of a busy drive are written:
  the command can go to another sector or be lost (modelled: `gaveUp`; behind it `IsASectorDisk` promises whole
  sectors only).
* `disk.c:60`: an ERR in the middle of a transfer, or a command that a busy drive missed, is never noticed
  (`OperationsReturn` excepts both).
* `keyboard.c:162`: both Shift keys share one flag.

## 5 Fairness

Only weak fairness, only where the code's scheduling gives it.

* Kheap: of `Walk(p)`: the round robin returns to a preempted lock holder. None for the
  spinning `xchg`, which may lose every race.
* Sched: of `Boot` (straight-line code) and `Timer` (the PIT never stops; processes run and
  halt with interrupts on). None for processes, and none for a first dispatch.
* Keyboard: of the timer interrupt, which ends a `hlt`, and of each reader. None for typing.
* Memory: of a call's own steps: the kernel does not block inside one.
* Storage: of the boot's steps. It assumes that disk operations return, which `Ata` shows
  for a drive that reports no error and is ready when its commands come.
* Ata: of the driver (sequential code) and of the drive, which answers some time; how many polls later is open.
  None for callers.
* Console, Context, Userland: none; all their properties are safety.

## 6 Proofs

**KheapProofs** proves every safety property of `Kheap` for any set of processes, any
request sizes and any heap larger than a header (`SizesAssumption`,
`HeapSizeAssumption`). The properties are not inductive alone: `Inv` adds

* `Ownership`: each used block is claimed by exactly one process: it is in its `held`, or about
  to be returned by `kmalloc`, or handed to `kfree` and not yet marked. Without it a free
  could hit a block that another process holds;
* `ScanProgress`: every block the first-fit search has passed does not fit, which gives
  `OutOfMemoryIsHonest`;
* `SweepProgress`: two free neighbours exist only ahead of a sweep in progress, which gives
  `FullyCoalesced`, and with `Ownership` `AllFreedRestoresTheHeap`.

`LiveMemoryIsExclusive` follows from `Ownership` and the tiling.

**SchedProofs** proves `TypeOK`, `RunningOwnsRsp0`, `RingHasEveryProcess` and the action
properties `ZombiesStayDead` and `WaitersStayOffTheCpu` for any table size, number of boot
processes and quantum (with `Quantum < Word`, true of 10 and 2^64), with either value of `SetsCurrent`; and
`NeverStarts`: without `HandOver`, `current_process` is NULL for ever. `Inv` (in `Sched`) adds

* `RingIsClosed`: the list has its head in it, each `next` stays in it, no two slots share a
  successor. Insertion between tail and head keeps it;
* `BootProgress`: every process is in the ring or is the one about to be inserted, and without a current
  process all are READY except the one that `schedule()` made RUNNING, which owns `TSS.rsp0`;
* `SearchProgress`: the current process is in the ring, its slice is positive except during
  the search (so the decrement never wraps), and the search is at a member of the ring.

A second invariant, `WaitInv`, gives `WaitIsBounded` (`WaitCorrect`), which counts from the moment the handler has
a current process: slots are filled in
ascending order, so with *n* processes the ring is 1, 2, ..., *n*, 1 (`RingOf`); whoever the
search of the timer interrupt has passed cannot run (`SearchOf`); and what a READY process has
waited, plus the rest of the current slice, plus a slice for each process before it in the
ring, is at most *n* - 1 slices (`WaitOf`).

**MemoryProofs** proves all four safety properties of `Memory` for any number of frames,
processes and table entries, under `Setting`:

* system calls do not interleave (`Preemptive = FALSE`). With preemption `EveryFrameHasOneOwner`
  is false, as the run `memory_preempted` shows;
* the user's stack and heap and the ranges given to `sys_mmap` lie in the address space; the addresses are
  otherwise free, those inside the huge pages included.

TLC evaluates `Setting` to true on the constants of `MCMemory.cfg`, so the theorems cover that
instance. Each property holds until a table is taken from a frame behind the direct map (`astray`), which no
theorem excludes: from there on the code writes into user memory. The invariant `Inv` gives every frame a level
(1 for the root, 2 to 4 for the tables
below it, 5 for mapped memory, 0 for the rest). Entries lead from one level to the next and
no two lead to one frame (`Tree`), so two walks that meet have come the same way; `JobOK` says that a
walk in progress is at the table the processor's own walk would reach, or in a huge page, and that the frame to be
mapped is still outside the tree, `NewTableIsFree` that the frame found for a new table is free
until it is entered, `BreakOK` which pages a `sys_brk` in progress covers, and `OneCall` that
there is one call at a time.

**ContextProofs** proves `RunsAsItself`, `WaitingFramesAreIntact` and `StacksAreBounded` for any set
of processes of which at most one makes system calls (`OneCaller`; with two `RunsAsItself` fails, which is
the run `context_calls`), and whose kernel stacks are not the shared one (`SharedAssumption`). `Inv` says where each
process can be: in user mode, with its registers in the CPU or in a frame at the bottom of its own
kernel stack; in its call, with the ten words of the call at the bottom of the shared
stack and its registers in the CPU or in a frame above them; or halted after `sys_exit`. `GsOK` adds
that a caller outside its call has left GS to user code, without which the next SYSCALL would
swap it the wrong way. The lemmas under it say what a push leaves of a stack (`Pushing`), that
returning from a frame restores the registers pushed in it, all twenty in their order
(`Returning`), and that the way out of a call gives the caller what `AfterCall` says
(`CallReturns`).

**KeyboardProofs** proves `EchoIsWhatIsRead` and `ReadsReturnLines` for any ring size and any
readers, and the refinement `RingIsAQueue`: every step of the ring of `keyboard.c`, Backspace and
a full ring included, is a step of `InputQueue` or leaves it alone. `HeadFollowsTheRing` ties
`head`, `tail` and `count` together modulo the size, `ReadsInProgress` says that an unfinished
`console_read` has room left and has stored no end of line.

**ConsoleProofs** proves `CursorComesBack`, `HistoryIsTheLastLines` and `ArrowsMoveByOneLine` for
any screen, any number of history lines, any writers and any number of calls (`ConsoleAssumption`). Writers may be cut
apart between any two accesses, so nothing bounds how far the cursor is off the screen in the meantime: `ColDue`
and `RowDue` say instead that whenever it is, some writer has stored what it is about to test, or
is on its way to a store that corrects it. `RingOK` says how far a scroll that nobody cut into has come: which slot
holds the line it will count, and whether the rows have moved. `ViewIsOfTheHistory` says that after a redraw the
screen shows the history at the scroll offset.

**DiskProofs** has two parts. The first proves that `Ata` implements `SectorDisk` (`AtaIsASectorDisk`):
for sectors, LBAs and waits of any size and a drive that is busy as long as it likes, every step of the driver or
the drive is, under `store <- Committed`, a step of the array of sectors or leaves it alone, until a wait before a
command gives up (`gaveUp`). `Inv` says what stands in the ports while an address is
being written (`PortsAreSet`; `PortsHoldTheLba` puts the digits together again), that the drive
executes the command it was sent and how many words have gone over (`CommandRuns`), what an operation
is about to return (`ResultIsRight`), and that a sector whose write gave up waiting
is on the medium before the next operation reaches the ports (`CommitIsAwaited`). Behind `gaveUp` a weaker invariant
is left, `Loose`: whatever command the drive thinks it executes, the words that reached its buffer are the caller's, so
every step leaves all sectors alone or puts the caller's words whole into one (`StepIsWhole`).

The second proves `FoundDataAreKept`, `WritesStayInsideThePartition` and
`FreshMountIsComplete` of `Storage` for every disk and partition size and any number of power failures
(`StorageAssumption`; a fresh file system has at least a superblock, an inode block and a directory
block, and a block of 8 sectors ends before the default partition does, which starts at 2048). The
invariant `BootInv` follows the boot: a partition table that was found is still there and every other
changed sector is one the format has come to (`ChangesAreFormatted`), the sectors it has passed hold
what it writes (`FormatProgress`), and every superblock is one of a partition with room for the metadata
(`SuperblocksAreLarge`).

**UserlandProofs** proves all four properties of `Userland`, and `validate_user_pointer` exact, for
every address width and kernel base (`AddressAssumption`), every buffer size and every volume, path,
program and message of the shapes below.

* The pointer check: what it accepts is user memory and does not wrap around
  (`AcceptedRangesAreUserMemory`), every nonempty range of user memory is accepted
  (`UserMemoryIsAccepted`), and each byte of an accepted range passes on its own
  (`BytesOfAcceptedRanges`), which is how paths are copied.
* `CopiesAreInBounds`. `MailInv` says that no message in a mailbox is longer than the kernel's
  buffer, which is what makes an unlimited receive safe, and what the server has in its buffer.
* `FilesAreShown`. A read is a loop over blocks: after *i* rounds it has the bytes from the offset
  on and stands at the first byte of a block (`ReadSoFar`, `NextBlockRead`, `ReadExact`). A listing is
  a loop over entries: after *i* rounds the buffer holds the full listing so far, or its cut
  (`Cut`, `AddEntryCuts`, `ListingExact`). `ShellInv` says what the shell's variables hold between
  `CatOpen` and `CatClose`.
* `ProgramsAreLoadedAndBuffersFreed`. After *k* pages the bytes on these hold what the segment
  asks for and all others are as before (`NextPageLoaded`), so other segments leave the pages of an
  aligned one with a sane header alone, whatever their own headers are (`LoadableSegmentHeld`). `ExecInv` ties the buffer to the position in `sys_exec`.
* `PathsAreFollowed`, in both directions. If `resolve_path` finds an inode, some list of names spells the
  path and leads there: the walk leaves a trail, the names behind it (`IsTrail`, `WalkHasTrail`,
  `FoundIsNamed`). If a list of names spells the path, the walk follows it name by name
  (`WalkFollows`, `NamedIsFound`); so no path spells two lists that lead to different inodes.
  `CatInv` says that the shell's descriptor is what `resolve_path` gave for its argument.

What is assumed of the constants, besides positive sizes: a volume has the shapes of `mesafs.h`
(`VolumesAssumption`: numbers are not negative, blocks hold inodes, entries and bytes, names are strings that
fit their field, the root is not inode 0), any of whose numbers may be wrong; inode numbers that a
program sees are below 2^31, so that the cast to a descriptor keeps them (`IntMax`); the
segments of a program whose end does not wrap lie in the memory of the model (`HeadersAssumption`); a name field is shorter than a
path component (58 and 63 bytes); a typed path is a string shorter than the kernel's copy of it (the
shell's line and the copy both have 256 bytes); `sys_write` takes less than `sys_read` (256 and 512); and
the kernel lies high enough to leave room for a program's local arrays. TLC evaluates all of it on
`MCUserland.cfg`.

The loops of `mesafs.c`, `elf.c` and `syscall.c` are recursive functions here, which TLA+ defines by
`CHOOSE`. That such a function exists, and what it computes, is an induction on the rounds. The
library's induction theorems take an operator as a parameter and cannot be used with the installed
provers, but the well-foundedness of the natural numbers as a set of pairs can
(`NatLessThanWellFounded`, `WFMin`): it gives `LeastNumber`, that gives `Rounds`, induction for a set
of numbers, and `LoopExists`, a function for every sequence of rounds.

Only model-checked: the liveness properties `LockIsReleased`, `NoStarvation`, `NoSleepOnInput`,
`CallsReturn`, `BootFinishes` and `OperationsReturn`, which are out of this prover's reach, and the
three violations of section 4. Every other property of a passing run has a theorem.

## 7 What is not modelled

* The switch to long mode, GDT/IDT/PIC set-up: fixed sequences of stores and port writes that run once.
* `proc/switch.asm`, `proc/usermode.asm`, the first frame of a process and the general branch of
  `schedule()`: nothing in this commit reaches them. That `context_switch` does not return to its first caller is in `Sched`.
* The inside of `ipc.c`, which is not in the repository: mailboxes are external.
* Two disk operations at a time: they come from system calls, and a second caller does not get
  past the entry (finding 2); `Ata` has one at a time.
* The virtual disk, which can never be allocated; the page-fault branch of `exception_handler`, which this build
  never takes (`idt.c:45`).
* In `Memory`: what user programs store into their pages (a store into a page that the kernel takes for a table, behind
  `astray`), addresses that are not canonical, and the frames of the kernel heap, which `mm.c:48` does not reserve.
* A partition table with its first partition at LBA 0: `Storage` has it at one fixed LBA above 0.
* On a volume, a `name_len` above the 58 bytes of the name field, which `find_in_dir` compares and `sys_readdir` copies as
  it is, and inode numbers from 2^31 on, which `sys_open` casts to a negative descriptor.
* A segment that is loaded over the kernel or over memory that is not mapped to user pages of its own: the bytes of `Elf`
  are those of user addresses, and a read behind the file's buffer gives some byte (`STALE`) and no fault.
* A `kfree` of a wrong or already freed pointer: no caller does it.
* `sys_munmap`, `sys_sleep` and `sys_time` are stubs in the code: they change no state that
  another part reads.
* Colours, the hardware cursor and the log output; `user_prog.c`, which only draws counters.
* Functions without a caller: `pmm_free_page`, `mesafs_unmount`, `write_inode`, the functions for several
  sectors, `console_set_cursor` and its like.

## 8 Plan

What this commit executes is modelled, apart from section 7, and the safety properties that the passing
runs check are proved. What would come next, if the code grows:

1. When `ipc.c` joins the repository: its queues in place of the external mailboxes of `Userland`.
2. When `schedule()` is called and sets `current_process` before it switches: `HandOver` becomes `ScheduleFirst`,
   `sched_as_built` should pass, and the first frame of `proc_create` belongs in `Context`.
3. When `mesafs_write` does something: volumes become a variable, and the readers of `Userland` meet a
   writer.
