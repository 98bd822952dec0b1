------------------------------- MODULE Sched -------------------------------
(***************************************************************************)
(* Processes and the scheduler: the process table and its circular list    *)
(* (proc/proc.c, sched/sched.c), the creation of the boot processes        *)
(* (kernel.c), the round-robin switch in the timer interrupt               *)
(* (kernel/idt.c), TSS.rsp0 (kernel/tss.c) and the system calls that       *)
(* change a process's state: sys_exit, and the wait and wake-up of IPC.    *)
(*                                                                         *)
(* The interrupt's search for the next process is one step per iteration.  *)
(* Interrupts are off during it, so no process runs meanwhile.             *)
(*                                                                         *)
(* In the repository nothing gives current_process its first value:        *)
(* nothing calls schedule(), and schedule() itself assigns it after a      *)
(* context_switch that does not return.  SetsCurrent = FALSE is that       *)
(* kernel.  SetsCurrent = TRUE adds the one step the timer handler relies  *)
(* on and no code makes (HandOver), so that the handler can be checked.    *)
(*                                                                         *)
(* An operator whose comment begins with "Fault:" is a plausible mistake   *)
(* in the definition after it; substituting it must break a property.      *)
(***************************************************************************)
EXTENDS Integers

CONSTANTS MaxProcs,        \* MAX_PROCESSES: 64 in the build
          BootProcs,       \* how many processes kernel_main creates: 5
          Quantum,         \* DEFAULT_TIME_SLICE: 10 ticks
          Word,            \* 2^64, the modulus of time_slice
          SetsCurrent      \* FALSE in the build

ASSUME MaxProcsAssumption == MaxProcs \in Nat /\ MaxProcs > 0
ASSUME BootProcsAssumption == BootProcs \in Nat
ASSUME QuantumAssumption == Quantum \in Nat /\ Quantum > 0
ASSUME WordAssumption == Word \in Nat /\ Quantum < Word
ASSUME SetsCurrentAssumption == SetsCurrent \in BOOLEAN

VARIABLES
    state,      \* process_table[s].state
    pid,        \* process_table[s].pid
    nxt,        \* process_table[s].next, a slot or NULL
    slice,      \* process_table[s].time_slice
    next_pid,
    process_list_head,
    current,    \* current_process
    rsp0,       \* whose kernel stack TSS.rsp0 points to; NULL is the boot stack
    mode,       \* "boot", "run", or "irq" while the timer handler searches
    created,    \* how many proc_create calls kernel_main has made
    fresh,      \* what the last one returned and sched_add_process is to take
    scan,       \* the local variable next of the timer handler
    inService,  \* IRQ 0 was delivered and the PIC has not seen its EOI
    waited      \* history: ticks the handler has counted, with a current process,
                \* since a READY process last had the CPU or woke

table == <<state, pid, nxt, slice>>
boot == <<next_pid, process_list_head, created, fresh>>
vars == <<table, boot, current, rsp0, mode, scan, inService, waited>>

Slots == 1..MaxProcs
NULL == 0
Runnable == {"READY", "RUNNING"}
States == Runnable \cup {"UNUSED", "EMBRYO", "WAITING", "ZOMBIE"}

\* proc_init: an empty table.
Init ==
    /\ state = [s \in Slots |-> "UNUSED"]
    /\ pid = [s \in Slots |-> 0]
    /\ nxt = [s \in Slots |-> NULL]
    /\ slice = [s \in Slots |-> 0]
    /\ next_pid = 1
    /\ process_list_head = NULL
    /\ current = NULL
    /\ rsp0 = NULL
    /\ mode = "boot"
    /\ created = 0
    /\ fresh = NULL
    /\ scan = NULL
    /\ inService = FALSE
    /\ waited = [s \in Slots |-> 0]

-----------------------------------------------------------------------------
(* kernel_main: proc_create and sched_add_process for each boot process *)

\* alloc_pcb: the first unused slot.
Allocates(s) ==
    /\ state[s] = "UNUSED"
    /\ \A t \in Slots : t < s => state[t] # "UNUSED"

Creating == mode = "boot" /\ fresh = NULL /\ created < BootProcs

\* EMBRYO is overwritten before proc_create returns: the shared PML4 of
\* mm_create_user_pml4 is never 0, so its error path is not taken.
ProcCreate(s) ==
    /\ Creating
    /\ Allocates(s)
    /\ pid' = [pid EXCEPT ![s] = next_pid]
    /\ next_pid' = next_pid + 1
    /\ nxt' = [nxt EXCEPT ![s] = NULL]
    /\ slice' = [slice EXCEPT ![s] = 0]
    /\ state' = [state EXCEPT ![s] = "READY"]
    /\ fresh' = s
    /\ created' = created + 1
    /\ UNCHANGED <<process_list_head, current, rsp0, mode, scan, inService, waited>>

\* A full table: proc_create returns NULL and sched_add_process ignores it.
ProcCreateFails ==
    /\ Creating
    /\ \A s \in Slots : state[s] # "UNUSED"
    /\ created' = created + 1
    /\ UNCHANGED <<table, next_pid, process_list_head, fresh,
                   current, rsp0, mode, scan, inService, waited>>

\* Fault: the new process becomes the end of the list instead of closing the ring.
SchedAddProcess_OpenList ==
    /\ fresh # NULL
    /\ state[fresh] = "READY"
    /\ slice' = [slice EXCEPT ![fresh] = Quantum]
    /\ IF process_list_head = NULL
       THEN /\ process_list_head' = fresh
            /\ nxt' = [nxt EXCEPT ![fresh] = fresh]
       ELSE \E tail \in Slots :
              /\ nxt[tail] = process_list_head
              /\ nxt' = [nxt EXCEPT ![tail] = fresh, ![fresh] = fresh]
              /\ UNCHANGED process_list_head
    /\ fresh' = NULL
    /\ UNCHANGED <<state, pid, next_pid, created,
                   current, rsp0, mode, scan, inService, waited>>

\* The tail is the process whose next is the head.
SchedAddProcess ==
    /\ fresh # NULL
    /\ state[fresh] = "READY"
    /\ slice' = [slice EXCEPT ![fresh] = Quantum]
    /\ IF process_list_head = NULL
       THEN /\ process_list_head' = fresh
            /\ nxt' = [nxt EXCEPT ![fresh] = fresh]
       ELSE \E tail \in Slots :
              /\ nxt[tail] = process_list_head
              /\ nxt' = [nxt EXCEPT ![tail] = fresh, ![fresh] = process_list_head]
              /\ UNCHANGED process_list_head
    /\ fresh' = NULL
    /\ UNCHANGED <<state, pid, next_pid, created,
                   current, rsp0, mode, scan, inService, waited>>

\* kernel_main unmasks the timer, enables interrupts and idles.
StartScheduler ==
    /\ mode = "boot"
    /\ fresh = NULL
    /\ created = BootProcs
    /\ mode' = "run"
    /\ UNCHANGED <<table, boot, current, rsp0, scan, inService, waited>>

-----------------------------------------------------------------------------
(* Dispatching *)

\* What the timer handler's switch to process s leaves behind.
Dispatch(s, st) ==
    /\ state' = [st EXCEPT ![s] = "RUNNING"]
    /\ slice' = [slice EXCEPT ![s] = Quantum]
    /\ rsp0' = s
    /\ current' = s
    /\ waited' = [waited EXCEPT ![s] = 0]

\* Nothing was dispatched: the CPU is on the stack of kernel_main.
Undispatched == mode = "run" /\ rsp0 = NULL /\ process_list_head # NULL

\* Fault: the stack of the first process is not put into the TSS.
ScheduleFirst_NoRsp0 ==
    /\ Undispatched
    /\ current = NULL
    /\ state' = [state EXCEPT ![process_list_head] = "RUNNING"]
    /\ slice' = [slice EXCEPT ![process_list_head] = Quantum]
    /\ UNCHANGED <<pid, nxt, boot, current, rsp0, mode, scan, inService, waited>>

\* schedule() with no current process.  context_switch saves the caller's stack
\* pointer in a dummy nobody reads and goes on in the new process, so the
\* assignment of current_process behind it is never reached.
ScheduleFirst ==
    /\ Undispatched
    /\ current = NULL
    /\ state' = [state EXCEPT ![process_list_head] = "RUNNING"]
    /\ slice' = [slice EXCEPT ![process_list_head] = Quantum]
    /\ rsp0' = process_list_head
    /\ UNCHANGED <<pid, nxt, boot, current, mode, scan, inService, waited>>

\* Not in the repository: a first dispatch that also sets current_process.
HandOver ==
    /\ SetsCurrent
    /\ Undispatched
    /\ Dispatch(process_list_head, state)
    /\ UNCHANGED <<pid, nxt, boot, mode, scan, inService>>

\* With no current process the timer handler only acknowledges the interrupt.
TimerIdle ==
    /\ mode = "run"
    /\ ~inService
    /\ current = NULL
    /\ UNCHANGED vars

\* Every READY process but the current one has now waited one tick more.
Age == waited' = [s \in Slots |-> IF state[s] = "READY" /\ s # current
                                  THEN waited[s] + 1 ELSE waited[s]]

Decremented == [slice EXCEPT ![current] = (@ - 1) % Word]

\* Fault: the search starts at the head of the list, not behind the current process.
TimerTick_FromHead ==
    /\ mode = "run"
    /\ ~inService
    /\ current # NULL
    /\ slice' = Decremented
    /\ Age
    /\ \/ /\ slice'[current] # 0
          /\ UNCHANGED <<mode, scan, inService>>
       \/ /\ slice'[current] = 0
          /\ mode' = "irq"
          /\ scan' = process_list_head
          /\ inService' = TRUE
    /\ UNCHANGED <<state, pid, nxt, boot, current, rsp0>>

TimerTick ==
    /\ mode = "run"
    /\ ~inService
    /\ current # NULL
    /\ slice' = Decremented
    /\ Age
    /\ \/ /\ slice'[current] # 0        \* EOI and return
          /\ UNCHANGED <<mode, scan, inService>>
       \/ /\ slice'[current] = 0
          /\ mode' = "irq"
          /\ scan' = nxt[current]
          /\ inService' = TRUE
    /\ UNCHANGED <<state, pid, nxt, boot, current, rsp0>>

Searching == mode = "irq" /\ scan # NULL /\ scan # current

TimerSearch ==
    /\ Searching
    /\ state[scan] \notin Runnable
    /\ scan' = nxt[scan]
    /\ UNCHANGED <<table, boot, current, rsp0, mode, inService, waited>>

\* pic_send_eoi and iretq.
EndOfInterrupt ==
    /\ mode' = "run"
    /\ scan' = NULL
    /\ inService' = FALSE

\* Fault: whoever loses the CPU is made READY, a ZOMBIE and a WAITING one too.
Demoted_Always == [state EXCEPT ![current] = "READY"]

\* The process switched away from stays READY only if it was RUNNING.
Demoted == IF state[current] = "RUNNING" THEN [state EXCEPT ![current] = "READY"]
                                         ELSE state

\* Fault: the early return of the switch forgets the EOI.
TimerSwitch_NoEOI ==
    /\ Searching
    /\ state[scan] \in Runnable
    /\ Dispatch(scan, Demoted)
    /\ mode' = "run"
    /\ scan' = NULL
    /\ UNCHANGED <<pid, nxt, boot, inService>>

\* Fault: the chosen process keeps what was left of its old slice.
TimerSwitch_OldSlice ==
    /\ Searching
    /\ state[scan] \in Runnable
    /\ state' = [Demoted EXCEPT ![scan] = "RUNNING"]
    /\ rsp0' = scan
    /\ current' = scan
    /\ waited' = [waited EXCEPT ![scan] = 0]
    /\ EndOfInterrupt
    /\ UNCHANGED <<pid, nxt, slice, boot>>

TimerSwitch ==
    /\ Searching
    /\ state[scan] \in Runnable
    /\ Dispatch(scan, Demoted)
    /\ EndOfInterrupt
    /\ UNCHANGED <<pid, nxt, boot>>

\* Nobody else can run: the current process gets another slice.
TimerKeep ==
    /\ mode = "irq"
    /\ scan \in {NULL, current}
    /\ slice' = [slice EXCEPT ![current] = Quantum]
    /\ EndOfInterrupt
    /\ UNCHANGED <<state, pid, nxt, boot, current, rsp0, waited>>

-----------------------------------------------------------------------------
(* What the current process does.  A ZOMBIE only halts. *)

Executing == mode = "run" /\ current # NULL /\ state[current] # "ZOMBIE"

SysExit ==
    /\ Executing
    /\ state' = [state EXCEPT ![current] = "ZOMBIE"]
    /\ UNCHANGED <<pid, nxt, slice, boot, current, rsp0, mode, scan, inService, waited>>

\* ipc_receive on an empty queue: the caller is marked and goes on to its next
\* timer interrupt.
IpcWait ==
    /\ Executing
    /\ state' = [state EXCEPT ![current] = "WAITING"]
    /\ UNCHANGED <<pid, nxt, slice, boot, current, rsp0, mode, scan, inService, waited>>

\* Fault: the wake-up does not look at the receiver's state.
IpcWake_Any(to_pid) ==
    /\ Executing
    /\ \E s \in Slots :
          /\ pid[s] = to_pid
          /\ state[s] # "RUNNING"
          /\ state' = [state EXCEPT ![s] = "READY"]
          /\ waited' = [waited EXCEPT ![s] = 0]
    /\ UNCHANGED <<pid, nxt, slice, boot, current, rsp0, mode, scan, inService>>

\* ipc_send to a waiting process makes it READY.
IpcWake(to_pid) ==
    /\ Executing
    /\ \E s \in Slots :
          /\ pid[s] = to_pid
          /\ state[s] = "WAITING"
          /\ state' = [state EXCEPT ![s] = "READY"]
          /\ waited' = [waited EXCEPT ![s] = 0]
    /\ UNCHANGED <<pid, nxt, slice, boot, current, rsp0, mode, scan, inService>>

-----------------------------------------------------------------------------

Boot == \/ \E s \in Slots : ProcCreate(s)
        \/ ProcCreateFails \/ SchedAddProcess \/ StartScheduler

First == ScheduleFirst \/ HandOver

Timer == TimerTick \/ TimerSearch \/ TimerSwitch \/ TimerKeep

Process == SysExit \/ IpcWait \/ \E n \in 1..BootProcs : IpcWake(n)

Next == Boot \/ First \/ TimerIdle \/ Timer \/ Process

\* Booting is straight-line code, and the PIT interrupts for ever: a process
\* runs, and halts, with interrupts enabled.  No process has to do anything, and
\* nobody has to make a first dispatch.
Fairness == WF_vars(Boot) /\ WF_vars(Timer)

Spec == Init /\ [][Next]_vars /\ Fairness

-----------------------------------------------------------------------------
(* Properties *)

\* The slots that are in the circular list.
Listed == {s \in Slots : nxt[s] # NULL}

\* Variables have the types of the code's data; in particular no time slice
\* is ever decremented below zero.
TypeOK ==
    /\ state \in [Slots -> States]
    /\ pid \in [Slots -> 0..BootProcs]
    /\ nxt \in [Slots -> Slots \cup {NULL}]
    /\ slice \in [Slots -> 0..Quantum]
    /\ next_pid \in 1..(BootProcs + 1)
    /\ process_list_head \in Slots \cup {NULL}
    /\ current \in Slots \cup {NULL}
    /\ rsp0 \in Slots \cup {NULL}
    /\ mode \in {"boot", "run", "irq"}
    /\ created \in 0..BootProcs
    /\ fresh \in Slots \cup {NULL}
    /\ scan \in Slots \cup {NULL}
    /\ inService \in BOOLEAN
    /\ waited \in [Slots -> Nat]

\* One CPU: at most one process is RUNNING, and the kernel stack the CPU will
\* switch to on the next interrupt (TSS.rsp0) is that process's own, through the
\* first dispatch and every switch, exit and wake-up.  Where there is a
\* current_process, it is the one.
RunningOwnsRsp0 ==
    /\ \A s \in Slots : state[s] = "RUNNING" => s = rsp0
    /\ current # NULL => rsp0 = current

\* The ring the timer follows is closed over the listed slots and entered once
\* per slot, and outside the boot it has every process that was created: none is
\* cut off from the search.
RingHasEveryProcess ==
    /\ \A s \in Listed : nxt[s] \in Listed
    /\ \A s, t \in Listed : nxt[s] = nxt[t] => s = t
    /\ mode # "boot" => \A s \in Slots : state[s] # "UNUSED" <=> s \in Listed

\* From the moment the timer handler has a current process, no process waits for
\* the CPU longer than one full slice of every other process, however they exit,
\* wait and wake one another.
WaitIsBounded ==
    \A s \in Slots : waited[s] <= (MaxProcs - 1) * Quantum

\* A process that exited never comes back, whatever is sent to it.
ZombiesStayDead ==
    [][\A s \in Slots : state[s] = "ZOMBIE" => state'[s] = "ZOMBIE"]_vars

\* A process that waits for a message does not get the CPU before a send woke it:
\* the CPU goes only to READY processes, and the timer makes no WAITING one READY.
WaitersStayOffTheCpu ==
    [][/\ current' # current => state[current'] = "READY"
       /\ mode = "irq" => \A s \in Slots : state[s] = "WAITING" => state'[s] = "WAITING"]_vars

\* Round robin: once the timer handler has a current process, a READY process gets
\* the CPU.
NoStarvation ==
    \A s \in Slots : (state[s] = "READY" /\ current # NULL) ~> current = s

\* kernel.c prints "Starting scheduler via IRQ0..." and "scheduler active": once
\* the kernel has booted, the timer handler has a process to schedule.  Whether
\* schedule() is called or not, it never gets one.
SchedulerStarts == <>(current # NULL)

-----------------------------------------------------------------------------
(* The inductive invariant behind TypeOK, RunningOwnsRsp0 and              *)
(* RingHasEveryProcess (see SchedProofs) *)

\* Without a current process only the one of schedule() is off READY; each created
\* process is in the ring or about to be put there.
BootProgress ==
    /\ mode = "boot" => rsp0 = NULL
    /\ rsp0 = NULL => current = NULL
    /\ rsp0 # NULL => rsp0 \in Listed
    /\ current = NULL =>
         \A s \in Slots : s # rsp0 => state[s] \in {"UNUSED", "READY"}
    /\ ~SetsCurrent => current = NULL
    /\ fresh # NULL => mode = "boot" /\ state[fresh] = "READY" /\ nxt[fresh] = NULL
    /\ \A s \in Slots : state[s] # "UNUSED" <=> (s \in Listed \/ s = fresh)
    /\ next_pid <= created + 1

\* The ring: entered through its head, closed, and each slot entered once.
RingIsClosed ==
    /\ process_list_head = NULL => Listed = {}
    /\ process_list_head # NULL => process_list_head \in Listed
    /\ \A s \in Listed : nxt[s] \in Listed
    /\ \A s, t \in Listed : nxt[s] = nxt[t] => s = t

\* The current process is in the ring.  Its slice is used up exactly while the
\* handler searches, and the search is at a process of the ring.
SearchProgress ==
    /\ current # NULL => current \in Listed
    /\ current # NULL /\ mode # "irq" => slice[current] > 0
    /\ mode = "irq" => current # NULL /\ scan \in Listed

Inv == TypeOK /\ RunningOwnsRsp0 /\ BootProgress /\ RingIsClosed /\ SearchProgress
=============================================================================
