---------------------------- MODULE SchedProofs ----------------------------
(***************************************************************************)
(* Proofs about Sched, for every size of the process table, every number   *)
(* of boot processes and every time slice.  The inductive invariant is     *)
(* Inv of Sched: the timer's search stays in the ring because the ring is  *)
(* closed (RingIsClosed) and the search starts from a member of it         *)
(* (SearchProgress); the ring has every process because each process is    *)
(* put into it before the next one is created (BootProgress).              *)
(***************************************************************************)
EXTENDS Sched, TLAPS

\* Subtracting from a positive time slice does not wrap (idt.c, current_process->time_slice--).
LEMMA NoWrap ==
  ASSUME NEW n \in 1..Quantum
  PROVE  (n - 1) % Word = n - 1
  BY QuantumAssumption, WordAssumption

\* The empty table of proc_init satisfies the invariant.
LEMMA InitInv == Init => Inv
<1> SUFFICES ASSUME Init PROVE Inv
  OBVIOUS
<1>1. Listed = {} /\ \A s \in Slots : s # NULL
  BY DEF Init, Listed, Slots, NULL
<1>2. TypeOK
  <2>1. inService \in BOOLEAN
    BY DEF Init
  <2>2. /\ pid \in [Slots -> 0..BootProcs]
        /\ slice \in [Slots -> 0..Quantum]
        /\ waited \in [Slots -> Nat]
        /\ next_pid \in 1..(BootProcs + 1)
        /\ created \in 0..BootProcs
    BY BootProcsAssumption, QuantumAssumption DEF Init
  <2> QED BY <2>1, <2>2 DEF Init, TypeOK, States
<1>3. RunningOwnsRsp0 /\ RingIsClosed /\ SearchProgress
  BY <1>1 DEF Init, RunningOwnsRsp0, RingIsClosed, SearchProgress
<1>4. BootProgress
  BY <1>1 DEF Init, BootProgress
<1> QED BY <1>2, <1>3, <1>4 DEF Inv

\* proc_create keeps the invariant: the new process is READY and not yet in the ring.
LEMMA ProcCreateInv ==
  ASSUME Inv, NEW s \in Slots, ProcCreate(s)
  PROVE  Inv'
<1> USE DEF Inv, ProcCreate, Creating, Allocates
<1> nxt[s] = NULL  BY DEF BootProgress, Listed
<1>0. nxt' = nxt  BY DEF TypeOK
<1>1. TypeOK'
  BY BootProcsAssumption, QuantumAssumption DEF TypeOK, BootProgress, Slots, NULL, States, Runnable
<1>2. RunningOwnsRsp0'
  BY DEF TypeOK, RunningOwnsRsp0
<1>3. BootProgress'
  BY <1>0 DEF TypeOK, BootProgress, Listed, Slots, NULL
<1>4. RingIsClosed'
  BY <1>0 DEF TypeOK, RingIsClosed, Listed
<1>5. SearchProgress'
  BY <1>0 DEF TypeOK, SearchProgress, BootProgress, Listed
<1> QED BY <1>1, <1>2, <1>3, <1>4, <1>5

\* A full table changes only the count of the attempts.
LEMMA ProcCreateFailsInv ==
  ASSUME Inv, ProcCreateFails
  PROVE  Inv'
  BY BootProcsAssumption
  DEF Inv, ProcCreateFails, Creating, TypeOK, RunningOwnsRsp0, BootProgress,
      RingIsClosed, SearchProgress, Listed, table

\* sched_add_process keeps the invariant: the ring grows by the new process, between
\* the tail and the head.
LEMMA SchedAddProcessInv ==
  ASSUME Inv, SchedAddProcess
  PROVE  Inv'
<1> USE DEF Inv, SchedAddProcess
<1>0. fresh \in Slots /\ nxt[fresh] = NULL /\ mode = "boot" /\ current = NULL /\ NULL \notin Slots
  BY DEF TypeOK, BootProgress, Slots, NULL
<1>1. CASE process_list_head = NULL
  <2>1. Listed' = {fresh} /\ nxt'[fresh] = fresh
    BY <1>0, <1>1 DEF TypeOK, RingIsClosed, Listed
  <2>2. TypeOK'
    BY <1>0, <1>1, QuantumAssumption DEF TypeOK, NULL
  <2>3. BootProgress'
    BY <1>0, <1>1, <2>1 DEF BootProgress, RingIsClosed
  <2>4. RingIsClosed'
    BY <1>0, <1>1, <2>1 DEF RingIsClosed
  <2>5. RunningOwnsRsp0' /\ SearchProgress'
    BY <1>0 DEF RunningOwnsRsp0, SearchProgress
  <2> QED BY <2>2, <2>3, <2>4, <2>5
<1>2. CASE process_list_head # NULL
  <2>1. PICK tail \in Slots :
            /\ nxt[tail] = process_list_head
            /\ nxt' = [nxt EXCEPT ![tail] = fresh, ![fresh] = process_list_head]
            /\ UNCHANGED process_list_head
    BY <1>2
  <2>2. tail # fresh /\ tail \in Listed /\ fresh \notin Listed
    BY <1>0, <1>2, <2>1 DEF Listed
  <2>3. /\ nxt'[tail] = fresh
        /\ nxt'[fresh] = process_list_head
        /\ \A s \in Slots \ {tail, fresh} : nxt'[s] = nxt[s]
    BY <1>0, <2>1, <2>2 DEF TypeOK
  <2>4. Listed' = Listed \cup {fresh}
    BY <1>0, <1>2, <2>2, <2>3 DEF Listed, Slots, NULL
  <2>5. TypeOK'
    BY <1>0, <1>2, <2>1, QuantumAssumption DEF TypeOK, NULL
  <2>6. BootProgress'
    BY <1>0, <1>2, <2>4 DEF BootProgress
  <2>7. RingIsClosed'
    <3>1. process_list_head' \in Listed'
      BY <1>2, <2>1, <2>4 DEF RingIsClosed
    <3>2. \A s \in Listed' : nxt'[s] \in Listed'
      BY <1>2, <2>2, <2>3, <2>4 DEF RingIsClosed, Listed
    <3>3. ASSUME NEW s \in Listed', NEW t \in Listed', nxt'[s] = nxt'[t]
          PROVE  s = t
      <4>1. \A u \in Listed \ {tail} : nxt'[u] \in Listed /\ nxt'[u] # process_list_head
        BY <2>1, <2>2, <2>3 DEF RingIsClosed, Listed
      <4>2. process_list_head \in Listed
        BY <1>2 DEF RingIsClosed
      <4>3. \A u, w \in Listed \ {tail} : nxt'[u] = nxt'[w] => u = w
        BY <2>2, <2>3 DEF RingIsClosed, Listed
      <4> QED BY <2>2, <2>3, <2>4, <3>3, <4>1, <4>2, <4>3
    <3> QED BY <1>2, <2>1, <3>1, <3>2, <3>3 DEF RingIsClosed
  <2>8. RunningOwnsRsp0' /\ SearchProgress'
    BY <1>0 DEF RunningOwnsRsp0, SearchProgress
  <2> QED BY <2>5, <2>6, <2>7, <2>8
<1> QED BY <1>1, <1>2

\* schedule() gives the CPU to the head of the ring, which is READY, and leaves
\* current_process NULL.
LEMMA ScheduleFirstInv ==
  ASSUME Inv, ScheduleFirst
  PROVE  Inv' /\ state[process_list_head] = "READY"
<1> USE DEF Inv, ScheduleFirst, Undispatched
<1>0. process_list_head \in Listed /\ Listed' = Listed /\ process_list_head \in Slots
  BY DEF TypeOK, RingIsClosed, Listed
<1>1. state[process_list_head] = "READY"
  BY <1>0 DEF BootProgress, TypeOK
<1>2. TypeOK'
  BY <1>0, QuantumAssumption DEF TypeOK, boot, States, Runnable
<1>3. RunningOwnsRsp0'
  BY <1>0 DEF TypeOK, RunningOwnsRsp0, Slots, NULL
<1>4. BootProgress'
  BY <1>0, <1>1 DEF TypeOK, BootProgress, boot, Slots, NULL
<1>5. RingIsClosed'
  BY <1>0 DEF RingIsClosed, boot
<1>6. SearchProgress'
  BY <1>0, QuantumAssumption DEF TypeOK, SearchProgress
<1> QED BY <1>1, <1>2, <1>3, <1>4, <1>5, <1>6

\* A first dispatch that sets current_process gives the CPU to the head of the ring, which is READY.
LEMMA HandOverInv ==
  ASSUME Inv, HandOver
  PROVE  Inv' /\ state[process_list_head] = "READY"
<1> USE DEF Inv, HandOver, Undispatched, Dispatch
<1>0. process_list_head \in Listed /\ Listed' = Listed /\ process_list_head \in Slots
  BY DEF TypeOK, RingIsClosed, Listed
<1>1. state[process_list_head] = "READY"
  BY <1>0 DEF BootProgress, TypeOK
<1>2. TypeOK'
  BY <1>0, QuantumAssumption DEF TypeOK, boot, States, Runnable
<1>3. RunningOwnsRsp0'
  BY <1>0 DEF TypeOK, RunningOwnsRsp0, Slots, NULL
<1>4. BootProgress'
  BY <1>0, <1>1 DEF TypeOK, BootProgress, boot, Slots, NULL
<1>5. RingIsClosed'
  BY <1>0 DEF RingIsClosed, boot
<1>6. SearchProgress'
  BY <1>0, QuantumAssumption DEF TypeOK, SearchProgress
<1> QED BY <1>1, <1>2, <1>3, <1>4, <1>5, <1>6

\* A tick takes one from a positive slice, and the search begins at a member of the ring.
LEMMA TimerTickInv ==
  ASSUME Inv, TimerTick
  PROVE  Inv'
<1> USE DEF Inv, TimerTick
<1>0. current \in Slots /\ current \in Listed /\ slice[current] \in 1..Quantum
  BY QuantumAssumption DEF TypeOK, SearchProgress, NULL
<1>1. slice' = [slice EXCEPT ![current] = slice[current] - 1]
  BY <1>0, NoWrap DEF Decremented
<1>2. Listed' = Listed
  BY DEF Listed
<1>3. waited' \in [Slots -> Nat]
  BY DEF Age, TypeOK
<1>4. scan' \in Slots \cup {NULL} /\ mode' \in {"run", "irq"} /\ inService' \in BOOLEAN
  BY <1>0 DEF TypeOK
<1>5. slice' \in [Slots -> 0..Quantum]
  BY <1>0, <1>1, QuantumAssumption DEF TypeOK
<1>6. TypeOK'
  BY <1>3, <1>4, <1>5 DEF TypeOK, boot
<1>7. RunningOwnsRsp0' /\ RingIsClosed'
  BY <1>2 DEF RunningOwnsRsp0, RingIsClosed, boot
<1>8. BootProgress'
  BY <1>2, <1>4 DEF BootProgress, boot
<1>9. SearchProgress'
  BY <1>0, <1>2, <1>5 DEF SearchProgress, RingIsClosed
<1> QED BY <1>6, <1>7, <1>8, <1>9

\* The switch gives the CPU to a READY process of the ring and demotes a RUNNING one.
LEMMA TimerSwitchInv ==
  ASSUME Inv, TimerSwitch
  PROVE  Inv' /\ state[scan] = "READY"
<1> USE DEF Inv, TimerSwitch, Searching, Dispatch, EndOfInterrupt
<1>0. scan \in Slots /\ scan \in Listed /\ current \in Slots /\ current \in Listed /\ Listed' = Listed
  BY DEF TypeOK, SearchProgress, Listed
<1>a. rsp0 = current /\ NULL \notin Slots
  BY DEF RunningOwnsRsp0, SearchProgress, Slots, NULL
<1>1. state[scan] = "READY"
  BY <1>0, <1>a DEF RunningOwnsRsp0, Runnable
<1>2. /\ Demoted \in [Slots -> States]
      /\ \A s \in Slots : Demoted[s] # "RUNNING"
      /\ \A s \in Slots : Demoted[s] = "UNUSED" <=> state[s] = "UNUSED"
  BY <1>0, <1>a DEF Demoted, TypeOK, RunningOwnsRsp0, States, Runnable
<1>3. /\ state' \in [Slots -> States]
      /\ \A s \in Slots : state'[s] = "RUNNING" => s = scan
      /\ \A s \in Slots : state'[s] = "UNUSED" <=> state[s] = "UNUSED"
  BY <1>0, <1>1, <1>2 DEF States, Runnable
<1>4. TypeOK'
  <2>1. inService' \in BOOLEAN
    OBVIOUS
  <2>2. slice' \in [Slots -> 0..Quantum] /\ waited' \in [Slots -> Nat]
    BY <1>0, QuantumAssumption DEF TypeOK
  <2> QED BY <1>0, <1>3, <2>1, <2>2 DEF TypeOK, boot
<1>5. RunningOwnsRsp0' /\ RingIsClosed'
  BY <1>0, <1>3 DEF RunningOwnsRsp0, RingIsClosed, boot
<1>6. BootProgress'
  BY <1>0, <1>a, <1>3 DEF BootProgress, SearchProgress, boot
<1>7. SearchProgress'
  BY <1>0, QuantumAssumption DEF TypeOK, SearchProgress
<1> QED BY <1>1, <1>4, <1>5, <1>6, <1>7

\* Nobody else can run: only the slice changes.
LEMMA TimerKeepInv ==
  ASSUME Inv, TimerKeep
  PROVE  Inv'
<1> USE DEF Inv, TimerKeep, EndOfInterrupt
<1>0. current \in Slots /\ current \in Listed /\ Listed' = Listed
  BY DEF TypeOK, SearchProgress, Listed
<1>1. TypeOK'
  <2>1. inService' \in BOOLEAN
    OBVIOUS
  <2>2. Quantum \in 0..Quantum
    BY QuantumAssumption
  <2>3. slice' \in [Slots -> 0..Quantum]
    BY <2>2 DEF TypeOK
  <2> QED BY <2>1, <2>3 DEF TypeOK, boot
<1>2. RunningOwnsRsp0' /\ RingIsClosed' /\ BootProgress'
  BY <1>0 DEF RunningOwnsRsp0, RingIsClosed, BootProgress, SearchProgress, boot
<1>3. SearchProgress'
  BY <1>0, QuantumAssumption DEF TypeOK, SearchProgress
<1> QED BY <1>1, <1>2, <1>3

\* The system calls and IPC change one state: the caller's, or that of a WAITING process.
\* Such a change keeps the invariant when it makes nobody RUNNING or UNUSED.
LEMMA OneStateChanges ==
  ASSUME Inv, current # NULL, NEW s \in Slots, state[s] # "UNUSED",
         NEW q \in States \ {"UNUSED", "RUNNING"},
         state' = [state EXCEPT ![s] = q],
         waited' \in [Slots -> Nat],
         UNCHANGED <<pid, nxt, slice, boot, current, rsp0, mode, scan, inService>>
  PROVE  Inv'
<1> USE DEF Inv
<1>0. Listed' = Listed
  BY DEF Listed
<1>1. TypeOK'
  BY DEF TypeOK, boot
<1>2. RunningOwnsRsp0' /\ RingIsClosed' /\ SearchProgress'
  BY <1>0 DEF TypeOK, RunningOwnsRsp0, RingIsClosed, SearchProgress, boot
<1>3. BootProgress'
  BY <1>0 DEF TypeOK, BootProgress, boot
<1> QED BY <1>1, <1>2, <1>3

\* What a process does keeps the invariant.
LEMMA ProcessInv ==
  ASSUME Inv, Process
  PROVE  Inv'
<1> USE DEF Inv
<1>0. current \in Slots /\ state[current] # "UNUSED"
  BY DEF Process, SysExit, IpcWait, IpcWake, Executing, TypeOK, SearchProgress, BootProgress
<1>1. CASE SysExit
  BY <1>0, <1>1, OneStateChanges DEF SysExit, Executing, TypeOK, States
<1>2. CASE IpcWait
  BY <1>0, <1>2, OneStateChanges DEF IpcWait, Executing, TypeOK, States
<1>3. ASSUME NEW n \in 1..BootProcs, IpcWake(n)
      PROVE  Inv'
  <2>1. PICK s \in Slots : /\ state[s] = "WAITING"
                           /\ state' = [state EXCEPT ![s] = "READY"]
                           /\ waited' = [waited EXCEPT ![s] = 0]
    BY <1>3 DEF IpcWake
  <2>2. waited' \in [Slots -> Nat]
    BY <2>1 DEF TypeOK
  <2>3. "READY" \in States \ {"UNUSED", "RUNNING"}
    BY DEF States, Runnable
  <2> QED BY <1>3, <2>1, <2>2, <2>3, OneStateChanges DEF IpcWake, Executing
<1> QED BY <1>1, <1>2, <1>3 DEF Process

\* Every step keeps the invariant.
LEMMA NextInv == Inv /\ [Next]_vars => Inv'
<1> SUFFICES ASSUME Inv, [Next]_vars PROVE Inv'
  OBVIOUS
<1>1. ASSUME NEW s \in Slots, ProcCreate(s) PROVE Inv'
  BY <1>1, ProcCreateInv
<1>2. CASE ProcCreateFails
  BY <1>2, ProcCreateFailsInv
<1>3. CASE SchedAddProcess
  BY <1>3, SchedAddProcessInv
<1>4. CASE StartScheduler
  BY <1>4 DEF Inv, StartScheduler, TypeOK, RunningOwnsRsp0, BootProgress, RingIsClosed,
              SearchProgress, Listed, table, boot
<1>5. CASE First
  BY <1>5, ScheduleFirstInv, HandOverInv DEF First
<1>6. CASE TimerTick
  BY <1>6, TimerTickInv
<1>7. CASE TimerSearch
  BY <1>7 DEF Inv, TimerSearch, Searching, TypeOK, RunningOwnsRsp0, BootProgress, RingIsClosed,
              SearchProgress, Listed, table, boot
<1>8. CASE TimerSwitch
  BY <1>8, TimerSwitchInv
<1>9. CASE TimerKeep
  BY <1>9, TimerKeepInv
<1>10. CASE Process
  BY <1>10, ProcessInv
<1>11. CASE UNCHANGED vars
  BY <1>11 DEF Inv, TypeOK, RunningOwnsRsp0, BootProgress, RingIsClosed, SearchProgress,
               Listed, vars, table, boot
<1> QED BY <1>1, <1>2, <1>3, <1>4, <1>5, <1>6, <1>7, <1>8, <1>9, <1>10, <1>11
        DEF Next, Boot, Timer, TimerIdle

\* The inductive invariant holds in every reachable state.
THEOREM SchedInvariant == Spec => []Inv
  BY InitInv, NextInv, PTL DEF Spec

\* Types: in particular the timer never takes one from a time slice of zero
\* (idt.c, irq_handler_with_switch).
THEOREM TypeCorrect == Spec => []TypeOK
<1>1. Inv => TypeOK  BY DEF Inv
<1> QED BY <1>1, SchedInvariant, PTL

\* One process is RUNNING at most, and TSS.rsp0 is its stack; where there is a
\* current_process, it is the one (schedule, irq_handler_with_switch).
THEOREM OneProcessRuns == Spec => []RunningOwnsRsp0
<1>1. Inv => RunningOwnsRsp0  BY DEF Inv
<1> QED BY <1>1, SchedInvariant, PTL

\* The scheduler of the repository never starts: neither the timer handler nor a
\* call of schedule() gives current_process its first value.
THEOREM NeverStarts == ~SetsCurrent => (Spec => [](current = NULL))
<1> SUFFICES ASSUME ~SetsCurrent PROVE Spec => [](current = NULL)
  OBVIOUS
<1>1. Inv => current = NULL  BY DEF Inv, BootProgress
<1> QED BY <1>1, SchedInvariant, PTL

\* The circular list of sched_add_process is a closed ring entered once per slot,
\* and once the boot is over it has every process.
THEOREM RingCorrect == Spec => []RingHasEveryProcess
<1>1. Inv => RingHasEveryProcess
  BY DEF Inv, TypeOK, RingHasEveryProcess, BootProgress, RingIsClosed, Slots, NULL
<1> QED BY <1>1, SchedInvariant, PTL

\* sys_exit is final: no switch and no wake-up changes the state of a ZOMBIE.
THEOREM ExitIsFinal == Spec => ZombiesStayDead
<1>1. ASSUME Inv, [Next]_vars, NEW s \in Slots, state[s] = "ZOMBIE"
      PROVE  state'[s] = "ZOMBIE"
  <2> USE <1>1 DEF Inv
  <2>1. ASSUME NEW t \in Slots, ProcCreate(t) PROVE state'[s] = "ZOMBIE"
    BY <2>1 DEF ProcCreate, Allocates, TypeOK
  <2>2. CASE First
    BY <2>2, ScheduleFirstInv, HandOverInv DEF First, ScheduleFirst, HandOver, Dispatch, TypeOK
  <2>3. CASE TimerSwitch
    <3>1. Demoted[s] = "ZOMBIE" /\ Demoted \in [Slots -> States] /\ s # scan
      BY <2>3, TimerSwitchInv DEF Demoted, TypeOK, States, Runnable
    <3> QED BY <2>3, <3>1 DEF TimerSwitch, Dispatch
  <2>4. CASE SysExit \/ IpcWait
    BY <2>4 DEF SysExit, IpcWait, Executing, TypeOK
  <2>5. ASSUME NEW n \in 1..BootProcs, IpcWake(n) PROVE state'[s] = "ZOMBIE"
    BY <2>5 DEF IpcWake, TypeOK
  <2>6. CASE UNCHANGED state
    BY <2>6
  <2> QED BY <2>1, <2>2, <2>3, <2>4, <2>5, <2>6
          DEF Next, Boot, Timer, Process, ProcCreateFails, SchedAddProcess, StartScheduler,
              TimerIdle, TimerTick, TimerSearch, TimerKeep, vars, table
<1>2. Inv /\ [Next]_vars => [\A s \in Slots : state[s] = "ZOMBIE" => state'[s] = "ZOMBIE"]_vars
  BY <1>1
<1> QED BY <1>2, SchedInvariant, PTL DEF Spec, ZombiesStayDead

\* The CPU goes only to a READY process, and the timer leaves a WAITING one WAITING.
THEOREM WaitersWait == Spec => WaitersStayOffTheCpu
<1> DEFINE Step == /\ current' # current => state[current'] = "READY"
                   /\ mode = "irq" => \A s \in Slots : state[s] = "WAITING" => state'[s] = "WAITING"
<1>1. ASSUME Inv, [Next]_vars
      PROVE  Step
  <2> USE <1>1 DEF Inv
  <2>1. ASSUME NEW t \in Slots, ProcCreate(t) PROVE Step
    BY <2>1 DEF ProcCreate, Creating
  <2>2. CASE First
    BY <2>2, ScheduleFirstInv, HandOverInv
       DEF First, ScheduleFirst, HandOver, Undispatched, Dispatch
  <2>3. CASE TimerSwitch
    <3>1. \A s \in Slots : state[s] = "WAITING" => Demoted[s] = "WAITING"
      BY DEF Demoted, TypeOK
    <3>2. Demoted \in [Slots -> States]
      BY DEF Demoted, TypeOK, States, Runnable
    <3> QED BY <2>3, <3>1, <3>2, TimerSwitchInv DEF TimerSwitch, Dispatch
  <2>4. CASE Process
    BY <2>4 DEF Process, SysExit, IpcWait, IpcWake, Executing
  <2>5. CASE UNCHANGED <<state, current>>
    BY <2>5
  <2> QED BY <2>1, <2>2, <2>3, <2>4, <2>5
          DEF Next, Boot, Timer, ProcCreateFails, SchedAddProcess, StartScheduler,
              TimerIdle, TimerTick, TimerSearch, TimerKeep, vars, table
<1>2. Inv /\ [Next]_vars => [Step]_vars
  BY <1>1
<1> QED BY <1>2, SchedInvariant, PTL DEF Spec, WaitersStayOffTheCpu

-----------------------------------------------------------------------------
(* How long a process waits.  Slots are filled in ascending order, so with *)
(* n processes the ring is 1, 2, ..., n, 1.  What a READY process has      *)
(* waited, plus the rest of the current slice, plus a slice for each       *)
(* process that comes before it, never grows beyond n - 1 slices.          *)

RingOf(n) ==
    /\ process_list_head = IF n = 0 THEN NULL ELSE 1
    /\ \A s \in Slots : nxt[s] = IF s < n THEN s + 1 ELSE IF s = n THEN 1 ELSE NULL
    /\ fresh # NULL => fresh = n + 1

\* How many steps along the ring lead from a to b; from a to itself it is n.
Dist(a, b, n) == IF b > a THEN b - a ELSE b - a + n

\* The processes the search has passed cannot run.
SearchOf(n) ==
    mode = "irq" =>
      /\ slice[current] = 0
      /\ \A s \in 1..n : Dist(current, s, n) < Dist(current, scan, n) => state[s] \notin Runnable

WaitOf(n) ==
    /\ current = NULL => \A s \in Slots : waited[s] = 0
    /\ current # NULL =>
         /\ waited[current] = 0
         /\ \A s \in Slots : waited[s] <= Quantum * (n - 1)
         /\ \A s \in 1..n : state[s] = "READY" /\ s # current =>
              waited[s] + slice[current] + Quantum * (Dist(current, s, n) - 1) <= Quantum * (n - 1)

WaitInv == \E n \in 0..MaxProcs : RingOf(n) /\ SearchOf(n) /\ WaitOf(n)

\* What the ring looks like from its members.
LEMMA RingFacts ==
  ASSUME Inv, NEW n \in 0..MaxProcs, RingOf(n)
  PROVE  /\ n \in Nat /\ Listed = 1..n /\ 1..n \subseteq Slots
         /\ current # NULL => current \in 1..n /\ n > 0
         /\ mode = "irq" => scan \in 1..n /\ current \in 1..n
         /\ fresh = NULL => \A s \in Slots : state[s] # "UNUSED" <=> s \in 1..n
<1>1. n \in Nat /\ 1..n \subseteq Slots
  BY MaxProcsAssumption DEF Slots
<1>2. Listed = 1..n
  BY <1>1, MaxProcsAssumption DEF Listed, RingOf, Slots, NULL
<1>3. current # NULL => current \in 1..n
  BY <1>2 DEF Inv, SearchProgress
<1>4. mode = "irq" => scan \in 1..n /\ current \in 1..n
  BY <1>2, <1>3 DEF Inv, SearchProgress
<1>5. fresh = NULL => \A s \in Slots : state[s] # "UNUSED" <=> s \in 1..n
  BY <1>2 DEF Inv, BootProgress, Slots, NULL
<1> QED BY <1>1, <1>2, <1>3, <1>4, <1>5

\* A product with the quantum grows with its other factor.
LEMMA Slices ==
  ASSUME NEW a \in Int, NEW b \in Int, a <= b
  PROVE  /\ Quantum * a \in Int /\ Quantum * b \in Int
         /\ Quantum * a <= Quantum * b
         /\ Quantum * (a - 1) = Quantum * a - Quantum
BY QuantumAssumption

\* Distances are positive and at most n; the next place is one further.
LEMMA Distances ==
  ASSUME NEW n \in Nat, NEW a \in 1..n, NEW b \in 1..n
  PROVE  /\ Dist(a, b, n) \in 1..n
         /\ b # a => Dist(a, b, n) <= n - 1 /\ Dist(a, b, n) < Dist(a, a, n)
         /\ b # a => Dist(a, IF b < n THEN b + 1 ELSE 1, n) = Dist(a, b, n) + 1
         /\ Dist(a, IF a < n THEN a + 1 ELSE 1, n) = 1
BY DEF Dist

\* Two places at one distance are the same, and distances add up.
LEMMA Between ==
  ASSUME NEW n \in Nat, NEW a \in 1..n, NEW b \in 1..n, NEW c \in 1..n
  PROVE  /\ Dist(a, b, n) = Dist(a, c, n) => b = c
         /\ Dist(a, b, n) < Dist(a, c, n) => Dist(b, c, n) = Dist(a, c, n) - Dist(a, b, n)
BY DEF Dist

LEMMA InitWait == Init => WaitInv
<1> SUFFICES ASSUME Init PROVE RingOf(0) /\ SearchOf(0) /\ WaitOf(0)
  BY MaxProcsAssumption DEF WaitInv
<1> QED BY DEF Init, RingOf, SearchOf, WaitOf, Slots, NULL

\* proc_create takes the slot behind the last one.
LEMMA ProcCreateWait ==
  ASSUME Inv, WaitInv, NEW s \in Slots, ProcCreate(s)
  PROVE  WaitInv'
<1>1. PICK n \in 0..MaxProcs : RingOf(n) /\ SearchOf(n) /\ WaitOf(n)
  BY DEF WaitInv
<1>2. mode = "boot" /\ fresh = NULL /\ current = NULL /\ Allocates(s) /\ s # NULL
  BY DEF ProcCreate, Creating, Inv, BootProgress, Slots, NULL
<1>3. n \in Nat /\ \A t \in Slots : state[t] # "UNUSED" <=> t \in 1..n
  BY <1>1, <1>2, RingFacts
<1>4. s = n + 1
  <2>1. s \in Nat /\ s > n
    BY <1>2, <1>3, MaxProcsAssumption DEF Allocates, Slots
  <2>2. n + 1 \in Slots
    BY <1>3, <2>1, MaxProcsAssumption DEF Slots
  <2>3. ~(n + 1 < s)
    BY <1>2, <1>3, <2>2 DEF Allocates
  <2> QED BY <1>3, <2>1, <2>3
<1>5. nxt[s] = NULL /\ nxt' = nxt
  <2>1. nxt[s] = NULL
    BY <1>1, <1>3, <1>4 DEF RingOf
  <2> QED BY <2>1 DEF ProcCreate, Inv, TypeOK
<1>6. RingOf(n)'
  BY <1>1, <1>4, <1>5 DEF RingOf, ProcCreate
<1>7. SearchOf(n)' /\ WaitOf(n)'
  BY <1>1, <1>2 DEF SearchOf, WaitOf, ProcCreate
<1> QED BY <1>6, <1>7 DEF WaitInv

\* sched_add_process puts it behind the tail, which is slot n, and before slot 1.
LEMMA SchedAddProcessWait ==
  ASSUME Inv, WaitInv, SchedAddProcess
  PROVE  WaitInv'
<1>1. PICK n \in 0..MaxProcs : RingOf(n) /\ SearchOf(n) /\ WaitOf(n)
  BY DEF WaitInv
<1>2. /\ fresh = n + 1 /\ fresh \in Slots /\ mode = "boot" /\ current = NULL
      /\ nxt \in [Slots -> Slots \cup {NULL}] /\ fresh' = NULL
      /\ UNCHANGED <<mode, current, waited>>
  BY <1>1 DEF SchedAddProcess, RingOf, Inv, TypeOK, BootProgress
<1>3. n \in Nat /\ n + 1 \in 0..MaxProcs /\ 1..(n + 1) \subseteq Slots
  BY <1>1, <1>2, MaxProcsAssumption DEF Slots
<1>4. process_list_head' = 1 /\ \A s \in Slots : nxt'[s] = IF s < n + 1 THEN s + 1
                                                ELSE IF s = n + 1 THEN 1 ELSE NULL
  <2>1. CASE n = 0
    <3>1. process_list_head' = 1 /\ nxt' = [nxt EXCEPT ![1] = 1]
      BY <1>1, <1>2, <2>1 DEF SchedAddProcess, RingOf
    <3>2. \A s \in Slots : s # 1 => nxt[s] = NULL /\ s > 1
      BY <1>1, <2>1, MaxProcsAssumption DEF RingOf, Slots
    <3> QED BY <1>2, <1>3, <2>1, <3>1, <3>2
  <2>2. CASE n > 0
    <3>1. process_list_head = 1
      BY <1>1, <1>3, <2>2 DEF RingOf
    <3>2. PICK tail \in Slots : /\ nxt[tail] = 1
                                /\ nxt' = [nxt EXCEPT ![tail] = n + 1, ![n + 1] = 1]
      BY <1>2, <3>1 DEF SchedAddProcess, NULL
    <3>3. tail = n
      BY <1>1, <1>3, <3>2, MaxProcsAssumption DEF RingOf, Slots, NULL
    <3>4. /\ nxt'[n] = n + 1 /\ nxt'[n + 1] = 1
          /\ \A s \in Slots : s # n /\ s # n + 1 => nxt'[s] = nxt[s]
      BY <1>2, <1>3, <3>2, <3>3
    <3>5. \A s \in Slots : s \in Nat /\ (s < n + 1 <=> s < n \/ s = n)
      BY <1>3, MaxProcsAssumption DEF Slots
    <3>6. process_list_head' = 1
      BY <3>1 DEF SchedAddProcess, NULL
    <3> QED BY <1>1, <1>3, <3>4, <3>5, <3>6 DEF RingOf
  <2> QED BY <1>3, <2>1, <2>2
<1>5. RingOf(n + 1)'
  BY <1>2, <1>3, <1>4 DEF RingOf
<1>6. SearchOf(n + 1)' /\ WaitOf(n + 1)'
  BY <1>1, <1>2 DEF SearchOf, WaitOf
<1> QED BY <1>3, <1>5, <1>6 DEF WaitInv

\* schedule() leaves no current process, so nobody's wait has begun.
LEMMA ScheduleFirstWait ==
  ASSUME Inv, WaitInv, ScheduleFirst
  PROVE  WaitInv'
<1>1. PICK n \in 0..MaxProcs : RingOf(n) /\ SearchOf(n) /\ WaitOf(n)
  BY DEF WaitInv
<1>2. /\ current = NULL /\ mode = "run"
      /\ UNCHANGED <<nxt, process_list_head, fresh, current, mode, waited>>
  BY DEF ScheduleFirst, Undispatched, boot
<1>3. RingOf(n)' /\ SearchOf(n)' /\ WaitOf(n)'
  BY <1>1, <1>2 DEF RingOf, SearchOf, WaitOf
<1> QED BY <1>3 DEF WaitInv

\* At the first dispatch nobody has waited yet.
LEMMA HandOverWait ==
  ASSUME Inv, WaitInv, HandOver
  PROVE  WaitInv'
<1>1. PICK n \in 0..MaxProcs : RingOf(n) /\ SearchOf(n) /\ WaitOf(n)
  BY DEF WaitInv
<1>2. /\ current = NULL /\ process_list_head # NULL /\ mode = "run"
      /\ current' = process_list_head /\ UNCHANGED <<nxt, process_list_head, fresh, mode>>
      /\ slice' = [slice EXCEPT ![process_list_head] = Quantum]
      /\ waited' = [waited EXCEPT ![process_list_head] = 0]
  BY DEF HandOver, Undispatched, Dispatch, boot, Inv, BootProgress
<1>3. process_list_head = 1 /\ n > 0 /\ n \in Nat /\ 1 \in 1..n /\ 1..n \subseteq Slots
  BY <1>1, <1>2, RingFacts DEF RingOf
<1>4. \A s \in Slots : waited'[s] = 0
  BY <1>1, <1>2, <1>3 DEF WaitOf, Inv, TypeOK
<1>5. slice'[1] = Quantum
  BY <1>2, <1>3 DEF Inv, TypeOK
<1>6. RingOf(n)' /\ SearchOf(n)'
  BY <1>1, <1>2 DEF RingOf, SearchOf
<1>7. 0 <= Quantum * (n - 1)
  BY <1>3, QuantumAssumption, Slices
<1>8. ASSUME NEW s \in 1..n, s # 1
      PROVE  0 + Quantum + Quantum * (Dist(1, s, n) - 1) <= Quantum * (n - 1)
  <2>1. PICK d \in 1..n : d = Dist(1, s, n) /\ d <= n - 1
    BY <1>3, <1>8, Distances
  <2>2. Quantum * d <= Quantum * (n - 1) /\ Quantum * (d - 1) = Quantum * d - Quantum
    BY <1>3, <2>1, Slices
  <2>3. Quantum * d \in Int /\ Quantum * (n - 1) \in Int
    BY <1>3, QuantumAssumption
  <2> QED BY <2>1, <2>2, <2>3, QuantumAssumption
<1>9. WaitOf(n)'
  BY <1>2, <1>3, <1>4, <1>5, <1>7, <1>8 DEF WaitOf, NULL
<1> QED BY <1>6, <1>9 DEF WaitInv

\* A tick moves one from the slice to everybody's waiting time; the search
\* begins at the next place.
LEMMA TimerTickWait ==
  ASSUME Inv, WaitInv, TimerTick
  PROVE  WaitInv'
<1>1. PICK n \in 0..MaxProcs : RingOf(n) /\ SearchOf(n) /\ WaitOf(n)
  BY DEF WaitInv
<1>2. /\ current # NULL /\ mode = "run" /\ Age /\ slice' = Decremented
      /\ UNCHANGED <<state, nxt, process_list_head, fresh, current>>
  BY DEF TimerTick, boot
<1>3. current \in 1..n /\ n > 0 /\ n \in Nat /\ 1..n \subseteq Slots /\ current \in Slots
  BY <1>1, <1>2, RingFacts
<1>4. slice[current] \in 1..Quantum
  BY <1>2, QuantumAssumption DEF Inv, TypeOK, SearchProgress, NULL
<1>5. slice'[current] = slice[current] - 1
  BY <1>2, <1>3, <1>4, NoWrap DEF Decremented, Inv, TypeOK
<1>6. \A s \in Slots : waited'[s] = IF state[s] = "READY" /\ s # current
                                    THEN waited[s] + 1 ELSE waited[s]
  BY <1>2 DEF Age
<1>7. RingOf(n)'
  BY <1>1, <1>2 DEF RingOf
<1>8. SearchOf(n)'
  <2>1. CASE mode' = "irq"
    <3>1. slice'[current] = 0 /\ scan' = nxt[current]
      BY <1>2, <2>1 DEF TimerTick
    <3>2. nxt[current] = IF current < n THEN current + 1 ELSE 1
      BY <1>1, <1>3 DEF RingOf
    <3>3. Dist(current, scan', n) = 1
      BY <1>3, <3>1, <3>2, Distances
    <3>4. \A s \in 1..n : Dist(current, s, n) \in 1..n
      BY <1>3, Distances
    <3>5. \A s \in 1..n : ~(Dist(current, s, n) < Dist(current, scan', n))
      BY <3>3, <3>4
    <3> QED BY <1>2, <3>1, <3>5 DEF SearchOf
  <2> QED BY <2>1 DEF SearchOf
<1>9. ASSUME NEW s \in 1..n, state[s] = "READY", s # current
      PROVE  waited'[s] + slice'[current] + Quantum * (Dist(current, s, n) - 1)
               <= Quantum * (n - 1)
  <2>1. waited[s] + slice[current] + Quantum * (Dist(current, s, n) - 1) <= Quantum * (n - 1)
    BY <1>1, <1>2, <1>9 DEF WaitOf
  <2>2. waited[s] \in Nat /\ waited'[s] = waited[s] + 1
    BY <1>3, <1>6, <1>9 DEF Inv, TypeOK
  <2>3. Dist(current, s, n) \in 1..n
    BY <1>3, Distances
  <2>4. Quantum * (Dist(current, s, n) - 1) \in Int /\ Quantum * (n - 1) \in Int
    BY <1>3, <2>3, QuantumAssumption
  <2> QED BY <1>4, <1>5, <2>1, <2>2, <2>4, QuantumAssumption
<1>10. ASSUME NEW s \in Slots
       PROVE  waited'[s] <= Quantum * (n - 1)
  <2>1. CASE state[s] = "READY" /\ s # current
    <3>1. s \in 1..n
      <4>1. fresh = NULL
        BY <1>2 DEF Inv, BootProgress
      <4> QED BY <1>1, <2>1, <4>1, RingFacts
    <3>2. Dist(current, s, n) \in 1..n
      BY <1>3, <3>1, Distances
    <3>3. 0 <= Quantum * (Dist(current, s, n) - 1)
      BY <1>3, <3>2, QuantumAssumption, Slices
    <3>4. Quantum * (Dist(current, s, n) - 1) \in Int /\ Quantum * (n - 1) \in Int
      BY <1>3, <3>2, QuantumAssumption
    <3>5. waited'[s] \in Nat
      BY <1>6, <1>10 DEF Inv, TypeOK
    <3> QED BY <1>4, <1>5, <1>9, <2>1, <3>1, <3>3, <3>4, <3>5, QuantumAssumption
  <2>2. CASE ~(state[s] = "READY" /\ s # current)
    BY <1>1, <1>2, <1>6, <2>2 DEF WaitOf
  <2> QED BY <2>1, <2>2
<1>11. WaitOf(n)'
  BY <1>1, <1>2, <1>3, <1>6, <1>9, <1>10 DEF WaitOf
<1> QED BY <1>7, <1>8, <1>11 DEF WaitInv

\* The search passes a process that cannot run.
LEMMA TimerSearchWait ==
  ASSUME Inv, WaitInv, TimerSearch
  PROVE  WaitInv'
<1>1. PICK n \in 0..MaxProcs : RingOf(n) /\ SearchOf(n) /\ WaitOf(n)
  BY DEF WaitInv
<1>2. /\ mode = "irq" /\ scan # current /\ state[scan] \notin Runnable /\ scan' = nxt[scan]
      /\ UNCHANGED <<state, slice, nxt, process_list_head, fresh, current, mode, waited>>
  BY DEF TimerSearch, Searching, table, boot
<1>3. scan \in 1..n /\ current \in 1..n /\ n \in Nat /\ 1..n \subseteq Slots
  BY <1>1, <1>2, RingFacts
<1>4. scan' = IF scan < n THEN scan + 1 ELSE 1
  BY <1>1, <1>2, <1>3 DEF RingOf
<1>5. Dist(current, scan', n) = Dist(current, scan, n) + 1
  BY <1>2, <1>3, <1>4, Distances
<1>6. ASSUME NEW s \in 1..n, Dist(current, s, n) < Dist(current, scan', n)
      PROVE  state[s] \notin Runnable
  <2>1. Dist(current, s, n) \in 1..n /\ Dist(current, scan, n) \in 1..n
    BY <1>3, Distances
  <2>2. CASE Dist(current, s, n) = Dist(current, scan, n)
    BY <1>2, <1>3, <2>2, Between
  <2>3. CASE Dist(current, s, n) < Dist(current, scan, n)
    BY <1>1, <1>2, <2>3 DEF SearchOf
  <2> QED BY <1>5, <1>6, <2>1, <2>2, <2>3
<1>7. RingOf(n)' /\ SearchOf(n)' /\ WaitOf(n)'
  BY <1>1, <1>2, <1>6 DEF RingOf, SearchOf, WaitOf
<1> QED BY <1>7 DEF WaitInv

\* The switch gives a whole slice to a process that comes earlier than every
\* READY one: each of them moves up by at least one place.
LEMMA TimerSwitchWait ==
  ASSUME Inv, WaitInv, TimerSwitch
  PROVE  WaitInv'
<1>1. PICK n \in 0..MaxProcs : RingOf(n) /\ SearchOf(n) /\ WaitOf(n)
  BY DEF WaitInv
<1>2. /\ mode = "irq" /\ mode' = "run" /\ scan # current /\ state[scan] = "READY"
      /\ current' = scan /\ UNCHANGED <<nxt, process_list_head, fresh>>
      /\ slice' = [slice EXCEPT ![scan] = Quantum]
      /\ waited' = [waited EXCEPT ![scan] = 0]
      /\ state' = [Demoted EXCEPT ![scan] = "RUNNING"]
  BY TimerSwitchInv DEF TimerSwitch, Searching, Dispatch, EndOfInterrupt, boot
<1>3. scan \in 1..n /\ current \in 1..n /\ n \in Nat /\ 1..n \subseteq Slots /\ n > 0
  BY <1>1, <1>2, RingFacts
<1>4. scan # NULL /\ current # NULL
  BY <1>3 DEF NULL
<1>5. slice'[scan] = Quantum /\ waited'[scan] = 0 /\ \A s \in Slots \ {scan} : waited'[s] = waited[s]
  BY <1>2, <1>3 DEF Inv, TypeOK
<1>6. \A s \in Slots : state'[s] = "READY" /\ s # scan => state[s] = "READY" \/ s = current
  BY <1>2, <1>3 DEF Demoted, Inv, TypeOK
<1>7. Dist(current, scan, n) \in 1..n /\ Quantum * (n - 1) \in Int /\ 0 <= Quantum * (n - 1)
  <2>1. Dist(current, scan, n) \in 1..n
    BY <1>3, Distances
  <2>2. Quantum * (n - 1) \in Int /\ 0 <= Quantum * (n - 1)
    BY <1>3, QuantumAssumption, Slices
  <2> QED BY <2>1, <2>2
<1>8. ASSUME NEW s \in 1..n, state'[s] = "READY", s # scan
      PROVE  waited'[s] + Quantum + Quantum * (Dist(scan, s, n) - 1) <= Quantum * (n - 1)
  <2>1. PICK e \in 1..n : e = Dist(scan, s, n) /\ e <= n - 1
    BY <1>3, <1>8, Distances
  <2>2. /\ Quantum * (e - 1) = Quantum * e - Quantum /\ Quantum * e <= Quantum * (n - 1)
        /\ Quantum * e \in Int
    BY <1>3, <2>1, Slices
  <2>3. CASE s = current
    <3>1. waited'[s] = 0
      BY <1>1, <1>3, <1>4, <1>5, <1>8, <2>3 DEF WaitOf
    <3> QED BY <1>7, <2>1, <2>2, <3>1, QuantumAssumption
  <2>4. CASE s # current
    <3>1. state[s] = "READY" /\ waited'[s] = waited[s] /\ waited[s] \in Nat
      BY <1>3, <1>5, <1>6, <1>8, <2>4 DEF Inv, TypeOK
    <3>2. PICK d \in 1..n : d = Dist(current, s, n)
      BY <1>3, Distances
    <3>3. ~(d < Dist(current, scan, n))
      BY <1>1, <1>2, <3>1, <3>2 DEF SearchOf, Runnable
    <3>4. d # Dist(current, scan, n)
      BY <1>3, <1>8, <3>2, Between
    <3>5. Dist(current, scan, n) < d
      BY <1>7, <3>3, <3>4
    <3>6. e = d - Dist(current, scan, n)
      BY <1>3, <2>1, <3>2, <3>5, Between
    <3>7. e <= d - 1
      BY <1>7, <3>6
    <3>8. waited[s] + 0 + Quantum * (d - 1) <= Quantum * (n - 1)
      BY <1>1, <1>2, <1>4, <2>4, <3>1, <3>2 DEF WaitOf, SearchOf
    <3>9. Quantum * e <= Quantum * (d - 1) /\ Quantum * (d - 1) \in Int
      BY <3>7, Slices
    <3> QED BY <1>7, <2>1, <2>2, <3>1, <3>8, <3>9, QuantumAssumption
  <2> QED BY <2>3, <2>4
<1>9. \A s \in Slots : waited'[s] <= Quantum * (n - 1)
  BY <1>1, <1>4, <1>5, <1>7 DEF WaitOf
<1>10. WaitOf(n)'
  BY <1>2, <1>4, <1>5, <1>8, <1>9 DEF WaitOf
<1>11. RingOf(n)' /\ SearchOf(n)'
  BY <1>1, <1>2 DEF RingOf, SearchOf
<1> QED BY <1>10, <1>11 DEF WaitInv

\* The search came around: nobody else is READY.
LEMMA TimerKeepWait ==
  ASSUME Inv, WaitInv, TimerKeep
  PROVE  WaitInv'
<1>1. PICK n \in 0..MaxProcs : RingOf(n) /\ SearchOf(n) /\ WaitOf(n)
  BY DEF WaitInv
<1>2. /\ mode = "irq" /\ mode' = "run" /\ scan \in {NULL, current}
      /\ UNCHANGED <<state, nxt, process_list_head, fresh, current, waited>>
  BY DEF TimerKeep, EndOfInterrupt, boot
<1>3. scan \in 1..n /\ current \in 1..n /\ n \in Nat /\ scan = current
  BY <1>1, <1>2, RingFacts DEF NULL
<1>4. ASSUME NEW s \in 1..n, s # current
      PROVE  state[s] # "READY"
  <2>1. Dist(current, s, n) < Dist(current, scan, n)
    BY <1>3, <1>4, Distances
  <2> QED BY <1>1, <1>2, <2>1 DEF SearchOf, Runnable
<1>5. RingOf(n)' /\ SearchOf(n)' /\ WaitOf(n)'
  BY <1>1, <1>2, <1>4 DEF RingOf, SearchOf, WaitOf
<1> QED BY <1>5 DEF WaitInv

\* Exit and wait take the caller off the CPU's list; a woken process begins to
\* wait, and at most n - 1 slices are before it.
LEMMA ProcessWait ==
  ASSUME Inv, WaitInv, Process
  PROVE  WaitInv'
<1>1. PICK n \in 0..MaxProcs : RingOf(n) /\ SearchOf(n) /\ WaitOf(n)
  BY DEF WaitInv
<1>2. /\ mode = "run" /\ current # NULL
      /\ UNCHANGED <<nxt, slice, process_list_head, fresh, current, mode>>
  BY DEF Process, SysExit, IpcWait, IpcWake, Executing, boot
<1>3. current \in 1..n /\ n \in Nat /\ 1..n \subseteq Slots /\ n > 0
  BY <1>1, <1>2, RingFacts
<1>4. RingOf(n)' /\ SearchOf(n)'
  BY <1>1, <1>2 DEF RingOf, SearchOf
<1>5. ASSUME SysExit \/ IpcWait
      PROVE  WaitOf(n)'
  <2>1. waited' = waited /\ \A s \in Slots \ {current} : state'[s] = state[s]
    BY <1>5 DEF SysExit, IpcWait, Inv, TypeOK
  <2> QED BY <1>1, <1>2, <1>3, <2>1 DEF WaitOf
<1>6. ASSUME NEW m \in 1..BootProcs, IpcWake(m)
      PROVE  WaitOf(n)'
  <2>1. PICK w \in Slots : /\ state' = [state EXCEPT ![w] = "READY"]
                           /\ waited' = [waited EXCEPT ![w] = 0]
    BY <1>6 DEF IpcWake
  <2>2. /\ waited'[w] = 0
        /\ \A s \in Slots \ {w} : state'[s] = state[s] /\ waited'[s] = waited[s]
    BY <2>1 DEF Inv, TypeOK
  <2>3. Quantum * (n - 1) \in Int /\ 0 <= Quantum * (n - 1)
    BY <1>3, QuantumAssumption, Slices
  <2>4. ASSUME w \in 1..n, w # current
        PROVE  0 + slice[current] + Quantum * (Dist(current, w, n) - 1) <= Quantum * (n - 1)
    <3>1. PICK d \in 1..n : d = Dist(current, w, n) /\ d <= n - 1
      BY <1>3, <2>4, Distances
    <3>2. /\ Quantum * (d - 1) = Quantum * d - Quantum /\ Quantum * d <= Quantum * (n - 1)
          /\ Quantum * d \in Int
      BY <1>3, <3>1, Slices
    <3>3. slice[current] \in 0..Quantum
      BY <1>3 DEF Inv, TypeOK
    <3> QED BY <2>3, <3>1, <3>2, <3>3, QuantumAssumption
  <2>5. \A s \in Slots : waited'[s] <= Quantum * (n - 1)
    BY <1>1, <1>2, <2>2, <2>3 DEF WaitOf
  <2>6. waited'[current] = 0
    BY <1>1, <1>2, <1>3, <2>2 DEF WaitOf
  <2>7. \A s \in 1..n : state'[s] = "READY" /\ s # current =>
          waited'[s] + slice[current] + Quantum * (Dist(current, s, n) - 1) <= Quantum * (n - 1)
    BY <1>1, <1>2, <1>3, <2>2, <2>4 DEF WaitOf
  <2> QED BY <1>2, <2>5, <2>6, <2>7 DEF WaitOf
<1> QED BY <1>4, <1>5, <1>6 DEF Process, WaitInv

LEMMA NextWait == Inv /\ WaitInv /\ [Next]_vars => WaitInv'
<1> SUFFICES ASSUME Inv, WaitInv, [Next]_vars PROVE WaitInv'
  OBVIOUS
<1>1. ASSUME NEW s \in Slots, ProcCreate(s) PROVE WaitInv'
  BY <1>1, ProcCreateWait
<1>2. CASE SchedAddProcess \/ First
  BY <1>2, SchedAddProcessWait, ScheduleFirstWait, HandOverWait DEF First
<1>3. CASE TimerTick \/ TimerSearch \/ TimerSwitch \/ TimerKeep
  BY <1>3, TimerTickWait, TimerSearchWait, TimerSwitchWait, TimerKeepWait
<1>4. CASE Process
  BY <1>4, ProcessWait
<1>5. CASE StartScheduler \/ ProcCreateFails \/ UNCHANGED vars
  <2>1. PICK n \in 0..MaxProcs : RingOf(n) /\ SearchOf(n) /\ WaitOf(n)
    BY DEF WaitInv
  <2>2. /\ UNCHANGED <<state, nxt, slice, process_list_head, fresh, current, scan, waited>>
        /\ mode' = mode \/ mode' = "run"
    BY <1>5 DEF StartScheduler, ProcCreateFails, vars, table, boot
  <2>3. RingOf(n)' /\ SearchOf(n)' /\ WaitOf(n)'
    BY <2>1, <2>2 DEF RingOf, SearchOf, WaitOf
  <2> QED BY <2>3 DEF WaitInv
<1> QED BY <1>1, <1>2, <1>3, <1>4, <1>5 DEF Next, Boot, Timer, TimerIdle

\* Round robin is fair by a number: once the timer handler has a current process,
\* no process waits for the CPU longer than a full slice of every other (irq_handler_with_switch), however processes exit,
\* wait and wake one another.
THEOREM WaitCorrect == Spec => []WaitIsBounded
<1>1. Inv /\ WaitInv => WaitIsBounded
  <2> SUFFICES ASSUME Inv, WaitInv, NEW s \in Slots
               PROVE  waited[s] <= (MaxProcs - 1) * Quantum
    BY DEF WaitIsBounded
  <2>1. PICK n \in 0..MaxProcs : RingOf(n) /\ SearchOf(n) /\ WaitOf(n)
    BY DEF WaitInv
  <2>2. /\ Quantum * (n - 1) <= Quantum * (MaxProcs - 1) /\ Quantum * (n - 1) \in Int
        /\ 0 <= Quantum * (MaxProcs - 1) /\ Quantum * (MaxProcs - 1) \in Int
    BY MaxProcsAssumption, QuantumAssumption, Slices
  <2>3. waited[s] \in Nat /\ (waited[s] = 0 \/ waited[s] <= Quantum * (n - 1))
    BY <2>1 DEF WaitOf, Inv, TypeOK
  <2>4. waited[s] <= Quantum * (MaxProcs - 1)
    BY <2>2, <2>3
  <2>5. (MaxProcs - 1) * Quantum = Quantum * (MaxProcs - 1)
    BY MaxProcsAssumption, QuantumAssumption
  <2> QED BY <2>4, <2>5
<1>2. Spec => []WaitInv
  BY InitInv, NextInv, InitWait, NextWait, PTL DEF Spec
<1> QED BY <1>1, <1>2, SchedInvariant, PTL
=============================================================================
