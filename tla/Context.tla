------------------------------ MODULE Context ------------------------------
(***************************************************************************)
(* What a process's registers go through: the interrupt stubs              *)
(* (kernel/isr.asm), the part of irq_handler_with_switch that exchanges    *)
(* stack pointers (kernel/idt.c), the SYSCALL entry                        *)
(* (kernel/syscall_entry.asm, called by include/usersyscall.h) and the end *)
(* of a process in sys_exit.                                               *)
(*                                                                         *)
(* A stack is a sequence of words that grows to the right, and a stack     *)
(* pointer is <<stack, depth>>: a pop leaves the word in memory, and a     *)
(* push at a smaller depth overwrites it.  Every process has a kernel      *)
(* stack of its own for interrupts from user mode; all system calls run on *)
(* one shared stack.  Code that runs with interrupts off is one step.      *)
(*                                                                         *)
(* Which process a timer interrupt chooses, and when, is the business of   *)
(* Sched; here it may choose any that has not exited.  All processes have  *)
(* run before: what is in question is whether they go on as they were.     *)
(* Callers are the processes that make system calls.                       *)
(*                                                                         *)
(* An operator whose comment begins with "Fault:" is a plausible mistake   *)
(* in the definition after it; substituting it must break a property.      *)
(***************************************************************************)
EXTENDS Integers, Sequences, SequencesExt

CONSTANTS Procs, Callers

ASSUME CallersAssumption == Callers \subseteq Procs

VARIABLES
    cpu,       \* the registers
    mem,       \* the words on each stack
    current,   \* current_process
    saved,     \* pcb_t.rsp
    rsp0,      \* TSS.rsp0: the process whose kernel stack it is the top of
    user_rsp,  \* cpu_data.user_rsp, the slot [gs:8]
    gs,        \* whose base GS holds: "kernel" is cpu_data
    zombies,   \* processes that called sys_exit
    own        \* history: the registers each process is entitled to find

vars == <<cpu, mem, current, saved, rsp0, user_rsp, gs, zombies, own>>

-----------------------------------------------------------------------------
(* Registers and stacks *)

\* The order in which irq_common pushes.
IrqRegs == <<"rax", "rbx", "rcx", "rdx", "rsi", "rdi", "rbp", "r8", "r9",
             "r10", "r11", "r12", "r13", "r14", "r15">>

\* The order in which syscall_entry pushes.
CalleeSaved == <<"rbp", "rbx", "r12", "r13", "r14", "r15">>

\* What the processor pushes for an interrupt and iretq pops.
HardwareFrame == <<"ss", "rsp", "rflags", "cs", "rip">>

Regs == ToSet(IrqRegs) \cup ToSet(HardwareFrame)

\* A C function may change these; SYSCALL itself overwrites rcx and r11.
CallerSaved == ToSet(IrqRegs) \ ToSet(CalleeSaved)

Shared == "shared"
Stacks == Procs \cup {Shared}

ASSUME SharedAssumption == Shared \notin Procs

\* Words that are no register of user code; those are <<p, r, n>>.
Kernel(name) == <<name>>
Number(n) == <<"number", n>>
UserSelector == Kernel("user")
Wild == Kernel("wild")   \* what a word outside of every frame may hold

\* The registers of p while it runs its n-th stretch of user code.
UserRegs(p, n) ==
    [r \in Regs |-> IF r \in {"cs", "ss"} THEN UserSelector ELSE <<p, r, n>>]

Values(order, c) == [i \in DOMAIN order |-> c[order[i]]]

\* Push words at stack pointer sp: what lies deeper stays in memory.
Push(m, sp, words) ==
    [m EXCEPT ![sp[1]] = SubSeq(@, 1, sp[2]) \o words
                           \o SubSeq(@, sp[2] + Len(words) + 1, Len(@))]

\* The word i places above the one sp points to; beyond the top of the
\* stack the memory belongs to something else.
Word(m, sp, i) ==
    IF sp[1] \in Stacks /\ sp[2] - i \in DOMAIN m[sp[1]]
    THEN m[sp[1]][sp[2] - i] ELSE Wild

\* The place in the pop order of a register pushed in this order.
PopIndex(order, r) == Len(order) - (CHOOSE i \in DOMAIN order : order[i] = r)

-----------------------------------------------------------------------------
(* Initial states *)

\* A process that was interrupted in user mode.
InterruptFrame(c, int_no) ==
    Values(HardwareFrame, c) \o <<Number(0), Number(int_no)>> \o Values(IrqRegs, c)

FrameSize == Len(HardwareFrame) + 2 + Len(IrqRegs)

\* One process runs in user mode; the others were interrupted there.
Init ==
    /\ current \in Procs
    /\ cpu = UserRegs(current, 0)
    /\ mem = [s \in Stacks |-> IF s = Shared THEN <<>>
                               ELSE InterruptFrame(UserRegs(s, 0), 32)]
    /\ saved = [p \in Procs |-> <<p, FrameSize>>]
    /\ rsp0 = current
    /\ user_rsp = Number(0)
    /\ gs = "user"
    /\ zombies = {}
    /\ own = [p \in Procs |-> UserRegs(p, 0)]

-----------------------------------------------------------------------------
(* Interrupts *)

InUserMode == cpu["cs"] = UserSelector

\* user code, the body of a system call and the final hlt of sys_exit
InterruptsOn == InUserMode \/ cpu["rip"] \in {Kernel("handler"), Kernel("halted")}

\* irq_common's way out: 15 pops, two words skipped, iretq.
IrqReturn(m, sp) ==
    [r \in Regs |->
       IF r \in ToSet(IrqRegs)
       THEN Word(m, sp, PopIndex(IrqRegs, r))
       ELSE Word(m, sp, Len(IrqRegs) + 2 + PopIndex(HardwareFrame, r))]

\* Fault: the interrupt gates name IST 1, which tss_init points at the top of
\* the shared stack.
IrqStack_Ist == <<Shared, 0>>

\* Fault: a switch points TSS.rsp0 at the saved frame, not at the stack's top.
IrqStack_SavedRsp ==
    IF InUserMode THEN <<rsp0, saved[rsp0][2]>> ELSE cpu["rsp"]

\* From user mode the processor changes to the stack of TSS.rsp0.
IrqStack == IF InUserMode THEN <<rsp0, 0>> ELSE cpu["rsp"]

\* The stub has pushed its frame; the handler takes the vector from stack[15].
Pushed(int_no) == Push(mem, IrqStack, InterruptFrame(cpu, int_no))
PushedAt == <<IrqStack[1], IrqStack[2] + FrameSize>>
Vector(int_no) == Word(Pushed(int_no), PushedAt, 15)

\* The interrupt returns to what it interrupted: the keyboard's always, the
\* timer's while the slice lasts or there is no other process to run.
IrqReturns(int_no) ==
    /\ InterruptsOn
    /\ mem' = Pushed(int_no)
    /\ saved' = IF Vector(int_no) = Number(32)
                THEN [saved EXCEPT ![current] = PushedAt] ELSE saved
    /\ cpu' = IrqReturn(mem', PushedAt)
    /\ UNCHANGED <<current, rsp0, user_rsp, gs, zombies, own>>

\* The timer interrupt ends the slice of the current process: the stub's
\* stack pointer goes to its PCB and the one of the next process comes back.
IrqSwitches(next) ==
    /\ InterruptsOn
    /\ Vector(32) = Number(32)
    /\ next \notin zombies \cup {current}
    /\ mem' = Pushed(32)
    /\ saved' = [saved EXCEPT ![current] = PushedAt]
    /\ current' = next
    /\ rsp0' = next
    /\ cpu' = IrqReturn(mem', saved[next])
    /\ UNCHANGED <<user_rsp, gs, zombies, own>>

-----------------------------------------------------------------------------
(* System calls *)

Swapped == IF gs = "user" THEN "kernel" ELSE "user"

\* SYSCALL to "sti": r11 and rcx hold rflags and rip.  The call of the C
\* handler pushes the return address and its frame keeps whose call it is.
CallFrame ==
    <<cpu["rflags"], cpu["rip"]>> \o Values(CalleeSaved, cpu)
      \o <<Kernel("leave"), <<"call", current>>>>

InHandler(sp) ==
    [r \in Regs |-> CASE r = "rip" -> Kernel("handler")
                      [] r = "rsp" -> sp
                      [] r \in {"cs", "ss", "rflags"} -> Kernel("kernel")
                      [] r \in CallerSaved -> Kernel("scratch")
                      [] OTHER -> cpu[r]]

\* With GS the wrong way round [gs:8] and [gs:0] are not cpu_data.
SyscallEnter(p) ==
    /\ current = p /\ InUserMode
    /\ gs' = Swapped
    /\ IF gs' = "kernel"
       THEN /\ user_rsp' = cpu["rsp"]
            /\ mem' = Push(mem, <<Shared, 0>>, CallFrame)
            /\ cpu' = InHandler(<<Shared, Len(CallFrame)>>)
       ELSE /\ cpu' = [r \in Regs |-> Wild]
            /\ UNCHANGED <<user_rsp, mem>>
    /\ UNCHANGED <<current, saved, rsp0, zombies, own>>

\* sys_exit: the process is a zombie and halts with interrupts on.
SysExit ==
    /\ cpu["rip"] = Kernel("handler")
    /\ zombies' = zombies \cup {current}
    /\ cpu' = [cpu EXCEPT !["rip"] = Kernel("halted")]
    /\ UNCHANGED <<mem, current, saved, rsp0, user_rsp, gs, own>>

\* What a caller of the SYSCALL macros gets back: the result in rax; rip and
\* rflags are also in rcx and r11; the registers C functions need not keep
\* are lost, although the macros do not say so.
AfterCall(p) ==
    [r \in Regs |-> CASE r = "rax" -> <<"result", p>>
                      [] r = "rcx" -> own[p]["rip"]
                      [] r = "r11" -> own[p]["rflags"]
                      [] r \in CallerSaved \ {"rax", "rcx", "r11"} -> Kernel("scratch")
                      [] OTHER -> own[p][r]]

\* Fault: rcx and r11 are popped in the order in which they were pushed.
CallReturn_Swapped(sp) ==
    LET above == Len(CalleeSaved)
    IN  [r \in Regs |->
           CASE r = "rax" -> <<"result", Word(mem, sp, 0)[2]>>
             [] r \in ToSet(CalleeSaved) -> Word(mem, sp, 2 + PopIndex(CalleeSaved, r))
             [] r \in {"rcx", "rip"} -> Word(mem, sp, 3 + above)
             [] r \in {"r11", "rflags"} -> Word(mem, sp, 2 + above)
             [] r = "rsp" -> user_rsp
             [] r \in {"cs", "ss"} -> UserSelector
             [] OTHER -> Kernel("scratch")]

\* The sysret side from rsp on, once the handler has returned: the words
\* above the return address.
CallReturn(sp) ==
    LET above == Len(CalleeSaved)
    IN  [r \in Regs |->
           CASE r = "rax" -> <<"result", Word(mem, sp, 0)[2]>>
             [] r \in ToSet(CalleeSaved) -> Word(mem, sp, 2 + PopIndex(CalleeSaved, r))
             [] r \in {"rcx", "rip"} -> Word(mem, sp, 2 + above)
             [] r \in {"r11", "rflags"} -> Word(mem, sp, 3 + above)
             [] r = "rsp" -> user_rsp
             [] r \in {"cs", "ss"} -> UserSelector
             [] OTHER -> Kernel("scratch")]

\* The handler returns, and "cli" to sysret.  Its own frame and return
\* address are read from the stack, where another call may have written.
SyscallLeave ==
    /\ cpu["rip"] = Kernel("handler")
    /\ IF Word(mem, cpu["rsp"], 1) = Kernel("leave") /\ gs = "kernel"
       THEN /\ cpu' = CallReturn(cpu["rsp"])
            /\ gs' = Swapped
       ELSE /\ cpu' = [r \in Regs |-> Wild]
            /\ UNCHANGED gs
    /\ own' = [own EXCEPT ![current] = AfterCall(current)]
    /\ UNCHANGED <<mem, current, saved, rsp0, user_rsp, zombies>>

-----------------------------------------------------------------------------
(* User code *)

\* A process computes: all its registers change.
UserCode(p) ==
    /\ current = p /\ InUserMode
    /\ \E n \in {0, 1} :
         /\ cpu' = UserRegs(p, n)
         /\ own' = [own EXCEPT ![p] = cpu']
    /\ UNCHANGED <<mem, current, saved, rsp0, user_rsp, gs, zombies>>

Next ==
    \/ \E int_no \in {32, 33} : IrqReturns(int_no)
    \/ \E p \in Procs : IrqSwitches(p) \/ UserCode(p)
    \/ \E p \in Callers : SyscallEnter(p)
    \/ SysExit
    \/ SyscallLeave

Spec == Init /\ [][Next]_vars

-----------------------------------------------------------------------------
(* Properties *)

\* Processes, stacks and stack pointers are what they should be.
TypeOK ==
    /\ DOMAIN cpu = Regs
    /\ DOMAIN mem = Stacks
    /\ current \in Procs
    /\ rsp0 \in Procs
    /\ gs \in {"user", "kernel"}
    /\ zombies \subseteq Callers
    /\ \A p \in Procs : saved[p][1] \in {p, Shared} /\ saved[p][2] \in Nat

\* A process that runs in user mode finds in every register what it left
\* there, however often interrupts and other processes came between, and
\* after a call its own result and everything a C function must keep
\* (isr.asm, syscall_entry.asm); and control never leaves the code.
RunsAsItself ==
    /\ cpu["rip"] # Wild
    /\ InUserMode => cpu = own[current]

\* What is on the stacks would resume every process that waits for the CPU
\* where it was: in user mode with its own registers, or inside its system
\* call with the call's frame still below and its stack pointer in the slot.
WaitingFramesAreIntact ==
    \A p \in Procs \ (zombies \cup {current}) :
      LET back == IrqReturn(mem, saved[p])
      IN  \/ back = own[p]
          \/ /\ back["rip"] = Kernel("handler")
             /\ Word(mem, back["rsp"], 1) = Kernel("leave")
             /\ Word(mem, back["rsp"], 0) = <<"call", p>>
             /\ user_rsp = own[p]["rsp"]
             /\ gs = "kernel"

\* The state is well formed, and however often a process is preempted, its
\* kernel stack holds one interrupt frame and the shared stack one call and one
\* interrupt frame: frames do not pile up against KSTACK_SIZE.
StacksAreBounded ==
    TypeOK /\ \A s \in Stacks :
      Len(mem[s]) <= FrameSize + IF s = Shared THEN Len(CallFrame) ELSE 0
=============================================================================
