---------------------------- MODULE ContextProofs ----------------------------
(***************************************************************************)
(* Proofs about interrupt and call frames, for any set of processes of     *)
(* which one makes system calls (OneCaller): with two the properties fail. *)
(* The inductive invariant Inv says where each process can be: in user     *)
(* mode, with its registers in the CPU or in a frame on its own kernel     *)
(* stack; in its call, with the call's words at the bottom of the shared   *)
(* stack and its registers in the CPU or in a frame above them; or halted. *)
(***************************************************************************)
EXTENDS Context, SequenceTheorems, TLAPS

OneCaller == \A p, q \in Callers : p = q

CallSize == 10

\* Registers of a user program: its code is no kernel code.
UserOK(p, c) ==
    /\ c = [r \in Regs |-> c[r]]
    /\ c["cs"] = UserSelector /\ c["ss"] = UserSelector
    /\ c["rip"] \in {<<p, "rip", 0>>, <<p, "rip", 1>>}

\* c are registers inside the call of p, whose words are intact.
InCall(p, c, m) ==
    /\ p \in Callers
    /\ c["rip"] = Kernel("handler") /\ c["cs"] = Kernel("kernel")
    /\ c["rsp"] = <<Shared, CallSize>>
    /\ Len(m[Shared]) >= CallSize
    /\ m[Shared][10] = <<"call", p>> /\ m[Shared][9] = Kernel("leave")
    /\ \A i \in 1..6 : m[Shared][2 + i] = own[p][CalleeSaved[i]]
    /\ m[Shared][2] = own[p]["rip"] /\ m[Shared][1] = own[p]["rflags"]
    /\ user_rsp = own[p]["rsp"]
    /\ gs = "kernel"

\* The current process.
Halted ==
    /\ current \in zombies
    /\ cpu["rip"] = Kernel("halted") /\ cpu["cs"] = Kernel("kernel")
    /\ cpu["rsp"] = <<Shared, CallSize>> /\ Len(mem[Shared]) >= CallSize

RunningOK ==
    \/ current \notin zombies /\ cpu = own[current]
    \/ current \notin zombies /\ InCall(current, cpu, mem)
    \/ Halted

\* A process that waits for the CPU.
WaitingOK(p) ==
    \/ saved[p] = <<p, FrameSize>> /\ IrqReturn(mem, saved[p]) = own[p]
    \/ /\ saved[p] = <<Shared, CallSize + FrameSize>>
       /\ InCall(p, IrqReturn(mem, saved[p]), mem)

\* The stacks.
MemOK(m) ==
    /\ m = [s \in Stacks |-> m[s]]
    /\ \A s \in Stacks : m[s] \in Seq(ToSet(m[s]))
    /\ \A p \in Procs : Len(m[p]) = FrameSize
    /\ Len(m[Shared]) <= CallSize + FrameSize

\* A caller outside its call has left GS to the user.
GsOK ==
    /\ gs \in {"user", "kernel"}
    /\ \A p \in Callers \ zombies :
         (IF p = current THEN InUserMode ELSE saved[p] = <<p, FrameSize>>) => gs = "user"

Inv == /\ MemOK(mem)
       /\ cpu = [r \in Regs |-> cpu[r]]
       /\ own = [p \in Procs |-> own[p]]
       /\ \A p \in Procs : UserOK(p, own[p])
       /\ current \in Procs /\ rsp0 = current /\ zombies \subseteq Callers
       /\ saved = [p \in Procs |-> saved[p]]
       /\ \A p \in Procs : saved[p] \in {<<p, FrameSize>>, <<Shared, CallSize + FrameSize>>}
       /\ GsOK
       /\ RunningOK
       /\ \A p \in Procs \ (zombies \cup {current}) : WaitingOK(p)

-----------------------------------------------------------------------------
(* Registers *)

LEMMA IrqOrder ==
    /\ Len(IrqRegs) = 15 /\ DOMAIN IrqRegs = 1..15
    /\ \A i, j \in 1..15 : IrqRegs[i] = IrqRegs[j] => i = j
<1>1. Len(IrqRegs) = 15
  BY DEF IrqRegs
<1>2. DOMAIN IrqRegs = 1..15
  BY DEF IrqRegs
<1>3. \A i \in 1..15 : i = 1 \/ i = 2 \/ i = 3 \/ i = 4 \/ i = 5 \/ i = 6 \/ i = 7 \/ i = 8
                       \/ i = 9 \/ i = 10 \/ i = 11 \/ i = 12 \/ i = 13 \/ i = 14 \/ i = 15
  OBVIOUS
<1>4. /\ IrqRegs[1] = "rax" /\ IrqRegs[2] = "rbx" /\ IrqRegs[3] = "rcx" /\ IrqRegs[4] = "rdx"
      /\ IrqRegs[5] = "rsi" /\ IrqRegs[6] = "rdi" /\ IrqRegs[7] = "rbp" /\ IrqRegs[8] = "r8"
      /\ IrqRegs[9] = "r9" /\ IrqRegs[10] = "r10" /\ IrqRegs[11] = "r11"
      /\ IrqRegs[12] = "r12" /\ IrqRegs[13] = "r13" /\ IrqRegs[14] = "r14"
      /\ IrqRegs[15] = "r15"
  BY DEF IrqRegs
<1>5. \A i, j \in 1..15 : IrqRegs[i] = IrqRegs[j] => i = j
  BY <1>3, <1>4
<1> QED BY <1>1, <1>2, <1>5

LEMMA HardwareOrder ==
    /\ Len(HardwareFrame) = 5 /\ DOMAIN HardwareFrame = 1..5
    /\ \A i, j \in 1..5 : HardwareFrame[i] = HardwareFrame[j] => i = j
    /\ \A i \in 1..5, j \in 1..15 : HardwareFrame[i] # IrqRegs[j]
<1>1. Len(HardwareFrame) = 5
  BY DEF HardwareFrame
<1>2. DOMAIN HardwareFrame = 1..5
  BY DEF HardwareFrame
<1>3. \A i, j \in 1..5 : HardwareFrame[i] = HardwareFrame[j] => i = j
  BY DEF HardwareFrame
<1>4. \A i \in 1..5, j \in 1..15 : HardwareFrame[i] # IrqRegs[j]
  BY DEF HardwareFrame, IrqRegs
<1> QED BY <1>1, <1>2, <1>3, <1>4

LEMMA CalleeOrder ==
    /\ Len(CalleeSaved) = 6 /\ DOMAIN CalleeSaved = 1..6
    /\ \A i, j \in 1..6 : CalleeSaved[i] = CalleeSaved[j] => i = j
<1>1. Len(CalleeSaved) = 6
  BY DEF CalleeSaved
<1>2. DOMAIN CalleeSaved = 1..6
  BY DEF CalleeSaved
<1>3. \A i, j \in 1..6 : CalleeSaved[i] = CalleeSaved[j] => i = j
  BY DEF CalleeSaved
<1> QED BY <1>1, <1>2, <1>3

LEMMA Sizes == FrameSize = 22 /\ CallSize = 10 /\ CallSize + FrameSize = 32
BY IrqOrder, HardwareOrder DEF FrameSize, CallSize

\* Registers are popped in the reverse of the order in which they were pushed.
LEMMA Popped ==
    /\ \A i \in 1..15 : PopIndex(IrqRegs, IrqRegs[i]) = 15 - i
    /\ \A i \in 1..5 : PopIndex(HardwareFrame, HardwareFrame[i]) = 5 - i
    /\ \A i \in 1..6 : PopIndex(CalleeSaved, CalleeSaved[i]) = 6 - i
<1>1. ASSUME NEW i \in 1..15 PROVE PopIndex(IrqRegs, IrqRegs[i]) = 15 - i
  <2>1. (CHOOSE k \in 1..15 : IrqRegs[k] = IrqRegs[i]) = i
    BY IrqOrder
  <2> QED BY <2>1, IrqOrder DEF PopIndex
<1>2. ASSUME NEW i \in 1..5 PROVE PopIndex(HardwareFrame, HardwareFrame[i]) = 5 - i
  <2>1. (CHOOSE k \in 1..5 : HardwareFrame[k] = HardwareFrame[i]) = i
    BY HardwareOrder
  <2> QED BY <2>1, HardwareOrder DEF PopIndex
<1>3. ASSUME NEW i \in 1..6 PROVE PopIndex(CalleeSaved, CalleeSaved[i]) = 6 - i
  <2>1. (CHOOSE k \in 1..6 : CalleeSaved[k] = CalleeSaved[i]) = i
    BY CalleeOrder
  <2> QED BY <2>1, CalleeOrder DEF PopIndex
<1> QED BY <1>1, <1>2, <1>3

\* A register is pushed by the stub or by the processor.
LEMMA RegsAre ==
    /\ \A r : r \in ToSet(IrqRegs) <=> \E i \in 1..15 : r = IrqRegs[i]
    /\ \A r : r \in ToSet(CalleeSaved) <=> \E i \in 1..6 : r = CalleeSaved[i]
    /\ \A r : r \in Regs <=> \/ \E i \in 1..15 : r = IrqRegs[i]
                             \/ \E i \in 1..5 : r = HardwareFrame[i]
    /\ {"rax", "rcx", "r11", "rsp", "rip", "cs", "ss", "rflags"} \subseteq Regs
<1>1. \A r : r \in ToSet(IrqRegs) <=> \E i \in 1..15 : r = IrqRegs[i]
  BY IrqOrder DEF ToSet
<1>2. \A r : r \in ToSet(CalleeSaved) <=> \E i \in 1..6 : r = CalleeSaved[i]
  BY CalleeOrder DEF ToSet
<1>3. \A r : r \in ToSet(HardwareFrame) <=> \E i \in 1..5 : r = HardwareFrame[i]
  BY HardwareOrder DEF ToSet
<1>4. \A r : r \in Regs <=> r \in ToSet(IrqRegs) \/ r \in ToSet(HardwareFrame)
  BY DEF Regs
<1>5. IrqRegs[1] = "rax" /\ IrqRegs[3] = "rcx" /\ IrqRegs[11] = "r11"
  BY DEF IrqRegs
<1>6. /\ HardwareFrame[1] = "ss" /\ HardwareFrame[2] = "rsp" /\ HardwareFrame[3] = "rflags"
      /\ HardwareFrame[4] = "cs" /\ HardwareFrame[5] = "rip"
  BY DEF HardwareFrame
<1>7. "rax" \in Regs /\ "rcx" \in Regs /\ "r11" \in Regs
  BY <1>1, <1>4, <1>5
<1>8. "rsp" \in Regs /\ "rip" \in Regs /\ "cs" \in Regs /\ "ss" \in Regs /\ "rflags" \in Regs
  BY <1>3, <1>4, <1>6
<1> QED BY <1>1, <1>2, <1>3, <1>4, <1>7, <1>8

\* Which registers a C function keeps, may change, and does not see.
LEMMA Kinds ==
    /\ \A r \in {"rip", "rsp", "cs", "ss", "rflags"} :
         r \notin CallerSaved /\ r \notin ToSet(CalleeSaved)
    /\ \A r \in {"rax", "rcx", "r11"} : r \in CallerSaved /\ r \notin ToSet(CalleeSaved)
    /\ \A r \in Regs : \/ r \in {"rip", "rsp", "cs", "ss", "rflags"}
                       \/ r \in CallerSaved
                       \/ r \in ToSet(CalleeSaved)
    /\ \A r \in ToSet(CalleeSaved) : r \notin CallerSaved
<1>1. \A r \in CallerSaved : r \in ToSet(IrqRegs) /\ r \notin ToSet(CalleeSaved)
  BY DEF CallerSaved
<1>2. /\ HardwareFrame[1] = "ss" /\ HardwareFrame[2] = "rsp" /\ HardwareFrame[3] = "rflags"
      /\ HardwareFrame[4] = "cs" /\ HardwareFrame[5] = "rip"
  BY DEF HardwareFrame
<1>3. \A i \in 1..5 : i = 1 \/ i = 2 \/ i = 3 \/ i = 4 \/ i = 5
  OBVIOUS
<1>4. \A i \in 1..5 : HardwareFrame[i] \notin ToSet(IrqRegs)
  BY RegsAre, HardwareOrder
<1>5. \A r \in {"rip", "rsp", "cs", "ss", "rflags"} : r \notin ToSet(IrqRegs)
  BY <1>2, <1>4
<1>6. /\ CalleeSaved[1] = "rbp" /\ CalleeSaved[2] = "rbx" /\ CalleeSaved[3] = "r12"
      /\ CalleeSaved[4] = "r13" /\ CalleeSaved[5] = "r14" /\ CalleeSaved[6] = "r15"
  BY DEF CalleeSaved
<1>7. \A i \in 1..6 : i = 1 \/ i = 2 \/ i = 3 \/ i = 4 \/ i = 5 \/ i = 6
  OBVIOUS
<1>8. \A r : r \in ToSet(CalleeSaved) => r \in {"rbp", "rbx", "r12", "r13", "r14", "r15"}
  BY <1>6, <1>7, RegsAre
<1>9. \A r \in {"rax", "rcx", "r11"} : r \notin ToSet(CalleeSaved)
  BY <1>8
<1>10. IrqRegs[1] = "rax" /\ IrqRegs[3] = "rcx" /\ IrqRegs[11] = "r11"
  BY DEF IrqRegs
<1>11. \A r \in {"rax", "rcx", "r11"} : r \in ToSet(IrqRegs)
  BY <1>10, RegsAre
<1>12. \A r \in {"rip", "rsp", "cs", "ss", "rflags"} : r \notin ToSet(CalleeSaved)
  BY <1>8
<1>13. ASSUME NEW r \in Regs
       PROVE  r \in {"rip", "rsp", "cs", "ss", "rflags"} \/ r \in ToSet(IrqRegs)
  BY <1>2, <1>3, RegsAre
<1> QED BY <1>1, <1>5, <1>9, <1>11, <1>12, <1>13 DEF CallerSaved

-----------------------------------------------------------------------------
(* Words on stacks *)

\* A sequence of some words is a sequence of its own words.
LEMMA OwnWords ==
    ASSUME NEW S, NEW u \in Seq(S)
    PROVE  /\ u \in Seq(ToSet(u)) /\ Len(u) \in Nat /\ DOMAIN u = 1..Len(u)
           /\ \A i \in 1..Len(u) : u[i] \in ToSet(u)
<1>1. PICK n \in Nat : n = Len(u) /\ u \in [1..n -> S]
  BY LenProperties
<1>2. \A i \in 1..n : u[i] \in ToSet(u)
  BY <1>1 DEF ToSet
<1>3. u \in [1..n -> ToSet(u)]
  BY <1>1, <1>2
<1>4. u \in Seq(ToSet(u))
  BY <1>1, <1>3, SeqDef
<1> QED BY <1>1, <1>2, <1>4

\* u, of m words in S, followed by w, of n words in T.
IsJoin(x, u, w, S, T, m, n) ==
    /\ x \in Seq(S \cup T)
    /\ Len(x) = m + n
    /\ \A i \in 1..m : x[i] = u[i]
    /\ \A i \in 1..n : x[m + i] = w[i]

LEMMA Joined ==
    ASSUME NEW S, NEW T, NEW u \in Seq(S), NEW w \in Seq(T),
           NEW m, NEW n, m = Len(u), n = Len(w)
    PROVE  IsJoin(u \o w, u, w, S, T, m, n)
<1>1. m \in Nat /\ n \in Nat /\ u \in [1..m -> S] /\ w \in [1..n -> T]
  BY LenProperties
<1>2. u \in Seq(S \cup T) /\ w \in Seq(S \cup T)
  <2>1. u \in [1..m -> S \cup T] /\ w \in [1..n -> S \cup T]
    BY <1>1
  <2> QED BY <1>1, <2>1, SeqDef
<1>3. /\ u \o w \in Seq(S \cup T) /\ Len(u \o w) = m + n
      /\ \A i \in 1..(m + n) : (u \o w)[i] = IF i <= m THEN u[i] ELSE w[i - m]
  BY <1>1, <1>2, ConcatProperties
<1>4. \A i \in 1..m : (u \o w)[i] = u[i]
  BY <1>1, <1>3
<1>5. ASSUME NEW i \in 1..n PROVE (u \o w)[m + i] = w[i]
  <2>1. PICK k \in 1..(m + n) : k = m + i /\ ~(k <= m) /\ k - m = i
    BY <1>1
  <2> QED BY <1>3, <2>1
<1> QED BY <1>1, <1>3, <1>4, <1>5 DEF IsJoin

\* The registers of c in the order in which they are pushed.
IsListOf(x, order, c, n) ==
    /\ \E S : x \in Seq(S)
    /\ Len(x) = n
    /\ \A i \in 1..n : x[i] = c[order[i]]

LEMMA ValuesAre ==
    ASSUME NEW c, NEW order, NEW n \in Nat, DOMAIN order = 1..n
    PROVE  IsListOf(Values(order, c), order, c, n)
<1>1. Values(order, c) = [i \in 1..n |-> c[order[i]]]
  BY DEF Values
<1>2. Values(order, c) \in [1..n -> {c[order[i]] : i \in 1..n}]
  BY <1>1
<1>3. Values(order, c) \in Seq({c[order[i]] : i \in 1..n})
  BY <1>2, SeqDef
<1>4. Len(Values(order, c)) = n
  BY <1>2, <1>3, LenProperties
<1> QED BY <1>1, <1>3, <1>4 DEF IsListOf

IsPair(x, a, b) == (\E S : x \in Seq(S)) /\ Len(x) = 2 /\ x[1] = a /\ x[2] = b

LEMMA Pair ==
    ASSUME NEW a, NEW b PROVE IsPair(<<a, b>>, a, b)
<1>1. <<a, b>> \in Seq({a, b}) /\ Len(<<a, b>>) = 2 /\ <<a, b>>[1] = a /\ <<a, b>>[2] = b
  OBVIOUS
<1> QED BY <1>1, Zenon DEF IsPair

\* The words of x are those of u, v and w.
IsJoin3(x, u, v, w, l, m, n) ==
    /\ \E S : x \in Seq(S)
    /\ Len(x) = (l + m) + n
    /\ \A i \in 1..l : x[i] = u[i]
    /\ \A i \in 1..m : x[l + i] = v[i]
    /\ \A i \in 1..n : x[(l + m) + i] = w[i]

LEMMA Joined3 ==
    ASSUME NEW S, NEW T, NEW R, NEW u \in Seq(S), NEW v \in Seq(T), NEW w \in Seq(R),
           NEW l, NEW m, NEW n, l = Len(u), m = Len(v), n = Len(w)
    PROVE  IsJoin3(u \o v \o w, u, v, w, l, m, n)
<1>1. PICK a : a = u \o v
  OBVIOUS
<1>2. l \in Nat /\ m \in Nat /\ n \in Nat
  BY LenProperties
<1>3. IsJoin(a, u, v, S, T, l, m)
  BY <1>1, Joined
<1>4. PICK k : k = l + m
  OBVIOUS
<1>5. a \in Seq(S \cup T) /\ k = Len(a)
  BY <1>3, <1>4 DEF IsJoin
<1>6. PICK U : U = S \cup T
  OBVIOUS
<1>7. a \in Seq(U)
  BY <1>5, <1>6
<1>8. PICK f : f = a \o w
  OBVIOUS
<1>9. IsJoin(f, a, w, U, R, k, n)
  BY <1>5, <1>7, <1>8, Joined
<1>10. ASSUME NEW i \in 1..l PROVE f[i] = u[i]
  <2>1. i \in 1..k
    BY <1>2, <1>4
  <2> QED BY <1>3, <1>9, <2>1 DEF IsJoin
<1>11. ASSUME NEW i \in 1..m PROVE f[l + i] = v[i]
  <2>1. l + i \in 1..k
    BY <1>2, <1>4
  <2>2. f[l + i] = a[l + i]
    BY <1>9, <2>1 DEF IsJoin
  <2> QED BY <1>3, <2>2 DEF IsJoin
<1>12. \E Q : f \in Seq(Q)
  BY <1>9 DEF IsJoin
<1>13. Len(f) = (l + m) + n /\ \A i \in 1..n : f[(l + m) + i] = w[i]
  BY <1>4, <1>9 DEF IsJoin
<1>14. IsJoin3(f, u, v, w, l, m, n)
  BY <1>10, <1>11, <1>12, <1>13 DEF IsJoin3
<1> QED BY <1>1, <1>8, <1>14

\* The words of an interrupt frame.
IsFrame(f, c, k) ==
    /\ \E S : f \in Seq(S)
    /\ Len(f) = 22
    /\ f[7] = Number(k)
    /\ \A i \in 1..5 : f[i] = c[HardwareFrame[i]]
    /\ \A i \in 1..15 : f[7 + i] = c[IrqRegs[i]]

LEMMA FrameWords ==
    ASSUME NEW c, NEW k
    PROVE  IsFrame(InterruptFrame(c, k), c, k)
<1>1. PICK h : h = Values(HardwareFrame, c)
  OBVIOUS
<1>2. PICK t : t = <<Number(0), Number(k)>>
  OBVIOUS
<1>3. PICK g : g = Values(IrqRegs, c)
  OBVIOUS
<1>0. PICK l \in Nat, m \in Nat, n \in Nat : l = 5 /\ m = 2 /\ n = 15
  OBVIOUS
<1>4. IsListOf(h, HardwareFrame, c, l)
  <2>1. DOMAIN HardwareFrame = 1..l
    BY HardwareOrder, <1>0
  <2> QED BY <1>1, <2>1, ValuesAre
<1>5. PICK T : t \in Seq(T) /\ Len(t) = m /\ t[2] = Number(k)
  BY <1>0, <1>2, Pair DEF IsPair
<1>6. IsListOf(g, IrqRegs, c, n)
  <2>1. DOMAIN IrqRegs = 1..n
    BY IrqOrder, <1>0
  <2> QED BY <1>3, <2>1, ValuesAre
<1>7. PICK f : f = h \o t \o g
  OBVIOUS
<1>8. PICK H, G : h \in Seq(H) /\ g \in Seq(G) /\ l = Len(h) /\ n = Len(g)
  BY <1>4, <1>6 DEF IsListOf
<1>9. IsJoin3(f, h, t, g, l, m, n)
  BY <1>5, <1>7, <1>8, Joined3
<1>11. f = InterruptFrame(c, k)
  BY <1>1, <1>2, <1>3, <1>7 DEF InterruptFrame
<1>12. f[7] = Number(k)
  <2>1. 2 \in 1..m /\ l + 2 = 7
    BY <1>0
  <2>2. f[l + 2] = t[2]
    BY <1>9, <2>1, Zenon DEF IsJoin3
  <2> QED BY <1>5, <2>1, <2>2, Zenon
<1>13. ASSUME NEW i \in 1..5 PROVE f[i] = c[HardwareFrame[i]]
  <2>1. i \in 1..l
    BY <1>0
  <2> QED BY <1>4, <1>9, <2>1, Zenon DEF IsListOf, IsJoin3
<1>14. ASSUME NEW i \in 1..15 PROVE f[7 + i] = c[IrqRegs[i]]
  <2>1. i \in 1..n /\ (l + m) + i = 7 + i
    BY <1>0
  <2>2. f[(l + m) + i] = g[i]
    BY <1>9, <2>1, Zenon DEF IsJoin3
  <2> QED BY <1>6, <2>1, <2>2, Zenon DEF IsListOf
<1>15. Len(f) = 22
  BY <1>0, <1>9 DEF IsJoin3
<1>16. \E S : f \in Seq(S)
  BY <1>9, Zenon DEF IsJoin3
<1> QED BY <1>11, <1>12, <1>13, <1>14, <1>15, <1>16, Zenon DEF IsFrame

\* P is m with the n words w pushed at depth d of stack s, which has N words.
IsPush(P, m, s, d, w, n, N) ==
    /\ P = [t \in Stacks |-> P[t]]
    /\ \A t \in Stacks \ {s} : P[t] = m[t]
    /\ \E Q : P[s] \in Seq(Q)
    /\ Len(P[s]) = IF N > d + n THEN N ELSE d + n
    /\ \A i \in 1..d : P[s][i] = m[s][i]
    /\ \A i \in 1..n : P[s][d + i] = w[i]

LEMMA Pushing ==
    ASSUME NEW m, m = [t \in Stacks |-> m[t]], NEW s \in Stacks,
           NEW S, m[s] \in Seq(S), NEW N, N = Len(m[s]),
           NEW T, NEW w \in Seq(T), NEW n, n = Len(w),
           NEW d \in Nat, d <= N
    PROVE  IsPush(Push(m, <<s, d>>, w), m, s, d, w, n, N)
<1>1. PICK u : u = m[s]
  OBVIOUS
<1>2. N \in Nat /\ n \in Nat /\ \A i \in 1..N : u[i] \in S
  BY <1>1, LenProperties
<1>3. PICK lo : lo = SubSeq(u, 1, d)
  OBVIOUS
<1>4. PICK first \in Int : first = d + n + 1
  BY <1>2
<1>5. PICK hi : hi = SubSeq(u, first, N)
  OBVIOUS
<1>6. lo \in Seq(S) /\ d = Len(lo) /\ \A i \in 1..d : lo[i] = u[i]
  <2>1. \A i \in 1..d : u[i] \in S
    BY <1>2
  <2>2. /\ SubSeq(u, 1, d) \in Seq(S)
        /\ Len(SubSeq(u, 1, d)) = IF 1 <= d THEN d - 1 + 1 ELSE 0
        /\ \A i \in 1..(d - 1 + 1) : SubSeq(u, 1, d)[i] = u[1 + i - 1]
    BY <2>1, SubSeqProperties
  <2> QED BY <1>3, <2>2
<1>7. hi \in Seq(S) /\ Len(hi) = IF first <= N THEN N - first + 1 ELSE 0
  <2>1. \A i \in first..N : u[i] \in S
    BY <1>2, <1>4
  <2> QED BY <1>2, <1>5, <2>1, SubSeqProperties
<1>8. PICK h : h = Len(hi)
  OBVIOUS
<1>9. PICK x : x = lo \o w \o hi
  OBVIOUS
<1>10. IsJoin3(x, lo, w, hi, d, n, h)
  BY <1>6, <1>7, <1>8, <1>9, Joined3
<1>11. Push(m, <<s, d>>, w) = [m EXCEPT ![s] = x]
  <2>1. <<s, d>>[1] = s /\ <<s, d>>[2] = d
    OBVIOUS
  <2>2. d + Len(w) + 1 = first /\ Len(u) = N
    BY <1>1, <1>4
  <2>3. [m EXCEPT ![s] = x] = [m EXCEPT ![s] = SubSeq(@, 1, d) \o w \o SubSeq(@, d + Len(w) + 1, Len(@))]
    BY <1>1, <1>3, <1>5, <1>9, <2>2
  <2> QED BY <2>1, <2>3 DEF Push
<1>12. PICK P : P = Push(m, <<s, d>>, w)
  OBVIOUS
<1>13. /\ P = [t \in Stacks |-> P[t]]
       /\ P[s] = x
       /\ \A t \in Stacks \ {s} : P[t] = m[t]
  BY <1>11, <1>12
<1>14. Len(x) = IF N > d + n THEN N ELSE d + n
  <2>1. Len(x) = (d + n) + h
    BY <1>10 DEF IsJoin3
  <2> QED BY <1>2, <1>4, <1>7, <1>8, <2>1
<1>15. \E Q : x \in Seq(Q)
  BY <1>10 DEF IsJoin3
<1>16. \A i \in 1..d : x[i] = m[s][i]
  BY <1>1, <1>6, <1>10 DEF IsJoin3
<1>17. \A i \in 1..n : x[d + i] = w[i]
  BY <1>10 DEF IsJoin3
<1>18. IsPush(P, m, s, d, w, n, N)
  BY <1>13, <1>14, <1>15, <1>16, <1>17 DEF IsPush
<1> QED BY <1>12, <1>18

\* The place of word j of a frame, counted from either end.
LEMMA Place ==
    ASSUME NEW N \in Nat, NEW d \in Nat, NEW e, e = d + 22, e <= N, NEW j \in 1..22
    PROVE  d + j \in 1..N /\ e - (22 - j) = d + j
OBVIOUS

LEMMA Counting ==
    /\ \A i \in 1..15 : 7 + i \in 1..22 /\ 22 - (7 + i) = 15 - i
    /\ \A i \in 1..5 : i \in 1..22 /\ 22 - i = 17 + (5 - i)
OBVIOUS

\* Word j of the frame that ends at depth e.
FrameAt(m, s, d, e) == \A j \in 1..22 : Word(m, <<s, e>>, 22 - j) = m[s][d + j]

LEMMA WordsInFrame ==
    ASSUME NEW m, NEW s \in Stacks, NEW N \in Nat, DOMAIN m[s] = 1..N,
           NEW d \in Nat, NEW e, e = d + 22, e <= N
    PROVE  FrameAt(m, s, d, e)
<1>1. ASSUME NEW j \in 1..22 PROVE Word(m, <<s, e>>, 22 - j) = m[s][d + j]
  <2>1. d + j \in 1..N /\ e - (22 - j) = d + j
    BY Place
  <2>2. <<s, e>>[1] = s /\ <<s, e>>[2] = e
    OBVIOUS
  <2> QED BY <2>1, <2>2 DEF Word
<1> QED BY <1>1 DEF FrameAt

\* Returning from a frame on top of d words restores the registers in it.
Restores(m, s, e, c, k) ==
    /\ IrqReturn(m, <<s, e>>) = c
    /\ Word(m, <<s, e>>, 15) = Number(k)

LEMMA Returning ==
    ASSUME NEW m, NEW s \in Stacks, NEW N \in Nat, DOMAIN m[s] = 1..N,
           NEW d \in Nat, NEW e, e = d + 22, e <= N,
           NEW c, c = [r \in Regs |-> c[r]], NEW k, NEW f, f = InterruptFrame(c, k),
           \A i \in 1..22 : m[s][d + i] = f[i]
    PROVE  Restores(m, s, e, c, k)
<1>0. IsFrame(f, c, k)
  BY FrameWords
<1>1. ASSUME NEW j \in 1..22 PROVE Word(m, <<s, e>>, 22 - j) = f[j]
  <2>1. FrameAt(m, s, d, e)
    BY WordsInFrame
  <2> QED BY <2>1, Zenon DEF FrameAt
<1>2. ASSUME NEW i \in 1..15
      PROVE  Word(m, <<s, e>>, PopIndex(IrqRegs, IrqRegs[i])) = c[IrqRegs[i]]
  <2>1. 7 + i \in 1..22 /\ 22 - (7 + i) = 15 - i
    BY Counting, Zenon
  <2>2. Word(m, <<s, e>>, 15 - i) = f[7 + i]
    BY <1>1, <2>1
  <2> QED BY <1>0, <2>2, Popped DEF IsFrame
<1>3. ASSUME NEW i \in 1..5
      PROVE  Word(m, <<s, e>>, 17 + PopIndex(HardwareFrame, HardwareFrame[i])) = c[HardwareFrame[i]]
  <2>1. i \in 1..22 /\ 22 - i = 17 + (5 - i)
    BY Counting, Zenon
  <2>2. Word(m, <<s, e>>, 17 + (5 - i)) = f[i]
    BY <1>1, <2>1
  <2> QED BY <1>0, <2>2, Popped DEF IsFrame
<1>4. ASSUME NEW r \in Regs PROVE IrqReturn(m, <<s, e>>)[r] = c[r]
  <2>1. CASE r \in ToSet(IrqRegs)
    <3>1. PICK i \in 1..15 : r = IrqRegs[i]
      BY <2>1, RegsAre
    <3>2. IrqReturn(m, <<s, e>>)[r] = Word(m, <<s, e>>, PopIndex(IrqRegs, r))
      BY <2>1 DEF IrqReturn
    <3> QED BY <1>2, <3>1, <3>2
  <2>2. CASE r \notin ToSet(IrqRegs)
    <3>1. PICK i \in 1..5 : r = HardwareFrame[i]
      BY <2>2, RegsAre
    <3>2. Len(IrqRegs) + 2 = 17
      BY IrqOrder
    <3>3. IrqReturn(m, <<s, e>>)[r] = Word(m, <<s, e>>, 17 + PopIndex(HardwareFrame, r))
      BY <2>2, <3>2 DEF IrqReturn
    <3> QED BY <1>3, <3>1, <3>3
  <2> QED BY <2>1, <2>2
<1>5. IrqReturn(m, <<s, e>>) = [r \in Regs |-> IrqReturn(m, <<s, e>>)[r]]
  BY DEF IrqReturn
<1>6. IrqReturn(m, <<s, e>>) = c
  BY <1>4, <1>5
<1>7. Word(m, <<s, e>>, 15) = Number(k)
  <2>1. 7 \in 1..22 /\ 22 - 7 = 15
    OBVIOUS
  <2>2. Word(m, <<s, e>>, 15) = f[7]
    BY <1>1, <2>1
  <2> QED BY <1>0, <2>2 DEF IsFrame
<1> QED BY <1>6, <1>7 DEF Restores

\* The words of a call's frame.
LEMMA CallWords ==
    /\ \E S : CallFrame \in Seq(S)
    /\ Len(CallFrame) = 10
    /\ CallFrame[1] = cpu["rflags"] /\ CallFrame[2] = cpu["rip"]
    /\ \A i \in 1..6 : CallFrame[2 + i] = cpu[CalleeSaved[i]]
    /\ CallFrame[9] = Kernel("leave") /\ CallFrame[10] = <<"call", current>>
<1>1. PICK h : h = <<cpu["rflags"], cpu["rip"]>>
  OBVIOUS
<1>2. PICK t : t = Values(CalleeSaved, cpu)
  OBVIOUS
<1>3. PICK g : g = <<Kernel("leave"), <<"call", current>>>>
  OBVIOUS
<1>4. PICK l \in Nat, m \in Nat : l = 2 /\ m = 6
  OBVIOUS
<1>5. PICK H : h \in Seq(H) /\ l = Len(h) /\ h[1] = cpu["rflags"] /\ h[2] = cpu["rip"]
  <2>1. IsPair(h, cpu["rflags"], cpu["rip"])
    BY <1>1, Pair, Zenon
  <2> QED BY <1>4, <2>1, Zenon DEF IsPair
<1>6. PICK G : g \in Seq(G) /\ l = Len(g) /\ g[1] = Kernel("leave") /\ g[2] = <<"call", current>>
  <2>1. IsPair(g, Kernel("leave"), <<"call", current>>)
    BY <1>3, Pair, Zenon
  <2> QED BY <1>4, <2>1, Zenon DEF IsPair
<1>7. IsListOf(t, CalleeSaved, cpu, m)
  <2>1. DOMAIN CalleeSaved = 1..m
    BY CalleeOrder, <1>4
  <2> QED BY <1>2, <2>1, ValuesAre
<1>8. PICK T : t \in Seq(T) /\ m = Len(t)
  BY <1>7 DEF IsListOf
<1>9. PICK f : f = h \o t \o g
  OBVIOUS
<1>10. IsJoin3(f, h, t, g, l, m, l)
  BY <1>5, <1>6, <1>8, <1>9, Joined3
<1>11. f = CallFrame
  BY <1>1, <1>2, <1>3, <1>9 DEF CallFrame
<1>12. Len(f) = 10 /\ \E S : f \in Seq(S)
  BY <1>4, <1>10 DEF IsJoin3
<1>13. f[1] = cpu["rflags"] /\ f[2] = cpu["rip"]
  <2>1. 1 \in 1..l /\ 2 \in 1..l
    BY <1>4
  <2>2. f[1] = h[1] /\ f[2] = h[2]
    BY <1>10, <2>1, Zenon DEF IsJoin3
  <2> QED BY <1>5, <2>2, Zenon
<1>14. ASSUME NEW i \in 1..6 PROVE f[2 + i] = cpu[CalleeSaved[i]]
  <2>1. i \in 1..m
    BY <1>4
  <2>2. f[l + i] = t[i]
    BY <1>10, <2>1, Zenon DEF IsJoin3
  <2> QED BY <1>4, <1>7, <2>1, <2>2, Zenon DEF IsListOf
<1>15. f[9] = Kernel("leave") /\ f[10] = <<"call", current>>
  <2>1. 1 \in 1..l /\ 2 \in 1..l /\ (l + m) + 1 = 9 /\ (l + m) + 2 = 10
    BY <1>4
  <2>2. f[(l + m) + 1] = g[1] /\ f[(l + m) + 2] = g[2]
    BY <1>10, <2>1, Zenon DEF IsJoin3
  <2> QED BY <1>6, <2>1, <2>2, Zenon
<1> QED BY <1>11, <1>12, <1>13, <1>14, <1>15, Zenon

-----------------------------------------------------------------------------
(* Where a process is *)

LEMMA KernelNames ==
    /\ UserSelector # Kernel("kernel")
    /\ Kernel("handler") # Kernel("halted")
    /\ Kernel("handler") # Wild /\ Kernel("halted") # Wild
    /\ \A p, n, name : <<p, "rip", n>> # Kernel(name)
<1>1. /\ UserSelector # Kernel("kernel")
      /\ Kernel("handler") # Kernel("halted")
      /\ Kernel("handler") # Wild /\ Kernel("halted") # Wild
  BY DEF UserSelector, Kernel, Wild
<1>2. ASSUME NEW p, NEW n, NEW name PROVE <<p, "rip", n>> # Kernel(name)
  <2>1. Len(<<p, "rip", n>>) = 3 /\ Len(<<name>>) = 1
    OBVIOUS
  <2> QED BY <2>1 DEF Kernel
<1> QED BY <1>1, <1>2

\* The current process is in user mode, in its call, or halted.
LEMMA Modes ==
    ASSUME Inv
    PROVE  /\ InUserMode => current \notin zombies /\ cpu = own[current]
           /\ ~InUserMode /\ current \notin zombies => InCall(current, cpu, mem)
           /\ current \in zombies => Halted
           /\ ~InUserMode => /\ current \in Callers
                             /\ cpu["rsp"] = <<Shared, 10>> /\ Len(mem[Shared]) >= 10
           /\ cpu["rip"] = Kernel("handler") => ~InUserMode /\ current \notin zombies
<1>1. InUserMode <=> cpu["cs"] = UserSelector
  BY DEF InUserMode
<1>2. CASE current \notin zombies /\ cpu = own[current]
  <2>1. UserOK(current, own[current])
    BY DEF Inv
  <2>2. cpu["cs"] = UserSelector /\ cpu["rip"] # Kernel("handler")
    BY <1>2, <2>1, KernelNames DEF UserOK
  <2> QED BY <1>1, <1>2, <2>2
<1>3. CASE current \notin zombies /\ InCall(current, cpu, mem)
  BY <1>1, <1>3, KernelNames, Sizes DEF InCall
<1>4. CASE Halted
  <2>1. current \in Callers
    BY <1>4 DEF Inv, Halted
  <2> QED BY <1>1, <1>4, <2>1, KernelNames, Sizes DEF Halted
<1> QED BY <1>2, <1>3, <1>4 DEF Inv, RunningOK

\* A frame is read from its own stack only.
LEMMA ReturnsFromOneStack ==
    ASSUME NEW m, NEW M, NEW s \in Stacks, M[s] = m[s], NEW d
    PROVE  IrqReturn(M, <<s, d>>) = IrqReturn(m, <<s, d>>)
<1>1. \A i : Word(M, <<s, d>>, i) = Word(m, <<s, d>>, i)
  BY DEF Word
<1> QED BY <1>1 DEF IrqReturn

\* With one caller, what the current process pushes spares those that wait.
LEMMA WaitersAreSpared ==
    ASSUME Inv, OneCaller, NEW p \in Procs \ (zombies \cup {current}),
           NEW M, M[p] = mem[p], M[Shared] = mem[Shared] \/ current \in Callers
    PROVE  \/ saved[p] = <<p, FrameSize>> /\ IrqReturn(M, saved[p]) = own[p]
           \/ /\ saved[p] = <<Shared, CallSize + FrameSize>>
              /\ current \notin Callers /\ M[Shared] = mem[Shared]
              /\ InCall(p, IrqReturn(M, saved[p]), M)
<1>1. p \in Stacks /\ Shared \in Stacks
  BY DEF Stacks
<1>2. CASE saved[p] = <<p, FrameSize>> /\ IrqReturn(mem, saved[p]) = own[p]
  <2>1. IrqReturn(M, <<p, FrameSize>>) = IrqReturn(mem, <<p, FrameSize>>)
    BY <1>1, ReturnsFromOneStack
  <2> QED BY <1>2, <2>1
<1>3. CASE /\ saved[p] = <<Shared, CallSize + FrameSize>>
           /\ InCall(p, IrqReturn(mem, saved[p]), mem)
  <2>1. current \notin Callers
    BY <1>3 DEF InCall, OneCaller
  <2>2. M[Shared] = mem[Shared]
    BY <2>1
  <2>3. IrqReturn(M, saved[p]) = IrqReturn(mem, saved[p])
    BY <1>1, <1>3, <2>2, ReturnsFromOneStack
  <2>4. InCall(p, IrqReturn(M, saved[p]), M)
    BY <1>3, <2>2, <2>3 DEF InCall
  <2> QED BY <1>3, <2>1, <2>2, <2>4
<1> QED BY <1>2, <1>3 DEF Inv, WaitingOK

-----------------------------------------------------------------------------
(* An interrupt pushes the registers of the current process *)

\* The stub's frame lies on stack s above d words; from it the interrupt can
\* return to what it interrupted, and the other stacks are as they were.
FramePushed(s, d, k) ==
    /\ PushedAt = <<s, d + 22>>
    /\ MemOK(Pushed(k))
    /\ \A t \in Stacks \ {s} : Pushed(k)[t] = mem[t]
    /\ Len(Pushed(k)[s]) >= d
    /\ \A i \in 1..d : Pushed(k)[s][i] = mem[s][i]
    /\ IrqReturn(Pushed(k), PushedAt) = cpu
    /\ Vector(k) = Number(k)

LEMMA FrameOnStack ==
    ASSUME Inv, NEW k, NEW s \in Stacks, NEW d \in Nat, IrqStack = <<s, d>>,
           IF s = Shared THEN d = 10 /\ Len(mem[s]) >= 10 ELSE d = 0
    PROVE  FramePushed(s, d, k)
<1>1. PICK f : f = InterruptFrame(cpu, k)
  OBVIOUS
<1>2. IsFrame(f, cpu, k)
  BY <1>1, FrameWords
<1>3. PICK T, n : f \in Seq(T) /\ n = Len(f) /\ n = 22
  BY <1>2 DEF IsFrame
<1>4. PICK S : S = ToSet(mem[s])
  OBVIOUS
<1>5. /\ mem = [t \in Stacks |-> mem[t]] /\ mem[s] \in Seq(S)
      /\ \A t \in Stacks : mem[t] \in Seq(ToSet(mem[t]))
      /\ \A p \in Procs : Len(mem[p]) = 22
      /\ Len(mem[Shared]) <= 32
      /\ cpu = [r \in Regs |-> cpu[r]]
  BY <1>4, Sizes DEF Inv, MemOK
<1>6. PICK N : N = Len(mem[s])
  OBVIOUS
<1>7. N \in Nat /\ d <= N /\ N <= d + 22 /\ d + 22 = IF s = Shared THEN 32 ELSE 22
  <2>1. N \in Nat
    BY <1>5, <1>6, LenProperties
  <2>2. CASE s = Shared
    BY <1>5, <1>6, <2>1, <2>2
  <2>3. CASE s # Shared
    <3>1. N = 22 /\ d = 0
      BY <1>5, <1>6, <2>3 DEF Stacks
    <3> QED BY <2>3, <3>1
  <2> QED BY <2>2, <2>3
<1>8. PICK M : M = Pushed(k)
  OBVIOUS
<1>9. M = Push(mem, <<s, d>>, f)
  BY <1>1, <1>8 DEF Pushed
<1>10. IsPush(M, mem, s, d, f, n, N)
  BY <1>3, <1>5, <1>6, <1>7, <1>9, Pushing
<1>11. PICK Q : M[s] \in Seq(Q)
  BY <1>10 DEF IsPush
<1>12. Len(M[s]) = d + 22
  <2>1. Len(M[s]) = IF N > d + n THEN N ELSE d + n
    BY <1>10 DEF IsPush
  <2> QED BY <1>3, <1>7, <2>1
<1>13. /\ M = [t \in Stacks |-> M[t]]
       /\ \A t \in Stacks \ {s} : M[t] = mem[t]
       /\ \A i \in 1..d : M[s][i] = mem[s][i]
  BY <1>10 DEF IsPush
<1>14. MemOK(M)
  <2>1. M[s] \in Seq(ToSet(M[s]))
    BY <1>11, OwnWords
  <2>2. \A t \in Stacks : M[t] \in Seq(ToSet(M[t]))
    BY <1>5, <1>13, <2>1
  <2>3. \A p \in Procs : Len(M[p]) = 22
    <3> SUFFICES ASSUME NEW p \in Procs PROVE Len(M[p]) = 22
      OBVIOUS
    <3>1. p \in Stacks /\ p # Shared
      BY SharedAssumption DEF Stacks
    <3>2. CASE p = s
      BY <1>7, <1>12, <3>1, <3>2
    <3>3. CASE p # s
      BY <1>5, <1>13, <3>1, <3>3
    <3> QED BY <3>2, <3>3
  <2>4. Len(M[Shared]) <= 32
    <3>1. Shared \in Stacks
      BY DEF Stacks
    <3>2. CASE Shared = s
      <4>1. d + 22 = 32
        BY <1>7, <3>2
      <4>2. Len(M[Shared]) = 32
        BY <1>12, <3>2, <4>1, Zenon
      <4> QED BY <4>2
    <3>3. CASE Shared # s
      BY <1>5, <1>13, <3>1, <3>3
    <3> QED BY <3>2, <3>3
  <2> QED BY <1>13, <2>2, <2>3, <2>4, Sizes DEF MemOK
<1>15. PICK e : e = d + 22
  OBVIOUS
<1>16. PushedAt = <<s, e>>
  BY <1>15, Sizes DEF PushedAt
<1>17. IrqReturn(M, <<s, e>>) = cpu /\ Word(M, <<s, e>>, 15) = Number(k)
  <2>1. e \in Nat /\ DOMAIN M[s] = 1..e
    BY <1>11, <1>12, <1>15, LenProperties
  <2>2. \A i \in 1..22 : M[s][d + i] = f[i]
    BY <1>3, <1>10 DEF IsPush
  <2>3. PICK c : c = cpu
    OBVIOUS
  <2>4. c = [r \in Regs |-> c[r]] /\ f = InterruptFrame(c, k)
    BY <1>1, <1>5, <2>3
  <2>5. PICK L \in Nat : DOMAIN M[s] = 1..L /\ e <= L
    BY <2>1
  <2>6. Restores(M, s, e, c, k)
    BY <1>15, <2>2, <2>4, <2>5, Returning
  <2> QED BY <2>3, <2>6 DEF Restores
<1>18. IrqReturn(M, PushedAt) = cpu /\ Vector(k) = Number(k)
  BY <1>8, <1>16, <1>17 DEF Vector
<1>19. Len(M[s]) >= d
  BY <1>12
<1> QED BY <1>8, <1>13, <1>14, <1>15, <1>16, <1>18, <1>19 DEF FramePushed

\* From user mode it goes to the process's own stack.
LEMMA FromUserMode ==
    ASSUME Inv, NEW k, InUserMode
    PROVE  FramePushed(current, 0, k)
<1>1. IrqStack = <<current, 0>> /\ current \in Procs
  BY DEF Inv, IrqStack
<1>2. current \in Stacks /\ current # Shared
  BY <1>1, SharedAssumption DEF Stacks
<1> QED BY <1>1, <1>2, FrameOnStack

\* From the kernel it goes above the words of the call.
LEMMA FromKernel ==
    ASSUME Inv, NEW k, ~InUserMode
    PROVE  FramePushed(Shared, 10, k)
<1>1. IrqStack = <<Shared, 10>> /\ Len(mem[Shared]) >= 10
  BY Modes DEF IrqStack
<1>2. Shared \in Stacks
  BY DEF Stacks
<1> QED BY <1>1, <1>2, FrameOnStack

\* Either way the current process could go on from its frame as it is, and
\* everyone else's stack is untouched.
LEMMA Interrupted ==
    ASSUME Inv, NEW k
    PROVE  /\ PushedAt = IF InUserMode THEN <<current, FrameSize>>
                                       ELSE <<Shared, CallSize + FrameSize>>
           /\ MemOK(Pushed(k))
           /\ IrqReturn(Pushed(k), PushedAt) = cpu
           /\ Vector(k) = Number(k)
           /\ \A p \in Procs \ {current} : Pushed(k)[p] = mem[p]
           /\ Pushed(k)[Shared] = mem[Shared] \/ current \in Callers
           /\ ~InUserMode /\ current \notin zombies => InCall(current, cpu, Pushed(k))
           /\ Halted => Len(Pushed(k)[Shared]) >= CallSize
<1>0. /\ \A p \in Procs : p \in Stacks /\ p # Shared
      /\ Shared \in Stacks /\ current \in Procs
  BY SharedAssumption DEF Stacks, Inv
<1>1. CASE InUserMode
  <2>1. FramePushed(current, 0, k)
    BY <1>1, FromUserMode
  <2>2. PushedAt = <<current, 22>>
    BY <2>1 DEF FramePushed
  <2>3. ~Halted
    BY <1>1, Modes DEF Halted
  <2> QED BY <1>0, <1>1, <2>1, <2>2, <2>3, Sizes DEF FramePushed
<1>2. CASE ~InUserMode
  <2>1. FramePushed(Shared, 10, k)
    BY <1>2, FromKernel
  <2>2. PushedAt = <<Shared, 32>>
    BY <2>1 DEF FramePushed
  <2>3. PICK M : M = Pushed(k)
    OBVIOUS
  <2>4. /\ \A t \in Stacks \ {Shared} : M[t] = mem[t]
        /\ Len(M[Shared]) >= 10
        /\ \A i \in 1..10 : M[Shared][i] = mem[Shared][i]
    BY <2>1, <2>3 DEF FramePushed
  <2>5. ASSUME current \notin zombies PROVE InCall(current, cpu, M)
    <3>1. InCall(current, cpu, mem)
      BY <1>2, <2>5, Modes
    <3>2. /\ M[Shared][10] = mem[Shared][10] /\ M[Shared][9] = mem[Shared][9]
          /\ M[Shared][2] = mem[Shared][2] /\ M[Shared][1] = mem[Shared][1]
          /\ \A i \in 1..6 : M[Shared][2 + i] = mem[Shared][2 + i]
      BY <2>4
    <3>3. \A i \in 1..6 : M[Shared][2 + i] = own[current][CalleeSaved[i]]
      BY <3>1, <3>2 DEF InCall
    <3> QED BY <2>4, <3>1, <3>2, <3>3, Sizes DEF InCall
  <2>6. /\ MemOK(M) /\ IrqReturn(M, PushedAt) = cpu /\ Vector(k) = Number(k)
    BY <2>1, <2>3 DEF FramePushed
  <2>7. \A p \in Procs \ {current} : M[p] = mem[p]
    BY <1>0, <2>4
  <2>8. current \in Callers
    BY <1>2, Modes
  <2> QED BY <1>2, <2>2, <2>3, <2>4, <2>5, <2>6, <2>7, <2>8, Sizes
<1> QED BY <1>1, <1>2

-----------------------------------------------------------------------------
(* Every step keeps the invariant *)

LEMMA IrqReturnsInv ==
    ASSUME OneCaller, Inv, NEW k, IrqReturns(k)
    PROVE  Inv'
<1>1. /\ mem' = Pushed(k) /\ cpu' = cpu
      /\ saved' = saved \/ saved' = [saved EXCEPT ![current] = PushedAt]
      /\ UNCHANGED <<current, rsp0, user_rsp, gs, zombies, own>>
  BY Interrupted DEF IrqReturns
<1>2. /\ current \in Procs
      /\ saved = [p \in Procs |-> saved[p]]
      /\ \A p \in Procs : saved[p] \in {<<p, FrameSize>>, <<Shared, CallSize + FrameSize>>}
  BY DEF Inv
<1>3. PushedAt \in {<<current, FrameSize>>, <<Shared, CallSize + FrameSize>>}
  BY Interrupted
<1>4. /\ saved' = [p \in Procs |-> saved'[p]]
      /\ \A p \in Procs : saved'[p] \in {<<p, FrameSize>>, <<Shared, CallSize + FrameSize>>}
      /\ \A p \in Procs \ {current} : saved'[p] = saved[p]
  BY <1>1, <1>2, <1>3
<1>5. InUserMode' <=> InUserMode
  BY <1>1 DEF InUserMode
<1>6. GsOK'
  BY <1>1, <1>2, <1>4, <1>5, CallersAssumption DEF Inv, GsOK
<1>7. RunningOK'
  <2>1. CASE InUserMode
    BY <1>1, <2>1, Modes DEF RunningOK
  <2>2. CASE ~InUserMode /\ current \notin zombies
    <3>1. InCall(current, cpu, Pushed(k))
      BY <2>2, Interrupted
    <3>2. InCall(current, cpu, mem)'
      BY <1>1, <3>1 DEF InCall
    <3> QED BY <1>1, <2>2, <3>2 DEF RunningOK
  <2>3. CASE current \in zombies
    <3>1. Halted /\ Len(Pushed(k)[Shared]) >= CallSize
      BY <2>3, Modes, Interrupted
    <3>2. Halted'
      BY <1>1, <3>1 DEF Halted
    <3> QED BY <3>2 DEF RunningOK
  <2> QED BY <2>1, <2>2, <2>3
<1>8. ASSUME NEW p \in Procs \ (zombies \cup {current}) PROVE WaitingOK(p)'
  <2>1. Pushed(k)[p] = mem[p] /\ (Pushed(k)[Shared] = mem[Shared] \/ current \in Callers)
    BY Interrupted
  <2>2. \/ saved[p] = <<p, FrameSize>> /\ IrqReturn(mem', saved[p]) = own[p]
        \/ /\ saved[p] = <<Shared, CallSize + FrameSize>>
           /\ InCall(p, IrqReturn(mem', saved[p]), mem')
    BY <1>1, <2>1, WaitersAreSpared
  <2>3. saved'[p] = saved[p]
    BY <1>4
  <2> QED BY <1>1, <2>2, <2>3 DEF WaitingOK, InCall
<1>9. MemOK(mem')
  BY <1>1, Interrupted
<1> QED BY <1>1, <1>4, <1>6, <1>7, <1>8, <1>9 DEF Inv, UserOK

LEMMA IrqSwitchesInv ==
    ASSUME OneCaller, Inv, NEW q \in Procs, IrqSwitches(q)
    PROVE  Inv'
<1>1. /\ q \notin zombies \cup {current}
      /\ mem' = Pushed(32) /\ cpu' = IrqReturn(mem', saved[q])
      /\ saved' = [saved EXCEPT ![current] = PushedAt]
      /\ current' = q /\ rsp0' = q
      /\ UNCHANGED <<user_rsp, gs, zombies, own>>
  BY DEF IrqSwitches
<1>2. /\ current \in Procs
      /\ saved = [p \in Procs |-> saved[p]]
      /\ \A p \in Procs : saved[p] \in {<<p, FrameSize>>, <<Shared, CallSize + FrameSize>>}
  BY DEF Inv
<1>3. PushedAt = IF InUserMode THEN <<current, FrameSize>> ELSE <<Shared, CallSize + FrameSize>>
  BY Interrupted
<1>4. /\ saved' = [p \in Procs |-> saved'[p]]
      /\ \A p \in Procs : saved'[p] \in {<<p, FrameSize>>, <<Shared, CallSize + FrameSize>>}
      /\ \A p \in Procs \ {current} : saved'[p] = saved[p]
      /\ saved'[current] = PushedAt
  BY <1>1, <1>2, <1>3
<1>5. ASSUME NEW p \in Procs \ (zombies \cup {current})
      PROVE  \/ saved[p] = <<p, FrameSize>> /\ IrqReturn(mem', saved[p]) = own[p]
             \/ /\ saved[p] = <<Shared, CallSize + FrameSize>>
                /\ InCall(p, IrqReturn(mem', saved[p]), mem')
  <2>1. Pushed(32)[p] = mem[p] /\ (Pushed(32)[Shared] = mem[Shared] \/ current \in Callers)
    BY Interrupted
  <2> QED BY <1>1, <2>1, WaitersAreSpared
<1>6. \/ saved[q] = <<q, FrameSize>> /\ cpu' = own[q]
      \/ saved[q] = <<Shared, CallSize + FrameSize>> /\ InCall(q, cpu', mem')
  BY <1>1, <1>5
<1>7. RunningOK'
  <2>1. CASE saved[q] = <<q, FrameSize>> /\ cpu' = own[q]
    BY <1>1, <2>1 DEF RunningOK
  <2>2. CASE InCall(q, cpu', mem')
    <3>1. InCall(current, cpu, mem)'
      BY <1>1, <2>2 DEF InCall
    <3> QED BY <1>1, <3>1 DEF RunningOK
  <2> QED BY <1>6, <2>1, <2>2
<1>8. GsOK'
  <2>1. ASSUME NEW p \in Callers \ zombies,
               IF p = q THEN InUserMode' ELSE saved'[p] = <<p, FrameSize>>
        PROVE  gs = "user"
    <3>0. p \in Procs
      BY CallersAssumption
    <3>1. CASE p = q
      <4>1. InUserMode'
        BY <2>1, <3>1
      <4>2. ~InCall(q, cpu', mem')
        BY <4>1, KernelNames DEF InUserMode, InCall
      <4>3. saved[p] = <<p, FrameSize>> /\ p # current
        BY <1>1, <1>6, <3>1, <4>2
      <4> QED BY <4>3 DEF Inv, GsOK
    <3>2. CASE p # q /\ p = current
      <4>1. PushedAt = <<current, FrameSize>>
        BY <1>4, <2>1, <3>2
      <4>2. current # Shared
        BY <1>2, SharedAssumption
      <4>3. InUserMode
        BY <1>3, <4>1, <4>2
      <4> QED BY <3>2, <4>3 DEF Inv, GsOK
    <3>3. CASE p # q /\ p # current
      <4>1. saved[p] = <<p, FrameSize>>
        BY <1>4, <2>1, <3>0, <3>3
      <4> QED BY <3>3, <4>1 DEF Inv, GsOK
    <3> QED BY <3>1, <3>2, <3>3
  <2>2. gs \in {"user", "kernel"}
    BY DEF Inv, GsOK
  <2> QED BY <1>1, <2>1, <2>2 DEF GsOK
<1>9. ASSUME NEW p \in Procs \ (zombies \cup {q}) PROVE WaitingOK(p)'
  <2>1. CASE p = current
    <3>1. IrqReturn(mem', PushedAt) = cpu
      BY <1>1, Interrupted
    <3>2. CASE InUserMode
      <4>1. cpu = own[current]
        BY <3>2, Modes
      <4> QED BY <1>1, <1>3, <1>4, <2>1, <3>1, <3>2, <4>1 DEF WaitingOK
    <3>3. CASE ~InUserMode
      <4>1. InCall(current, cpu, mem')
        BY <1>1, <2>1, <3>3, Interrupted
      <4>2. InCall(p, IrqReturn(mem, saved[p]), mem)'
        BY <1>1, <1>4, <2>1, <3>1, <4>1 DEF InCall
      <4> QED BY <1>3, <1>4, <2>1, <3>3, <4>2 DEF WaitingOK
    <3> QED BY <3>2, <3>3
  <2>2. CASE p # current
    <3>1. saved'[p] = saved[p]
      BY <1>4, <2>2
    <3>2. \/ saved[p] = <<p, FrameSize>> /\ IrqReturn(mem', saved[p]) = own[p]
          \/ /\ saved[p] = <<Shared, CallSize + FrameSize>>
             /\ InCall(p, IrqReturn(mem', saved[p]), mem')
      BY <1>5, <2>2
    <3>3. InCall(p, IrqReturn(mem', saved[p]), mem') => InCall(p, IrqReturn(mem, saved[p]), mem)'
      BY <1>1, <3>1 DEF InCall
    <3> QED BY <1>1, <3>1, <3>2, <3>3 DEF WaitingOK
  <2> QED BY <2>1, <2>2
<1>10. MemOK(mem')
  BY <1>1, Interrupted
<1>11. cpu' = [r \in Regs |-> cpu'[r]]
  BY <1>1 DEF IrqReturn
<1>12. /\ (current \in Procs /\ rsp0 = current /\ zombies \subseteq Callers)'
       /\ (own = [p \in Procs |-> own[p]])'
       /\ \A p \in Procs : UserOK(p, own'[p])
  BY <1>1 DEF Inv
<1> QED BY <1>1, <1>4, <1>7, <1>8, <1>9, <1>10, <1>11, <1>12 DEF Inv

LEMMA UserCodeInv ==
    ASSUME OneCaller, Inv, NEW q \in Procs, UserCode(q)
    PROVE  Inv'
<1>1. PICK n \in {0, 1} :
        /\ current = q /\ InUserMode
        /\ cpu' = UserRegs(q, n) /\ own' = [own EXCEPT ![q] = cpu']
        /\ UNCHANGED <<mem, current, saved, rsp0, user_rsp, gs, zombies>>
  BY DEF UserCode
<1>2. own = [p \in Procs |-> own[p]] /\ \A p \in Procs : UserOK(p, own[p])
  BY DEF Inv
<1>3. UserOK(q, cpu')
  <2>1. /\ cpu' = [r \in Regs |-> cpu'[r]]
        /\ cpu'["cs"] = UserSelector /\ cpu'["ss"] = UserSelector
    BY <1>1, RegsAre DEF UserRegs
  <2>2. cpu'["rip"] = <<q, "rip", n>>
    BY <1>1, RegsAre DEF UserRegs
  <2>3. cpu'["rip"] \in {<<q, "rip", 0>>, <<q, "rip", 1>>}
    BY <2>2
  <2> QED BY <2>1, <2>3 DEF UserOK
<1>4. /\ own' = [p \in Procs |-> own'[p]]
      /\ \A p \in Procs \ {q} : own'[p] = own[p]
      /\ own'[q] = cpu'
  BY <1>1, <1>2
<1>5. \A p \in Procs : UserOK(p, own'[p])
  <2> SUFFICES ASSUME NEW p \in Procs PROVE UserOK(p, own'[p])
    OBVIOUS
  <2> QED BY <1>2, <1>3, <1>4, Zenon
<1>6. RunningOK'
  BY <1>1, <1>4, Modes DEF RunningOK
<1>7. GsOK'
  BY <1>1 DEF Inv, GsOK
<1>8. ASSUME NEW p \in Procs \ (zombies \cup {current}) PROVE WaitingOK(p)'
  <2>1. WaitingOK(p)
    BY DEF Inv
  <2>2. own'[p] = own[p]
    BY <1>1, <1>4
  <2>3. InCall(p, IrqReturn(mem, saved[p]), mem) => InCall(p, IrqReturn(mem, saved[p]), mem)'
    BY <1>1, <2>2 DEF InCall
  <2> QED BY <1>1, <2>1, <2>2, <2>3 DEF WaitingOK
<1>9. cpu' = [r \in Regs |-> cpu'[r]]
  BY <1>3 DEF UserOK
<1> QED BY <1>1, <1>4, <1>5, <1>6, <1>7, <1>8, <1>9 DEF Inv

\* While a caller runs, those that wait are on their own stacks.
LEMMA WaitersOfACaller ==
    ASSUME OneCaller, Inv, current \in Callers,
           NEW p \in Procs \ (zombies \cup {current}), NEW M, M[p] = mem[p]
    PROVE  saved[p] = <<p, FrameSize>> /\ IrqReturn(M, saved[p]) = own[p]
BY WaitersAreSpared

LEMMA SyscallEnterInv ==
    ASSUME OneCaller, Inv, NEW q \in Callers, SyscallEnter(q)
    PROVE  Inv'
<1>1. /\ current = q /\ InUserMode
      /\ UNCHANGED <<current, saved, rsp0, zombies, own>>
  BY DEF SyscallEnter
<1>2. /\ current \notin zombies /\ cpu = own[current]
      /\ current \in Procs /\ UserOK(current, cpu)
  BY <1>1, Modes DEF Inv
<1>3. gs = "user"
  BY <1>1, <1>2 DEF Inv, GsOK
<1>4. /\ gs' = "kernel" /\ user_rsp' = cpu["rsp"]
      /\ mem' = Push(mem, <<Shared, 0>>, CallFrame)
      /\ cpu' = InHandler(<<Shared, 10>>)
  BY <1>3, CallWords DEF SyscallEnter, Swapped
<1>5. PICK w, T, n : w = CallFrame /\ w \in Seq(T) /\ n = Len(w) /\ n = 10
  BY CallWords
<1>6. PICK N : N = Len(mem[Shared])
  OBVIOUS
<1>7. /\ mem = [t \in Stacks |-> mem[t]]
      /\ \A t \in Stacks : mem[t] \in Seq(ToSet(mem[t]))
      /\ \A p \in Procs : Len(mem[p]) = 22
      /\ N <= 32
  BY <1>6, Sizes DEF Inv, MemOK
<1>8. Shared \in Stacks /\ \A p \in Procs : p \in Stacks /\ p # Shared
  BY SharedAssumption DEF Stacks
<1>9. PICK S : mem[Shared] \in Seq(S)
  BY <1>7, <1>8
<1>10. N \in Nat
  BY <1>6, <1>9, LenProperties
<1>11. IsPush(mem', mem, Shared, 0, w, n, N)
  <2>1. PICK d \in Nat : d = 0 /\ d <= N
    BY <1>10
  <2>2. PICK m : m = mem
    OBVIOUS
  <2>3. m = [t \in Stacks |-> m[t]] /\ m[Shared] \in Seq(S) /\ N = Len(m[Shared])
    BY <1>6, <1>7, <1>9, <2>2
  <2>4. PICK s \in Stacks : s = Shared
    BY <1>8
  <2>5. m[s] \in Seq(S) /\ N = Len(m[s])
    BY <2>3, <2>4
  <2>6. IsPush(Push(m, <<s, d>>, w), m, s, d, w, n, N)
    BY <1>5, <2>1, <2>3, <2>5, Pushing
  <2> QED BY <1>4, <1>5, <2>1, <2>2, <2>4, <2>6
<1>12. PICK Q : mem'[Shared] \in Seq(Q)
  BY <1>11 DEF IsPush
<1>13. Len(mem'[Shared]) >= 10 /\ Len(mem'[Shared]) <= 32
  <2>1. Len(mem'[Shared]) = IF N > 0 + n THEN N ELSE 0 + n
    BY <1>11 DEF IsPush
  <2> QED BY <1>5, <1>7, <1>10, <2>1
<1>14. /\ mem' = [t \in Stacks |-> mem'[t]]
       /\ \A t \in Stacks \ {Shared} : mem'[t] = mem[t]
  BY <1>11 DEF IsPush
<1>15. \A i \in 1..10 : mem'[Shared][i] = w[i]
  <2>1. \A i \in 1..n : mem'[Shared][0 + i] = w[i]
    BY <1>11 DEF IsPush
  <2> QED BY <1>5, <2>1
<1>16. MemOK(mem')
  <2>1. mem'[Shared] \in Seq(ToSet(mem'[Shared]))
    BY <1>12, OwnWords
  <2>2. \A t \in Stacks : mem'[t] \in Seq(ToSet(mem'[t]))
    BY <1>7, <1>14, <2>1
  <2>3. \A p \in Procs : Len(mem'[p]) = 22
    BY <1>7, <1>8, <1>14
  <2> QED BY <1>13, <1>14, <2>2, <2>3, Sizes DEF MemOK
<1>17. /\ cpu' = [r \in Regs |-> cpu'[r]]
       /\ cpu'["rip"] = Kernel("handler") /\ cpu'["cs"] = Kernel("kernel")
       /\ cpu'["rsp"] = <<Shared, 10>>
  <2>1. cpu' = [r \in Regs |-> cpu'[r]]
    BY <1>4 DEF InHandler
  <2>2. cpu'["rip"] = Kernel("handler")
    BY <1>4, RegsAre, Kinds DEF InHandler
  <2>3. cpu'["cs"] = Kernel("kernel")
    BY <1>4, RegsAre, Kinds DEF InHandler
  <2>4. cpu'["rsp"] = <<Shared, 10>>
    BY <1>4, RegsAre, Kinds DEF InHandler
  <2> QED BY <2>1, <2>2, <2>3, <2>4
<1>18. InCall(current, cpu, mem)'
  <2>1. /\ w[1] = own[current]["rflags"] /\ w[2] = own[current]["rip"]
        /\ \A i \in 1..6 : w[2 + i] = own[current][CalleeSaved[i]]
        /\ w[9] = Kernel("leave") /\ w[10] = <<"call", current>>
    BY <1>2, <1>5, CallWords
  <2>2. /\ mem'[Shared][1] = w[1] /\ mem'[Shared][2] = w[2]
        /\ mem'[Shared][9] = w[9] /\ mem'[Shared][10] = w[10]
        /\ \A i \in 1..6 : mem'[Shared][2 + i] = w[2 + i]
    BY <1>15
  <2>3. \A i \in 1..6 : mem'[Shared][2 + i] = own'[current'][CalleeSaved[i]]
    BY <1>1, <2>1, <2>2
  <2>4. user_rsp' = own'[current']["rsp"]
    BY <1>1, <1>2, <1>4
  <2>5. current' \in Callers /\ Len(mem'[Shared]) >= CallSize /\ cpu'["rsp"] = <<Shared, CallSize>>
    BY <1>1, <1>13, <1>17, Sizes
  <2> QED BY <1>1, <1>4, <1>17, <2>1, <2>2, <2>3, <2>4, <2>5 DEF InCall
<1>19. RunningOK'
  BY <1>1, <1>2, <1>18 DEF RunningOK
<1>20. GsOK'
  <2>1. ~InUserMode'
    BY <1>17, KernelNames DEF InUserMode
  <2>2. \A p \in Callers : p = current'
    BY <1>1 DEF OneCaller
  <2> QED BY <1>4, <2>1, <2>2 DEF GsOK
<1>21. ASSUME NEW p \in Procs \ (zombies \cup {current}) PROVE WaitingOK(p)'
  <2>1. mem'[p] = mem[p]
    BY <1>8, <1>14
  <2>2. saved[p] = <<p, FrameSize>> /\ IrqReturn(mem', saved[p]) = own[p]
    BY <1>1, <2>1, WaitersOfACaller
  <2> QED BY <1>1, <2>2 DEF WaitingOK
<1> QED BY <1>1, <1>16, <1>17, <1>19, <1>20, <1>21 DEF Inv

LEMMA SysExitInv ==
    ASSUME OneCaller, Inv, SysExit
    PROVE  Inv'
<1>1. /\ cpu["rip"] = Kernel("handler")
      /\ zombies' = zombies \cup {current}
      /\ cpu' = [cpu EXCEPT !["rip"] = Kernel("halted")]
      /\ UNCHANGED <<mem, current, saved, rsp0, user_rsp, gs, own>>
  BY DEF SysExit
<1>2. InCall(current, cpu, mem) /\ current \in Callers
  BY <1>1, Modes
<1>3. cpu = [r \in Regs |-> cpu[r]]
  BY DEF Inv
<1>4. /\ cpu' = [r \in Regs |-> cpu'[r]]
      /\ cpu'["rip"] = Kernel("halted") /\ cpu'["cs"] = cpu["cs"] /\ cpu'["rsp"] = cpu["rsp"]
  BY <1>1, <1>3, RegsAre
<1>5. Halted'
  BY <1>1, <1>2, <1>4 DEF Halted, InCall
<1>6. GsOK'
  <2>1. Callers \ zombies' = {}
    BY <1>1, <1>2 DEF OneCaller
  <2> QED BY <1>1, <2>1 DEF Inv, GsOK
<1>7. ASSUME NEW p \in Procs \ (zombies' \cup {current}) PROVE WaitingOK(p)'
  <2>1. saved[p] = <<p, FrameSize>> /\ IrqReturn(mem, saved[p]) = own[p]
    BY <1>1, <1>2, WaitersOfACaller
  <2> QED BY <1>1, <2>1 DEF WaitingOK
<1>8. RunningOK'
  BY <1>5 DEF RunningOK
<1>9. zombies' \subseteq Callers
  BY <1>1, <1>2 DEF Inv
<1>10. MemOK(mem')
  BY <1>1 DEF Inv
<1> QED BY <1>1, <1>4, <1>6, <1>7, <1>8, <1>9, <1>10 DEF Inv

\* Words of a call's frame as the way back reads them.
LEMMA WordsOfACall ==
    ASSUME MemOK(mem), Len(mem[Shared]) >= 10
    PROVE  \A i \in 0..9 : Word(mem, <<Shared, 10>>, i) = mem[Shared][10 - i]
<1>1. Shared \in Stacks
  BY DEF Stacks
<1>2. PICK N \in Nat : DOMAIN mem[Shared] = 1..N /\ N >= 10
  BY <1>1, LenProperties DEF MemOK
<1>3. ASSUME NEW i \in 0..9 PROVE Word(mem, <<Shared, 10>>, i) = mem[Shared][10 - i]
  <2>1. 10 - i \in 1..N
    BY <1>2
  <2>2. <<Shared, 10>>[1] = Shared /\ <<Shared, 10>>[2] = 10
    OBVIOUS
  <2> QED BY <1>1, <1>2, <2>1, <2>2 DEF Word
<1> QED BY <1>3

\* The way back gives the caller what AfterCall says.
LEMMA CallReturns ==
    ASSUME Inv, InCall(current, cpu, mem)
    PROVE  /\ CallReturn(cpu["rsp"]) = AfterCall(current)
           /\ Word(mem, cpu["rsp"], 1) = Kernel("leave")
           /\ UserOK(current, AfterCall(current))
<1>1. /\ cpu["rsp"] = <<Shared, 10>> /\ Len(mem[Shared]) >= 10
      /\ mem[Shared][10] = <<"call", current>> /\ mem[Shared][9] = Kernel("leave")
      /\ \A i \in 1..6 : mem[Shared][2 + i] = own[current][CalleeSaved[i]]
      /\ mem[Shared][2] = own[current]["rip"] /\ mem[Shared][1] = own[current]["rflags"]
      /\ user_rsp = own[current]["rsp"]
  BY Sizes DEF InCall
<1>2. PICK sp : sp = <<Shared, 10>>
  OBVIOUS
<1>3. \A i \in 0..9 : Word(mem, sp, i) = mem[Shared][10 - i]
  BY <1>1, <1>2, WordsOfACall DEF Inv
<1>4. /\ Word(mem, sp, 0) = <<"call", current>>
      /\ Word(mem, sp, 1) = Kernel("leave")
      /\ Word(mem, sp, 8) = own[current]["rip"]
      /\ Word(mem, sp, 9) = own[current]["rflags"]
  <2>1. /\ Word(mem, sp, 0) = mem[Shared][10 - 0] /\ Word(mem, sp, 1) = mem[Shared][10 - 1]
        /\ Word(mem, sp, 8) = mem[Shared][10 - 8] /\ Word(mem, sp, 9) = mem[Shared][10 - 9]
    BY <1>3
  <2>2. 10 - 0 = 10 /\ 10 - 1 = 9 /\ 10 - 8 = 2 /\ 10 - 9 = 1
    OBVIOUS
  <2> QED BY <1>1, <2>1, <2>2
<1>5. ASSUME NEW i \in 1..6
      PROVE  Word(mem, sp, 2 + PopIndex(CalleeSaved, CalleeSaved[i])) = own[current][CalleeSaved[i]]
  <2>1. 2 + (6 - i) \in 0..9 /\ 10 - (2 + (6 - i)) = 2 + i
    OBVIOUS
  <2>2. Word(mem, sp, 2 + (6 - i)) = mem[Shared][2 + i]
    BY <1>3, <2>1
  <2>3. PopIndex(CalleeSaved, CalleeSaved[i]) = 6 - i
    BY Popped
  <2> QED BY <1>1, <2>2, <2>3
<1>6. Len(CalleeSaved) = 6
  BY CalleeOrder
<1>7. UserOK(current, own[current])
  BY DEF Inv
<1>8. own[current]["cs"] = UserSelector /\ own[current]["ss"] = UserSelector
  BY <1>7 DEF UserOK
<1>9. ASSUME NEW r \in Regs PROVE CallReturn(sp)[r] = AfterCall(current)[r]
  <2>0. <<"call", current>>[2] = current
    OBVIOUS
  <2>1. CASE r = "rax"
    BY <1>4, <2>0, <2>1, Kinds DEF CallReturn, AfterCall
  <2>2. CASE r = "rcx"
    BY <1>4, <1>6, <2>2, Kinds DEF CallReturn, AfterCall
  <2>3. CASE r = "r11"
    BY <1>4, <1>6, <2>3, Kinds DEF CallReturn, AfterCall
  <2>4. CASE r = "rip"
    BY <1>4, <1>6, <2>4, Kinds DEF CallReturn, AfterCall
  <2>5. CASE r = "rflags"
    BY <1>4, <1>6, <2>5, Kinds DEF CallReturn, AfterCall
  <2>6. CASE r = "rsp"
    BY <1>1, <2>6, Kinds DEF CallReturn, AfterCall
  <2>7. CASE r \in {"cs", "ss"}
    BY <1>8, <2>7, Kinds DEF CallReturn, AfterCall
  <2>8. CASE r \in ToSet(CalleeSaved)
    <3>1. PICK i \in 1..6 : r = CalleeSaved[i]
      BY <2>8, RegsAre
    <3>2. r \notin {"rax", "rcx", "r11", "rip", "rsp", "cs", "ss", "rflags"} /\ r \notin CallerSaved
      BY <2>8, Kinds
    <3>3. CallReturn(sp)[r] = Word(mem, sp, 2 + PopIndex(CalleeSaved, r))
      BY <2>8, <3>2 DEF CallReturn
    <3>4. AfterCall(current)[r] = own[current][r]
      BY <3>2 DEF AfterCall
    <3> QED BY <1>5, <3>1, <3>3, <3>4
  <2>9. CASE r \in CallerSaved /\ r \notin {"rax", "rcx", "r11"}
    <3>1. r \notin {"rax", "rcx", "r11", "rip", "rsp", "cs", "ss", "rflags"} /\ r \notin ToSet(CalleeSaved)
      BY <2>9, Kinds
    <3>2. CallReturn(sp)[r] = Kernel("scratch")
      BY <3>1 DEF CallReturn
    <3>3. AfterCall(current)[r] = Kernel("scratch")
      BY <2>9, <3>1 DEF AfterCall
    <3> QED BY <3>2, <3>3
  <2> QED BY <2>1, <2>2, <2>3, <2>4, <2>5, <2>6, <2>7, <2>8, <2>9, Kinds
<1>10. /\ CallReturn(sp) = [r \in Regs |-> CallReturn(sp)[r]]
       /\ AfterCall(current) = [r \in Regs |-> AfterCall(current)[r]]
  BY DEF CallReturn, AfterCall
<1>11. CallReturn(sp) = AfterCall(current)
  BY <1>9, <1>10
<1>12. \A r \in {"cs", "ss", "rip"} : AfterCall(current)[r] = own[current][r]
  <2>1. {"cs", "ss", "rip"} \subseteq Regs
    BY RegsAre
  <2> QED BY <2>1, Kinds DEF AfterCall
<1>13. UserOK(current, AfterCall(current))
  BY <1>7, <1>10, <1>12 DEF UserOK
<1> QED BY <1>1, <1>2, <1>4, <1>11, <1>13

LEMMA SyscallLeaveInv ==
    ASSUME OneCaller, Inv, SyscallLeave
    PROVE  Inv'
<1>1. /\ cpu["rip"] = Kernel("handler")
      /\ own' = [own EXCEPT ![current] = AfterCall(current)]
      /\ UNCHANGED <<mem, current, saved, rsp0, user_rsp, zombies>>
  BY DEF SyscallLeave
<1>2. InCall(current, cpu, mem) /\ current \in Callers /\ current \notin zombies
  BY <1>1, Modes
<1>3. gs = "kernel"
  BY <1>2 DEF InCall
<1>4. cpu' = AfterCall(current) /\ gs' = "user"
  BY <1>2, <1>3, CallReturns DEF SyscallLeave, Swapped
<1>5. own = [p \in Procs |-> own[p]] /\ \A p \in Procs : UserOK(p, own[p])
  BY DEF Inv
<1>6. current \in Procs
  BY DEF Inv
<1>7. /\ own' = [p \in Procs |-> own'[p]]
      /\ own'[current] = cpu'
      /\ \A p \in Procs \ {current} : own'[p] = own[p]
  BY <1>1, <1>4, <1>5, <1>6
<1>8. UserOK(current, cpu')
  BY <1>2, <1>4, CallReturns
<1>9. \A p \in Procs : UserOK(p, own'[p])
  <2> SUFFICES ASSUME NEW p \in Procs PROVE UserOK(p, own'[p])
    OBVIOUS
  <2> QED BY <1>5, <1>7, <1>8, Zenon
<1>10. RunningOK'
  BY <1>1, <1>2, <1>7 DEF RunningOK
<1>11. GsOK'
  BY <1>4 DEF GsOK
<1>12. ASSUME NEW p \in Procs \ (zombies \cup {current}) PROVE WaitingOK(p)'
  <2>1. saved[p] = <<p, FrameSize>> /\ IrqReturn(mem, saved[p]) = own[p]
    BY <1>2, WaitersOfACaller
  <2> QED BY <1>1, <1>7, <2>1 DEF WaitingOK
<1>13. cpu' = [r \in Regs |-> cpu'[r]]
  BY <1>8 DEF UserOK
<1>14. MemOK(mem')
  BY <1>1 DEF Inv
<1> QED BY <1>1, <1>7, <1>9, <1>10, <1>11, <1>12, <1>13, <1>14 DEF Inv

LEMMA NextInv ==
    ASSUME OneCaller, Inv, [Next]_vars
    PROVE  Inv'
<1>1. ASSUME NEW k \in {32, 33}, IrqReturns(k) PROVE Inv'
  BY <1>1, IrqReturnsInv
<1>2. ASSUME NEW p \in Procs, IrqSwitches(p) PROVE Inv'
  BY <1>2, IrqSwitchesInv
<1>3. ASSUME NEW p \in Procs, UserCode(p) PROVE Inv'
  BY <1>3, UserCodeInv
<1>4. ASSUME NEW p \in Callers, SyscallEnter(p) PROVE Inv'
  BY <1>4, SyscallEnterInv
<1>5. CASE SysExit
  BY <1>5, SysExitInv
<1>6. CASE SyscallLeave
  BY <1>6, SyscallLeaveInv
<1>7. CASE UNCHANGED vars
  <2>1. UNCHANGED <<cpu, mem, current, saved, rsp0, user_rsp, gs, zombies, own>>
    BY <1>7 DEF vars
  <2>2. GsOK'
    BY <2>1 DEF Inv, GsOK, InUserMode
  <2>3. RunningOK'
    BY <2>1 DEF Inv, RunningOK, Halted, InCall
  <2>4. ASSUME NEW p \in Procs \ (zombies \cup {current}) PROVE WaitingOK(p)'
    <3>1. WaitingOK(p)
      BY DEF Inv
    <3>2. InCall(p, IrqReturn(mem, saved[p]), mem) => InCall(p, IrqReturn(mem, saved[p]), mem)'
      BY <2>1 DEF InCall
    <3> QED BY <2>1, <3>1, <3>2 DEF WaitingOK
  <2> QED BY <2>1, <2>2, <2>3, <2>4 DEF Inv
<1> QED BY <1>1, <1>2, <1>3, <1>4, <1>5, <1>6, <1>7 DEF Next

-----------------------------------------------------------------------------
(* The initial states *)

LEMMA FreshRegs ==
    ASSUME NEW p
    PROVE  UserOK(p, UserRegs(p, 0))
<1>1. UserRegs(p, 0) = [r \in Regs |-> UserRegs(p, 0)[r]]
  BY DEF UserRegs
<1>2. UserRegs(p, 0)["cs"] = UserSelector /\ UserRegs(p, 0)["ss"] = UserSelector
  BY RegsAre DEF UserRegs
<1>3. UserRegs(p, 0)["rip"] = <<p, "rip", 0>>
  BY RegsAre DEF UserRegs
<1> QED BY <1>1, <1>2, <1>3 DEF UserOK

LEMMA InitInv == Init => Inv
<1> SUFFICES ASSUME Init PROVE Inv
  OBVIOUS
<1>1. /\ current \in Procs /\ rsp0 = current /\ gs = "user" /\ zombies = {}
      /\ cpu = UserRegs(current, 0)
      /\ mem = [s \in Stacks |-> IF s = Shared THEN <<>>
                                 ELSE InterruptFrame(UserRegs(s, 0), 32)]
      /\ saved = [p \in Procs |-> <<p, FrameSize>>]
      /\ own = [p \in Procs |-> UserRegs(p, 0)]
  BY DEF Init
<1>2. Shared \in Stacks /\ \A p \in Procs : p \in Stacks /\ p # Shared
  BY SharedAssumption DEF Stacks
<1>3. /\ mem = [s \in Stacks |-> mem[s]]
      /\ mem[Shared] = << >>
      /\ \A p \in Procs : mem[p] = InterruptFrame(UserRegs(p, 0), 32)
  BY <1>1, <1>2
<1>4. ASSUME NEW p \in Procs
      PROVE  /\ mem[p] \in Seq(ToSet(mem[p])) /\ Len(mem[p]) = 22
             /\ IrqReturn(mem, <<p, 22>>) = own[p]
  <2>1. PICK c : c = UserRegs(p, 0)
    OBVIOUS
  <2>2. PICK k, f : k = 32 /\ f = InterruptFrame(c, k)
    OBVIOUS
  <2>3. mem[p] = f /\ own[p] = c
    BY <1>1, <1>3, <2>1, <2>2
  <2>4. IsFrame(f, c, k)
    BY <2>2, FrameWords
  <2>5. PICK S : f \in Seq(S) /\ Len(f) = 22
    BY <2>4 DEF IsFrame
  <2>6. f \in Seq(ToSet(f)) /\ DOMAIN f = 1..22
    BY <2>5, OwnWords, LenProperties
  <2>7. c = [r \in Regs |-> c[r]]
    BY <2>1 DEF UserRegs
  <2>8. PICK d \in Nat, e \in Nat, L \in Nat : d = 0 /\ e = d + 22 /\ L = 22 /\ e <= L
    OBVIOUS
  <2>9. \A i \in 1..22 : d + i = i
    BY <2>8
  <2>0. PICK m : m = mem
    OBVIOUS
  <2>10. PICK s \in Stacks : s = p
    BY <1>2
  <2>11. m[s] = f
    BY <2>0, <2>3, <2>10, Zenon
  <2>12. DOMAIN m[s] = 1..L /\ \A i \in 1..22 : m[s][d + i] = f[i]
    BY <2>6, <2>8, <2>9, <2>11
  <2>13. Restores(m, s, e, c, k)
    <3>1. e = d + 22 /\ e <= L /\ f = InterruptFrame(c, k)
      BY <2>2, <2>8
    <3> QED BY <2>7, <2>12, <3>1, Returning
  <2>14. IrqReturn(m, <<s, e>>) = c /\ e = 22
    BY <2>8, <2>13 DEF Restores
  <2>15. IrqReturn(mem, <<p, 22>>) = own[p]
    BY <2>0, <2>3, <2>10, <2>14, Zenon
  <2> QED BY <2>3, <2>5, <2>6, <2>15, Zenon
<1>5. mem[Shared] \in Seq(ToSet(mem[Shared])) /\ Len(mem[Shared]) = 0
  BY <1>3, EmptySeq
<1>6. MemOK(mem)
  <2>1. \A s \in Stacks : mem[s] \in Seq(ToSet(mem[s]))
    BY <1>4, <1>5 DEF Stacks
  <2>2. \A p \in Procs : Len(mem[p]) = FrameSize
    BY <1>4, Sizes
  <2>3. Len(mem[Shared]) <= CallSize + FrameSize
    BY <1>5, Sizes
  <2> QED BY <1>3, <2>1, <2>2, <2>3, Zenon DEF MemOK
<1>7. \A p \in Procs : UserOK(p, own[p])
  BY <1>1, FreshRegs
<1>8. cpu = own[current] /\ own = [p \in Procs |-> own[p]] /\ saved = [p \in Procs |-> saved[p]]
  BY <1>1
<1>9. cpu = [r \in Regs |-> cpu[r]]
  BY <1>1 DEF UserRegs
<1>10. \A p \in Procs : saved[p] = <<p, FrameSize>>
  BY <1>1
<1>11. RunningOK /\ GsOK
  BY <1>1, <1>8 DEF RunningOK, GsOK
<1>12. \A p \in Procs : WaitingOK(p)
  BY <1>4, <1>10, Sizes DEF WaitingOK
<1> QED BY <1>1, <1>6, <1>7, <1>8, <1>9, <1>10, <1>11, <1>12 DEF Inv

\* Every process is in user mode, in its call or halted, with its words where
\* Inv says, in every reachable state.
THEOREM FramesInvariant == OneCaller => (Spec => []Inv)
<1> SUFFICES ASSUME OneCaller PROVE Spec => []Inv
  OBVIOUS
<1>1. Inv /\ [Next]_vars => Inv'
  BY NextInv
<1> QED BY <1>1, InitInv, PTL DEF Spec

\* Interrupts, switches and calls give every process back the registers it
\* left (isr.asm, idt.c, syscall_entry.asm), as long as one makes calls.
THEOREM RegistersCorrect == OneCaller => (Spec => []RunsAsItself)
<1>1. ASSUME Inv PROVE RunsAsItself
  <2>1. cpu["rip"] # Wild
    <3>1. CASE InUserMode
      <4>1. UserOK(current, cpu)
        BY <1>1, <3>1, Modes DEF Inv
      <4> QED BY <4>1, KernelNames DEF UserOK, Wild
    <3>2. CASE ~InUserMode /\ current \notin zombies
      <4>1. InCall(current, cpu, mem)
        BY <1>1, <3>2, Modes
      <4> QED BY <4>1, KernelNames DEF InCall
    <3>3. CASE current \in zombies
      <4>1. Halted
        BY <1>1, <3>3, Modes
      <4> QED BY <4>1, KernelNames DEF Halted
    <3> QED BY <3>1, <3>2, <3>3
  <2> QED BY <1>1, <2>1, Modes DEF RunsAsItself
<1> QED BY <1>1, FramesInvariant, PTL

\* A process that waits for the CPU would go on where it was: its frames on
\* the kernel stacks are intact, and so is the frame of its call.
THEOREM WaitersCorrect == OneCaller => (Spec => []WaitingFramesAreIntact)
<1>1. ASSUME Inv PROVE WaitingFramesAreIntact
  <2> SUFFICES ASSUME NEW p \in Procs \ (zombies \cup {current}), NEW back,
                      back = IrqReturn(mem, saved[p]), back # own[p]
               PROVE  /\ back["rip"] = Kernel("handler")
                      /\ Word(mem, back["rsp"], 1) = Kernel("leave")
                      /\ Word(mem, back["rsp"], 0) = <<"call", p>>
                      /\ user_rsp = own[p]["rsp"]
                      /\ gs = "kernel"
    BY DEF WaitingFramesAreIntact
  <2>1. InCall(p, back, mem)
    BY <1>1 DEF Inv, WaitingOK
  <2>2. /\ back["rsp"] = <<Shared, 10>> /\ Len(mem[Shared]) >= 10
        /\ mem[Shared][10] = <<"call", p>> /\ mem[Shared][9] = Kernel("leave")
    BY <2>1, Sizes DEF InCall
  <2>3. \A i \in 0..9 : Word(mem, <<Shared, 10>>, i) = mem[Shared][10 - i]
    BY <1>1, <2>2, WordsOfACall DEF Inv
  <2>4. /\ Word(mem, <<Shared, 10>>, 1) = mem[Shared][10 - 1]
        /\ Word(mem, <<Shared, 10>>, 0) = mem[Shared][10 - 0]
        /\ 10 - 1 = 9 /\ 10 - 0 = 10
    BY <2>3
  <2> QED BY <2>1, <2>2, <2>4 DEF InCall
<1> QED BY <1>1, FramesInvariant, PTL

\* However often processes are preempted, a kernel stack holds one interrupt
\* frame and the shared stack a call and an interrupt frame.
THEOREM StacksCorrect == OneCaller => (Spec => []StacksAreBounded)
<1>1. ASSUME Inv PROVE StacksAreBounded
  <2>1. TypeOK
    <3>1. \A p \in Procs : saved[p][1] \in {p, Shared} /\ saved[p][2] \in Nat
      <4> SUFFICES ASSUME NEW p \in Procs
                   PROVE  saved[p][1] \in {p, Shared} /\ saved[p][2] \in Nat
        OBVIOUS
      <4>1. saved[p] = <<p, 22>> \/ saved[p] = <<Shared, 32>>
        BY <1>1, Sizes DEF Inv
      <4> QED BY <4>1
    <3>2. DOMAIN cpu = Regs /\ DOMAIN mem = Stacks
      BY <1>1 DEF Inv, MemOK
    <3> QED BY <1>1, <3>1, <3>2 DEF Inv, GsOK, TypeOK
  <2>2. Len(CallFrame) = 10
    BY CallWords
  <2>3. \A p \in Procs : Len(mem[p]) = 22 /\ p # Shared
    BY <1>1, Sizes, SharedAssumption DEF Inv, MemOK
  <2>4. Len(mem[Shared]) <= 32
    BY <1>1, Sizes DEF Inv, MemOK
  <2>5. ASSUME NEW s \in Stacks
        PROVE  Len(mem[s]) <= FrameSize + IF s = Shared THEN Len(CallFrame) ELSE 0
    <3>1. CASE s = Shared
      BY <2>2, <2>4, <3>1, Sizes
    <3>2. CASE s # Shared
      <4>1. s \in Procs
        BY <3>2 DEF Stacks
      <4>2. Len(mem[s]) = 22 /\ FrameSize = 22
        BY <2>3, <4>1, Sizes
      <4> QED BY <3>2, <4>2
    <3> QED BY <3>1, <3>2
  <2> QED BY <2>1, <2>5 DEF StacksAreBounded
<1> QED BY <1>1, FramesInvariant, PTL
=============================================================================
