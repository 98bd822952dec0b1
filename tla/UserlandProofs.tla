--------------------------- MODULE UserlandProofs ---------------------------
(***************************************************************************)
(* Theorems about Userland, for every address width, every volume, path,   *)
(* program and message of the shapes that Userland assumes:                *)
(*   AcceptedRangesAreUserMemory, UserMemoryIsAccepted,                    *)
(*   BytesOfAcceptedRanges   validate_user_pointer is exact;               *)
(*   CopiesAreInBounds       every copy stays inside user memory and       *)
(*                           inside the kernel's buffer, by an invariant   *)
(*                           on what the mailboxes hold (MailInv);         *)
(*   ProgramsAreLoadedAndBuffersFreed  what sys_exec loads and frees, by   *)
(*                           an invariant on its positions (ExecInv);      *)
(*   FilesAreShown           cat and ls show what is stored, by an         *)
(*                           invariant on the shell (ShellInv);            *)
(*   PathsAreFollowed        a path names the file that the directories    *)
(*                           say, by an invariant on cat (CatInv).         *)
(* Most of the text is about the loops of mesafs.c, elf.c and syscall.c:   *)
(* each has a lemma that its function exists, one that gives its equation  *)
(* and one for what it computes, by induction on the rounds.               *)
(***************************************************************************)
EXTENDS Userland, SequenceTheorems, WellFoundedInduction, TLAPS

-----------------------------------------------------------------------------
(***************************************************************************)
(* Loops.  What a loop of the kernel does is a recursive function of the   *)
(* number of rounds, in TLA+ a CHOOSE among the functions that satisfy its *)
(* equation.  That there is one, and what it computes, is an induction on  *)
(* the rounds; that needs the least element of a set of numbers.           *)
(***************************************************************************)
LEMMA LeastNumber ==
    ASSUME NEW T, T \subseteq Nat, T # {}
    PROVE  \E n \in T : \A m \in T : n <= m
<1> DEFINE R == {ss \in Nat \X Nat : ss[1] < ss[2]}
<1>1. IsWellFoundedOn(R, Nat)
  BY NatLessThanWellFounded DEF OpToRel
<1>2. PICK n \in T : \A m \in T : <<m, n>> \notin R
  <2> HIDE DEF R
  <2> QED
    BY <1>1, WFMin
<1>3. ASSUME NEW m \in T PROVE n <= m
  <2>1. <<m, n>> \in Nat \X Nat /\ ~ (<<m, n>>[1] < <<m, n>>[2])
    BY <1>2
  <2> QED
    BY <2>1
<1> QED
  BY <1>3

\* Induction on the rounds of a loop.
LEMMA Rounds ==
    ASSUME NEW n \in Nat, NEW P, 0 \in P, \A i \in 1..n : i - 1 \in P => i \in P
    PROVE  \A i \in 0..n : i \in P
<1> DEFINE T == {i \in 0..n : i \notin P}
<1> SUFFICES ASSUME T # {} PROVE FALSE
  OBVIOUS
<1>1. PICK i \in T : \A j \in T : i <= j
  <2>1. T \subseteq Nat
    OBVIOUS
  <2> HIDE DEF T
  <2> QED
    BY <2>1, LeastNumber
<1>2. i \in 1..n /\ i - 1 \in 0..n /\ i - 1 \notin T
  BY <1>1
<1> QED
  BY <1>1, <1>2

\* f[i] is the state after i rounds; round i is the function g[i].
IsLoop(f, n, S, x, g) ==
    f \in [0..n -> S] /\ f[0] = x /\ \A i \in 1..n : f[i] = g[i][f[i - 1]]

\* The states of a loop whose rounds are given as functions on a set of states.
LEMMA LoopExists ==
    ASSUME NEW n \in Nat, NEW S, NEW x \in S, NEW g \in [1..n -> [S -> S]]
    PROVE  \E f : IsLoop(f, n, S, x, g)
<1> DEFINE P == {m \in 0..n : \E f : IsLoop(f, m, S, x, g)}
<1>1. 0 \in P
  <2>1. IsLoop([i \in 0..0 |-> x], 0, S, x, g)
    BY DEF IsLoop
  <2> QED
    BY <2>1
<1>2. ASSUME NEW m \in 1..n, m - 1 \in P PROVE m \in P
  <2>1. PICK f : IsLoop(f, m - 1, S, x, g)
    BY <1>2
  <2>2. f[m - 1] \in S /\ g[m] \in [S -> S]
    BY <2>1 DEF IsLoop
  <2>3. PICK h : h = [i \in 0..m |-> IF i = m THEN g[m][f[m - 1]] ELSE f[i]]
    OBVIOUS
  <2>4. h \in [0..m -> S] /\ h[0] = x
    BY <2>1, <2>2, <2>3 DEF IsLoop
  <2>5. ASSUME NEW i \in 1..m PROVE h[i] = g[i][h[i - 1]]
    <3>1. CASE i = m
      BY <2>3, <3>1
    <3>2. CASE i # m
      BY <2>1, <2>3, <3>2 DEF IsLoop
    <3> QED
      BY <3>1, <3>2
  <2>6. IsLoop(h, m, S, x, g)
    BY <2>4, <2>5 DEF IsLoop
  <2> QED
    BY <2>6
<1>3. n \in P
  <2> HIDE DEF P
  <2>1. \A i \in 1..n : i - 1 \in P => i \in P
    BY <1>2
  <2>2. \A i \in 0..n : i \in P
    BY <1>1, <2>1, Rounds
  <2> QED
    BY <2>2
<1> QED
  BY <1>3

-----------------------------------------------------------------------------
(***************************************************************************)
(* validate_user_pointer is exact: for every address width and every       *)
(* position of the kernel it accepts a non-empty range if and only if all  *)
(* its bytes are user memory.                                              *)
(***************************************************************************)
\* Without a wrap-around the sum modulo 2^64 is the sum; with one it is the
\* sum less 2^64, which is smaller than the start.
LEMMA SumWraps ==
    ASSUME NEW ptr \in Addr, NEW len \in Addr
    PROVE  (ptr + len) % AddrSpace =
             IF ptr + len < AddrSpace THEN ptr + len ELSE ptr + len - AddrSpace
<1>1. CASE ptr + len < AddrSpace
  BY <1>1, AddressAssumption DEF Addr
<1>2. CASE ptr + len >= AddrSpace
  <2>1. ptr + len - AddrSpace \in 0..(AddrSpace - 1)
    BY <1>2, AddressAssumption DEF Addr
  <2>2. (ptr + len) = (ptr + len - AddrSpace) + AddrSpace
    BY AddressAssumption DEF Addr
  <2> QED BY <1>2, <2>1, <2>2, AddressAssumption DEF Addr
<1> QED BY <1>1, <1>2, AddressAssumption DEF Addr

\* No range that validate_user_pointer accepts reaches the kernel's half of
\* the address space or wraps around its end (uaccess.c:24).
THEOREM AcceptedRangesAreUserMemory ==
    ASSUME NEW ptr \in Addr, NEW len \in Addr, validate_user_pointer(ptr, len)
    PROVE  InUserSpace(ptr, len)
<1> SUFFICES ASSUME NEW i \in 0..(len - 1) PROVE ptr + i \in 1..(KernelBase - 1)
  BY DEF InUserSpace
<1>1. len > 0 /\ ptr > 0
  BY DEF validate_user_pointer, Addr
<1>2. PICK end : end = (ptr + len) % AddrSpace
  OBVIOUS
<1>3. end >= ptr /\ end <= KernelBase
  BY <1>1, <1>2 DEF validate_user_pointer
<1>4. end = ptr + len
  BY <1>2, <1>3, SumWraps, AddressAssumption DEF Addr
<1> QED BY <1>1, <1>3, <1>4, AddressAssumption DEF Addr

\* And it refuses nothing else: a range of user memory is accepted, up to the
\* byte before the kernel.
THEOREM UserMemoryIsAccepted ==
    ASSUME NEW ptr \in Addr, NEW len \in Addr, len > 0, InUserSpace(ptr, len)
    PROVE  validate_user_pointer(ptr, len)
<1>1. 0 \in 0..(len - 1) /\ len - 1 \in 0..(len - 1)
  BY DEF Addr
<1>2. ptr + 0 \in 1..(KernelBase - 1) /\ ptr + (len - 1) \in 1..(KernelBase - 1)
  BY <1>1 DEF InUserSpace
<1>3. ptr > 0 /\ ptr < KernelBase /\ ptr + len <= KernelBase
  BY <1>2, AddressAssumption DEF Addr
<1>4. (ptr + len) % AddrSpace = ptr + len
  BY <1>3, SumWraps, AddressAssumption DEF Addr
<1> QED BY <1>3, <1>4, AddressAssumption DEF validate_user_pointer, Addr

\* Moving both ends together is all a loop over single bytes can do: a range
\* that was accepted may be copied byte by byte with one-byte checks, as
\* sys_open and sys_exec do with a path (syscall.c:565).
THEOREM BytesOfAcceptedRanges ==
    ASSUME NEW ptr \in Addr, NEW len \in Addr, validate_user_pointer(ptr, len),
           NEW i \in 0..(len - 1)
    PROVE  validate_user_pointer(ptr + i, 1)
<1>1. ptr + i \in 1..(KernelBase - 1)
  BY AcceptedRangesAreUserMemory DEF InUserSpace
<1>2. ptr + i \in Addr /\ 1 \in Addr
  BY <1>1, AddressAssumption DEF Addr
<1>3. InUserSpace(ptr + i, 1)
  BY <1>1, AddressAssumption DEF InUserSpace, Addr
<1> QED BY <1>2, <1>3, UserMemoryIsAccepted

-----------------------------------------------------------------------------
(* Directory entries *)

\* The list after i entries of the directory.
IsUsedLoop(f, entries) ==
    f = [i \in 0..Len(entries) |-> IF i = 0 THEN <<>> ELSE AddUsed(f[i - 1], entries[i])]

LEMMA UsedLoopExists ==
    ASSUME NEW D, NEW entries \in Seq(D)
    PROVE  \E f : IsUsedLoop(f, entries)
<1>1. PICK n \in Nat : n = Len(entries)
  BY LenProperties
<1>2. PICK g : g = [i \in 1..n |-> [u \in Seq(D) |-> AddUsed(u, entries[i])]]
  OBVIOUS
<1>3. ASSUME NEW i \in 1..n, NEW u \in Seq(D) PROVE AddUsed(u, entries[i]) \in Seq(D)
  <2>1. entries[i] \in D
    BY <1>1, LenProperties
  <2> QED
    BY <2>1, AppendProperties DEF AddUsed
<1>4. g \in [1..n -> [Seq(D) -> Seq(D)]] /\ <<>> \in Seq(D)
  BY <1>2, <1>3
<1>5. PICK f : IsLoop(f, n, Seq(D), <<>>, g)
  BY <1>4, LoopExists
<1>6. f \in [0..n -> Seq(D)] /\ f[0] = <<>>
  BY <1>5 DEF IsLoop
<1>7. ASSUME NEW i \in 1..n PROVE f[i] = AddUsed(f[i - 1], entries[i])
  <2>1. f[i - 1] \in Seq(D) /\ f[i] = g[i][f[i - 1]]
    BY <1>5, <1>6 DEF IsLoop
  <2> QED
    BY <1>2, <2>1
<1>8. f = [i \in 0..n |-> IF i = 0 THEN <<>> ELSE AddUsed(f[i - 1], entries[i])]
  <2>1. \A i \in 0..n : f[i] = IF i = 0 THEN <<>> ELSE AddUsed(f[i - 1], entries[i])
    BY <1>6, <1>7
  <2> QED
    BY <1>6, <2>1
<1> QED
  BY <1>1, <1>8 DEF IsUsedLoop

LEMMA UsedEntriesLoop ==
    ASSUME NEW v, NEW n, NEW D, EntriesOf(v, n) \in Seq(D), NEW m \in Nat, m = Len(EntriesOf(v, n))
    PROVE  \E f : /\ f[0] = <<>> /\ UsedEntries(v, n) = f[m]
                  /\ \A i \in 1..m : f[i] = AddUsed(f[i - 1], EntriesOf(v, n)[i])
<1>1. \E f : IsUsedLoop(f, EntriesOf(v, n))
  BY UsedLoopExists
<1>2. PICK f : f = CHOOSE ff : IsUsedLoop(ff, EntriesOf(v, n))
  OBVIOUS
<1>3. IsUsedLoop(f, EntriesOf(v, n))
  BY <1>1, <1>2
<1>4. UsedEntries(v, n) = f[m]
  BY <1>2 DEF UsedEntries, IsUsedLoop
<1>5. f = [i \in 0..m |-> IF i = 0 THEN <<>> ELSE AddUsed(f[i - 1], EntriesOf(v, n)[i])]
  BY <1>3 DEF IsUsedLoop
<1>6. f[0] = <<>> /\ \A i \in 1..m : f[i] = AddUsed(f[i - 1], EntriesOf(v, n)[i])
  BY <1>5
<1> QED
  BY <1>4, <1>6

\* The used entries are entries, each with a number and a name.
LEMMA UsedEntriesType ==
    ASSUME NEW v, NEW n, NEW D, EntriesOf(v, n) \in Seq(D)
    PROVE  /\ UsedEntries(v, n) \in Seq({e \in D : IsUsed(e)})
           /\ Len(UsedEntries(v, n)) <= Len(EntriesOf(v, n))
<1>1. PICK entries : entries = EntriesOf(v, n)
  OBVIOUS
<1>2. PICK m \in Nat : m = Len(entries)
  BY <1>1, LenProperties
<1>3. PICK f : /\ f[0] = <<>> /\ UsedEntries(v, n) = f[m]
               /\ \A i \in 1..m : f[i] = AddUsed(f[i - 1], entries[i])
  BY <1>1, <1>2, UsedEntriesLoop
<1> DEFINE U == {e \in D : IsUsed(e)}
           P == {i \in 0..m : f[i] \in Seq(U) /\ Len(f[i]) <= i}
<1>4. 0 \in P
  <2> HIDE DEF U
  <2>1. <<>> \in Seq(U) /\ Len(<<>>) = 0
    OBVIOUS
  <2>2. f[0] \in Seq(U) /\ Len(f[0]) = 0 /\ 0 \in 0..m
    BY <1>3, <2>1
  <2> QED
    BY <2>2
<1>5. ASSUME NEW i \in 1..m, i - 1 \in P PROVE i \in P
  <2>1. f[i] = AddUsed(f[i - 1], entries[i])
    BY <1>3
  <2>2. entries[i] \in D /\ f[i - 1] \in Seq(U) /\ Len(f[i - 1]) <= i - 1
    BY <1>1, <1>2, <1>5, LenProperties
  <2>3. CASE IsUsed(entries[i])
    <3>1. entries[i] \in U
      BY <2>2, <2>3
    <3> HIDE DEF U
    <3>2. f[i] \in Seq(U) /\ Len(f[i]) = Len(f[i - 1]) + 1
      BY <2>1, <2>2, <2>3, <3>1, AppendProperties DEF AddUsed
    <3> QED
      BY <2>2, <3>2, LenProperties
  <2>4. CASE ~IsUsed(entries[i])
    <3> HIDE DEF U
    <3> QED
      BY <2>1, <2>2, <2>4, LenProperties DEF AddUsed
  <2> QED
    BY <2>3, <2>4
<1>6. \A i \in 0..m : i \in P
  <2> HIDE DEF P
  <2> QED
    BY <1>4, <1>5, Rounds
<1>7. f[m] \in Seq(U) /\ Len(f[m]) <= m
  BY <1>6
<1> QED
  BY <1>1, <1>2, <1>3, <1>7

-----------------------------------------------------------------------------
(* Inodes and paths *)

LEMMA FsSizes ==
    /\ BlockSize \in Nat /\ BlockSize > 0 /\ SlotsPerBlock \in Nat /\ SlotsPerBlock > 0
    /\ SlotsInside \in Nat /\ NDirect \in Nat /\ NDirect > 0
    /\ EntriesMax \in Nat
BY MesaFSAssumption, UserlandAssumption

LEMMA VolumeFields ==
    ASSUME NEW v \in Volumes
    PROVE  /\ v.mounted /\ v.total_blocks \in Nat /\ v.total_inodes \in Nat
           /\ v.root \in Nat /\ v.root # 0
           /\ v.blocks \in [0..(v.total_blocks - 1) -> Blocks] /\ v.beyond \in Inodes
BY VolumesAssumption

LEMMA InodeType ==
    ASSUME NEW v \in Volumes, NEW n \in Nat, InodeExists(v, n)
    PROVE  mesafs_read_inode(v, n) \in Inodes
<1>1. PICK q \in Nat, slot \in 0..(SlotsPerBlock - 1) : q = n \div SlotsPerBlock /\ slot = n % SlotsPerBlock
  BY FsSizes
<1>2. 1 + q \in 0..(v.total_blocks - 1)
  BY <1>1, VolumeFields DEF InodeExists, InRange
<1>3. v.blocks[1 + q] \in Blocks
  BY <1>2, VolumeFields
<1>4. slot < SlotsInside => v.blocks[1 + q].inodes[slot + 1] \in Inodes
  <2>1. v.blocks[1 + q].inodes \in [1..SlotsInside -> Inodes]
    BY <1>3 DEF Blocks
  <2> QED
    BY <1>1, <2>1, FsSizes
<1> QED
  BY <1>1, <1>4, VolumeFields DEF mesafs_read_inode, read_block

\* A directory has a block of entries.
LEMMA EntriesAre ==
    ASSUME NEW v \in Volumes, NEW n \in Nat, IsDir(v, n)
    PROVE  /\ EntriesOf(v, n) \in [1..EntriesMax -> DirEntries]
           /\ \E b \in DOMAIN v.blocks : EntriesOf(v, n) = v.blocks[b].entries
<1>1. mesafs_read_inode(v, n) \in Inodes
  BY InodeType DEF IsDir
<1>2. PICK b : b = mesafs_read_inode(v, n).direct[1]
  OBVIOUS
<1>3. b \in 0..(v.total_blocks - 1)
  <2>1. b \in Nat
    BY <1>1, <1>2, FsSizes DEF Inodes
  <2> QED
    BY <1>2, <2>1, VolumeFields DEF IsDir, InRange
<1>4. v.blocks[b].entries \in [1..EntriesMax -> DirEntries]
  BY <1>3, VolumeFields DEF Blocks
<1>5. b \in DOMAIN v.blocks
  BY <1>3, VolumeFields
<1> QED
  BY <1>2, <1>4, <1>5 DEF EntriesOf, read_block

LEMMA EntriesType ==
    ASSUME NEW v \in Volumes, NEW n \in Nat, IsDir(v, n)
    PROVE  EntriesOf(v, n) \in Seq(DirEntries) /\ Len(EntriesOf(v, n)) = EntriesMax
<1>1. EntriesOf(v, n) \in [1..EntriesMax -> DirEntries]
  BY EntriesAre
<1> QED
  BY <1>1, FsSizes

LEMMA FindType ==
    ASSUME NEW v \in Volumes, NEW n \in Nat, NEW name
    PROVE  find_in_dir(v, n, name) \in Nat
<1> DEFINE named == {i \in DOMAIN EntriesOf(v, n) :
                        IsUsed(EntriesOf(v, n)[i]) /\ EntriesOf(v, n)[i].name = name}
           first == CHOOSE i \in named : \A j \in named : i <= j
<1>1. CASE IsDir(v, n) /\ named # {}
  <2>1. EntriesOf(v, n) \in Seq(DirEntries) /\ DOMAIN EntriesOf(v, n) \subseteq Nat
    BY <1>1, EntriesType, LenProperties
  <2>2. named \subseteq Nat /\ named \subseteq DOMAIN EntriesOf(v, n)
    BY <2>1
  <2>3. first \in named
    <3> HIDE DEF named
    <3> QED
      BY <1>1, <2>2, LeastNumber
  <2>4. EntriesOf(v, n)[first] \in DirEntries
    BY <2>1, <2>2, <2>3, LenProperties
  <2>5. find_in_dir(v, n, name) = EntriesOf(v, n)[first].inode
    BY <1>1 DEF find_in_dir
  <2> QED
    BY <2>4, <2>5 DEF DirEntries
<1>2. CASE ~(IsDir(v, n) /\ named # {})
  BY <1>2 DEF find_in_dir
<1> QED
  BY <1>1, <1>2

\* The search for the end of a component ends.
LEMMA ComponentEndFound ==
    ASSUME NEW p, NEW s \in Nat, Len(p) \in Nat, s <= Len(p)
    PROVE  /\ ComponentEnd(p, s) \in s..(Len(p) + 1)
           /\ ComponentEnd(p, s) <= Len(p) => p[ComponentEnd(p, s)] = Slash
           /\ \A j \in s..(ComponentEnd(p, s) - 1) : p[j] # Slash
<1> DEFINE T == {e \in s..(Len(p) + 1) : e <= Len(p) => p[e] = Slash}
<1>1. Len(p) + 1 \in T /\ T \subseteq Nat
  OBVIOUS
<1>2. PICK e \in T : \A m \in T : e <= m
  <2> HIDE DEF T
  <2> QED
    BY <1>1, LeastNumber
<1>3. e \in s..(Len(p) + 1) /\ (e <= Len(p) => p[e] = Slash)
  BY <1>2
<1>4. ASSUME NEW j \in s..(e - 1) PROVE p[j] # Slash
  <2>1. j \notin T /\ j \in s..(Len(p) + 1)
    BY <1>2, <1>3
  <2> QED
    BY <2>1
<1>5. \E x \in s..(Len(p) + 1) : /\ x <= Len(p) => p[x] = Slash
                                /\ \A j \in s..(x - 1) : p[j] # Slash
  BY <1>3, <1>4
<1> QED
  BY <1>5 DEF ComponentEnd

WalkStates == [s : Nat, n : Nat]

LEMMA WalkRoundType ==
    ASSUME NEW v \in Volumes, NEW p, Len(p) \in Nat, NEW w \in WalkStates
    PROVE  WalkRound(v, p, w) \in WalkStates
<1>1. w.s \in Nat /\ w.n \in Nat
  BY DEF WalkStates
<1>2. CASE w.s > Len(p)
  BY <1>2 DEF WalkRound
<1>3. CASE w.s <= Len(p)
  <2>1. PICK e : e = ComponentEnd(p, w.s)
    OBVIOUS
  <2>2. e \in Nat
    BY <1>1, <1>3, <2>1, ComponentEndFound
  <2>3. PICK next \in Nat : next = find_in_dir(v, w.n, Component(p, w.s, e))
    BY <1>1, FindType
  <2>4. WalkRound(v, p, w) = [s |-> IF next = 0 THEN Len(p) + 1 ELSE e + 1, n |-> next]
    BY <1>1, <1>3, <2>1, <2>3 DEF WalkRound
  <2> QED
    BY <2>2, <2>3, <2>4 DEF WalkStates
<1> QED
  BY <1>1, <1>2, <1>3

IsWalk(f, v, p) ==
    f = [i \in 0..Len(p) |-> IF i = 0 THEN [s |-> 1, n |-> v.root] ELSE WalkRound(v, p, f[i - 1])]

LEMMA WalkExists ==
    ASSUME NEW v \in Volumes, NEW p, Len(p) \in Nat
    PROVE  \E f : IsWalk(f, v, p)
<1>1. PICK n \in Nat : n = Len(p)
  OBVIOUS
<1>2. PICK g : g = [i \in 1..n |-> [w \in WalkStates |-> WalkRound(v, p, w)]]
  OBVIOUS
<1>3. PICK x : x = [s |-> 1, n |-> v.root]
  OBVIOUS
<1>4. g \in [1..n -> [WalkStates -> WalkStates]] /\ x \in WalkStates
  <2>1. \A w \in WalkStates : WalkRound(v, p, w) \in WalkStates
    BY WalkRoundType
  <2>2. x \in WalkStates
    BY <1>3, VolumeFields DEF WalkStates
  <2> QED
    BY <1>2, <2>1, <2>2
<1>5. PICK f : IsLoop(f, n, WalkStates, x, g)
  BY <1>4, LoopExists
<1>6. f \in [0..n -> WalkStates] /\ f[0] = x
  BY <1>5 DEF IsLoop
<1>7. ASSUME NEW i \in 1..n PROVE f[i] = WalkRound(v, p, f[i - 1])
  <2>1. f[i - 1] \in WalkStates /\ f[i] = g[i][f[i - 1]]
    BY <1>5, <1>6 DEF IsLoop
  <2> QED
    BY <1>2, <2>1
<1>8. f = [i \in 0..n |-> IF i = 0 THEN x ELSE WalkRound(v, p, f[i - 1])]
  <2>1. \A i \in 0..n : f[i] = IF i = 0 THEN x ELSE WalkRound(v, p, f[i - 1])
    BY <1>6, <1>7
  <2> QED
    BY <1>6, <2>1
<1> QED
  BY <1>1, <1>3, <1>8 DEF IsWalk

\* The path without its leading slash.
Relative(path) == IF path # <<>> /\ path[1] = Slash THEN Tail(path) ELSE path

\* The rounds of resolve_path.
LEMMA ResolveLoop ==
    ASSUME NEW v \in Volumes, NEW path \in Seq(Bytes), NEW p, p = Relative(path)
    PROVE  /\ p \in Seq(Bytes)
           /\ \E f : /\ f[0] = [s |-> 1, n |-> v.root] /\ resolve_path(v, path) = f[Len(p)].n
                     /\ \A i \in 1..Len(p) : f[i] = WalkRound(v, p, f[i - 1])
                     /\ \A i \in 0..Len(p) : f[i] \in WalkStates
<1>1. p \in Seq(Bytes) /\ Len(p) \in Nat
  <2>1. path # <<>> => Tail(path) \in Seq(Bytes)
    BY HeadTailProperties
  <2> QED
    BY <2>1, LenProperties DEF Relative
<1>2. PICK n \in Nat : n = Len(p)
  BY <1>1
<1>3. PICK f : f = CHOOSE ff : IsWalk(ff, v, p)
  OBVIOUS
<1>4. IsWalk(f, v, p)
  BY <1>1, <1>3, WalkExists
<1>5. resolve_path(v, path) = f[n].n
  BY <1>2, <1>3 DEF resolve_path, IsWalk, Relative
<1>6. f = [i \in 0..n |-> IF i = 0 THEN [s |-> 1, n |-> v.root] ELSE WalkRound(v, p, f[i - 1])]
  BY <1>2, <1>4 DEF IsWalk
<1>7. f[0] = [s |-> 1, n |-> v.root] /\ \A i \in 1..n : f[i] = WalkRound(v, p, f[i - 1])
  BY <1>6
<1> DEFINE P == {i \in 0..n : f[i] \in WalkStates}
<1>8. 0 \in P
  BY <1>7, VolumeFields DEF WalkStates
<1>9. ASSUME NEW i \in 1..n, i - 1 \in P PROVE i \in P
  <2>1. f[i - 1] \in WalkStates /\ f[i] = WalkRound(v, p, f[i - 1])
    BY <1>7, <1>9
  <2>2. f[i] \in WalkStates
    BY <1>1, <2>1, WalkRoundType
  <2> QED
    BY <2>2
<1>10. \A i \in 0..n : i \in P
  <2> HIDE DEF P
  <2> QED
    BY <1>8, <1>9, Rounds
<1>11. \A i \in 0..n : f[i] \in WalkStates
  BY <1>10
<1> QED
  BY <1>1, <1>2, <1>5, <1>7, <1>11

\* What resolve_path returns is a number, and the root for "/".
LEMMA ResolveType ==
    ASSUME NEW v \in Volumes, NEW path \in Seq(Bytes)
    PROVE  resolve_path(v, path) \in Nat
<1>1. PICK p : p = Relative(path)
  OBVIOUS
<1>2. /\ p \in Seq(Bytes)
      /\ \E f : /\ f[0] = [s |-> 1, n |-> v.root] /\ resolve_path(v, path) = f[Len(p)].n
                /\ \A i \in 1..Len(p) : f[i] = WalkRound(v, p, f[i - 1])
                /\ \A i \in 0..Len(p) : f[i] \in WalkStates
  BY <1>1, ResolveLoop, SMTT(30)
<1>3. PICK n \in Nat : n = Len(p)
  BY <1>2, LenProperties
<1>4. PICK f : resolve_path(v, path) = f[n].n /\ f[n] \in WalkStates
  BY <1>2, <1>3
<1> QED
  BY <1>4 DEF WalkStates

LEMMA ResolveRoot ==
    ASSUME NEW v \in Volumes, NEW path \in {<<>>, <<Slash>>}
    PROVE  resolve_path(v, path) = v.root
<1>1. PICK p : p = IF path # <<>> /\ path[1] = Slash THEN Tail(path) ELSE path
  OBVIOUS
<1>2. Len(p) = 0
  BY <1>1
<1>3. PICK f : f = CHOOSE ff : IsWalk(ff, v, p)
  OBVIOUS
<1>4. IsWalk(f, v, p)
  BY <1>2, <1>3, WalkExists
<1>5. f[0] = [s |-> 1, n |-> v.root]
  BY <1>2, <1>4 DEF IsWalk
<1>6. resolve_path(v, path) = f[Len(p)].n
  BY <1>1, <1>3 DEF resolve_path, IsWalk
<1> QED
  BY <1>2, <1>5, <1>6

-----------------------------------------------------------------------------
(* Reading a file *)

Results == {Fail} \cup {Got(b) : b \in Seq(Bytes)}

LEMMA ResultFields ==
    ASSUME NEW r \in Results
    PROVE  /\ r.bytes \in Seq(Bytes) /\ r.ret \in Int /\ r.ret <= Len(r.bytes)
           /\ r.ret = -1 \/ r.ret = Len(r.bytes)
<1>1. CASE r = Fail
  <2>1. <<>> \in Seq(Bytes) /\ Len(<<>>) = 0
    OBVIOUS
  <2> QED
    BY <1>1, <2>1 DEF Fail
<1>2. CASE r # Fail
  <2>1. PICK b \in Seq(Bytes) : r = Got(b)
    BY <1>2 DEF Results
  <2> QED
    BY <2>1, LenProperties DEF Got
<1> QED
  BY <1>1, <1>2

\* The states of the loop: what it has read and what it still wants.
ReadStates(count) ==
    {r \in [got : Results, left : Nat, more : BOOLEAN] : Len(r.got.bytes) + r.left <= count}

LEMMA BlockOffsetType ==
    ASSUME NEW k, NEW offset \in Nat
    PROVE  BlockOffset(k, offset) \in 0..(BlockSize - 1)
BY FsSizes DEF BlockOffset

\* The bytes of a block of the volume.
LEMMA BlockBytes ==
    ASSUME NEW v \in Volumes, NEW b \in Nat, InRange(v, b),
           NEW bo \in 0..(BlockSize - 1), NEW c \in 0..(BlockSize - bo)
    PROVE  /\ SubSeq(read_block(v, b).bytes, bo + 1, bo + c) \in Seq(Bytes)
           /\ Len(SubSeq(read_block(v, b).bytes, bo + 1, bo + c)) = c
           /\ \A j \in 1..c : SubSeq(read_block(v, b).bytes, bo + 1, bo + c)[j]
                                 = read_block(v, b).bytes[bo + j]
<1>1. PICK s : s = read_block(v, b).bytes
  OBVIOUS
<1>2. b \in 0..(v.total_blocks - 1)
  BY VolumeFields DEF InRange
<1>3. s \in [1..BlockSize -> Bytes]
  BY <1>1, <1>2, VolumeFields DEF read_block, Blocks
<1>4. \A i \in (bo + 1)..(bo + c) : s[i] \in Bytes
  BY <1>3, FsSizes
<1>5. bo + 1 \in Int /\ bo + c \in Int /\ bo \in Int /\ c \in Nat
  OBVIOUS
<1>6. /\ SubSeq(s, bo + 1, bo + c) \in Seq(Bytes)
      /\ Len(SubSeq(s, bo + 1, bo + c)) = IF bo + 1 <= bo + c THEN (bo + c) - (bo + 1) + 1 ELSE 0
      /\ \A i \in 1..((bo + c) - (bo + 1) + 1) : SubSeq(s, bo + 1, bo + c)[i] = s[(bo + 1) + i - 1]
  BY <1>4, <1>5, SubSeqProperties
<1>7. Len(SubSeq(s, bo + 1, bo + c)) = c
  BY <1>5, <1>6
<1>8. ASSUME NEW j \in 1..c PROVE SubSeq(s, bo + 1, bo + c)[j] = s[bo + j]
  <2>1. j \in 1..((bo + c) - (bo + 1) + 1) /\ (bo + 1) + j - 1 = bo + j
    BY <1>5
  <2> QED
    BY <1>6, <2>1
<1> QED
  BY <1>1, <1>6, <1>7, <1>8

LEMMA ReadRoundType ==
    ASSUME NEW v \in Volumes, NEW inode \in Inodes, NEW count \in Nat, NEW offset \in Nat,
           NEW r \in ReadStates(count), NEW k \in Nat
    PROVE  ReadRound(v, inode, offset, r, k) \in ReadStates(count)
<1>1. PICK b : b = inode.direct[k + 1]
  OBVIOUS
<1>2. r \in [got : Results, left : Nat, more : BOOLEAN] /\ Len(r.got.bytes) + r.left <= count
  BY DEF ReadStates
<1>3. r.got.bytes \in Seq(Bytes) /\ Len(r.got.bytes) \in Nat /\ r.left \in Nat
  BY <1>2, ResultFields, LenProperties
<1>4. CASE ~r.more \/ r.left = 0 \/ k >= inode.blocks_used \/ k >= NDirect \/ b = 0 \/ ~InRange(v, b)
  <2>1. [r EXCEPT !.more = FALSE] \in ReadStates(count)
    BY <1>2 DEF ReadStates
  <2>2. [got |-> Fail, left |-> r.left, more |-> FALSE] \in ReadStates(count)
    <3>1. Fail \in Results /\ Len(Fail.bytes) = 0
      BY DEF Fail, Results
    <3>2. Len(Fail.bytes) + r.left <= count
      BY <1>2, <1>3, <3>1
    <3> QED
      BY <1>2, <3>1, <3>2 DEF ReadStates
  <2>3. \/ ReadRound(v, inode, offset, r, k) = [r EXCEPT !.more = FALSE]
        \/ ReadRound(v, inode, offset, r, k) = [got |-> Fail, left |-> r.left, more |-> FALSE]
    BY <1>1, <1>4 DEF ReadRound
  <2> QED
    BY <2>1, <2>2, <2>3
<1>5. CASE ~(~r.more \/ r.left = 0 \/ k >= inode.blocks_used \/ k >= NDirect \/ b = 0 \/ ~InRange(v, b))
  <2>1. PICK bo \in 0..(BlockSize - 1) : bo = BlockOffset(k, offset)
    BY BlockOffsetType
  <2>2. PICK c : c = MinOf(BlockSize - bo, r.left)
    OBVIOUS
  <2>3. c \in 0..(BlockSize - bo) /\ c <= r.left
    BY <1>3, <2>1, <2>2, FsSizes DEF MinOf
  <2>4. b \in Nat
    BY <1>1, <1>5, FsSizes DEF Inodes
  <2>5. PICK s : s = SubSeq(read_block(v, b).bytes, bo + 1, bo + c)
    OBVIOUS
  <2>6. s \in Seq(Bytes) /\ Len(s) = c
    BY <1>5, <2>3, <2>4, <2>5, BlockBytes
  <2>7. ReadRound(v, inode, offset, r, k) = [got |-> Got(r.got.bytes \o s), left |-> r.left - c, more |-> TRUE]
    BY <1>1, <1>5, <2>1, <2>2, <2>5 DEF ReadRound
  <2>8. PICK t : t = r.got.bytes \o s
    OBVIOUS
  <2>9. t \in Seq(Bytes) /\ Len(t) = Len(r.got.bytes) + c
    BY <1>3, <2>6, <2>8, ConcatProperties
  <2>10. Got(t) \in Results /\ Got(t).bytes = t
    BY <2>9 DEF Results, Got
  <2>11. r.left - c \in Nat /\ Len(t) + (r.left - c) <= count
    BY <1>2, <1>3, <2>3, <2>9
  <2> QED
    BY <2>7, <2>8, <2>10, <2>11 DEF ReadStates
<1> QED
  BY <1>4, <1>5

IsReadLoop(f, v, inode, count, offset) ==
    f = [i \in 0..NDirect |->
            IF i = 0 THEN [got |-> Got(<<>>), left |-> count, more |-> TRUE]
            ELSE ReadRound(v, inode, offset, f[i - 1], offset \div BlockSize + i - 1)]

LEMMA ReadStart ==
    ASSUME NEW count \in Nat
    PROVE  [got |-> Got(<<>>), left |-> count, more |-> TRUE] \in ReadStates(count)
<1>1. <<>> \in Seq(Bytes) /\ Len(<<>>) = 0
  OBVIOUS
<1>2. Got(<<>>) \in Results /\ Got(<<>>).bytes = <<>>
  BY <1>1 DEF Got, Results
<1>3. Len(Got(<<>>).bytes) + count <= count
  BY <1>1, <1>2
<1> QED
  BY <1>2, <1>3 DEF ReadStates

LEMMA ReadLoopExists ==
    ASSUME NEW v \in Volumes, NEW inode \in Inodes, NEW count \in Nat, NEW offset \in Nat
    PROVE  \E f : IsReadLoop(f, v, inode, count, offset)
<1>1. PICK S : S = ReadStates(count)
  OBVIOUS
<1>2. PICK q \in Nat : q = offset \div BlockSize
  BY FsSizes
<1>3. PICK g : g = [i \in 1..NDirect |-> [r \in S |-> ReadRound(v, inode, offset, r, q + i - 1)]]
  OBVIOUS
<1>4. PICK x : x = [got |-> Got(<<>>), left |-> count, more |-> TRUE]
  OBVIOUS
<1>5. g \in [1..NDirect -> [S -> S]] /\ x \in S
  <2>1. ASSUME NEW i \in 1..NDirect, NEW r \in S PROVE ReadRound(v, inode, offset, r, q + i - 1) \in S
    <3>1. q + i - 1 \in Nat
      BY FsSizes
    <3> QED
      BY <1>1, <3>1, ReadRoundType
  <2>2. x \in S
    BY <1>1, <1>4, ReadStart
  <2> QED
    BY <1>3, <2>1, <2>2
<1>6. PICK f : IsLoop(f, NDirect, S, x, g)
  BY <1>5, LoopExists, FsSizes
<1>7. f \in [0..NDirect -> S] /\ f[0] = x
  BY <1>6 DEF IsLoop
<1>8. ASSUME NEW i \in 1..NDirect PROVE f[i] = ReadRound(v, inode, offset, f[i - 1], q + i - 1)
  <2>1. f[i - 1] \in S /\ f[i] = g[i][f[i - 1]]
    BY <1>6, <1>7, FsSizes DEF IsLoop
  <2> QED
    BY <1>3, <2>1
<1>9. f = [i \in 0..NDirect |-> IF i = 0 THEN x ELSE ReadRound(v, inode, offset, f[i - 1], q + i - 1)]
  <2>1. \A i \in 0..NDirect : f[i] = IF i = 0 THEN x ELSE ReadRound(v, inode, offset, f[i - 1], q + i - 1)
    BY <1>7, <1>8, FsSizes
  <2> QED
    BY <1>7, <2>1
<1> QED
  BY <1>2, <1>4, <1>9 DEF IsReadLoop

\* The states of the loop of mesafs_read.
LEMMA ReadLoop ==
    ASSUME NEW v \in Volumes, NEW inode \in Inodes, NEW count \in Nat, NEW offset \in Nat,
           NEW q \in Nat, q = offset \div BlockSize
    PROVE  \E f : /\ ReadBlocks(v, inode, count, offset) = f[NDirect].got
                  /\ f[0] = [got |-> Got(<<>>), left |-> count, more |-> TRUE]
                  /\ \A i \in 1..NDirect : f[i] = ReadRound(v, inode, offset, f[i - 1], q + i - 1)
                  /\ \A i \in 0..NDirect : f[i] \in ReadStates(count)
<1>1. PICK f : f = CHOOSE ff : IsReadLoop(ff, v, inode, count, offset)
  OBVIOUS
<1>2. IsReadLoop(f, v, inode, count, offset)
  BY <1>1, ReadLoopExists
<1>3. ReadBlocks(v, inode, count, offset) = f[NDirect].got
  BY <1>1 DEF ReadBlocks, IsReadLoop
<1>4. PICK x : x = [got |-> Got(<<>>), left |-> count, more |-> TRUE]
  OBVIOUS
<1>5. f = [i \in 0..NDirect |-> IF i = 0 THEN x ELSE ReadRound(v, inode, offset, f[i - 1], q + i - 1)]
  BY <1>2, <1>4 DEF IsReadLoop
<1>6. f[0] = x /\ \A i \in 1..NDirect : f[i] = ReadRound(v, inode, offset, f[i - 1], q + i - 1)
  BY <1>5, FsSizes
<1> DEFINE P == {i \in 0..NDirect : f[i] \in ReadStates(count)}
<1>7. 0 \in P
  BY <1>4, <1>6, ReadStart, FsSizes
<1>8. ASSUME NEW i \in 1..NDirect, i - 1 \in P PROVE i \in P
  <2>1. f[i - 1] \in ReadStates(count) /\ q + i - 1 \in Nat /\ i \in 0..NDirect
    BY <1>8
  <2>2. f[i] \in ReadStates(count)
    BY <1>6, <2>1, ReadRoundType
  <2> QED
    BY <2>1, <2>2
<1>9. \A i \in 0..NDirect : i \in P
  <2> HIDE DEF P
  <2> QED
    BY <1>7, <1>8, Rounds, FsSizes
<1> QED
  BY <1>3, <1>4, <1>6, <1>9

\* A read never returns more than was asked for.
LEMMA ReadType ==
    ASSUME NEW v \in Volumes, NEW n \in Nat, NEW count \in Nat, NEW offset \in Nat
    PROVE  mesafs_read(v, n, count, offset) \in Results /\ mesafs_read(v, n, count, offset).ret <= count
<1>1. PICK r : r = mesafs_read(v, n, count, offset)
  OBVIOUS
<1>2. PICK inode : inode = mesafs_read_inode(v, n)
  OBVIOUS
<1>3. CASE r = Fail
  BY <1>1, <1>3 DEF Fail, Results
<1>4. CASE r = Got(<<>>)
  <2>1. <<>> \in Seq(Bytes) /\ Len(<<>>) = 0
    OBVIOUS
  <2>2. r \in Results
    BY <1>4, <2>1 DEF Results
  <2>3. r.ret = 0
    BY <1>4, <2>1 DEF Got
  <2> QED
    BY <1>1, <2>2, <2>3
<1>5. CASE ~(r = Fail \/ r = Got(<<>>))
  <2>1. InodeExists(v, n) /\ ~(offset >= inode.size)
    BY <1>1, <1>2, <1>5 DEF mesafs_read
  <2>2. inode \in Inodes /\ inode.size \in Nat
    BY <1>2, <2>1, InodeType DEF Inodes
  <2>3. PICK m \in Nat : m = MinOf(count, inode.size - offset) /\ m <= count
    BY <2>1, <2>2 DEF MinOf
  <2>4. r = ReadBlocks(v, inode, m, offset)
    BY <1>1, <1>2, <1>5, <2>3 DEF mesafs_read
  <2>5. PICK q \in Nat : q = offset \div BlockSize
    BY FsSizes
  <2>6. PICK f : /\ ReadBlocks(v, inode, m, offset) = f[NDirect].got
                 /\ f[0] = [got |-> Got(<<>>), left |-> m, more |-> TRUE]
                 /\ \A i \in 1..NDirect : f[i] = ReadRound(v, inode, offset, f[i - 1], q + i - 1)
                 /\ \A i \in 0..NDirect : f[i] \in ReadStates(m)
    BY <2>2, <2>5, ReadLoop
  <2>7. f[NDirect] \in ReadStates(m)
    BY <2>6, FsSizes
  <2>8. r \in Results /\ Len(r.bytes) + f[NDirect].left <= m /\ f[NDirect].left \in Nat
    BY <2>4, <2>6, <2>7 DEF ReadStates
  <2>9. Len(r.bytes) \in Nat /\ r.ret <= Len(r.bytes) /\ r.ret \in Int
    BY <2>8, ResultFields, LenProperties
  <2>10. r.ret <= count
    BY <2>3, <2>8, <2>9
  <2> QED
    BY <1>1, <2>8, <2>10
<1> QED
  BY <1>1, <1>3, <1>4, <1>5

-----------------------------------------------------------------------------
(* Listing a directory *)

\* A name that fits is added with its newline; one that does not is cut.
LEMMA EntryAdded ==
    ASSUME NEW out \in Seq(Bytes), NEW name \in Seq(Bytes), NEW size \in Nat,
           Len(out) < size - 1, NEW k, k = MinOf(Len(name), size - 2 - Len(out))
    PROVE  /\ k \in 0..Len(name)
           /\ AddEntry(out, name, size) = Append(out \o SubSeq(name, 1, k), NL)
           /\ AddEntry(out, name, size) \in Seq(Bytes)
           /\ Len(AddEntry(out, name, size)) = Len(out) + k + 1
           /\ Len(AddEntry(out, name, size)) <= size - 1
<1>1. PICK m \in Nat, l \in Nat : m = Len(name) /\ l = Len(out)
  BY LenProperties
<1>2. k \in 0..m /\ k <= size - 2 - l /\ k \in Nat
  BY <1>1 DEF MinOf
<1>3. PICK s : s = SubSeq(name, 1, k)
  OBVIOUS
<1>4. s \in Seq(Bytes) /\ Len(s) = k
  <2>1. \A i \in 1..k : name[i] \in Bytes
    BY <1>1, <1>2, LenProperties
  <2> QED
    BY <1>2, <1>3, <2>1, SubSeqProperties
<1>5. PICK cut : cut = out \o s
  OBVIOUS
<1>6. cut \in Seq(Bytes) /\ Len(cut) = l + k
  BY <1>1, <1>4, <1>5, ConcatProperties
<1>7. NL \in Bytes
  BY UserlandAssumption
<1>8. Append(cut, NL) \in Seq(Bytes) /\ Len(Append(cut, NL)) = l + k + 1
  <2>1. Append(cut, NL) \in Seq(Bytes)
    BY <1>6, <1>7, AppendProperties
  <2>2. Len(Append(cut, NL)) = Len(cut) + 1
    BY <1>6, <1>7, AppendProperties
  <2> QED
    BY <1>6, <2>1, <2>2
<1>9. ~(l >= size - 1) /\ l + k < size - 1
  BY <1>1, <1>2
<1>10. AddEntry(out, name, size) = Append(cut, NL)
  BY <1>1, <1>3, <1>5, <1>6, <1>9 DEF AddEntry
<1> QED
  BY <1>1, <1>2, <1>3, <1>5, <1>8, <1>9, <1>10

Outs(size) == {o \in Seq(Bytes) : Len(o) <= size - 1}

LEMMA AddEntryType ==
    ASSUME NEW size \in Nat, size > 0, NEW out \in Outs(size), NEW name \in Seq(Bytes)
    PROVE  AddEntry(out, name, size) \in Outs(size)
<1>1. CASE Len(out) >= size - 1
  BY <1>1 DEF AddEntry
<1>2. CASE Len(out) < size - 1
  BY <1>2, EntryAdded DEF Outs
<1> QED
  BY <1>1, <1>2, LenProperties DEF Outs

IsListing(f, entries, size) ==
    f = [i \in 0..Len(entries) |-> IF i = 0 THEN <<>> ELSE AddEntry(f[i - 1], entries[i].name, size)]

LEMMA ListingExists ==
    ASSUME NEW entries \in Seq(DirEntries), NEW size \in Nat, size > 0
    PROVE  \E f : IsListing(f, entries, size)
<1>1. PICK n \in Nat : n = Len(entries)
  BY LenProperties
<1>2. PICK S : S = Outs(size)
  OBVIOUS
<1>3. PICK g : g = [i \in 1..n |-> [o \in S |-> AddEntry(o, entries[i].name, size)]]
  OBVIOUS
<1>4. g \in [1..n -> [S -> S]] /\ <<>> \in S
  <2>1. ASSUME NEW i \in 1..n, NEW o \in S PROVE AddEntry(o, entries[i].name, size) \in S
    <3>1. entries[i] \in DirEntries
      BY <1>1, LenProperties
    <3>2. entries[i].name \in Seq(Bytes)
      BY <3>1 DEF DirEntries, FileNames
    <3> QED
      BY <1>2, <3>2, AddEntryType
  <2>2. <<>> \in Seq(Bytes) /\ Len(<<>>) = 0
    OBVIOUS
  <2>3. <<>> \in S
    BY <1>2, <2>2 DEF Outs
  <2> QED
    BY <1>3, <2>1, <2>3
<1>5. PICK f : IsLoop(f, n, S, <<>>, g)
  BY <1>4, LoopExists
<1>6. f \in [0..n -> S] /\ f[0] = <<>>
  BY <1>5 DEF IsLoop
<1>7. ASSUME NEW i \in 1..n PROVE f[i] = AddEntry(f[i - 1], entries[i].name, size)
  <2>1. f[i - 1] \in S /\ f[i] = g[i][f[i - 1]]
    BY <1>5, <1>6 DEF IsLoop
  <2> QED
    BY <1>3, <2>1
<1>8. f = [i \in 0..n |-> IF i = 0 THEN <<>> ELSE AddEntry(f[i - 1], entries[i].name, size)]
  <2>1. \A i \in 0..n : f[i] = IF i = 0 THEN <<>> ELSE AddEntry(f[i - 1], entries[i].name, size)
    BY <1>6, <1>7
  <2> QED
    BY <1>6, <2>1
<1> QED
  BY <1>1, <1>8 DEF IsListing


LEMMA RootOpens ==
    ASSUME vol \in Volumes
    PROVE  sys_open(<<Slash>>) = vol.root
<1>1. PICK m \in {0, 1} : m = MinOf(1, PathMax - 1)
  BY UserlandAssumption DEF MinOf
<1>2. kpath(<<Slash>>) = SubSeq(<<Slash>>, 1, m)
  <2>1. Len(<<Slash>>) = 1
    OBVIOUS
  <2> QED
    BY <1>1, <2>1 DEF kpath
<1>3. kpath(<<Slash>>) \in {<<>>, <<Slash>>}
  <2>1. CASE m = 0
    <3>1. SubSeq(<<Slash>>, 1, 0) = <<>>
      OBVIOUS
    <3> QED
      BY <1>2, <2>1, <3>1
  <2>2. CASE m = 1
    <3>1. <<Slash>> \in Seq({Slash}) /\ Len(<<Slash>>) = 1
      OBVIOUS
    <3>2. PICK s : s = <<Slash>>
      OBVIOUS
    <3>3. \A i \in 1..1 : s[i] \in {Slash}
      BY <3>2
    <3>4. /\ SubSeq(s, 1, 1) \in Seq({Slash}) /\ Len(SubSeq(s, 1, 1)) = 1
          /\ SubSeq(s, 1, 1)[1] = s[1]
      BY <3>3, SubSeqProperties
    <3>5. SubSeq(s, 1, 1) = s
      <4>1. PICK t : t = SubSeq(s, 1, 1)
        OBVIOUS
      <4>2. s \in Seq({Slash}) /\ t \in Seq({Slash}) /\ Len(s) = 1 /\ Len(t) = 1 /\ t[1] = s[1]
        BY <3>1, <3>2, <3>4, <4>1
      <4>3. \A i \in 1..Len(t) : t[i] = s[i]
        BY <4>2
      <4> QED
        BY <4>1, <4>2, <4>3, SeqEqual
    <3> QED
      BY <1>2, <2>2, <3>2, <3>5
  <2> QED
    BY <1>1, <2>1, <2>2
<1>4. resolve_path(vol, kpath(<<Slash>>)) = vol.root
  BY <1>3, ResolveRoot
<1>5. vol.mounted /\ vol.root # 0
  BY VolumeFields
<1> QED
  BY <1>4, <1>5 DEF sys_open

\* The list of a directory: all its used entries, which fit.
LEMMA ListOfDir ==
    ASSUME NEW v \in Volumes, NEW n \in Nat, NEW l, l = mesafs_list_dir(v, n, EntriesMax),
           IsDir(v, n), n # 0
    PROVE  l.ret \in Nat /\ l.entries \in Seq(DirEntries) /\ l.entries = UsedEntries(v, n)
<1>3. PICK used : used = UsedEntries(v, n)
  OBVIOUS
<1>4. EntriesOf(v, n) \in Seq(DirEntries) /\ Len(EntriesOf(v, n)) = EntriesMax
  BY EntriesType
<1>5. used \in Seq({e \in DirEntries : IsUsed(e)}) /\ Len(used) <= EntriesMax
  BY <1>3, <1>4, UsedEntriesType
<1>6. PICK m \in Nat : m = Len(used)
  BY <1>5, LenProperties
<1>7. used \in Seq(DirEntries)
  <2>1. used \in [1..m -> {e \in DirEntries : IsUsed(e)}]
    BY <1>5, <1>6, LenProperties
  <2> QED
    BY <2>1
<1>8. MinOf(m, EntriesMax) = m
  BY <1>5, <1>6, FsSizes DEF MinOf
<1>9. l = [ret |-> m, entries |-> SubSeq(used, 1, m)]
  BY <1>3, <1>6, <1>8 DEF mesafs_list_dir
<1>10. SubSeq(used, 1, m) = used
  BY <1>6, <1>7, SubSeqProperties, SeqEqual
<1> QED
  BY <1>3, <1>7, <1>9, <1>10

\* What is in the buffer after each entry of the root.
LEMMA ListingLoop ==
    ASSUME vol \in Volumes, NEW size \in Nat, size > 0, IsDir(vol, vol.root),
           NEW entries, entries = UsedEntries(vol, vol.root)
    PROVE  /\ entries \in Seq(DirEntries)
           /\ \E f : /\ sys_readdir(<<Slash>>, size) = Got(f[Len(entries)])
                     /\ f[0] = <<>>
                     /\ \A i \in 1..Len(entries) : f[i] = AddEntry(f[i - 1], entries[i].name, size)
                     /\ \A i \in 0..Len(entries) : f[i] \in Outs(size)
<1>1. sys_open(<<Slash>>) = vol.root /\ vol.root \in Nat /\ vol.root # 0
  BY RootOpens, VolumeFields
<1>2. PICK l : l = mesafs_list_dir(vol, vol.root, EntriesMax)
  OBVIOUS
<1>3. l.ret \in Nat /\ entries \in Seq(DirEntries) /\ l.entries = entries
  BY <1>1, <1>2, ListOfDir
<1>4. ~(l.ret < 0) /\ ~(vol.root < 0) /\ entries \in Seq(DirEntries) /\ l.entries = entries
  BY <1>1, <1>3
<1>5. PICK n \in Nat : n = Len(entries)
  BY <1>4, LenProperties
<1>6. PICK f : f = CHOOSE ff : IsListing(ff, entries, size)
  OBVIOUS
<1>7. IsListing(f, entries, size)
  BY <1>4, <1>6, ListingExists
<1>8. sys_readdir(<<Slash>>, size) = Got(f[n])
  BY <1>1, <1>2, <1>3, <1>4, <1>5, <1>6 DEF sys_readdir, IsListing
<1>9. f = [i \in 0..n |-> IF i = 0 THEN <<>> ELSE AddEntry(f[i - 1], entries[i].name, size)]
  BY <1>5, <1>7 DEF IsListing
<1>10. f[0] = <<>> /\ \A i \in 1..n : f[i] = AddEntry(f[i - 1], entries[i].name, size)
  BY <1>9
<1> DEFINE P == {i \in 0..n : f[i] \in Outs(size)}
<1>11. 0 \in P
  <2>1. <<>> \in Seq(Bytes) /\ Len(<<>>) = 0
    OBVIOUS
  <2>2. f[0] \in Seq(Bytes) /\ Len(f[0]) <= size - 1
    BY <1>10, <2>1
  <2> QED
    BY <2>2 DEF Outs
<1>12. ASSUME NEW i \in 1..n, i - 1 \in P PROVE i \in P
  <2>1. entries[i] \in DirEntries
    BY <1>4, <1>5, LenProperties
  <2>2. entries[i].name \in Seq(Bytes) /\ f[i - 1] \in Outs(size)
    BY <1>12, <2>1 DEF DirEntries, FileNames
  <2>3. f[i] \in Outs(size)
    BY <1>10, <2>2, AddEntryType
  <2> QED
    BY <2>3
<1>13. \A i \in 0..n : i \in P
  <2> HIDE DEF P
  <2> QED
    BY <1>11, <1>12, Rounds
<1> QED
  BY <1>4, <1>5, <1>8, <1>10, <1>13

\* A listing leaves room for the final zero.
LEMMA ListingFits ==
    ASSUME vol \in Volumes, NEW size \in Nat, size > 0, NEW r, r = sys_readdir(<<Slash>>, size)
    PROVE  r.ret \in Int /\ r.ret + 1 <= size
<1>1. CASE r = Fail
  BY <1>1 DEF Fail
<1>2. CASE r # Fail
  <2>1. PICK entries : entries = UsedEntries(vol, vol.root)
    OBVIOUS
  <2>0. IsDir(vol, vol.root)
    <3>1. sys_open(<<Slash>>) = vol.root
      BY RootOpens
    <3>2. SUFFICES ASSUME ~IsDir(vol, vol.root) PROVE FALSE
      OBVIOUS
    <3>3. mesafs_list_dir(vol, vol.root, EntriesMax).ret = -1
      BY <3>2 DEF mesafs_list_dir
    <3> QED
      BY <1>2, <3>1, <3>3 DEF sys_readdir
  <2>2. /\ entries \in Seq(DirEntries)
        /\ \E f : /\ r = Got(f[Len(entries)])
                  /\ \A i \in 0..Len(entries) : f[i] \in Outs(size)
    BY <2>0, <2>1, ListingLoop
  <2>3. PICK o : r = Got(o) /\ o \in Outs(size)
    BY <2>2, LenProperties
  <2> QED
    BY <2>3, LenProperties DEF Got, Outs
<1> QED
  BY <1>1, <1>2

-----------------------------------------------------------------------------
(* The copies of system calls *)

InBounds(c) == InUserSpace(c.ptr, c.len) /\ c.len <= c.room

Mails == [from : Pids, size : 0..IpcMax]
Queues == {s \in Seq(Mails) : Len(s) <= QueueMax}

\* What waits in a mailbox is as long as its sender was allowed to make it.
MailInv ==
    /\ vol \in Volumes \cup {NoVolume}
    /\ mailbox \in [Pids -> Queues]
    /\ server \in [from : Pids \cup {AnyPid}, n : 0..255, pc : {"receive", "show", "reply"}]
    /\ \A c \in copies : InBounds(c)

LEMMA MessageSizes ==
    /\ IpcMax \in Nat /\ IpcMax > 0 /\ WriteMax \in Nat /\ ReadMax \in Nat
    /\ PathMax \in Nat /\ PathMax > 0 /\ PathMax \in Addr
    /\ AddrSpace \in Nat /\ KernelBase \in Nat /\ 512 <= KernelBase /\ KernelBase < AddrSpace
    /\ Pointers \subseteq Addr /\ Sizes \subseteq Addr
    /\ \A x \in Addr : x \in Nat
    /\ \A x \in Nat : x < 512 => x \in Addr
BY UserlandAssumption, AddressAssumption DEF Addr

LEMMA CopyFits ==
    ASSUME NEW ptr, NEW len, NEW room, InUserSpace(ptr, len), len <= room
    PROVE  InBounds(Copy(ptr, len, room))
BY DEF InBounds, Copy

LEMMA NothingIsUserSpace ==
    ASSUME NEW ptr
    PROVE  InUserSpace(ptr, 0)
BY DEF InUserSpace

\* A part of an accepted range.
LEMMA AcceptedPart ==
    ASSUME NEW ptr \in Addr, NEW len \in Addr, validate_user_pointer(ptr, len),
           NEW n \in Nat, n <= len
    PROVE  InUserSpace(ptr, n)
<1>1. InUserSpace(ptr, len) /\ len \in Nat
  BY AcceptedRangesAreUserMemory, MessageSizes
<1> QED
  BY <1>1 DEF InUserSpace

LEMMA CopyUserFits ==
    ASSUME NEW ptr \in Addr, NEW len \in Addr
    PROVE  InUserSpace(ptr, copy_user(ptr, len)) /\ copy_user(ptr, len) <= len
<1>1. CASE validate_user_pointer(ptr, len)
  BY <1>1, AcceptedRangesAreUserMemory, MessageSizes DEF copy_user
<1>2. CASE ~validate_user_pointer(ptr, len)
  BY <1>2, NothingIsUserSpace, MessageSizes DEF copy_user
<1> QED
  BY <1>1, <1>2

LEMMA SendSizeType ==
    ASSUME NEW size \in Addr
    PROVE  SendSize(size) \in Addr /\ SendSize(size) \in 0..IpcMax /\ SendSize(size) <= size
BY MessageSizes DEF SendSize, MinOf, Addr

\* The stack of a program has room for its buffers.
LEMMA StackBufType ==
    /\ StackBuf \in Addr
    /\ \A n \in 0..256 : InUserSpace(StackBuf, n)
<1>1. StackBuf \in Nat /\ 2 * StackBuf <= KernelBase /\ KernelBase <= 2 * StackBuf + 1
  BY MessageSizes DEF StackBuf
<1>2. StackBuf >= 256 /\ StackBuf + 256 <= KernelBase /\ StackBuf < AddrSpace
  BY <1>1, MessageSizes
<1>3. ASSUME NEW n \in 0..256, NEW i \in 0..(n - 1) PROVE StackBuf + i \in 1..(KernelBase - 1)
  BY <1>1, <1>2, MessageSizes
<1>4. StackBuf \in Addr
  BY <1>1, <1>2, MessageSizes DEF Addr
<1>5. \A n \in 0..256 : InUserSpace(StackBuf, n)
  BY <1>3 DEF InUserSpace
<1> QED
  BY <1>4, <1>5

LEMMA SendKeeps ==
    ASSUME mailbox \in [Pids -> Queues], NEW from \in Pids, NEW to, NEW size \in 0..IpcMax
    PROVE  ipc_send(mailbox, from, to, size) \in [Pids -> Queues]
<1>1. PICK m : m = [from |-> from, size |-> size]
  OBVIOUS
<1>2. m \in Mails
  BY <1>1 DEF Mails
<1>3. CASE to \in Pids
  <2>1. mailbox[to] \in Seq(Mails) /\ QueueMax \in Nat
    BY <1>3, UserlandAssumption DEF Queues
  <2>2. PICK l \in Nat : l = Len(mailbox[to])
    BY <2>1, LenProperties
  <2>3. Append(mailbox[to], m) \in Seq(Mails) /\ Len(Append(mailbox[to], m)) = l + 1
    BY <1>2, <2>1, <2>2, AppendProperties
  <2>4. l < QueueMax => Append(mailbox[to], m) \in Queues
    BY <2>1, <2>3 DEF Queues
  <2> QED
    BY <1>1, <2>2, <2>4 DEF ipc_send
<1>4. CASE to \notin Pids
  BY <1>4 DEF ipc_send
<1> QED
  BY <1>3, <1>4

\* The part of the invariant that a message call changes.
Delivered == mailbox' \in [Pids -> Queues] /\ \A c \in copies' : InBounds(c)

LEMMA SendDelivers ==
    ASSUME MailInv, NEW from \in Pids, NEW to, NEW ptr \in Addr, NEW size \in Addr,
           sys_ipc_send(from, to, ptr, size)
    PROVE  Delivered
<1>1. mailbox \in [Pids -> Queues]
  BY DEF MailInv
<1>2. PICK m : m = SendSize(size)
  OBVIOUS
<1>3. m \in Addr /\ m \in 0..IpcMax
  BY <1>2, SendSizeType
<1>4. CASE validate_user_pointer(ptr, size)
  <2>1. mailbox' = ipc_send(mailbox, from, to, m) /\ copies' = {Copy(ptr, copy_user(ptr, m), IpcMax)}
    BY <1>2, <1>4 DEF sys_ipc_send
  <2>2. mailbox' \in [Pids -> Queues]
    BY <1>1, <1>3, <2>1, SendKeeps
  <2>3. PICK n : n = copy_user(ptr, m)
    OBVIOUS
  <2>4. InUserSpace(ptr, n) /\ n <= m /\ n \in Nat
    BY <1>3, <2>3, CopyUserFits, MessageSizes DEF copy_user
  <2>5. InBounds(Copy(ptr, n, IpcMax))
    BY <1>3, <2>4, CopyFits, MessageSizes
  <2> QED
    BY <2>1, <2>2, <2>3, <2>5 DEF Delivered
<1>5. CASE ~validate_user_pointer(ptr, size)
  BY <1>1, <1>5 DEF sys_ipc_send, Delivered
<1> QED
  BY <1>4, <1>5

LEMMA RemoveKeeps ==
    ASSUME NEW s \in Seq(Mails), NEW i \in 1..Len(s)
    PROVE  RemoveAt(s, i) \in Seq(Mails) /\ Len(RemoveAt(s, i)) = Len(s) - 1
<1>1. PICK n \in Nat : n = Len(s)
  BY LenProperties
<1>2. \A j \in 1..n : s[j] \in Mails
  BY <1>1, LenProperties
<1>3. SubSeq(s, 1, i - 1) \in Seq(Mails) /\ Len(SubSeq(s, 1, i - 1)) = i - 1
  <2>1. \A j \in 1..(i - 1) : s[j] \in Mails
    BY <1>1, <1>2
  <2>2. 1 \in Int /\ i - 1 \in Int
    BY <1>1
  <2> QED
    BY <2>1, <2>2, SubSeqProperties
<1>4. SubSeq(s, i + 1, n) \in Seq(Mails) /\ Len(SubSeq(s, i + 1, n)) = n - i
  <2>1. \A j \in (i + 1)..n : s[j] \in Mails
    BY <1>1, <1>2
  <2>2. i + 1 \in Int /\ n \in Int /\ i <= n
    BY <1>1
  <2>3. /\ SubSeq(s, i + 1, n) \in Seq(Mails)
        /\ Len(SubSeq(s, i + 1, n)) = IF i + 1 <= n THEN n - (i + 1) + 1 ELSE 0
    BY <2>1, <2>2, SubSeqProperties
  <2>4. (IF i + 1 <= n THEN n - (i + 1) + 1 ELSE 0) = n - i
    BY <2>2
  <2> QED
    BY <2>3, <2>4
<1>5. PICK a, b : a = SubSeq(s, 1, i - 1) /\ b = SubSeq(s, i + 1, n)
  OBVIOUS
<1>6. a \in Seq(Mails) /\ b \in Seq(Mails) /\ Len(a) = i - 1 /\ Len(b) = n - i
  BY <1>3, <1>4, <1>5
<1>7. a \o b \in Seq(Mails) /\ Len(a \o b) = (i - 1) + (n - i)
  <2>1. PICK k \in Nat, d \in Nat : k = Len(a) /\ d = Len(b)
    BY <1>6, LenProperties
  <2>2. a \o b \in Seq(Mails) /\ Len(a \o b) = k + d
    BY <1>6, <2>1, ConcatProperties
  <2> QED
    BY <1>6, <2>1, <2>2
<1>8. (i - 1) + (n - i) = n - 1
  BY <1>1
<1> QED
  BY <1>1, <1>5, <1>7, <1>8 DEF RemoveAt

\* A received message fits the kernel's buffer and what the receiver offers.
LEMMA ReceivedFits ==
    ASSUME MailInv, NEW p \in Pids, NEW from, NEW fromPtr \in Addr, NEW ptr \in Addr, NEW max \in Addr,
           NEW r, r = Received(p, from, fromPtr, ptr, max)
    PROVE  /\ r.n \in 0..IpcMax /\ r.n <= max /\ r.from \in Pids \cup {AnyPid}
           /\ r.at # 0 => r.at \in 1..Len(mailbox[p])
           /\ r.n # 0 => /\ validate_user_pointer(ptr, max)
                         /\ fromPtr # 0 => validate_user_pointer(fromPtr, 4)
<1>1. mailbox[p] \in Seq(Mails)
  BY DEF MailInv, Queues
<1>2. PICK w : w = Wanted(p, from)
  OBVIOUS
<1>3. PICK i : i = CHOOSE k \in w : \A j \in w : k <= j
  OBVIOUS
<1>4. max \in Nat
  BY MessageSizes
<1>5. CASE w # {} /\ validate_user_pointer(ptr, max) /\ (fromPtr # 0 => validate_user_pointer(fromPtr, 4))
  <2>1. w \subseteq Nat /\ w \subseteq 1..Len(mailbox[p])
    BY <1>1, <1>2, LenProperties DEF Wanted
  <2>2. \E k \in w : \A j \in w : k <= j
    BY <1>5, <2>1, LeastNumber
  <2>3. i \in w
    BY <1>3, <2>2
  <2>4. mailbox[p][i] \in Mails /\ i \in 1..Len(mailbox[p])
    BY <1>1, <2>1, <2>3, LenProperties
  <2>5. mailbox[p][i].size \in 0..IpcMax /\ mailbox[p][i].from \in Pids
    BY <2>4 DEF Mails
  <2>6. r = [at |-> i, from |-> mailbox[p][i].from, n |-> MinOf(mailbox[p][i].size, max)]
    BY <1>2, <1>3, <1>5 DEF Received
  <2>7. MinOf(mailbox[p][i].size, max) \in 0..IpcMax /\ MinOf(mailbox[p][i].size, max) <= max
    BY <1>4, <2>5, MessageSizes DEF MinOf
  <2> QED
    BY <1>5, <2>4, <2>5, <2>6, <2>7
<1>6. CASE ~(w # {} /\ validate_user_pointer(ptr, max) /\ (fromPtr # 0 => validate_user_pointer(fromPtr, 4)))
  <2>1. r = [at |-> 0, from |-> AnyPid, n |-> 0]
    BY <1>2, <1>6 DEF Received
  <2> QED
    BY <1>4, <2>1, MessageSizes
<1> QED
  BY <1>5, <1>6

LEMMA ReceiveDelivers ==
    ASSUME MailInv, NEW p \in Pids, NEW from, NEW fromPtr \in Addr, NEW ptr \in Addr, NEW max \in Addr,
           sys_ipc_receive(p, from, fromPtr, ptr, max)
    PROVE  Delivered
<1>1. PICK r : r = Received(p, from, fromPtr, ptr, max)
  OBVIOUS
<1>2. /\ r.n \in 0..IpcMax /\ r.n <= max
      /\ r.at # 0 => r.at \in 1..Len(mailbox[p])
      /\ r.n # 0 => /\ validate_user_pointer(ptr, max)
                    /\ fromPtr # 0 => validate_user_pointer(fromPtr, 4)
  BY <1>1, ReceivedFits
<1>3. mailbox \in [Pids -> Queues] /\ mailbox[p] \in Queues /\ mailbox[p] \in Seq(Mails)
  BY DEF MailInv, Queues
<1>4. mailbox' \in [Pids -> Queues]
  <2>1. CASE r.at = 0
    BY <1>1, <1>3, <2>1 DEF sys_ipc_receive
  <2>2. CASE r.at # 0
    <3>1. RemoveAt(mailbox[p], r.at) \in Queues
      <4>1. PICK l \in Nat : l = Len(mailbox[p])
        BY <1>3, LenProperties
      <4>2. RemoveAt(mailbox[p], r.at) \in Seq(Mails) /\ Len(RemoveAt(mailbox[p], r.at)) = l - 1
        BY <1>2, <1>3, <2>2, <4>1, RemoveKeeps
      <4>3. l <= QueueMax /\ QueueMax \in Nat
        BY <1>3, <4>1, UserlandAssumption DEF Queues
      <4> QED
        BY <4>2, <4>3 DEF Queues
    <3>2. mailbox' = [mailbox EXCEPT ![p] = RemoveAt(mailbox[p], r.at)]
      BY <1>1, <2>2 DEF sys_ipc_receive
    <3> QED
      BY <1>3, <3>1, <3>2
  <2> QED
    BY <2>1, <2>2
<1>5. r.n # 0 => InBounds(Copy(ptr, r.n, IpcMax))
  <2>1. SUFFICES ASSUME r.n # 0 PROVE InBounds(Copy(ptr, r.n, IpcMax))
    OBVIOUS
  <2>2. InUserSpace(ptr, r.n)
    BY <1>2, <2>1, AcceptedPart
  <2> QED
    BY <1>2, <2>2, CopyFits
<1>6. r.n # 0 /\ fromPtr # 0 => InBounds(Copy(fromPtr, 4, 4))
  <2>1. SUFFICES ASSUME r.n # 0, fromPtr # 0 PROVE InBounds(Copy(fromPtr, 4, 4))
    OBVIOUS
  <2>2. 4 \in Addr
    BY MessageSizes
  <2>3. InUserSpace(fromPtr, 4)
    BY <1>2, <2>1, <2>2, AcceptedRangesAreUserMemory
  <2> QED
    BY <2>3, CopyFits
<1>7. ASSUME NEW c \in copies' PROVE InBounds(c)
  <2>1. r.n # 0 /\ (c = Copy(ptr, r.n, IpcMax) \/ (fromPtr # 0 /\ c = Copy(fromPtr, 4, 4)))
    BY <1>1, <1>7 DEF sys_ipc_receive
  <2> QED
    BY <1>5, <1>6, <2>1
<1> QED
  BY <1>4, <1>7 DEF Delivered

LEMMA CallDelivers ==
    ASSUME MailInv, NEW from \in Pids, NEW to, NEW req \in Addr, NEW reqSize \in Addr,
           NEW rep \in Addr, NEW repSize \in Addr,
           sys_ipc_call(from, to, req, reqSize, rep, repSize)
    PROVE  Delivered
<1>1. mailbox \in [Pids -> Queues]
  BY DEF MailInv
<1>2. PICK m : m = SendSize(reqSize)
  OBVIOUS
<1>3. m \in Addr /\ m \in 0..IpcMax
  BY <1>2, SendSizeType
<1>4. PICK a \in BOOLEAN : a = (validate_user_pointer(req, reqSize) /\ validate_user_pointer(rep, repSize))
  OBVIOUS
<1>5. CASE a
  <2>1. /\ mailbox' = ipc_send(mailbox, from, to, m)
        /\ \E n \in {0, SendSize(repSize)} : copies' = {Copy(req, copy_user(req, m), IpcMax),
                                                        Copy(rep, copy_user(rep, n), IpcMax)}
    BY <1>2, <1>4, <1>5 DEF sys_ipc_call
  <2>2. PICK n \in {0, SendSize(repSize)} : copies' = {Copy(req, copy_user(req, m), IpcMax),
                                                       Copy(rep, copy_user(rep, n), IpcMax)}
    BY <2>1
  <2>3. n \in Addr /\ n \in 0..IpcMax
    <3>1. 0 \in Addr /\ 0 \in 0..IpcMax
      BY MessageSizes
    <3> QED
      BY <2>2, <3>1, SendSizeType
  <2>4. ASSUME NEW ptr \in Addr, NEW len \in Addr, len \in 0..IpcMax
        PROVE  InBounds(Copy(ptr, copy_user(ptr, len), IpcMax))
    <3>1. PICK k : k = copy_user(ptr, len)
      OBVIOUS
    <3>2. InUserSpace(ptr, k) /\ k <= len /\ k \in Nat
      BY <3>1, CopyUserFits, MessageSizes DEF copy_user
    <3> QED
      BY <2>4, <3>1, <3>2, CopyFits, MessageSizes
  <2>5. \A c \in copies' : InBounds(c)
    BY <1>3, <2>2, <2>3, <2>4
  <2>6. mailbox' \in [Pids -> Queues]
    BY <1>1, <1>3, <2>1, SendKeeps
  <2> QED
    BY <2>5, <2>6 DEF Delivered
<1>6. CASE ~a
  BY <1>1, <1>4, <1>6 DEF sys_ipc_call, Delivered
<1> QED
  BY <1>5, <1>6

\* What the calls on files may copy.
LEMMA FileCopies ==
    ASSUME MailInv, NEW ptr \in Addr, NEW size \in Addr, NEW r, NEW room \in Nat,
           r.ret \in Int, r.ret <= size, r.ret <= room,
           NEW cs, cs = IF r.ret >= 0 /\ validate_user_pointer(ptr, r.ret)
                        THEN {Copy(ptr, r.ret, room)} ELSE {}
    PROVE  \A c \in cs : InBounds(c)
<1>1. SUFFICES ASSUME r.ret >= 0, validate_user_pointer(ptr, r.ret) PROVE InBounds(Copy(ptr, r.ret, room))
  OBVIOUS
<1>2. r.ret \in Addr
  BY <1>1, MessageSizes DEF Addr
<1>3. InUserSpace(ptr, r.ret)
  BY <1>1, <1>2, AcceptedRangesAreUserMemory
<1> QED
  BY <1>3, CopyFits

LEMMA SysReadType ==
    ASSUME MailInv, NEW fd \in Nat, NEW size \in Nat, NEW r, r = sys_read(fd, size)
    PROVE  r \in Results /\ r.ret \in Int /\ r.ret <= size /\ r.ret <= ReadMax
<1>1. CASE r = Fail
  BY <1>1, MessageSizes DEF Fail, Results
<1>2. CASE r # Fail
  <2>1. vol.mounted /\ r = mesafs_read(vol, fd, MinOf(size, ReadMax), 0)
    BY <1>2 DEF sys_read
  <2>2. vol \in Volumes
    BY <2>1 DEF MailInv, NoVolume
  <2>3. PICK m \in Nat : m = MinOf(size, ReadMax) /\ m <= size /\ m <= ReadMax
    BY MessageSizes DEF MinOf
  <2>4. r \in Results /\ r.ret <= m
    BY <2>1, <2>2, <2>3, ReadType
  <2>5. r.ret \in Int
    BY <2>4, ResultFields
  <2> QED
    BY <2>3, <2>4, <2>5, MessageSizes
<1> QED
  BY <1>1, <1>2

LEMMA FileCallsInv ==
    ASSUME MailInv, AppFileCalls
    PROVE  \A c \in copies' : InBounds(c)
<1>1. PICK ptr \in Pointers, size \in Sizes :
         LET w == MinOf(size, WriteMax)
             got(r) == IF r.ret >= 0 /\ validate_user_pointer(ptr, r.ret)
                       THEN {Copy(ptr, r.ret, ReadMax)} ELSE {}
             dir == sys_readdir(<<Slash>>, size)
         IN  \/ copies' = IF validate_user_pointer(ptr, w) THEN {Copy(ptr, w, WriteMax)} ELSE {}
             \/ copies' = IF validate_user_pointer(ptr, PathMax)
                          THEN {Copy(ptr, PathMax - 1, PathMax)} ELSE {}
             \/ \E fd \in 1..4 : copies' = got(sys_read(fd, size))
             \/ copies' = IF validate_user_pointer(ptr, size) /\ dir.ret >= 0 /\ size > 0
                          THEN {Copy(ptr, dir.ret + 1, size)} ELSE {}
  BY DEF AppFileCalls
<1>2. ptr \in Addr /\ size \in Addr /\ size \in Nat
  BY MessageSizes
<1>3. PICK w \in Nat : w = MinOf(size, WriteMax) /\ w <= size /\ w <= WriteMax
  BY <1>2, MessageSizes DEF MinOf
<1>4. PICK dir : dir = sys_readdir(<<Slash>>, size)
  OBVIOUS
<1>5. CASE copies' = IF validate_user_pointer(ptr, w) THEN {Copy(ptr, w, WriteMax)} ELSE {}
  <2>1. w \in Addr
    BY <1>2, <1>3, MessageSizes DEF Addr
  <2>2. validate_user_pointer(ptr, w) => InBounds(Copy(ptr, w, WriteMax))
    BY <1>2, <1>3, <2>1, AcceptedRangesAreUserMemory, CopyFits
  <2> QED
    BY <1>5, <2>2
<1>6. CASE copies' = IF validate_user_pointer(ptr, PathMax) THEN {Copy(ptr, PathMax - 1, PathMax)} ELSE {}
  <2>1. PathMax - 1 \in Nat /\ PathMax - 1 <= PathMax /\ PathMax \in Addr
    BY MessageSizes
  <2>2. validate_user_pointer(ptr, PathMax) => InBounds(Copy(ptr, PathMax - 1, PathMax))
    BY <1>2, <2>1, AcceptedPart, CopyFits
  <2> QED
    BY <1>6, <2>2
<1>7. ASSUME NEW fd \in 1..4, NEW r, r = sys_read(fd, size),
             copies' = IF r.ret >= 0 /\ validate_user_pointer(ptr, r.ret)
                       THEN {Copy(ptr, r.ret, ReadMax)} ELSE {}
      PROVE  \A c \in copies' : InBounds(c)
  <2>1. r.ret \in Int /\ r.ret <= size /\ r.ret <= ReadMax /\ ReadMax \in Nat
    BY <1>2, <1>7, SysReadType, MessageSizes
  <2> QED
    BY <1>2, <1>7, <2>1, FileCopies
<1>8. CASE copies' = IF validate_user_pointer(ptr, size) /\ dir.ret >= 0 /\ size > 0
                     THEN {Copy(ptr, dir.ret + 1, size)} ELSE {}
  <2>1. SUFFICES ASSUME validate_user_pointer(ptr, size), dir.ret >= 0, size > 0
                 PROVE  InBounds(Copy(ptr, dir.ret + 1, size))
    BY <1>8
  <2>2. dir # Fail
    BY <2>1 DEF Fail
  <2>3. vol.mounted
    BY <1>4, <2>2 DEF sys_readdir, sys_open
  <2>4. vol \in Volumes
    BY <2>3 DEF MailInv, NoVolume
  <2>5. dir.ret \in Int /\ dir.ret + 1 <= size
    BY <1>2, <1>4, <2>1, <2>4, ListingFits
  <2>6. dir.ret + 1 \in Nat
    BY <2>1, <2>5
  <2>7. InUserSpace(ptr, dir.ret + 1)
    BY <1>2, <2>1, <2>5, <2>6, AcceptedPart
  <2> QED
    BY <2>5, <2>7, CopyFits
<1>9. CASE \E fd \in 1..4 : copies' = IF sys_read(fd, size).ret >= 0
                                         /\ validate_user_pointer(ptr, sys_read(fd, size).ret)
                                      THEN {Copy(ptr, sys_read(fd, size).ret, ReadMax)} ELSE {}
  BY <1>7, <1>9
<1> QED
  BY <1>1, <1>3, <1>4, <1>5, <1>6, <1>8, <1>9

LEMMA MailInit == ASSUME Init PROVE MailInv
<1>1. mailbox \in [Pids -> Queues]
  <2>1. <<>> \in Queues
    BY UserlandAssumption DEF Queues
  <2> QED
    BY <2>1 DEF Init
<1>2. server \in [from : Pids \cup {AnyPid}, n : 0..255, pc : {"receive", "show", "reply"}]
  BY DEF Init
<1>3. copies = {} /\ vol \in Volumes \cup {NoVolume}
  BY DEF Init
<1> QED
  BY <1>1, <1>2, <1>3 DEF MailInv

\* Steps of the shell and of sys_exec leave the messages alone.
LEMMA OthersKeepMail ==
    ASSUME MailInv, UNCHANGED <<vol, mailbox, server, copies>>
    PROVE  MailInv'
BY DEF MailInv

LEMMA DeliveredInv ==
    ASSUME MailInv, Delivered, UNCHANGED <<vol, server>>
    PROVE  MailInv'
BY DEF MailInv, Delivered

LEMMA ServerReceivesInv == ASSUME MailInv, ServerReceives PROVE MailInv'
<1>1. PICK r : r = Received(ServerPid, server.from, StackBuf, StackBuf, 255)
  OBVIOUS
<1>2. ServerPid \in Pids /\ 255 \in Addr /\ StackBuf \in Addr
  BY StackBufType, MessageSizes DEF ServerPid, Pids
<1>3. r.n \in 0..IpcMax /\ r.n <= 255 /\ r.from \in Pids \cup {AnyPid}
  BY <1>1, <1>2, ReceivedFits
<1>4. Delivered
  BY <1>2, ReceiveDelivers DEF ServerReceives
<1>5. /\ vol' = vol
      /\ server' = IF r.n > 0 THEN [from |-> r.from, n |-> r.n, pc |-> "show"] ELSE server
  BY <1>1 DEF ServerReceives, MessageVars
<1>6. server' \in [from : Pids \cup {AnyPid}, n : 0..255, pc : {"receive", "show", "reply"}]
  <2>1. CASE r.n > 0
    <3>1. r.n \in 0..255
      BY <1>3, MessageSizes
    <3>2. server' = [from |-> r.from, n |-> r.n, pc |-> "show"]
      BY <1>5, <2>1
    <3> QED
      BY <1>3, <3>1, <3>2
  <2>2. CASE ~(r.n > 0)
    BY <1>5, <2>2 DEF MailInv
  <2> QED
    BY <2>1, <2>2
<1> QED
  BY <1>4, <1>5, <1>6 DEF MailInv, Delivered

LEMMA ServerShowsInv == ASSUME MailInv, ServerShows PROVE MailInv'
<1>1. server.n \in 0..255
  BY DEF MailInv
<1>2. PICK n : n = ResponseLen(server.n) + 1
  OBVIOUS
<1>3. n \in 0..256
  BY <1>1, <1>2 DEF ResponseLen, MinOf
<1>4. copies' = {Copy(StackBuf, n, 256)}
  BY <1>2 DEF ServerShows
<1>5. InBounds(Copy(StackBuf, n, 256))
  BY <1>3, StackBufType, CopyFits
<1>6. UNCHANGED <<vol, mailbox>> /\ server' = [server EXCEPT !.pc = "reply", !.n = 0]
  BY DEF ServerShows, MessageVars
<1>7. server' \in [from : Pids \cup {AnyPid}, n : 0..255, pc : {"receive", "show", "reply"}]
  <2>1. server \in [from : Pids \cup {AnyPid}, n : 0..255, pc : {"receive", "show", "reply"}]
    BY DEF MailInv
  <2>2. 0 \in 0..255 /\ "reply" \in {"receive", "show", "reply"}
    OBVIOUS
  <2> QED
    BY <1>6, <2>1, <2>2
<1> QED
  BY <1>4, <1>5, <1>6, <1>7 DEF MailInv

LEMMA ServerRepliesInv == ASSUME MailInv, ServerReplies PROVE MailInv'
<1>1. ServerPid \in Pids /\ 3 \in Addr /\ StackBuf \in Addr
  BY StackBufType, MessageSizes DEF ServerPid, Pids
<1>2. Delivered
  BY <1>1, SendDelivers DEF ServerReplies
<1>3. /\ UNCHANGED vol
      /\ server' \in [from : Pids \cup {AnyPid}, n : 0..255, pc : {"receive", "show", "reply"}]
  BY DEF ServerReplies, MessageVars, MailInv
<1> QED
  BY <1>2, <1>3 DEF MailInv, Delivered

\* Every step keeps the mailboxes and the copies in bounds.
LEMMA MailStep == ASSUME MailInv, [Next]_vars PROVE MailInv'
<1>1. CASE Shell
  BY <1>1, OthersKeepMail DEF Shell, Prompt, ShellPrints, Command, Ls, CatOpen, CatRead, CatShow,
                              CatClose, ShellVars
<1>2. CASE Exec
  <2>1. ExecFinds => UNCHANGED ExecVars
    BY DEF ExecFinds
  <2>2. ExecReads => UNCHANGED ExecVars
    BY DEF ExecReads
  <2>3. ExecLoads => UNCHANGED ExecVars
    BY DEF ExecLoads
  <2>4. ExecExits => UNCHANGED ExecVars
    BY DEF ExecExits
  <2> QED
    BY <1>2, <2>1, <2>2, <2>3, <2>4, OthersKeepMail DEF Exec, ExecVars
<1>3. CASE AppFileCalls
  <2>1. UNCHANGED <<vol, mailbox, server>>
    BY <1>3 DEF AppFileCalls, MessageVars
  <2> QED
    BY <1>3, <2>1, FileCallsInv DEF MailInv
<1>4. CASE ClientSends
  <2>1. PICK digits \in HelloDigits : sys_ipc_send(ClientPid, 1, StackBuf, 7 + digits)
    BY <1>4 DEF ClientSends
  <2>2. ClientPid \in Pids /\ 7 + digits \in Addr /\ StackBuf \in Addr
    <3>1. digits \in 1..10
      BY UserlandAssumption
    <3>2. 7 + digits \in Nat /\ 7 + digits < 512
      BY <3>1
    <3> QED
      BY <3>2, StackBufType, MessageSizes DEF ClientPid, Pids
  <2>3. Delivered
    BY <2>1, <2>2, SendDelivers
  <2> QED
    BY <1>4, <2>3, DeliveredInv DEF ClientSends, MessageVars
<1>5. CASE ServerReceives
  BY <1>5, ServerReceivesInv
<1>6. CASE ServerShows
  BY <1>6, ServerShowsInv
<1>7. CASE ServerReplies
  BY <1>7, ServerRepliesInv
<1>8. CASE AppSends
  <2>1. PICK to \in {ServerPid, AppPid}, ptr \in Pointers, size \in Sizes : sys_ipc_send(AppPid, to, ptr, size)
    BY <1>8 DEF AppSends
  <2>2. AppPid \in Pids /\ ptr \in Addr /\ size \in Addr
    BY MessageSizes DEF AppPid, Pids
  <2>3. Delivered
    BY <2>1, <2>2, SendDelivers
  <2> QED
    BY <1>8, <2>3, DeliveredInv DEF AppSends, MessageVars
<1>9. CASE AppReceives
  <2>0. PICK ptr \in Pointers, max \in Sizes : \E fromPtr \in {0, ptr} :
           sys_ipc_receive(AppPid, AnyPid, fromPtr, ptr, max)
    BY <1>9 DEF AppReceives
  <2>1. PICK fromPtr \in {0, ptr} : sys_ipc_receive(AppPid, AnyPid, fromPtr, ptr, max)
    BY <2>0
  <2>2. AppPid \in Pids /\ ptr \in Addr /\ max \in Addr /\ fromPtr \in Addr
    BY <2>1, MessageSizes DEF AppPid, Pids
  <2>3. Delivered
    BY <2>1, <2>2, ReceiveDelivers
  <2> QED
    BY <1>9, <2>3, DeliveredInv DEF AppReceives, MessageVars
<1>10. CASE AppCalls
  <2>1. PICK ptr \in Pointers, size \in Sizes, max \in Sizes :
           sys_ipc_call(AppPid, ServerPid, StackBuf, size, ptr, max)
    BY <1>10 DEF AppCalls
  <2>2. AppPid \in Pids /\ ptr \in Addr /\ size \in Addr /\ max \in Addr /\ StackBuf \in Addr
    BY StackBufType, MessageSizes DEF AppPid, Pids
  <2>3. Delivered
    BY <2>1, <2>2, CallDelivers
  <2> QED
    BY <1>10, <2>3, DeliveredInv DEF AppCalls, MessageVars
<1>11. CASE UNCHANGED vars
  BY <1>11, OthersKeepMail DEF vars
<1> QED
  BY <1>1, <1>2, <1>3, <1>4, <1>5, <1>6, <1>7, <1>8, <1>9, <1>10, <1>11 DEF Next, Messages

\* No copy of a system call leaves user memory or overruns the kernel's buffer
\* (syscall.c:277, uaccess.c:24), whatever programs pass and whatever stands
\* on the disk.
THEOREM CopiesAreInBounds == Spec => []CopiesStayInBounds
<1>1. Init => MailInv
  BY MailInit
<1>2. MailInv /\ [Next]_vars => MailInv'
  BY MailStep
<1>3. MailInv => CopiesStayInBounds
  BY DEF MailInv, InBounds, CopiesStayInBounds
<1> QED
  BY <1>1, <1>2, <1>3, PTL DEF Spec

-----------------------------------------------------------------------------
(* Division *)

LEMMA DivMod ==
    ASSUME NEW v \in Nat, NEW a \in Nat, a > 0
    PROVE  v \div a \in Nat /\ v % a \in 0..(a - 1) /\ v = a * (v \div a) + (v % a)
<1>1. v \div a \in Nat /\ v % a \in 0..(a - 1)
  OBVIOUS
<1>2. v % a = v - a * (v \div a)
  OBVIOUS
<1>3. PICK x \in Int : x = a * (v \div a)
  BY <1>1
<1> QED
  BY <1>1, <1>2, <1>3

LEMMA Times ==
    ASSUME NEW a \in Nat, NEW m \in Nat, NEW n \in Nat, m <= n
    PROVE  a * m <= a * n /\ a * m \in Nat
OBVIOUS

\* A quotient is known from the multiples around the number.
LEMMA Quotient ==
    ASSUME NEW v \in Nat, NEW a \in Nat, a > 0, NEW p \in Nat,
           a * p <= v, v < a * (p + 1)
    PROVE  v \div a = p
<1>1. PICK q \in Nat, r \in 0..(a - 1) : q = v \div a /\ v = a * q + r
  BY DivMod
<1>2. q <= p
  <2>1. SUFFICES ASSUME p + 1 <= q PROVE FALSE
    OBVIOUS
  <2>2. PICK x \in Nat, y \in Nat : x = a * (p + 1) /\ y = a * q
    BY Times
  <2> QED
    BY <1>1, <2>1, <2>2, Times
<1>3. p <= q
  <2>1. SUFFICES ASSUME q + 1 <= p PROVE FALSE
    OBVIOUS
  <2>2. PICK x \in Nat, y \in Nat : x = a * p /\ y = a * q
    BY Times
  <2>3. a * (q + 1) = y + a /\ a * (q + 1) <= x
    BY <2>1, <2>2, Times
  <2> QED
    BY <1>1, <2>2, <2>3
<1> QED
  BY <1>1, <1>2, <1>3

\* An upper and a lower bound of a quotient.
LEMMA DivGrows ==
    ASSUME NEW v \in Nat, NEW w \in Nat, NEW a \in Nat, a > 0, NEW d \in {0, 1}, v + a * d <= w
    PROVE  v \div a + d <= w \div a
<1>1. PICK q \in Nat, r \in 0..(a - 1) : q = v \div a /\ v = a * q + r
  BY DivMod
<1>2. PICK p \in Nat, s \in 0..(a - 1) : p = w \div a /\ w = a * p + s
  BY DivMod
<1>3. SUFFICES ASSUME p + 1 <= q + d PROVE FALSE
  BY <1>1, <1>2
<1>4. PICK x \in Nat, y \in Nat : x = a * q /\ y = a * p
  BY Times
<1>5. a * (p + 1) = y + a /\ a * (q + d) = x + a * d
  BY <1>4
<1>6. a * (p + 1) <= a * (q + d)
  BY <1>3, Times
<1> QED
  BY <1>1, <1>2, <1>4, <1>5, <1>6

-----------------------------------------------------------------------------
(* Pages of a segment *)

LEMMA PageDownIs ==
    ASSUME NEW a \in Nat
    PROVE  /\ a \div PageSize \in Nat /\ PageDown(a) = PageSize * (a \div PageSize)
           /\ PageDown(a) \in Nat /\ PageDown(a) <= a
<1>1. PageSize \in Nat /\ PageSize > 0
  BY ElfAssumption
<1>2. a \div PageSize \in Nat /\ a % PageSize \in 0..(PageSize - 1)
      /\ a = PageSize * (a \div PageSize) + (a % PageSize)
  BY <1>1, DivMod
<1>3. PICK x \in Nat : x = PageSize * (a \div PageSize)
  BY <1>1, <1>2, Times
<1> QED
  BY <1>1, <1>2, <1>3 DEF PageDown

\* The fields of a program header are addresses.
LEMMA SegmentFields ==
    ASSUME NEW ph \in Segments
    PROVE  /\ PageSize \in Nat /\ PageSize > 0 /\ AddrSpace \in Nat /\ AddrSpace > 0
           /\ ph.vaddr \in Nat /\ ph.memsz \in Nat /\ ph.filesz \in Nat /\ ph.offset \in Nat
BY ElfAssumption, AddressAssumption DEF Segments, Addr

LEMMA NoWrap ==
    ASSUME NEW v \in Nat, v < AddrSpace
    PROVE  v % AddrSpace = v
BY AddressAssumption

\* The pages of a segment, numbered from the one its first byte is on.
LEMMA PagesAre ==
    ASSUME NEW ph \in Segments,
           NEW s, s = ph.vaddr \div PageSize,
           NEW e, e = ((ph.vaddr + ph.memsz + PageSize - 1) % AddrSpace) \div PageSize
    PROVE  /\ s \in Nat /\ e \in Nat
           /\ s < e => Pages(ph) = [k \in 1..(e - s) |-> PageSize * s + (k - 1) * PageSize]
           /\ s >= e => Pages(ph) = <<>>
<1>1. PageSize \in Nat /\ PageSize > 0 /\ ph.vaddr \in Nat /\ ph.memsz \in Nat
  BY SegmentFields
<1>2. PICK w \in Nat : w = (ph.vaddr + ph.memsz + PageSize - 1) % AddrSpace
  <2>1. ph.vaddr + ph.memsz + PageSize - 1 \in Nat
    BY <1>1
  <2> QED
    BY <2>1, SegmentFields, DivMod
<1>3. s \in Nat /\ e \in Nat
  BY <1>1, <1>2, PageDownIs
<1>5. StartPage(ph) = PageSize * s /\ EndPage(ph) = PageSize * e
  BY <1>1, <1>2, PageDownIs DEF StartPage, EndPage
<1>6. CASE s < e
  <2>1. PICK n \in Nat : n = e - s /\ n > 0
    BY <1>3, <1>6
  <2>2. EndPage(ph) - StartPage(ph) = PageSize * n /\ StartPage(ph) < EndPage(ph)
    <3>1. PICK x \in Nat, y \in Nat, z \in Nat : x = PageSize * s /\ y = PageSize * n /\ z = PageSize * e
      BY <1>1, <1>3, <2>1, Times
    <3>2. z = x + y
      BY <1>1, <1>3, <2>1, <3>1
    <3>3. y > 0
      BY <1>1, <2>1, <3>1
    <3> QED
      BY <1>5, <3>1, <3>2, <3>3
  <2>3. PICK v \in Nat : v = PageSize * n
    BY <1>1, <2>1, Times
  <2>4. PageSize * n <= v /\ v < PageSize * (n + 1)
    BY <1>1, <2>1, <2>3
  <2>5. v \div PageSize = n
    BY <1>1, <2>1, <2>4, Quotient
  <2>6. (EndPage(ph) - StartPage(ph)) \div PageSize = e - s /\ ~(StartPage(ph) >= EndPage(ph))
    <3>1. PICK x \in Nat, z \in Nat : x = StartPage(ph) /\ z = EndPage(ph)
      BY <1>1, <1>3, <1>5, Times
    <3> QED
      BY <2>1, <2>2, <2>3, <2>5, <3>1
  <2> QED
    BY <1>3, <1>5, <1>6, <2>6 DEF Pages
<1>7. CASE s >= e
  <2>1. PageSize * e <= PageSize * s
    BY <1>1, <1>3, <1>7, Times
  <2>2. StartPage(ph) >= EndPage(ph)
    BY <1>5, <2>1
  <2> QED
    BY <1>3, <1>7, <2>2 DEF Pages
<1> QED
  BY <1>3, <1>6, <1>7

LEMMA PagesType ==
    ASSUME NEW ph \in Segments
    PROVE  /\ Pages(ph) \in [1..Len(Pages(ph)) -> Nat] /\ Len(Pages(ph)) \in Nat
<1>1. PICK s : s = ph.vaddr \div PageSize
  OBVIOUS
<1>2. PICK e : e = ((ph.vaddr + ph.memsz + PageSize - 1) % AddrSpace) \div PageSize
  OBVIOUS
<1>3. /\ s \in Nat /\ e \in Nat
      /\ s < e => Pages(ph) = [k \in 1..(e - s) |-> PageSize * s + (k - 1) * PageSize]
      /\ s >= e => Pages(ph) = <<>>
  BY <1>1, <1>2, PagesAre
<1>4. CASE s < e
  <2>1. PICK n \in Nat : n = e - s
    BY <1>3, <1>4
  <2>2. ASSUME NEW k \in 1..n PROVE PageSize * s + (k - 1) * PageSize \in Nat
    <3>1. PageSize \in Nat /\ k - 1 \in Nat
      BY ElfAssumption
    <3>2. PageSize * s \in Nat /\ (k - 1) * PageSize \in Nat
      BY <1>3, <3>1
    <3> QED
      BY <3>2
  <2>3. Pages(ph) \in [1..n -> Nat]
    BY <1>3, <1>4, <2>1, <2>2
  <2>4. Pages(ph) \in Seq(Nat) /\ Len(Pages(ph)) = n
    BY <2>3
  <2> QED
    BY <2>3, <2>4
<1>5. CASE s >= e
  <2>1. Pages(ph) = <<>>
    BY <1>3, <1>5
  <2>2. <<>> \in Seq(Nat) /\ Len(<<>>) = 0
    OBVIOUS
  <2>3. <<>> \in [1..Len(<<>>) -> Nat]
    BY <2>2, LenProperties
  <2> QED
    BY <2>1, <2>2, <2>3
<1> QED
  BY <1>3, <1>4, <1>5

\* Every byte of a segment is on one of its pages, if its end is an address.
LEMMA SegmentOnPages ==
    ASSUME NEW ph \in Segments, ph.vaddr + ph.memsz + PageSize - 1 < AddrSpace,
           NEW k \in 0..(ph.memsz - 1)
    PROVE  PageDown(ph.vaddr + k) \in PagesOf(ph)
<1>1. PageSize \in Nat /\ PageSize > 0 /\ ph.vaddr \in Nat /\ ph.memsz \in Nat
  BY SegmentFields
<1>2. PICK s : s = ph.vaddr \div PageSize
  OBVIOUS
<1>3. PICK w \in Nat : w = ph.vaddr + ph.memsz + PageSize - 1 /\ w % AddrSpace = w
  BY <1>1, NoWrap
<1>4. PICK e : e = w \div PageSize
  OBVIOUS
<1>5. /\ s \in Nat /\ e \in Nat
      /\ s < e => Pages(ph) = [l \in 1..(e - s) |-> PageSize * s + (l - 1) * PageSize]
  BY <1>2, <1>3, <1>4, PagesAre
<1>6. PICK a \in Nat : a = ph.vaddr + k
  BY <1>1
<1>7. PICK t \in Nat : t = a \div PageSize
  BY PageDownIs
<1>8. s <= t
  <2>1. ph.vaddr + PageSize * 0 <= a
    BY <1>1, <1>6
  <2>2. ph.vaddr \div PageSize + 0 <= a \div PageSize
    BY <1>1, <2>1, DivGrows
  <2> QED
    BY <1>2, <1>5, <1>7, <2>2
<1>9. t + 1 <= e
  <2>1. a + PageSize * 1 <= w
    BY <1>1, <1>3, <1>6
  <2>2. a \div PageSize + 1 <= w \div PageSize
    BY <1>1, <2>1, DivGrows
  <2> QED
    BY <1>4, <1>7, <2>2
<1>10. PICK l : l = t - s + 1
  OBVIOUS
<1>11. l \in 1..(e - s) /\ l - 1 \in Nat /\ t = s + (l - 1) /\ s < e
  BY <1>5, <1>8, <1>9, <1>10
<1>12. Pages(ph)[l] = PageSize * t /\ l \in DOMAIN Pages(ph)
  <2>1. PageSize * t = PageSize * s + (l - 1) * PageSize
    BY <1>1, <1>5, <1>11
  <2> QED
    BY <1>5, <1>11, <2>1
<1>13. PageDown(a) = PageSize * t
  BY <1>7, PageDownIs
<1> QED
  BY <1>6, <1>12, <1>13 DEF PagesOf

-----------------------------------------------------------------------------
(* Loading a program *)

\* The states of the loader, with memory bytes from V.
LoadStates(V) == [ok : BOOLEAN, mem : [LoadAddr -> V], frames : 0..MaxFrames]

\* The bytes that loading a segment may write.
Covers(V, ph, data) == \A page \in Nat, a \in LoadAddr : PageByte(ph, data, page, a) \in V

\* The effect of one round.
PageLoaded(ph, data, m, r, page) ==
    r.ok => /\ m.ok
            /\ \A a \in LoadAddr : r.mem[a] = IF PageDown(a) = page
                                              THEN PageByte(ph, data, page, a) ELSE m.mem[a]

LEMMA LoadPageIs ==
    ASSUME NEW V, NEW ph, NEW data, Covers(V, ph, data), NEW m \in LoadStates(V), NEW page \in Nat,
           NEW r, r = LoadPage(ph, data, m, page)
    PROVE  r \in LoadStates(V) /\ PageLoaded(ph, data, m, r, page)
<1>1. m.ok \in BOOLEAN /\ m.frames \in 0..MaxFrames /\ MaxFrames \in Nat /\ m.mem \in [LoadAddr -> V]
  BY UserlandAssumption DEF LoadStates
<1>2. CASE ~m.ok \/ m.frames = 0
  <2>1. r = [m EXCEPT !.ok = FALSE]
    BY <1>2 DEF LoadPage
  <2> QED
    BY <2>1 DEF LoadStates, PageLoaded
<1>3. CASE ~(~m.ok \/ m.frames = 0)
  <2>1. PICK g : g = [a \in LoadAddr |-> IF PageDown(a) = page THEN PageByte(ph, data, page, a) ELSE m.mem[a]]
    OBVIOUS
  <2>2. g \in [LoadAddr -> V]
    BY <1>1, <2>1 DEF Covers
  <2>3. r = [ok |-> TRUE, frames |-> m.frames - 1, mem |-> g]
    BY <1>1, <1>3, <2>1 DEF LoadPage
  <2>4. m.frames - 1 \in 0..MaxFrames
    BY <1>1, <1>3
  <2>5. r \in LoadStates(V)
    BY <2>2, <2>3, <2>4 DEF LoadStates
  <2>6. r.mem = g
    BY <2>3
  <2> QED
    BY <1>3, <2>1, <2>5, <2>6 DEF PageLoaded
<1> QED
  BY <1>2, <1>3

IsPageLoop(f, ph, data, m) ==
    f = [k \in 0..Len(Pages(ph)) |-> IF k = 0 THEN m ELSE LoadPage(ph, data, f[k - 1], Pages(ph)[k])]

LEMMA PageLoopExists ==
    ASSUME NEW V, NEW ph \in Segments, NEW data, Covers(V, ph, data), NEW m \in LoadStates(V)
    PROVE  \E f : IsPageLoop(f, ph, data, m)
<1>1. PICK n \in Nat : n = Len(Pages(ph))
  BY PagesType
<1>2. PICK S : S = LoadStates(V)
  OBVIOUS
<1>3. PICK pages : pages = Pages(ph)
  OBVIOUS
<1>4. PICK g : g = [k \in 1..n |-> [x \in S |-> LoadPage(ph, data, x, pages[k])]]
  OBVIOUS
<1>5. g \in [1..n -> [S -> S]] /\ m \in S
  <2>1. ASSUME NEW k \in 1..n, NEW x \in S PROVE LoadPage(ph, data, x, pages[k]) \in S
    <3>1. pages[k] \in Nat
      BY <1>1, <1>3, PagesType
    <3> QED
      BY <1>2, <3>1, LoadPageIs
  <2> QED
    BY <1>2, <1>4, <2>1
<1>6. PICK f : IsLoop(f, n, S, m, g)
  BY <1>5, LoopExists
<1>7. f \in [0..n -> S] /\ f[0] = m
  BY <1>6 DEF IsLoop
<1>8. ASSUME NEW k \in 1..n PROVE f[k] = LoadPage(ph, data, f[k - 1], pages[k])
  <2>1. f[k - 1] \in S /\ f[k] = g[k][f[k - 1]]
    BY <1>6, <1>7 DEF IsLoop
  <2> QED
    BY <1>4, <2>1
<1>9. f = [k \in 0..n |-> IF k = 0 THEN m ELSE LoadPage(ph, data, f[k - 1], pages[k])]
  <2>1. \A k \in 0..n : f[k] = IF k = 0 THEN m ELSE LoadPage(ph, data, f[k - 1], pages[k])
    BY <1>7, <1>8
  <2> QED
    BY <1>7, <2>1
<1> QED
  BY <1>1, <1>3, <1>9 DEF IsPageLoop

\* After k pages: those hold their part of the segment, the rest is as it was.
PagesLoaded(ph, data, m, r, k) ==
    r.ok => /\ m.ok
            /\ \A a \in LoadAddr :
                  r.mem[a] = IF \E l \in 1..k : Pages(ph)[l] = PageDown(a)
                             THEN PageByte(ph, data, PageDown(a), a) ELSE m.mem[a]

LEMMA NextPageLoaded ==
    ASSUME NEW V, NEW ph \in Segments, NEW data, Covers(V, ph, data), NEW m, NEW x \in LoadStates(V),
           NEW k \in 1..Len(Pages(ph)), PagesLoaded(ph, data, m, x, k - 1),
           NEW r, r = LoadPage(ph, data, x, Pages(ph)[k])
    PROVE  r \in LoadStates(V) /\ PagesLoaded(ph, data, m, r, k)
<1>1. PICK page : page = Pages(ph)[k]
  OBVIOUS
<1>2. page \in Nat /\ Len(Pages(ph)) \in Nat
  BY <1>1, PagesType
<1>3. /\ r \in LoadStates(V)
      /\ r.ok => /\ x.ok
                 /\ \A a \in LoadAddr : r.mem[a] = IF PageDown(a) = page
                                                   THEN PageByte(ph, data, page, a) ELSE x.mem[a]
  <2>1. r = LoadPage(ph, data, x, page)
    BY <1>1
  <2> QED
    <3>1. r \in LoadStates(V) /\ PageLoaded(ph, data, x, r, page)
      BY <1>2, <2>1, LoadPageIs
    <3> QED
      BY <3>1 DEF PageLoaded
<1>4. ASSUME r.ok
      PROVE  /\ m.ok
             /\ \A a \in LoadAddr :
                  r.mem[a] = IF \E l \in 1..k : Pages(ph)[l] = PageDown(a)
                             THEN PageByte(ph, data, PageDown(a), a) ELSE m.mem[a]
  <2>1. m.ok
    BY <1>3, <1>4 DEF PagesLoaded
  <2>2. ASSUME NEW a \in LoadAddr
        PROVE  r.mem[a] = IF \E l \in 1..k : Pages(ph)[l] = PageDown(a)
                          THEN PageByte(ph, data, PageDown(a), a) ELSE m.mem[a]
    <3>1. r.mem[a] = IF PageDown(a) = page THEN PageByte(ph, data, page, a) ELSE x.mem[a]
      BY <1>3, <1>4
    <3>2. x.mem[a] = IF \E l \in 1..(k - 1) : Pages(ph)[l] = PageDown(a)
                     THEN PageByte(ph, data, PageDown(a), a) ELSE m.mem[a]
      BY <1>3, <1>4 DEF PagesLoaded
    <3>3. CASE PageDown(a) = page
      <4>1. \E l \in 1..k : Pages(ph)[l] = PageDown(a)
        BY <1>1, <1>2, <3>3
      <4> QED
        BY <3>1, <3>3, <4>1
    <3>4. CASE PageDown(a) # page
      <4>1. (\E l \in 1..k : Pages(ph)[l] = PageDown(a)) <=> (\E l \in 1..(k - 1) : Pages(ph)[l] = PageDown(a))
        <5>1. \A l \in 1..k : l = k \/ l \in 1..(k - 1)
          BY <1>2
        <5>2. \A l \in 1..(k - 1) : l \in 1..k
          BY <1>2
        <5> QED
          BY <1>1, <3>4, <5>1, <5>2
      <4> QED
        BY <3>1, <3>2, <3>4, <4>1
    <3> QED
      BY <3>3, <3>4
  <2> QED
    BY <2>1, <2>2
<1> QED
  BY <1>3, <1>4 DEF PagesLoaded

\* A segment that was loaded has its pages filled; nothing else has changed.
SegmentLoaded(ph, data, m, r) ==
    r.ok => /\ m.ok
            /\ \A a \in LoadAddr :
                  r.mem[a] = IF ph.type = "LOAD" /\ PageDown(a) \in PagesOf(ph)
                             THEN PageByte(ph, data, PageDown(a), a) ELSE m.mem[a]

LEMMA LoadSegmentIs ==
    ASSUME NEW V, NEW ph \in Segments, NEW data, Covers(V, ph, data), NEW m \in LoadStates(V),
           NEW r, r = LoadSegment(ph, data, m)
    PROVE  r \in LoadStates(V) /\ SegmentLoaded(ph, data, m, r)
<1>1. CASE ph.type # "LOAD"
  BY <1>1 DEF LoadSegment, SegmentLoaded
<1>2. CASE ph.type = "LOAD"
  <2>1. PICK n \in Nat : n = Len(Pages(ph))
    BY PagesType
  <2>2. PICK f : f = CHOOSE ff : IsPageLoop(ff, ph, data, m)
    OBVIOUS
  <2>3. IsPageLoop(f, ph, data, m)
    BY <2>2, PageLoopExists
  <2>4. r = f[n]
    BY <1>2, <2>1, <2>2 DEF LoadSegment, IsPageLoop
  <2>5. f = [k \in 0..n |-> IF k = 0 THEN m ELSE LoadPage(ph, data, f[k - 1], Pages(ph)[k])]
    BY <2>1, <2>3 DEF IsPageLoop
  <2>6. f[0] = m /\ \A k \in 1..n : f[k] = LoadPage(ph, data, f[k - 1], Pages(ph)[k])
    BY <2>5
  <2> DEFINE P == {k \in 0..n : f[k] \in LoadStates(V) /\ PagesLoaded(ph, data, m, f[k], k)}
  <2>7. 0 \in P
    BY <2>6 DEF PagesLoaded
  <2>8. ASSUME NEW k \in 1..n, k - 1 \in P PROVE k \in P
    <3>1. f[k - 1] \in LoadStates(V) /\ PagesLoaded(ph, data, m, f[k - 1], k - 1)
      BY <2>8
    <3>2. f[k] \in LoadStates(V) /\ PagesLoaded(ph, data, m, f[k], k)
      BY <2>1, <2>6, <3>1, NextPageLoaded
    <3> QED
      BY <3>2
  <2>9. \A k \in 0..n : k \in P
    <3> HIDE DEF P
    <3> QED
      BY <2>7, <2>8, Rounds
  <2>10. r \in LoadStates(V) /\ PagesLoaded(ph, data, m, r, n)
    BY <2>4, <2>9
  <2>11. ASSUME NEW a
         PROVE  (PageDown(a) \in PagesOf(ph)) <=> (\E l \in 1..n : Pages(ph)[l] = PageDown(a))
    <3>1. DOMAIN Pages(ph) = 1..n
      BY <2>1, PagesType
    <3> QED
      BY <3>1 DEF PagesOf
  <2> QED
    BY <1>2, <2>10, <2>11 DEF PagesLoaded, SegmentLoaded
<1> QED
  BY <1>1, <1>2

\* Where byte k of a segment at v is on its page, and no sum wraps around.
LEMMA ByteOnPage ==
    ASSUME NEW v \in Nat, NEW m \in Nat, NEW f \in Nat, NEW k \in Nat, NEW page \in Nat,
           NEW size \in Nat, NEW space \in Nat, v <= page, page <= v + k, v + k < page + size,
           k < m, f <= m, v + m + size - 1 < space
    PROVE  /\ page < v + m /\ (k < f => page < v + f)
           /\ v + f < space /\ v + m < space /\ v + f \in Nat /\ v + m \in Nat
           /\ (page - v) + size \in Nat /\ (page - v) + size < space
           /\ (v + k) - page < size /\ (v + k) - v = k
           /\ ((v + k) - page < f - (page - v)) <=> (k < f)
           /\ ((page - v) + size <= f) => k < f
OBVIOUS

\* The byte of a page that starts in the segment is what the header asks for.
LEMMA LoadedByte ==
    ASSUME NEW ph \in Segments, PageDown(ph.vaddr) = ph.vaddr, NEW data, IsSane(ph, data),
           NEW k \in 0..(ph.memsz - 1), NEW a, a = ph.vaddr + k, Len(data) \in Nat
    PROVE  PageByte(ph, data, PageDown(a), a) = IF k < ph.filesz THEN data[ph.offset + k + 1] ELSE ZERO
<1>1. PICK v \in Nat, m \in Nat, f \in Nat, o \in Nat :
          v = ph.vaddr /\ m = ph.memsz /\ f = ph.filesz /\ o = ph.offset
  BY SegmentFields
<1>2. PICK size \in Nat, space \in Nat : size = PageSize /\ space = AddrSpace /\ size > 0
  BY SegmentFields
<1>3. k \in Nat /\ k < m /\ a = v + k /\ a \in Nat
  BY <1>1
<1>4. f <= m /\ v + m + size - 1 < space /\ o + f <= Len(data)
  BY <1>1, <1>2 DEF IsSane
<1>5. PICK page \in Nat, r \in 0..(size - 1) : page = PageDown(a) /\ a = page + r
  <2>1. PICK r \in 0..(size - 1) : r = a % size
    BY <1>2, <1>3, DivMod
  <2>2. PageDown(a) = a - r /\ PageDown(a) \in Nat
    BY <1>2, <1>3, <2>1, PageDownIs DEF PageDown
  <2>3. PICK page \in Nat : page = PageDown(a)
    BY <2>2
  <2>4. page = a - r
    BY <2>2, <2>3
  <2>5. a = page + r
    BY ONLY <1>3, <2>4, r \in 0..(size - 1), size \in Nat, page \in Nat
  <2> QED
    BY <2>3, <2>5
<1>6. v <= page
  <2>1. PICK s \in Nat, t \in Nat : s = v \div size /\ t = a \div size
    BY <1>2, <1>3, DivMod
  <2>2. s <= t
    <3>1. v + size * 0 <= a
      BY <1>3
    <3>2. v \div size + 0 <= a \div size
      BY <1>2, <1>3, <3>1, DivGrows
    <3> QED
      BY <2>1, <3>2
  <2>3. size * s <= size * t
    BY <2>1, <2>2, Times
  <2>4. v = size * s /\ page = size * t
    BY <1>1, <1>2, <1>3, <1>5, <2>1, PageDownIs
  <2> QED
    BY <2>3, <2>4
<1>7. page <= v + k /\ v + k < page + size
  BY ONLY <1>3, <1>5, v \in Nat, k \in Nat, page \in Nat, size \in Nat, r \in 0..(size - 1)
<1>8. /\ page < v + m /\ (k < f => page < v + f)
      /\ v + f < space /\ v + m < space /\ v + f \in Nat /\ v + m \in Nat
      /\ (page - v) + size \in Nat /\ (page - v) + size < space
      /\ (v + k) - page < size /\ (v + k) - v = k
      /\ ((v + k) - page < f - (page - v)) <=> (k < f)
      /\ ((page - v) + size <= f) => k < f
  BY <1>3, <1>4, <1>6, <1>7, ByteOnPage
<1>9. Plus(v, f) = v + f /\ Plus(v, m) = v + m /\ Plus(page - v, size) = (page - v) + size
  <2>1. (v + f) % AddrSpace = v + f /\ (v + m) % AddrSpace = v + m
    BY <1>2, <1>8, NoWrap
  <2>2. ((page - v) + size) % AddrSpace = (page - v) + size
    BY <1>2, <1>8, NoWrap
  <2> QED
    BY <2>1, <2>2 DEF Plus
<1>10. CopySize(ph, page) = IF (page - v) + size > f THEN f - (page - v) ELSE size
  BY <1>1, <1>2, <1>9 DEF CopySize
<1>11. (a - page < CopySize(ph, page)) <=> (k < f)
  <2>1. CASE (page - v) + size > f
    BY <1>3, <1>8, <1>10, <2>1
  <2>2. CASE ~((page - v) + size > f)
    <3>1. (page - v) + size <= f
      BY <1>8, <2>2
    <3> QED
      BY <1>3, <1>8, <1>10, <2>2, <3>1
  <2> QED
    BY <2>1, <2>2
<1>12. PageByte(ph, data, page, a) =
           IF page >= v /\ page < v + f
           THEN IF a - page < CopySize(ph, page) THEN ImageByte(data, o + (a - v))
                ELSE IF m > f THEN ZERO ELSE STALE
           ELSE IF page < v + m THEN ZERO ELSE STALE
  BY <1>1, <1>9 DEF PageByte
<1>13. page >= v
  BY ONLY <1>6, v \in Nat, page \in Nat
<1>14. CASE k < f
  <2>1. ImageByte(data, o + (a - v)) = data[o + k + 1]
    <3>1. a - v = k
      BY <1>3, <1>8
    <3>2. o + k < Len(data)
      BY <1>3, <1>4, <1>14
    <3> QED
      BY <3>1, <3>2 DEF ImageByte
  <2> QED
    BY <1>1, <1>5, <1>8, <1>11, <1>12, <1>13, <1>14, <2>1
<1>15. CASE ~(k < f)
  <2>1. m > f
    BY ONLY <1>3, <1>15, k \in Nat, m \in Nat, f \in Nat
  <2> QED
    BY <1>1, <1>5, <1>8, <1>11, <1>12, <1>15, <2>1
<1> QED
  BY <1>14, <1>15

IsSegmentLoop(f, h, data, m) ==
    f = [i \in 0..Len(h.phdrs) |-> IF i = 0 THEN m ELSE LoadSegment(h.phdrs[i], data, f[i - 1])]

\* The headers the model knows.
IsHeader(h) ==
    /\ h.phdrs \in Seq(Segments)
    /\ \A i \in DOMAIN h.phdrs :
          h.phdrs[i].type = "LOAD" /\ h.phdrs[i].vaddr + h.phdrs[i].memsz < AddrSpace =>
              h.phdrs[i].vaddr..(h.phdrs[i].vaddr + h.phdrs[i].memsz - 1) \subseteq LoadAddr

LEMMA SegmentLoopExists ==
    ASSUME NEW V, NEW h, h.phdrs \in Seq(Segments), NEW data,
           \A i \in 1..Len(h.phdrs) : Covers(V, h.phdrs[i], data), NEW m \in LoadStates(V)
    PROVE  \E f : IsSegmentLoop(f, h, data, m)
<1>1. PICK n \in Nat : n = Len(h.phdrs)
  BY LenProperties
<1>2. PICK S : S = LoadStates(V)
  OBVIOUS
<1>3. PICK g : g = [i \in 1..n |-> [x \in S |-> LoadSegment(h.phdrs[i], data, x)]]
  OBVIOUS
<1>4. g \in [1..n -> [S -> S]] /\ m \in S
  <2>1. ASSUME NEW i \in 1..n, NEW x \in S PROVE LoadSegment(h.phdrs[i], data, x) \in S
    <3>1. h.phdrs[i] \in Segments /\ Covers(V, h.phdrs[i], data)
      BY <1>1, LenProperties
    <3> QED
      BY <1>2, <3>1, LoadSegmentIs
  <2> QED
    BY <1>2, <1>3, <2>1
<1>5. PICK f : IsLoop(f, n, S, m, g)
  BY <1>4, LoopExists
<1>6. f \in [0..n -> S] /\ f[0] = m
  BY <1>5 DEF IsLoop
<1>7. ASSUME NEW i \in 1..n PROVE f[i] = LoadSegment(h.phdrs[i], data, f[i - 1])
  <2>1. f[i - 1] \in S /\ f[i] = g[i][f[i - 1]]
    BY <1>5, <1>6 DEF IsLoop
  <2> QED
    BY <1>3, <2>1
<1>8. f = [i \in 0..n |-> IF i = 0 THEN m ELSE LoadSegment(h.phdrs[i], data, f[i - 1])]
  <2>1. \A i \in 0..n : f[i] = IF i = 0 THEN m ELSE LoadSegment(h.phdrs[i], data, f[i - 1])
    BY <1>6, <1>7
  <2> QED
    BY <1>6, <2>1
<1> QED
  BY <1>1, <1>8 DEF IsSegmentLoop

\* A segment that is on its own pages is in memory once it was loaded, and
\* stays there while the later ones are.
LEMMA LoadableSegmentHeld ==
    ASSUME NEW h, IsHeader(h), NEW data, Len(data) \in Nat, NEW i \in DOMAIN h.phdrs, IsLoadable(h, data, i),
           NEW j \in DOMAIN h.phdrs, NEW x, NEW r, SegmentLoaded(h.phdrs[j], data, x, r), r.ok,
           j # i => HoldsSegment(x.mem, data, h.phdrs[i])
    PROVE  HoldsSegment(r.mem, data, h.phdrs[i])
<1>1. PICK ph : ph = h.phdrs[i]
  OBVIOUS
<1>2. /\ ph \in Segments /\ ph.type = "LOAD" /\ h.phdrs[j] \in Segments
      /\ IsSane(ph, data) /\ ph.vaddr + ph.memsz + PageSize - 1 < AddrSpace
  BY <1>1, LenProperties DEF IsHeader, IsLoadable, IsSane
<1>a. PageDown(ph.vaddr) = ph.vaddr
  <2>1. ph.vaddr \in Nat /\ ph.vaddr % PageSize = 0
    BY <1>1, <1>2, SegmentFields DEF IsLoadable
  <2> QED
    BY <2>1 DEF PageDown
<1>3. SUFFICES ASSUME NEW k \in 0..(ph.memsz - 1)
               PROVE  r.mem[ph.vaddr + k] = IF k < ph.filesz THEN data[ph.offset + k + 1] ELSE ZERO
  BY <1>1 DEF HoldsSegment
<1>4. PICK a : a = ph.vaddr + k
  OBVIOUS
<1>5. a \in LoadAddr
  <2>1. ph.vaddr \in Nat /\ ph.memsz \in Nat /\ ph.vaddr + ph.memsz < AddrSpace
    BY <1>2, SegmentFields
  <2>2. a \in ph.vaddr..(ph.vaddr + ph.memsz - 1)
    BY <1>4, <2>1
  <2> QED
    BY <1>1, <1>2, <2>1, <2>2 DEF IsHeader
<1>6. PageDown(a) \in PagesOf(ph)
  BY <1>2, <1>4, SegmentOnPages
<1>7. r.mem[a] = IF h.phdrs[j].type = "LOAD" /\ PageDown(a) \in PagesOf(h.phdrs[j])
                 THEN PageByte(h.phdrs[j], data, PageDown(a), a) ELSE x.mem[a]
  BY <1>5 DEF SegmentLoaded
<1>8. CASE j = i
  BY <1>1, <1>2, <1>a, <1>4, <1>6, <1>7, <1>8, LoadedByte
<1>9. CASE j # i
  <2>1. ~(h.phdrs[j].type = "LOAD" /\ PageDown(a) \in PagesOf(h.phdrs[j]))
    BY <1>1, <1>6, <1>9 DEF IsLoadable
  <2>2. r.mem[a] = x.mem[a]
    BY <1>7, <2>1
  <2>3. x.mem[a] = IF k < ph.filesz THEN data[ph.offset + k + 1] ELSE ZERO
    BY <1>1, <1>4, <1>9 DEF HoldsSegment
  <2> QED
    BY <1>4, <2>2, <2>3
<1> QED
  BY <1>8, <1>9

\* After i segments those that have pages of their own are in memory.
SegmentsHeld(h, data, r, i) ==
    r.ok => \A j \in 1..i : IsLoadable(h, data, j) => HoldsSegment(r.mem, data, h.phdrs[j])

\* What a successful elf_load_segments leaves in memory.
LEMMA ProgramIsLoaded ==
    ASSUME NEW h, IsHeader(h), NEW data, Len(data) \in Nat, NEW mem, DOMAIN mem = LoadAddr, mem = [a \in LoadAddr |-> mem[a]],
           NEW frames \in 0..MaxFrames, NEW r, r = elf_load_segments(h, data, mem, frames),
           elf_validate(h) \in BOOLEAN
    PROVE  /\ r.mem = [a \in LoadAddr |-> r.mem[a]] /\ r.frames \in 0..MaxFrames
           /\ SegmentsHeld(h, data, r, Len(h.phdrs))
<1>1. h.phdrs \in Seq(Segments)
  BY DEF IsHeader
<1>2. PICK n \in Nat : n = Len(h.phdrs)
  BY <1>1, LenProperties
<1>3. PICK m : m = [ok |-> elf_validate(h), mem |-> mem, frames |-> frames]
  OBVIOUS
<1>4. PICK V : V = {mem[a] : a \in LoadAddr} \cup
                   {PageByte(h.phdrs[z[1]], data, z[2], z[3]) : z \in (1..n) \X Nat \X LoadAddr}
  OBVIOUS
<1>5. \A i \in 1..n : Covers(V, h.phdrs[i], data)
  <2>1. ASSUME NEW i \in 1..n, NEW page \in Nat, NEW a \in LoadAddr
        PROVE  PageByte(h.phdrs[i], data, page, a) \in V
    <3>1. <<i, page, a>> \in (1..n) \X Nat \X LoadAddr
      OBVIOUS
    <3>2. PICK z \in (1..n) \X Nat \X LoadAddr : z = <<i, page, a>>
      BY <3>1
    <3>3. z[1] = i /\ z[2] = page /\ z[3] = a
      BY <3>2
    <3> QED
      BY <1>4, <3>3
  <2> QED
    BY <2>1 DEF Covers
<1>6. m \in LoadStates(V)
  <2>1. \A a \in LoadAddr : mem[a] \in V
    BY <1>4
  <2>2. mem \in [LoadAddr -> V]
    BY <2>1
  <2> QED
    BY <1>3, <2>2 DEF LoadStates
<1>7. PICK f : f = CHOOSE ff : IsSegmentLoop(ff, h, data, m)
  OBVIOUS
<1>8. IsSegmentLoop(f, h, data, m)
  BY <1>1, <1>2, <1>5, <1>6, <1>7, SegmentLoopExists
<1>9. r = f[n]
  BY <1>2, <1>3, <1>7 DEF elf_load_segments, IsSegmentLoop
<1>10. f = [i \in 0..n |-> IF i = 0 THEN m ELSE LoadSegment(h.phdrs[i], data, f[i - 1])]
  BY <1>2, <1>8 DEF IsSegmentLoop
<1>11. f[0] = m /\ \A i \in 1..n : f[i] = LoadSegment(h.phdrs[i], data, f[i - 1])
  BY <1>10
<1> DEFINE P == {i \in 0..n : f[i] \in LoadStates(V) /\ SegmentsHeld(h, data, f[i], i)}
<1>12. 0 \in P
  BY <1>6, <1>11 DEF SegmentsHeld
<1>13. ASSUME NEW i \in 1..n, i - 1 \in P PROVE i \in P
  <2>1. f[i - 1] \in LoadStates(V) /\ SegmentsHeld(h, data, f[i - 1], i - 1)
    BY <1>13
  <2>2. h.phdrs[i] \in Segments /\ Covers(V, h.phdrs[i], data) /\ i \in DOMAIN h.phdrs
    BY <1>1, <1>2, <1>5, LenProperties
  <2>3. f[i] \in LoadStates(V) /\ SegmentLoaded(h.phdrs[i], data, f[i - 1], f[i])
    BY <1>11, <2>1, <2>2, LoadSegmentIs
  <2>4. ASSUME f[i].ok, NEW j \in 1..i, IsLoadable(h, data, j) PROVE HoldsSegment(f[i].mem, data, h.phdrs[j])
    <3>1. j \in DOMAIN h.phdrs
      BY <1>1, <1>2, LenProperties
    <3>2. i # j => HoldsSegment(f[i - 1].mem, data, h.phdrs[j])
      <4>1. SUFFICES ASSUME i # j PROVE HoldsSegment(f[i - 1].mem, data, h.phdrs[j])
        OBVIOUS
      <4>2. j \in 1..(i - 1)
        BY <4>1
      <4>3. f[i - 1].ok
        BY <2>3, <2>4 DEF SegmentLoaded
      <4> QED
        BY <2>1, <2>4, <4>2, <4>3 DEF SegmentsHeld
    <3> QED
      BY <2>2, <2>3, <2>4, <3>1, <3>2, LoadableSegmentHeld
  <2>5. SegmentsHeld(h, data, f[i], i)
    BY <2>4 DEF SegmentsHeld
  <2> QED
    BY <2>3, <2>5
<1>14. \A i \in 0..n : i \in P
  <2> HIDE DEF P
  <2> QED
    BY <1>12, <1>13, Rounds
<1>15. r \in LoadStates(V) /\ SegmentsHeld(h, data, r, n)
  BY <1>9, <1>14
<1> QED
  BY <1>2, <1>15 DEF LoadStates

-----------------------------------------------------------------------------
(* sys_exec *)

\* The file's buffer is held between kmalloc and kfree only, and what is loaded
\* was validated.
ExecInv ==
    /\ exec = [pc |-> exec.pc, file |-> exec.file, holds |-> exec.holds, data |-> exec.data,
               mem |-> exec.mem, frames |-> exec.frames]
    /\ exec.mem = [a \in LoadAddr |-> exec.mem[a]]
    /\ exec.frames \in 0..MaxFrames /\ exec.pc \in {"user", "read", "load", "loaded", "zombie"}
    /\ exec.holds => exec.pc \in {"read", "load", "loaded"}
    /\ exec.pc = "load" => elf_validate(Header(exec.data))
    /\ exec.pc = "loaded" => LET h == Header(exec.data)
                             IN  \A i \in DOMAIN h.phdrs :
                                    IsLoadable(h, exec.data, i) => HoldsSegment(exec.mem, exec.data, h.phdrs[i])

\* Only a header that was recognised is valid.
LEMMA ValidHeader ==
    ASSUME NEW data, elf_validate(Header(data))
    PROVE  IsHeader(Header(data)) /\ Len(data) \in Nat
<1>1. data \in DOMAIN HeaderOf
  <2>1. SUFFICES ASSUME data \notin DOMAIN HeaderOf PROVE FALSE
    OBVIOUS
  <2>2. Header(data).magic = "other"
    BY <2>1 DEF Header
  <2> QED
    BY <2>2 DEF elf_validate
<1>2. Header(data) = HeaderOf[data]
  BY <1>1 DEF Header
<1> QED
  BY <1>1, <1>2, HeadersAssumption, LenProperties DEF IsHeader

LEMMA ExecFindsInv == ASSUME ExecInv, ExecFinds PROVE ExecInv'
<1>1. \/ exec' = Exit(exec)
      \/ \E n : exec' = [exec EXCEPT !.pc = "read", !.file = n, !.holds = TRUE]
  BY DEF ExecFinds
<1>2. exec.pc = "user" /\ ~exec.holds
  BY DEF ExecInv, ExecFinds
<1> QED
  BY <1>1, <1>2 DEF ExecInv, Exit

LEMMA ExecReadsInv == ASSUME ExecInv, ExecReads PROVE ExecInv'
<1>1. PICK r : r = mesafs_read(vol, exec.file, FileSize(exec.file), 0)
  OBVIOUS
<1>2. \/ exec' = Exit(Kfree(exec))
      \/ elf_validate(Header(r.bytes)) /\ exec' = [exec EXCEPT !.pc = "load", !.data = r.bytes]
  BY <1>1 DEF ExecReads
<1>3. CASE exec' = Exit(Kfree(exec))
  BY <1>3 DEF ExecInv, Exit, Kfree
<1>4. CASE elf_validate(Header(r.bytes)) /\ exec' = [exec EXCEPT !.pc = "load", !.data = r.bytes]
  <2>1. /\ exec'.pc = "load" /\ exec'.data = r.bytes /\ exec'.mem = exec.mem /\ exec'.frames = exec.frames
        /\ exec' = [pc |-> exec'.pc, file |-> exec'.file, holds |-> exec'.holds, data |-> exec'.data,
                    mem |-> exec'.mem, frames |-> exec'.frames]
    BY <1>4 DEF ExecInv
  <2> QED
    BY <1>4, <2>1 DEF ExecInv
<1> QED
  BY <1>2, <1>3, <1>4

LEMMA ExecLoadsInv == ASSUME ExecInv, ExecLoads PROVE ExecInv'
<1>1. exec.pc = "load" /\ elf_validate(Header(exec.data)) /\ exec.frames \in 0..MaxFrames
  BY DEF ExecInv, ExecLoads
<1>2. PICK frames \in 0..exec.frames :
         LET m == elf_load_segments(Header(exec.data), exec.data, exec.mem, frames)
             e == [exec EXCEPT !.mem = m.mem, !.frames = m.frames]
         IN  exec' = IF m.ok THEN [e EXCEPT !.pc = "loaded"] ELSE Exit(Kfree(e))
  BY DEF ExecLoads
<1>3. PICK h : h = Header(exec.data)
  OBVIOUS
<1>4. IsHeader(h) /\ Len(exec.data) \in Nat /\ frames \in 0..MaxFrames /\ elf_validate(h) \in BOOLEAN
  <2>1. frames \in 0..MaxFrames
    BY <1>1, UserlandAssumption
  <2> QED
    BY <1>1, <1>3, <2>1, ValidHeader DEF elf_validate
<1>5. PICK m : m = elf_load_segments(h, exec.data, exec.mem, frames)
  OBVIOUS
<1>6. exec.mem = [a \in LoadAddr |-> exec.mem[a]] /\ DOMAIN exec.mem = LoadAddr
  BY DEF ExecInv
<1>7. /\ m.mem = [a \in LoadAddr |-> m.mem[a]] /\ m.frames \in 0..MaxFrames
      /\ SegmentsHeld(h, exec.data, m, Len(h.phdrs))
  BY <1>4, <1>5, <1>6, ProgramIsLoaded
<1>8. PICK e : e = [exec EXCEPT !.mem = m.mem, !.frames = m.frames]
  OBVIOUS
<1>9. /\ e = [pc |-> e.pc, file |-> e.file, holds |-> e.holds, data |-> e.data, mem |-> e.mem,
              frames |-> e.frames]
      /\ e.mem = m.mem /\ e.frames = m.frames /\ e.data = exec.data /\ e.holds = exec.holds
  BY <1>8 DEF ExecInv
<1>10. exec' = IF m.ok THEN [e EXCEPT !.pc = "loaded"] ELSE Exit(Kfree(e))
  BY <1>2, <1>3, <1>5, <1>8
<1>11. CASE m.ok
  <2>1. exec' = [e EXCEPT !.pc = "loaded"]
    BY <1>10, <1>11
  <2>2. /\ exec' = [pc |-> exec'.pc, file |-> exec'.file, holds |-> exec'.holds, data |-> exec'.data,
                    mem |-> exec'.mem, frames |-> exec'.frames]
        /\ exec'.pc = "loaded" /\ exec'.mem = m.mem /\ exec'.frames = m.frames /\ exec'.data = exec.data
    BY <1>9, <2>1
  <2>3. Header(exec.data)' = h
    BY <1>3, <2>2 DEF Header
  <2>4. ASSUME NEW i \in DOMAIN h.phdrs, IsLoadable(h, exec.data, i) PROVE HoldsSegment(m.mem, exec.data, h.phdrs[i])
    <3>1. i \in 1..Len(h.phdrs)
      BY <1>4, LenProperties DEF IsHeader
    <3> QED
      BY <1>7, <1>11, <2>4, <3>1 DEF SegmentsHeld
  <2>5. exec'.pc = "loaded" => LET hh == Header(exec'.data)
                               IN  \A i \in DOMAIN hh.phdrs :
                                      IsLoadable(hh, exec'.data, i) => HoldsSegment(exec'.mem, exec'.data, hh.phdrs[i])
    BY <1>3, <2>2, <2>4
  <2> QED
    BY <1>7, <2>2, <2>5 DEF ExecInv
<1>12. CASE ~m.ok
  <2>1. exec' = Exit(Kfree(e))
    BY <1>10, <1>12
  <2>2. /\ exec' = [pc |-> exec'.pc, file |-> exec'.file, holds |-> exec'.holds, data |-> exec'.data,
                    mem |-> exec'.mem, frames |-> exec'.frames]
        /\ exec'.pc = "zombie" /\ exec'.mem = m.mem /\ exec'.frames = m.frames /\ exec'.holds = FALSE
    BY <1>9, <2>1 DEF Exit, Kfree
  <2> QED
    BY <1>7, <2>2 DEF ExecInv
<1> QED
  BY <1>11, <1>12

LEMMA ExecExitsInv == ASSUME ExecInv, ExecExits PROVE ExecInv'
<1>1. exec' = Exit(Kfree(exec))
  BY DEF ExecExits
<1> QED
  BY <1>1 DEF ExecInv, Exit, Kfree

LEMMA OthersKeepExec == ASSUME ExecInv, UNCHANGED exec PROVE ExecInv'
BY DEF ExecInv, Header, IsLoadable, IsSane, HoldsSegment, elf_validate

LEMMA ExecStep == ASSUME ExecInv, [Next]_vars PROVE ExecInv'
<1>1. CASE Shell
  BY <1>1, OthersKeepExec DEF Shell, Prompt, ShellPrints, Command, Ls, CatOpen, CatRead, CatShow,
                              CatClose, ShellVars
<1>2. CASE Messages
  BY <1>2, OthersKeepExec DEF Messages, AppFileCalls, ClientSends, ServerReceives, ServerShows,
                              ServerReplies, AppSends, AppReceives, AppCalls, MessageVars
<1>3. CASE Exec
  BY <1>3, ExecFindsInv, ExecReadsInv, ExecLoadsInv, ExecExitsInv DEF Exec
<1>4. CASE UNCHANGED vars
  BY <1>4, OthersKeepExec DEF vars
<1> QED
  BY <1>1, <1>2, <1>3, <1>4 DEF Next

LEMMA ExecInit == ASSUME Init PROVE ExecInv
<1>1. exec = [pc |-> "user", file |-> 0, holds |-> FALSE, data |-> <<>>, mem |-> Fresh, frames |-> MaxFrames]
  BY DEF Init
<1>2. Fresh = [a \in LoadAddr |-> Fresh[a]] /\ MaxFrames \in Nat
  BY UserlandAssumption DEF Fresh
<1> QED
  BY <1>1, <1>2 DEF ExecInv

\* A program that sys_exec has loaded has in memory what its headers ask for
\* (elf.c:90) for every segment that is sane, starts on a page and shares none,
\* whatever the other headers are, and no way out of sys_exec keeps the file's
\* buffer (syscall.c:513), for any volume.
THEOREM ProgramsAreLoadedAndBuffersFreed == Spec => []ExecLoadsAndReleases
<1>1. Init => ExecInv
  BY ExecInit
<1>2. ExecInv /\ [Next]_vars => ExecInv'
  BY ExecStep
<1>3. ExecInv => ExecLoadsAndReleases
  BY DEF ExecInv, ExecLoadsAndReleases
<1> QED
  BY <1>1, <1>2, <1>3, PTL DEF Spec

-----------------------------------------------------------------------------
(* What a read returns *)

\* Byte i of a file is byte x of its block k.
IsByte(i, k, x) == i = BlockSize * k + x

\* A byte of a file whose blocks are all there.
LEMMA FileByte ==
    ASSUME NEW v \in Volumes, NEW n \in Nat, IsSoundFile(v, n),
           NEW inode, inode = mesafs_read_inode(v, n),
           NEW k \in Nat, NEW x \in 0..(BlockSize - 1), NEW i, IsByte(i, k, x), i < inode.size
    PROVE  /\ inode \in Inodes /\ k < inode.blocks_used /\ k < NDirect
           /\ inode.direct[k + 1] \in Nat /\ inode.direct[k + 1] # 0 /\ InRange(v, inode.direct[k + 1])
           /\ Content(v, n)[i + 1] = read_block(v, inode.direct[k + 1]).bytes[x + 1]
           /\ Content(v, n)[i + 1] \in Bytes
<1>0. i = BlockSize * k + x
  BY DEF IsByte
<1>1. inode \in Inodes
  BY InodeType DEF IsSoundFile
<1>2. inode.size \in Nat /\ inode.blocks_used \in Nat /\ inode.direct \in [1..NDirect -> Nat]
  BY <1>1 DEF Inodes
<1>3. PICK used \in Nat :
        used = MinOf(inode.blocks_used, NDirect) /\ used <= inode.blocks_used /\ used <= NDirect
  BY <1>2, FsSizes DEF MinOf
<1>4. inode.size <= used * BlockSize /\ \A j \in 1..used : inode.direct[j] # 0 /\ InRange(v, inode.direct[j])
  BY <1>3 DEF IsSoundFile
<1>5. i \in Nat
  BY <1>0, Times, FsSizes
<1>6. k < used
  <2>1. SUFFICES ASSUME used <= k PROVE FALSE
    BY <1>3
  <2>2. BlockSize * used <= BlockSize * k
    BY <1>3, <2>1, Times, FsSizes
  <2>3. PICK y \in Nat, z \in Nat : y = BlockSize * used /\ z = BlockSize * k
    BY <1>3, Times, FsSizes
  <2>4. used * BlockSize = y
    BY <1>3, <2>3, FsSizes
  <2> QED
    BY <1>0, <1>2, <1>4, <2>2, <2>3, <2>4
<1>7. PICK b : b = inode.direct[k + 1]
  OBVIOUS
<1>8. b \in Nat /\ b # 0 /\ InRange(v, b)
  <2>1. k + 1 \in 1..used /\ k + 1 \in 1..NDirect
    BY <1>3, <1>6, FsSizes
  <2> QED
    BY <1>2, <1>4, <1>7, <2>1
<1>9. i \div BlockSize = k /\ i % BlockSize = x
  <2>1. PICK z \in Nat : z = BlockSize * k
    BY Times, FsSizes
  <2>2. BlockSize * (k + 1) = z + BlockSize
    BY <2>1, FsSizes
  <2>3. BlockSize * k <= i /\ i < BlockSize * (k + 1)
    BY <1>0, <2>1, <2>2, FsSizes
  <2>4. i \div BlockSize = k
    BY <1>5, <2>3, Quotient, FsSizes
  <2>5. i = BlockSize * (i \div BlockSize) + (i % BlockSize)
    BY <1>5, DivMod, FsSizes
  <2>6. PICK y \in Int : y = i % BlockSize
    BY <1>5, FsSizes
  <2>7. i = z + y
    BY <2>1, <2>4, <2>5, <2>6
  <2> QED
    BY <1>0, <2>1, <2>4, <2>6, <2>7
<1>10. i + 1 \in 1..inode.size /\ (i + 1) - 1 = i
  BY <1>2, <1>5
<1>11. Content(v, n)[i + 1] = read_block(v, b).bytes[x + 1]
  <2>1. Content(v, n) = [j \in 1..inode.size |->
            read_block(v, inode.direct[(j - 1) \div BlockSize + 1]).bytes[((j - 1) % BlockSize) + 1]]
    BY DEF Content
  <2>2. Content(v, n)[i + 1] =
            read_block(v, inode.direct[((i + 1) - 1) \div BlockSize + 1]).bytes[(((i + 1) - 1) % BlockSize) + 1]
    BY <1>10, <2>1
  <2> QED
    BY <1>7, <1>9, <1>10, <2>2
<1>12. read_block(v, b).bytes[x + 1] \in Bytes
  <2>1. b \in 0..(v.total_blocks - 1)
    BY <1>8, VolumeFields DEF InRange
  <2>2. read_block(v, b).bytes \in [1..BlockSize -> Bytes]
    BY <2>1, VolumeFields DEF read_block, Blocks
  <2> QED
    BY <2>2, FsSizes
<1>13. k < inode.blocks_used /\ k < NDirect
  BY <1>2, <1>3, <1>6, FsSizes
<1> QED
  BY <1>1, <1>7, <1>8, <1>11, <1>12, <1>13

\* The contents of such a file.
LEMMA ContentType ==
    ASSUME NEW v \in Volumes, NEW n \in Nat, IsSoundFile(v, n),
           NEW inode, inode = mesafs_read_inode(v, n)
    PROVE  /\ inode \in Inodes /\ inode.size \in Nat
           /\ Content(v, n) \in Seq(Bytes) /\ Len(Content(v, n)) = inode.size
<1>1. inode \in Inodes /\ inode.size \in Nat
  BY InodeType DEF IsSoundFile, Inodes
<1>2. PICK c : c = Content(v, n)
  OBVIOUS
<1>3. DOMAIN c = 1..inode.size /\ c = [j \in 1..inode.size |-> c[j]]
  BY <1>2 DEF Content
<1>4. ASSUME NEW j \in 1..inode.size PROVE c[j] \in Bytes
  <2>1. PICK i \in Nat : i = j - 1 /\ i < inode.size
    BY <1>1
  <2>2. PICK k \in Nat, x \in 0..(BlockSize - 1) :
           k = i \div BlockSize /\ x = i % BlockSize /\ i = BlockSize * k + x
    BY <2>1, DivMod, FsSizes
  <2>3. Content(v, n)[i + 1] \in Bytes
    BY <2>1, <2>2, FileByte DEF IsByte
  <2> QED
    BY <1>1, <1>2, <2>1, <2>3
<1>5. c \in [1..inode.size -> Bytes]
  BY <1>3, <1>4
<1> QED
  BY <1>1, <1>2, <1>5

\* After i blocks: what was read is the file from offset on, and the next byte
\* is the first of the next block.
ReadSoFar(v, n, count, offset, r, i) ==
    /\ r.got = Got(r.got.bytes) /\ r.got.bytes \in Seq(Bytes) /\ r.left \in Nat
    /\ Len(r.got.bytes) + r.left = count
    /\ \A j \in 1..Len(r.got.bytes) : r.got.bytes[j] = Content(v, n)[offset + j]
    /\ r.left > 0 => /\ r.more
                     /\ offset + Len(r.got.bytes) = BlockSize * (offset \div BlockSize + i)
                                                    + (IF i = 0 THEN offset % BlockSize ELSE 0)

LEMMA NextBlockRead ==
    ASSUME NEW v \in Volumes, NEW n \in Nat, IsSoundFile(v, n), NEW inode, inode = mesafs_read_inode(v, n),
           NEW count \in Nat, NEW offset \in Nat, offset + count <= inode.size,
           NEW i \in Nat, i > 0, NEW r, ReadSoFar(v, n, count, offset, r, i - 1), r.left > 0,
           NEW s, s = ReadRound(v, inode, offset, r, offset \div BlockSize + i - 1)
    PROVE  ReadSoFar(v, n, count, offset, s, i)
<1>1. PICK q \in Nat : q = offset \div BlockSize
  BY FsSizes
<1>2. PICK k \in Nat : k = q + i - 1
  BY <1>1
<1>3. PICK bo \in 0..(BlockSize - 1) : bo = BlockOffset(k, offset)
  BY BlockOffsetType
<1>4. PICK bytes : bytes = r.got.bytes
  OBVIOUS
<1>5. PICK l \in Nat : l = Len(bytes)
  BY <1>4, LenProperties DEF ReadSoFar
<1>6. bytes \in Seq(Bytes) /\ r.left \in Nat /\ l + r.left = count /\ r.more
  BY <1>4, <1>5 DEF ReadSoFar
<1>7. PICK z \in Nat : z = BlockSize * k
  BY Times, FsSizes
<1>8. offset + l = z + bo
  <2>1. offset + l = BlockSize * (q + (i - 1)) + (IF i - 1 = 0 THEN offset % BlockSize ELSE 0)
    BY <1>1, <1>4, <1>5 DEF ReadSoFar
  <2>2. bo = IF i - 1 = 0 THEN offset % BlockSize ELSE 0
    BY <1>1, <1>2, <1>3 DEF BlockOffset
  <2>3. q + (i - 1) = k
    BY <1>1, <1>2
  <2> QED
    BY <1>7, <2>1, <2>2, <2>3
<1>9. z + bo < inode.size /\ inode.size \in Nat
  BY <1>5, <1>6, <1>8, ContentType
<1>10. PICK b : b = inode.direct[k + 1]
  OBVIOUS
<1>11. k < inode.blocks_used /\ k < NDirect /\ b \in Nat /\ b # 0 /\ InRange(v, b) /\ inode \in Inodes
  <2>1. IsByte(z + bo, k, bo)
    BY <1>7 DEF IsByte
  <2> QED
    BY <1>9, <1>10, <2>1, FileByte
<1>12. PICK c \in Nat : c = MinOf(BlockSize - bo, r.left)
  BY <1>6, FsSizes DEF MinOf
<1>13. c <= BlockSize - bo /\ c <= r.left /\ (c < r.left => c = BlockSize - bo)
  BY <1>6, <1>12, FsSizes DEF MinOf
<1>14. PICK part : part = SubSeq(read_block(v, b).bytes, bo + 1, bo + c)
  OBVIOUS
<1>15. c \in 0..(BlockSize - bo)
  BY <1>13, FsSizes
<1>16. /\ part \in Seq(Bytes) /\ Len(part) = c
       /\ \A j \in 1..c : part[j] = read_block(v, b).bytes[bo + j]
  BY <1>11, <1>14, <1>15, BlockBytes
<1>17. ~(k >= inode.blocks_used) /\ ~(k >= NDirect) /\ r.left # 0
  BY <1>6, <1>11, FsSizes DEF Inodes
<1>18. s = [got |-> Got(bytes \o part), left |-> r.left - c, more |-> TRUE]
  BY <1>1, <1>2, <1>3, <1>4, <1>6, <1>10, <1>11, <1>12, <1>14, <1>17 DEF ReadRound
<1>19. PICK t : t = bytes \o part
  OBVIOUS
<1>20. /\ t \in Seq(Bytes) /\ Len(t) = l + c
       /\ \A j \in 1..l : t[j] = bytes[j]
       /\ \A j \in 1..c : t[l + j] = part[j]
  BY <1>5, <1>6, <1>12, <1>16, <1>19, ConcatProperties
<1>21. s.got = Got(t) /\ s.got.bytes = t /\ s.left = r.left - c /\ s.more
  <2>1. s.got = Got(t) /\ s.left = r.left - c /\ s.more = TRUE
    BY <1>18, <1>19
  <2>2. Got(t).bytes = t
    BY DEF Got
  <2> QED
    BY <2>1, <2>2
<1>22. ASSUME NEW j \in 1..Len(t) PROVE t[j] = Content(v, n)[offset + j]
  <2>1. CASE j <= l
    BY <1>4, <1>5, <1>20, <2>1 DEF ReadSoFar
  <2>2. CASE j > l
    <3>1. PICK d \in 1..c : j = l + d
      <4>1. j - l \in 1..c /\ j = l + (j - l)
        BY <1>5, <1>12, <1>20, <2>2
      <4> QED
        BY <4>1
    <3>2. PICK x \in 0..(BlockSize - 1) : x = bo + d - 1
      BY <1>15, FsSizes
    <3>3. PICK m : m = z + x
      OBVIOUS
    <3>4. m < inode.size
      <4>1. PICK left \in Nat, size \in Nat : left = r.left /\ size = inode.size
        BY <1>6, <1>9
      <4>2. l + left = count /\ c <= left /\ offset + count <= size
        BY <1>6, <1>13, <4>1
      <4>3. m < size
        BY <1>8, <3>2, <3>3, <4>2
      <4> QED
        BY <4>1, <4>3
    <3>5. Content(v, n)[m + 1] = read_block(v, b).bytes[x + 1]
      <4>1. IsByte(m, k, x)
        BY <1>7, <3>3 DEF IsByte
      <4>2. Content(v, n)[m + 1] = read_block(v, inode.direct[k + 1]).bytes[x + 1]
        BY ONLY v \in Volumes, n \in Nat, IsSoundFile(v, n), inode = mesafs_read_inode(v, n),
                k \in Nat, x \in 0..(BlockSize - 1), <3>4, <4>1, FileByte, SMT
      <4> QED
        BY <1>10, <4>2
    <3>6. m + 1 = offset + j /\ x + 1 = bo + d
      BY <1>8, <3>1, <3>2, <3>3
    <3>7. t[j] = part[d] /\ part[d] = read_block(v, b).bytes[bo + d]
      BY <1>16, <1>20, <3>1
    <3> QED
      BY <3>5, <3>6, <3>7
  <2> QED
    BY <1>5, <1>20, <2>1, <2>2
<1>23. r.left - c > 0 => offset + Len(t) = BlockSize * (q + i)
  <2>1. SUFFICES ASSUME r.left - c > 0 PROVE offset + Len(t) = BlockSize * (q + i)
    OBVIOUS
  <2>2. c = BlockSize - bo
    BY <1>6, <1>12, <1>13, <2>1
  <2>3. BlockSize * (q + i) = z + BlockSize
    <3>1. q + i = k + 1
      BY <1>1, <1>2
    <3>2. BlockSize * (k + 1) = BlockSize * k + BlockSize
      BY FsSizes
    <3> QED
      BY <1>7, <3>1, <3>2
  <2>4. Len(t) = l + c /\ BlockSize \in Nat
    BY <1>20, FsSizes
  <2>5. offset + (l + c) = z + BlockSize
    BY <1>8, <2>2, <2>4
  <2> QED
    BY <2>3, <2>4, <2>5
<1>24. r.left - c \in Nat /\ Len(t) + (r.left - c) = count
  <2>1. Len(t) = l + c
    BY <1>20
  <2>2. PICK left \in Nat : left = r.left
    BY <1>6
  <2>3. l + left = count /\ c <= left
    BY <1>6, <1>13, <2>2
  <2>4. (l + c) + (left - c) = count /\ left - c \in Nat
    BY <2>3
  <2> QED
    BY <2>1, <2>2, <2>4
<1>25. s.left > 0 => /\ s.more
                     /\ offset + Len(s.got.bytes) = BlockSize * (offset \div BlockSize + i)
                                                    + (IF i = 0 THEN offset % BlockSize ELSE 0)
  <2>1. PICK y \in Nat : y = BlockSize * (q + i)
    BY <1>1, Times, FsSizes
  <2>2. s.left > 0 => offset + Len(s.got.bytes) = y
    BY <1>21, <1>23, <2>1
  <2>3. ~(i = 0)
    OBVIOUS
  <2> QED
    BY <1>1, <1>21, <2>1, <2>2, <2>3
<1> QED
  BY <1>20, <1>21, <1>22, <1>24, <1>25 DEF ReadSoFar

\* mesafs_read returns exactly the bytes asked for that the file has.
LEMMA ReadExact ==
    ASSUME NEW v \in Volumes, NEW n \in Nat, IsSoundFile(v, n), NEW inode, inode = mesafs_read_inode(v, n),
           NEW count \in Nat, NEW offset \in Nat
    PROVE  mesafs_read(v, n, count, offset) =
              Got(SubSeq(Content(v, n), offset + 1, MinOf(offset + count, inode.size)))
<1>1. /\ inode \in Inodes /\ inode.size \in Nat
      /\ Content(v, n) \in Seq(Bytes) /\ Len(Content(v, n)) = inode.size
  BY ContentType
<1>2. PICK content : content = Content(v, n)
  OBVIOUS
<1>3. PICK size \in Nat : size = inode.size
  BY <1>1
<1>4. n # 0 /\ InodeExists(v, n) /\ inode.type = FILE
  BY DEF IsSoundFile
<1>5. CASE offset >= size
  <2>1. mesafs_read(v, n, count, offset) = Got(<<>>)
    BY <1>3, <1>4, <1>5 DEF mesafs_read
  <2>2. PICK m \in Nat : m = MinOf(offset + count, size) /\ m < offset + 1
    BY <1>5 DEF MinOf
  <2>3. SubSeq(content, offset + 1, m) = <<>>
    BY <1>1, <1>2, <2>2, SubSeqEmpty
  <2> QED
    BY <1>2, <1>3, <2>1, <2>2, <2>3
<1>6. CASE offset < size
  <2>0. PICK d \in Nat : d = size - offset
    BY <1>6
  <2>1. PICK m \in Nat : m = MinOf(count, size - offset)
    BY <2>0 DEF MinOf
  <2>2. offset + m <= size /\ MinOf(offset + count, size) = offset + m
    BY <1>6, <2>1 DEF MinOf
  <2>3. mesafs_read(v, n, count, offset) = ReadBlocks(v, inode, m, offset)
    BY <1>3, <1>4, <1>6, <2>1 DEF mesafs_read
  <2>4. PICK q \in Nat : q = offset \div BlockSize
    BY FsSizes
  <2>5. PICK f : /\ ReadBlocks(v, inode, m, offset) = f[NDirect].got
                 /\ f[0] = [got |-> Got(<<>>), left |-> m, more |-> TRUE]
                 /\ \A i \in 1..NDirect : f[i] = ReadRound(v, inode, offset, f[i - 1], q + i - 1)
                 /\ \A i \in 0..NDirect : f[i] \in ReadStates(m)
    BY <1>1, <2>4, ReadLoop
  <2> DEFINE P == {i \in 0..NDirect : ReadSoFar(v, n, m, offset, f[i], i)}
  <2>6. 0 \in P
    <3>1. f[0].got = Got(<<>>) /\ f[0].left = m /\ f[0].more
      BY <2>5
    <3>2. Got(<<>>).bytes = <<>> /\ <<>> \in Seq(Bytes) /\ Len(<<>>) = 0
      BY DEF Got
    <3>3. offset = BlockSize * q + (offset % BlockSize) /\ offset % BlockSize \in 0..(BlockSize - 1)
      BY <2>4, DivMod, FsSizes
    <3>4. PICK z \in Nat, x \in Nat : z = BlockSize * q /\ x = offset % BlockSize
      BY <3>3, Times, FsSizes
    <3>5. offset + 0 = z + x /\ offset \div BlockSize + 0 = q
      BY <2>4, <3>3, <3>4
    <3>6. offset + Len(f[0].got.bytes) = BlockSize * (offset \div BlockSize + 0)
                                         + (IF 0 = 0 THEN offset % BlockSize ELSE 0)
      BY <3>1, <3>2, <3>4, <3>5
    <3>7. PICK r : r = f[0]
      OBVIOUS
    <3>8. /\ r.got = Got(r.got.bytes) /\ r.got.bytes \in Seq(Bytes) /\ r.left \in Nat
          /\ Len(r.got.bytes) = 0 /\ Len(r.got.bytes) + r.left = m
      <4>1. r.got = Got(<<>>) /\ r.got.bytes = <<>> /\ r.left = m
        BY <3>1, <3>2, <3>7
      <4>2. Len(r.got.bytes) = 0 /\ r.got.bytes \in Seq(Bytes)
        BY <3>2, <4>1
      <4>3. 0 + m = m
        OBVIOUS
      <4> QED
        BY <4>1, <4>2, <4>3
    <3>9. \A j \in 1..Len(r.got.bytes) : r.got.bytes[j] = Content(v, n)[offset + j]
      BY <3>8
    <3>10. ReadSoFar(v, n, m, offset, r, 0)
      BY <3>1, <3>6, <3>7, <3>8, <3>9 DEF ReadSoFar
    <3> QED
      BY <3>7, <3>10, FsSizes
  <2>7. ASSUME NEW i \in 1..NDirect, i - 1 \in P PROVE i \in P
    <3>1. ReadSoFar(v, n, m, offset, f[i - 1], i - 1) /\ f[i - 1] \in ReadStates(m)
      BY <2>5, <2>7
    <3>2. f[i] = ReadRound(v, inode, offset, f[i - 1], offset \div BlockSize + i - 1)
      BY <2>4, <2>5
    <3>3. i \in Nat /\ i > 0 /\ offset + m <= inode.size
      BY <1>3, <2>2, FsSizes
    <3>4. CASE f[i - 1].left > 0
      <4>1. ReadSoFar(v, n, m, offset, f[i], i)
        BY <3>1, <3>2, <3>3, <3>4, NextBlockRead
      <4> QED
        BY <4>1, FsSizes
    <3>5. CASE ~(f[i - 1].left > 0)
      <4>1. f[i - 1].left = 0
        BY <3>1, <3>5 DEF ReadSoFar
      <4>2. f[i] = [f[i - 1] EXCEPT !.more = FALSE]
        BY <3>2, <4>1 DEF ReadRound
      <4>3. f[i].got = f[i - 1].got /\ f[i].left = 0
        BY <3>1, <4>1, <4>2 DEF ReadStates
      <4>4. ReadSoFar(v, n, m, offset, f[i], i)
        BY <3>1, <4>1, <4>3 DEF ReadSoFar
      <4> QED
        BY <4>4, FsSizes
    <3> QED
      BY <3>4, <3>5
  <2>8. \A i \in 0..NDirect : i \in P
    <3> HIDE DEF P
    <3> QED
      BY <2>6, <2>7, Rounds, FsSizes
  <2>9. PICK r : r = f[NDirect]
    OBVIOUS
  <2>10. ReadSoFar(v, n, m, offset, r, NDirect)
    BY <2>8, <2>9, FsSizes
  <2>11. PICK l \in Nat, left \in Nat : l = Len(r.got.bytes) /\ left = r.left /\ l + left = m
    BY <2>10, LenProperties DEF ReadSoFar
  <2>12. left = 0
    <3>1. SUFFICES ASSUME left > 0 PROVE FALSE
      BY <2>11
    <3>2. offset + l = BlockSize * (q + NDirect)
      <4>1. PICK z \in Nat : z = BlockSize * (q + NDirect)
        BY Times, FsSizes
      <4>2. NDirect # 0
        BY FsSizes
      <4>3. offset + l = z + 0
        BY <2>4, <2>10, <2>11, <3>1, <4>1, <4>2 DEF ReadSoFar
      <4> QED
        BY <4>1, <4>3
    <3>3. PICK k \in Nat : k = q + NDirect
      BY FsSizes
    <3>4. PICK i : i = BlockSize * k + 0
      OBVIOUS
    <3>5. i < inode.size
      <4>1. PICK z \in Nat : z = BlockSize * k
        BY Times, FsSizes
      <4>2. i = z /\ offset + l = z
        BY <3>2, <3>3, <3>4, <4>1
      <4> QED
        BY <1>3, <2>2, <2>11, <3>1, <4>2
    <3>6. 0 \in 0..(BlockSize - 1)
      BY FsSizes
    <3>7. k < NDirect
      BY <3>4, <3>5, <3>6, FileByte DEF IsByte
    <3> QED
      BY <3>3, <3>7, FsSizes
  <2>13. PICK t : t = r.got.bytes
    OBVIOUS
  <2>14. /\ r.got = Got(t) /\ t \in Seq(Bytes) /\ Len(t) = m
         /\ \A j \in 1..m : t[j] = content[offset + j]
    <3>1. l = m /\ Len(t) = l
      BY <2>11, <2>12, <2>13
    <3> QED
      BY <1>2, <2>10, <2>13, <3>1 DEF ReadSoFar
  <2>15. PICK u : u = SubSeq(content, offset + 1, offset + m)
    OBVIOUS
  <2>16. u \in Seq(Bytes) /\ Len(u) = m /\ \A j \in 1..m : u[j] = content[offset + j]
    <3>1. \A j \in (offset + 1)..(offset + m) : content[j] \in Bytes
      BY <1>1, <1>2, <1>3, <2>2, LenProperties
    <3>2. offset + 1 \in Int /\ offset + m \in Int
      OBVIOUS
    <3>3. /\ u \in Seq(Bytes)
          /\ Len(u) = IF offset + 1 <= offset + m THEN (offset + m) - (offset + 1) + 1 ELSE 0
          /\ \A j \in 1..((offset + m) - (offset + 1) + 1) : u[j] = content[(offset + 1) + j - 1]
      <4>1. /\ SubSeq(content, offset + 1, offset + m) \in Seq(Bytes)
            /\ Len(SubSeq(content, offset + 1, offset + m)) =
                  IF offset + 1 <= offset + m THEN (offset + m) - (offset + 1) + 1 ELSE 0
            /\ \A j \in 1..((offset + m) - (offset + 1) + 1) :
                  SubSeq(content, offset + 1, offset + m)[j] = content[(offset + 1) + j - 1]
        BY <3>1, <3>2, SubSeqProperties
      <4> QED
        BY <2>15, <4>1
    <3>4. Len(u) = m
      BY <3>3
    <3>5. ASSUME NEW j \in 1..m PROVE u[j] = content[offset + j]
      <4>1. j \in 1..((offset + m) - (offset + 1) + 1) /\ (offset + 1) + j - 1 = offset + j
        OBVIOUS
      <4> QED
        BY <3>3, <4>1
    <3> QED
      BY <3>3, <3>4, <3>5
  <2>17. t = u
    BY <2>14, <2>16, SeqEqual
  <2> QED
    BY <1>2, <1>3, <2>2, <2>3, <2>5, <2>9, <2>14, <2>15, <2>17
<1> QED
  BY <1>3, <1>5, <1>6

\* What cat shows of the part of a file that fits its buffer.
LEMMA UpToNulIs ==
    ASSUME NEW s \in Seq(Bytes)
    PROVE  \E e \in 0..Len(s) : /\ UpToNul(s) = SubSeq(s, 1, e)
                                /\ \A i \in 1..e : s[i] # NUL
                                /\ e < Len(s) => s[e + 1] = NUL
<1>1. PICK n \in Nat : n = Len(s)
  BY LenProperties
<1>2. DOMAIN s = 1..n
  BY <1>1, LenProperties
<1> DEFINE z == {i \in DOMAIN s : s[i] = NUL}
<1>3. CASE z = {}
  <2>1. UpToNul(s) = s
    BY <1>3 DEF UpToNul
  <2>2. SubSeq(s, 1, n) = s
    BY <1>1, SubSeqProperties, SeqEqual, LenProperties
  <2>3. \A i \in 1..n : s[i] # NUL
    BY <1>2, <1>3
  <2>4. n \in 0..Len(s) /\ ~(n < Len(s))
    BY <1>1
  <2> QED
    BY <2>1, <2>2, <2>3, <2>4
<1>4. CASE z # {}
  <2>1. z \subseteq Nat
    BY <1>2
  <2>2. \E i \in z : \A j \in z : i <= j
    <3> HIDE DEF z
    <3> QED
      BY <1>4, <2>1, LeastNumber
  <2>3. PICK i : i = CHOOSE k \in z : \A j \in z : k <= j
    OBVIOUS
  <2>4. i \in z /\ \A j \in z : i <= j
    <3> HIDE DEF z
    <3> QED
      BY <2>2, <2>3
  <2>5. UpToNul(s) = SubSeq(s, 1, i - 1)
    BY <1>4, <2>3 DEF UpToNul
  <2>6. i \in 1..n /\ s[i] = NUL
    BY <1>2, <2>4
  <2>7. PICK e \in 0..n : e = i - 1
    BY <2>6
  <2>8. ASSUME NEW j \in 1..e PROVE s[j] # NUL
    <3>1. j \in 1..n /\ ~(i <= j)
      BY <2>6, <2>7
    <3> QED
      BY <1>2, <2>4, <3>1
  <2>9. e + 1 = i
    BY <2>6, <2>7
  <2> QED
    BY <1>1, <2>5, <2>6, <2>7, <2>8, <2>9
<1> QED
  BY <1>3, <1>4

\* Beginnings of a sequence.
LEMMA Prefix ==
    ASSUME NEW s \in Seq(Bytes), NEW m \in 0..Len(s)
    PROVE  /\ SubSeq(s, 1, m) \in Seq(Bytes) /\ Len(SubSeq(s, 1, m)) = m
           /\ \A i \in 1..m : SubSeq(s, 1, m)[i] = s[i]
<1>1. PICK n \in Nat : n = Len(s)
  BY LenProperties
<1>2. \A i \in 1..m : s[i] \in Bytes
  BY <1>1, LenProperties
<1>3. m \in Nat /\ 1 \in Int /\ m \in Int
  BY <1>1
<1>4. /\ SubSeq(s, 1, m) \in Seq(Bytes)
      /\ Len(SubSeq(s, 1, m)) = IF 1 <= m THEN m - 1 + 1 ELSE 0
      /\ \A i \in 1..(m - 1 + 1) : SubSeq(s, 1, m)[i] = s[1 + i - 1]
  BY <1>2, <1>3, SubSeqProperties
<1>5. Len(SubSeq(s, 1, m)) = m /\ m - 1 + 1 = m
  BY <1>3, <1>4
<1>6. ASSUME NEW i \in 1..m PROVE SubSeq(s, 1, m)[i] = s[i]
  <2>1. 1 + i - 1 = i
    BY <1>3
  <2> QED
    BY <1>4, <1>5, <2>1
<1> QED
  BY <1>4, <1>5, <1>6

LEMMA PrefixOfPrefix ==
    ASSUME NEW s \in Seq(Bytes), NEW m \in 0..Len(s), NEW l \in 0..m
    PROVE  SubSeq(SubSeq(s, 1, m), 1, l) = SubSeq(s, 1, l)
<1>1. PICK n \in Nat : n = Len(s)
  BY LenProperties
<1>2. PICK t : t = SubSeq(s, 1, m)
  OBVIOUS
<1>3. t \in Seq(Bytes) /\ Len(t) = m /\ \A i \in 1..m : t[i] = s[i]
  BY <1>2, Prefix
<1>4. l \in 0..Len(s) /\ l \in 0..Len(t) /\ m \in Nat /\ l \in Nat
  BY <1>1, <1>3
<1>5. PICK u : u = SubSeq(s, 1, l)
  OBVIOUS
<1>6. u \in Seq(Bytes) /\ Len(u) = l /\ \A i \in 1..l : u[i] = s[i]
  BY <1>4, <1>5, Prefix
<1>7. PICK w : w = SubSeq(t, 1, l)
  OBVIOUS
<1>8. w \in Seq(Bytes) /\ Len(w) = l /\ \A i \in 1..l : w[i] = t[i]
  BY <1>3, <1>4, <1>7, Prefix
<1>9. ASSUME NEW i \in 1..l PROVE w[i] = u[i]
  <2>1. i \in 1..m
    BY <1>4
  <2> QED
    BY <1>3, <1>6, <1>8, <2>1
<1>10. w = u
  BY <1>6, <1>8, <1>9, SeqEqual
<1> QED
  BY <1>2, <1>5, <1>7, <1>10

\* Cutting a file to the buffer before the zero is looked for changes nothing,
\* because a write takes less than the buffer holds.
LEMMA PutsOfPart ==
    ASSUME NEW c \in Seq(Bytes), NEW m \in 0..Len(c), m = Len(c) \/ m >= WriteMax, NEW text, text = UpToNul(c)
    PROVE  puts(SubSeq(c, 1, m)) = SubSeq(text, 1, MinOf(Len(text), WriteMax))
<1>1. PICK n \in Nat : n = Len(c)
  BY LenProperties
<1>2. WriteMax \in Nat /\ m \in Nat /\ m <= n
  BY <1>1, MessageSizes
<1>3. PICK part : part = SubSeq(c, 1, m)
  OBVIOUS
<1>4. part \in Seq(Bytes) /\ Len(part) = m /\ \A i \in 1..m : part[i] = c[i]
  BY <1>3, Prefix
<1>5. PICK e \in 0..n : /\ text = SubSeq(c, 1, e) /\ \A i \in 1..e : c[i] # NUL
                        /\ e < n => c[e + 1] = NUL
  BY <1>1, UpToNulIs
<1>6. PICK d \in 0..m : /\ UpToNul(part) = SubSeq(part, 1, d) /\ \A i \in 1..d : part[i] # NUL
                        /\ d < m => part[d + 1] = NUL
  BY <1>4, UpToNulIs
<1>7. d = IF e < m THEN e ELSE m
  <2>1. d <= e
    <3>1. SUFFICES ASSUME e < d PROVE FALSE
      BY <1>2
    <3>2. e + 1 \in 1..d /\ e + 1 \in 1..m /\ e < n
      BY <1>2, <3>1
    <3> QED
      BY <1>4, <1>5, <1>6, <3>2
  <2>2. d < m => e <= d
    <3>1. SUFFICES ASSUME d < m, d < e PROVE FALSE
      BY <1>2
    <3>2. d + 1 \in 1..e /\ d + 1 \in 1..m
      BY <1>2, <3>1
    <3> QED
      BY <1>4, <1>5, <1>6, <3>1, <3>2
  <2> QED
    BY <1>2, <2>1, <2>2
<1>8. UpToNul(part) = SubSeq(c, 1, d)
  BY <1>3, <1>6, PrefixOfPrefix
<1>9. Len(text) = e /\ Len(UpToNul(part)) = d
  <2>1. d \in 0..Len(c) /\ e \in 0..Len(c)
    BY <1>1, <1>2
  <2> QED
    BY <1>5, <1>8, <2>1, Prefix
<1>10. PICK l \in Nat : l = MinOf(e, WriteMax)
  BY <1>2 DEF MinOf
<1>11. MinOf(d, WriteMax) = l /\ l <= d /\ l <= e
  <2>1. m = n \/ m >= WriteMax
    BY <1>1
  <2> QED
    BY <1>2, <1>7, <1>10, <2>1 DEF MinOf
<1>12. puts(part) = SubSeq(SubSeq(c, 1, d), 1, l)
  BY <1>8, <1>9, <1>11 DEF puts, sys_write
<1>13. l \in 0..d /\ l \in 0..e /\ d \in 0..Len(c) /\ e \in 0..Len(c)
  BY <1>1, <1>2, <1>11
<1>14. SubSeq(SubSeq(c, 1, d), 1, l) = SubSeq(c, 1, l) /\ SubSeq(SubSeq(c, 1, e), 1, l) = SubSeq(c, 1, l)
  BY <1>13, PrefixOfPrefix
<1> QED
  BY <1>3, <1>5, <1>9, <1>10, <1>12, <1>14

-----------------------------------------------------------------------------
(* What a listing shows *)

LEMMA PrefixOfConcat ==
    ASSUME NEW s \in Seq(Bytes), NEW t \in Seq(Bytes), NEW m \in 0..Len(s)
    PROVE  SubSeq(s \o t, 1, m) = SubSeq(s, 1, m)
<1>1. PICK l \in Nat, k \in Nat : l = Len(s) /\ k = Len(t)
  BY LenProperties
<1>2. PICK u : u = s \o t
  OBVIOUS
<1>3. /\ u \in Seq(Bytes) /\ Len(u) = l + k
      /\ \A i \in 1..(l + k) : u[i] = IF i <= l THEN s[i] ELSE t[i - l]
  BY <1>1, <1>2, ConcatProperties
<1>4. m \in 0..Len(u) /\ m \in Nat /\ m <= l
  BY <1>1, <1>3
<1>5. PICK x : x = SubSeq(u, 1, m)
  OBVIOUS
<1>6. x \in Seq(Bytes) /\ Len(x) = m /\ \A i \in 1..m : x[i] = u[i]
  BY <1>3, <1>4, <1>5, Prefix
<1>7. PICK y : y = SubSeq(s, 1, m)
  OBVIOUS
<1>8. y \in Seq(Bytes) /\ Len(y) = m /\ \A i \in 1..m : y[i] = s[i]
  BY <1>7, Prefix
<1>9. ASSUME NEW i \in 1..m PROVE x[i] = y[i]
  <2>1. i \in 1..(l + k) /\ i <= l
    BY <1>4
  <2> QED
    BY <1>3, <1>6, <1>8, <2>1
<1>10. x = y
  BY <1>6, <1>8, <1>9, SeqEqual
<1> QED
  BY <1>2, <1>5, <1>7, <1>10

LEMMA PrefixPastConcat ==
    ASSUME NEW s \in Seq(Bytes), NEW t \in Seq(Bytes), NEW d \in 0..Len(t)
    PROVE  SubSeq(s \o t, 1, Len(s) + d) = s \o SubSeq(t, 1, d)
<1>1. PICK l \in Nat, k \in Nat : l = Len(s) /\ k = Len(t)
  BY LenProperties
<1>2. PICK u : u = s \o t
  OBVIOUS
<1>3. /\ u \in Seq(Bytes) /\ Len(u) = l + k
      /\ \A i \in 1..(l + k) : u[i] = IF i <= l THEN s[i] ELSE t[i - l]
  BY <1>1, <1>2, ConcatProperties
<1>4. l + d \in 0..Len(u) /\ d \in Nat /\ d <= k
  BY <1>1, <1>3
<1>5. PICK x : x = SubSeq(u, 1, l + d)
  OBVIOUS
<1>6. x \in Seq(Bytes) /\ Len(x) = l + d /\ \A i \in 1..(l + d) : x[i] = u[i]
  BY <1>3, <1>4, <1>5, Prefix
<1>7. PICK w : w = SubSeq(t, 1, d)
  OBVIOUS
<1>8. w \in Seq(Bytes) /\ Len(w) = d /\ \A i \in 1..d : w[i] = t[i]
  BY <1>7, Prefix
<1>9. PICK y : y = s \o w
  OBVIOUS
<1>10. /\ y \in Seq(Bytes) /\ Len(y) = l + d
       /\ \A i \in 1..(l + d) : y[i] = IF i <= l THEN s[i] ELSE w[i - l]
  BY <1>1, <1>8, <1>9, ConcatProperties
<1>11. ASSUME NEW i \in 1..(l + d) PROVE x[i] = y[i]
  <2>1. i \in 1..(l + k)
    BY <1>4
  <2>2. CASE i <= l
    BY <1>3, <1>6, <1>10, <2>1, <2>2
  <2>3. CASE ~(i <= l)
    <3>1. i - l \in 1..d
      BY <1>4, <2>3
    <3> QED
      BY <1>3, <1>6, <1>8, <1>10, <2>1, <2>3, <3>1
  <2> QED
    BY <2>2, <2>3
<1>12. x = y
  BY <1>6, <1>10, <1>11, SeqEqual
<1> QED
  BY <1>1, <1>2, <1>5, <1>7, <1>9, <1>12

\* A name with its newline.
LEMMA LineIs ==
    ASSUME NEW s \in Seq(Bytes)
    PROVE  /\ Append(s, NL) \in Seq(Bytes) /\ Len(Append(s, NL)) = Len(s) + 1
           /\ Append(s, NL) = s \o <<NL>> /\ <<NL>> \in Seq(Bytes) /\ Len(<<NL>>) = 1
           /\ Append(s, NL)[Len(s) + 1] = NL
<1>1. NL \in Bytes
  BY UserlandAssumption
<1> QED
  BY <1>1, AppendProperties, AppendIsConcat

\* A newline changes nothing in front of it.
LEMMA LineKeeps ==
    ASSUME NEW s \in Seq(Bytes)
    PROVE  \A i \in 1..Len(s) : Append(s, NL)[i] = s[i]
<1>1. NL \in Bytes
  BY UserlandAssumption
<1> QED
  BY <1>1, AppendProperties

\* A text cut so that its last line still ends.
Cut(full, size) == IF Len(full) < size THEN full ELSE Append(SubSeq(full, 1, size - 2), NL)

EndsALine(s) == s = <<>> \/ s[Len(s)] = NL

LEMMA AddEntryCuts ==
    ASSUME NEW full \in Seq(Bytes), EndsALine(full), NEW name \in Seq(Bytes), NEW size \in Nat, size >= 2,
           NEW next, next = full \o Append(name, NL)
    PROVE  /\ AddEntry(Cut(full, size), name, size) = Cut(next, size)
           /\ next \in Seq(Bytes) /\ EndsALine(next)
<1>1. PICK l \in Nat, k \in Nat : l = Len(full) /\ k = Len(name)
  BY LenProperties
<1>2. PICK line : line = Append(name, NL)
  OBVIOUS
<1>3. /\ line \in Seq(Bytes) /\ Len(line) = k + 1 /\ line = name \o <<NL>> /\ line[k + 1] = NL
      /\ <<NL>> \in Seq(Bytes)
  BY <1>1, <1>2, LineIs
<1>4. /\ next \in Seq(Bytes) /\ Len(next) = l + (k + 1)
      /\ \A i \in 1..(l + (k + 1)) : next[i] = IF i <= l THEN full[i] ELSE line[i - l]
  BY <1>1, <1>2, <1>3, ConcatProperties
<1>5. EndsALine(next)
  <2>1. l + (k + 1) \in 1..(l + (k + 1)) /\ ~(l + (k + 1) <= l) /\ l + (k + 1) - l = k + 1
    OBVIOUS
  <2> QED
    BY <1>3, <1>4, <2>1 DEF EndsALine
<1>6. CASE l < size - 1
  <2>0. PICK g \in Nat : g = size - 2 - l
    BY <1>6
  <2>1. PICK d \in 0..k : d = MinOf(k, size - 2 - l)
    <3>1. MinOf(k, g) \in 0..k
      BY DEF MinOf
    <3> QED
      BY <2>0, <3>1
  <2>2. Cut(full, size) = full
    BY <1>1, <1>6 DEF Cut
  <2>3. AddEntry(full, name, size) = Append(full \o SubSeq(name, 1, d), NL)
    <3>1. d = MinOf(Len(name), size - 2 - Len(full)) /\ Len(full) < size - 1
      BY <1>1, <1>6, <2>1
    <3>2. PICK part : part = SubSeq(name, 1, d)
      OBVIOUS
    <3>3. part \in Seq(Bytes) /\ Len(part) = d
      BY <1>1, <3>2, Prefix
    <3>4. PICK cut : cut = full \o part
      OBVIOUS
    <3>5. Len(cut) = l + d
      BY <1>1, <3>3, <3>4, ConcatProperties
    <3>6. l + d < size - 1 /\ ~(Len(full) >= size - 1)
      BY <1>1, <1>6, <2>0, <2>1 DEF MinOf
    <3> QED
      BY <3>1, <3>2, <3>4, <3>5, <3>6 DEF AddEntry
  <2>4. CASE l + (k + 1) < size
    <3>1. d = k
      BY <2>1, <2>4 DEF MinOf
    <3>2. SubSeq(name, 1, k) = name
      <4>1. PICK x : x = SubSeq(name, 1, k)
        OBVIOUS
      <4>2. x \in Seq(Bytes) /\ Len(x) = k /\ \A i \in 1..k : x[i] = name[i]
        BY <1>1, <4>1, Prefix
      <4> QED
        BY <1>1, <4>1, <4>2, SeqEqual
    <3>3. Append(full \o name, NL) = next
      <4>1. PICK x : x = full \o name
        OBVIOUS
      <4>2. /\ x \in Seq(Bytes) /\ Len(x) = l + k
            /\ \A i \in 1..(l + k) : x[i] = IF i <= l THEN full[i] ELSE name[i - l]
        BY <1>1, <4>1, ConcatProperties
      <4>3. PICK y : y = Append(x, NL)
        OBVIOUS
      <4>4. y \in Seq(Bytes) /\ Len(y) = l + k + 1 /\ y[l + k + 1] = NL /\ \A i \in 1..(l + k) : y[i] = x[i]
        <5>1. y \in Seq(Bytes) /\ Len(y) = Len(x) + 1 /\ y[Len(x) + 1] = NL
          BY <4>2, <4>3, LineIs
        <5>2. \A i \in 1..Len(x) : y[i] = x[i]
          BY <4>2, <4>3, LineKeeps
        <5> QED
          BY <4>2, <5>1, <5>2
      <4>5. ASSUME NEW i \in 1..(l + (k + 1)) PROVE y[i] = next[i]
        <5>1. CASE i <= l
          BY <1>4, <4>2, <4>4, <5>1
        <5>2. CASE i > l /\ i <= l + k
          <6>1. i - l \in 1..k /\ i \in 1..(l + k) /\ ~(i <= l)
            BY <5>2
          <6>2. line[i - l] = name[i - l]
            BY <1>1, <1>2, <6>1, AppendProperties, UserlandAssumption
          <6> QED
            BY <1>4, <4>2, <4>4, <6>1, <6>2
        <5>3. CASE i > l + k
          <6>1. i = l + k + 1 /\ i - l = k + 1 /\ ~(i <= l)
            BY <5>3
          <6> QED
            BY <1>3, <1>4, <4>4, <6>1
        <5>4. i <= l \/ (i > l /\ i <= l + k) \/ i > l + k
          OBVIOUS
        <5> QED
          BY <5>1, <5>2, <5>3, <5>4
      <4>6. Len(y) = Len(next) /\ \A i \in 1..Len(y) : y[i] = next[i]
        <5>1. l + k + 1 = l + (k + 1)
          OBVIOUS
        <5>2. Len(y) = l + (k + 1) /\ Len(next) = l + (k + 1)
          BY <1>4, <4>4, <5>1
        <5> QED
          BY <4>5, <5>2
      <4>7. y = next
        BY <1>4, <4>4, <4>6, SeqEqual
      <4> QED
        BY <4>1, <4>3, <4>7
    <3>4. Cut(next, size) = next
      BY <1>4, <2>4 DEF Cut
    <3> QED
      BY <1>4, <1>5, <2>2, <2>3, <3>1, <3>2, <3>3, <3>4
  <2>5. CASE ~(l + (k + 1) < size)
    <3>1. d = size - 2 - l /\ l + d = size - 2 /\ d \in 0..(k + 1)
      BY <1>6, <2>1, <2>5 DEF MinOf
    <3>2. SubSeq(next, 1, l + d) = full \o SubSeq(line, 1, d)
      <4>1. d \in 0..Len(line) /\ next = full \o line
        BY <1>2, <1>3, <3>1
      <4>2. SubSeq(full \o line, 1, Len(full) + d) = full \o SubSeq(line, 1, d)
        BY <1>3, <4>1, PrefixPastConcat
      <4> QED
        BY <1>1, <4>1, <4>2
    <3>3. SubSeq(line, 1, d) = SubSeq(name, 1, d)
      BY <1>1, <1>3, PrefixOfConcat
    <3>4. Cut(next, size) = Append(SubSeq(next, 1, size - 2), NL)
      BY <1>4, <2>5 DEF Cut
    <3> QED
      BY <1>4, <1>5, <2>2, <2>3, <3>1, <3>2, <3>3, <3>4
  <2> QED
    BY <2>4, <2>5
<1>7. CASE ~(l < size - 1)
  <2>1. size - 2 \in Nat /\ ~(l + (k + 1) < size) /\ size - 2 \in 0..l
    BY <1>7
  <2>2. SubSeq(next, 1, size - 2) = SubSeq(full, 1, size - 2)
    BY <1>1, <1>2, <1>3, <2>1, PrefixOfConcat
  <2>3. PICK x : x = SubSeq(full, 1, size - 2)
    OBVIOUS
  <2>4. x \in Seq(Bytes) /\ Len(x) = size - 2 /\ \A i \in 1..(size - 2) : x[i] = full[i]
    BY <1>1, <2>1, <2>3, Prefix
  <2>5. Cut(next, size) = Append(x, NL)
    BY <1>4, <2>1, <2>2, <2>3 DEF Cut
  <2>6. Append(x, NL) \in Seq(Bytes) /\ Len(Append(x, NL)) = size - 1
    <3>1. size - 2 + 1 = size - 1
      OBVIOUS
    <3> QED
      BY <2>4, <3>1, LineIs
  <2>7. Cut(full, size) = Append(x, NL)
    <3>1. CASE l < size
      <4>1. l = size - 1 /\ full # <<>> /\ size - 2 + 1 = l
        BY <1>1, <1>7, <3>1
      <4>2. full[l] = NL
        BY <1>1, <4>1 DEF EndsALine
      <4>3. PICK y : y = Append(x, NL)
        OBVIOUS
      <4>4. y \in Seq(Bytes) /\ Len(y) = l /\ y[l] = NL /\ \A i \in 1..(size - 2) : y[i] = x[i]
        BY <2>4, <4>1, <4>3, LineIs, AppendProperties, UserlandAssumption
      <4>5. ASSUME NEW i \in 1..l PROVE y[i] = full[i]
        <5>1. i = l \/ i \in 1..(size - 2)
          BY <4>1
        <5> QED
          BY <2>4, <4>2, <4>4, <5>1
      <4>6. y = full
        BY <1>1, <4>4, <4>5, SeqEqual
      <4> QED
        BY <1>1, <3>1, <4>3, <4>6 DEF Cut
    <3>2. CASE ~(l < size)
      BY <1>1, <2>3, <3>2 DEF Cut
    <3> QED
      BY <3>1, <3>2
  <2>8. AddEntry(Append(x, NL), name, size) = Append(x, NL)
    <3>1. Len(Append(x, NL)) >= size - 1
      BY <2>6
    <3> QED
      BY <3>1 DEF AddEntry
  <2> QED
    BY <1>4, <1>5, <2>5, <2>7, <2>8
<1> QED
  BY <1>6, <1>7

\* FlattenSeq joins the sequences one after the other.
IsFlatten(f, seqs) ==
    f = [i \in 1..Len(seqs) |-> IF i = 1 THEN seqs[i] ELSE f[i - 1] \o seqs[i]]

LEMMA FlattenExists ==
    ASSUME NEW seqs \in Seq(Seq(Bytes))
    PROVE  \E f : IsFlatten(f, seqs)
<1>1. PICK n \in Nat : n = Len(seqs)
  BY LenProperties
<1>2. PICK S : S = Seq(Bytes)
  OBVIOUS
<1>3. \A i \in 1..n : seqs[i] \in S
  BY <1>1, <1>2, LenProperties
<1>4. PICK g : g = [i \in 1..n |-> [u \in S |-> u \o seqs[i]]]
  OBVIOUS
<1>5. g \in [1..n -> [S -> S]] /\ <<>> \in S
  <2>1. \A i \in 1..n : \A u \in S : u \o seqs[i] \in S
    BY <1>2, <1>3, ConcatProperties
  <2>2. <<>> \in S
    BY <1>2
  <2> QED
    BY <1>4, <2>1, <2>2
<1>6. PICK f : IsLoop(f, n, S, <<>>, g)
  BY <1>5, LoopExists
<1>7. f \in [0..n -> S] /\ f[0] = <<>>
  BY <1>6 DEF IsLoop
<1>8. ASSUME NEW i \in 1..n PROVE f[i] = f[i - 1] \o seqs[i]
  <2>1. f[i - 1] \in S /\ f[i] = g[i][f[i - 1]]
    BY <1>6, <1>7 DEF IsLoop
  <2> QED
    BY <1>4, <2>1
<1>9. PICK h : h = [i \in 1..n |-> f[i]]
  OBVIOUS
<1>10. ASSUME NEW i \in 1..n PROVE h[i] = IF i = 1 THEN seqs[i] ELSE h[i - 1] \o seqs[i]
  <2>1. CASE i = 1
    <3>0. f[i] = f[i - 1] \o seqs[i] /\ seqs[i] \in S
      BY <1>3, <1>8
    <3>1. f[1] = <<>> \o seqs[1] /\ seqs[1] \in Seq(Bytes)
      <4>1. i - 1 = 0
        BY <2>1
      <4>2. f[i] = <<>> \o seqs[i]
        BY <1>7, <3>0, <4>1
      <4> QED
        BY <1>2, <2>1, <3>0, <4>2
    <3>2. f[1] = seqs[1]
      BY <3>1, ConcatEmptySeq
    <3> QED
      BY <1>9, <2>1, <3>2
  <2>2. CASE i # 1
    <3>1. i - 1 \in 1..n
      BY <2>2
    <3>2. h[i - 1] = f[i - 1] /\ h[i] = f[i]
      BY <1>9, <3>1
    <3> QED
      BY <1>8, <2>2, <3>2
  <2> QED
    BY <2>1, <2>2
<1>11. h = [i \in 1..n |-> IF i = 1 THEN seqs[i] ELSE h[i - 1] \o seqs[i]]
  BY <1>9, <1>10
<1> QED
  BY <1>1, <1>11 DEF IsFlatten

LEMMA FlattenLoop ==
    ASSUME NEW seqs \in Seq(Seq(Bytes)), NEW n \in Nat, n = Len(seqs)
    PROVE  \E f : /\ f[0] = <<>> /\ f[n] = FlattenSeq(seqs)
                  /\ \A i \in 1..n : f[i] = f[i - 1] \o seqs[i]
<1>1. PICK h : h = CHOOSE hh : IsFlatten(hh, seqs)
  OBVIOUS
<1>2. IsFlatten(h, seqs)
  BY <1>1, FlattenExists
<1>3. h = [i \in 1..n |-> IF i = 1 THEN seqs[i] ELSE h[i - 1] \o seqs[i]]
  BY <1>2 DEF IsFlatten
<1>4. PICK f : f = [i \in 0..n |-> IF i = 0 THEN <<>> ELSE h[i]]
  OBVIOUS
<1>5. f[0] = <<>> /\ \A i \in 1..n : f[i] = h[i]
  BY <1>4
<1>6. ASSUME NEW i \in 1..n PROVE f[i] = f[i - 1] \o seqs[i]
  <2>1. h[i] = IF i = 1 THEN seqs[i] ELSE h[i - 1] \o seqs[i]
    BY <1>3
  <2>2. CASE i = 1
    <3>1. seqs[1] \in Seq(Bytes)
      BY <2>2, LenProperties
    <3>2. <<>> \o seqs[1] = seqs[1]
      BY <3>1, ConcatEmptySeq
    <3>3. f[1] = seqs[1] /\ f[1 - 1] = <<>>
      BY <1>5, <2>1, <2>2
    <3> QED
      BY <2>2, <3>2, <3>3
  <2>3. CASE i # 1
    <3>1. i - 1 \in 1..n
      BY <2>3
    <3> QED
      BY <1>5, <2>1, <2>3, <3>1
  <2> QED
    BY <2>2, <2>3
<1>7. f[n] = FlattenSeq(seqs)
  <2>1. CASE n = 0
    <3>1. FlattenSeq(seqs) = seqs
      BY <2>1 DEF FlattenSeq
    <3>2. seqs = <<>>
      BY <2>1, EmptySeq
    <3> QED
      BY <1>5, <2>1, <3>1, <3>2
  <2>2. CASE n # 0
    <3>1. FlattenSeq(seqs) = h[n]
      BY <1>1, <2>2 DEF FlattenSeq, IsFlatten
    <3>2. n \in 1..n
      BY <2>2
    <3> QED
      BY <1>5, <3>1, <3>2
  <2> QED
    BY <2>1, <2>2
<1> QED
  BY <1>5, <1>6, <1>7

\* sys_readdir lists the root directory exactly, for every buffer size.
LEMMA ListingExact ==
    ASSUME vol \in Volumes, IsDir(vol, vol.root), NEW size \in Nat, size >= 2
    PROVE  ListingIsExact(size) /\ FullListing \in Seq(Bytes)
<1>1. PICK entries : entries = UsedEntries(vol, vol.root)
  OBVIOUS
<1>2. size > 0
  OBVIOUS
<1>3. entries \in Seq(DirEntries)
  BY <1>1, <1>2, ListingLoop
<1>4. PICK n \in Nat : n = Len(entries)
  BY <1>3, LenProperties
<1>5. PICK f : /\ sys_readdir(<<Slash>>, size) = Got(f[n])
               /\ f[0] = <<>>
               /\ \A i \in 1..n : f[i] = AddEntry(f[i - 1], entries[i].name, size)
               /\ \A i \in 0..n : f[i] \in Outs(size)
  BY <1>1, <1>2, <1>4, ListingLoop
<1>6. ASSUME NEW i \in 1..n PROVE entries[i].name \in Seq(Bytes) /\ i \in DOMAIN entries
  <2>1. entries[i] \in DirEntries /\ i \in DOMAIN entries
    BY <1>3, <1>4, LenProperties
  <2> QED
    BY <2>1 DEF DirEntries, FileNames
<1>7. PICK seqs : seqs = [i \in DOMAIN entries |-> Append(entries[i].name, NL)]
  OBVIOUS
<1>8. DOMAIN entries = 1..n
  BY <1>3, <1>4, LenProperties
<1>9. \A i \in 1..n : Append(entries[i].name, NL) \in Seq(Bytes)
  BY <1>6, LineIs
<1>10. seqs \in Seq(Seq(Bytes)) /\ Len(seqs) = n /\ \A i \in 1..n : seqs[i] = Append(entries[i].name, NL)
  <2>1. PICK S : S = Seq(Bytes)
    OBVIOUS
  <2>2. seqs \in [1..n -> S]
    BY <1>7, <1>8, <1>9, <2>1
  <2>3. seqs \in Seq(S) /\ Len(seqs) = n
    BY <2>2
  <2>4. \A i \in 1..n : seqs[i] = Append(entries[i].name, NL)
    BY <1>7, <1>8
  <2> QED
    BY <2>1, <2>3, <2>4
<1>11. PICK full : /\ full[0] = <<>> /\ full[n] = FlattenSeq(seqs)
                   /\ \A i \in 1..n : full[i] = full[i - 1] \o seqs[i]
  BY <1>10, FlattenLoop
<1> DEFINE P == {i \in 0..n : full[i] \in Seq(Bytes) /\ EndsALine(full[i]) /\ f[i] = Cut(full[i], size)}
<1>12. 0 \in P
  <2>1. full[0] \in Seq(Bytes) /\ EndsALine(full[0]) /\ Len(full[0]) = 0
    <3>1. <<>> \in Seq(Bytes) /\ Len(<<>>) = 0
      OBVIOUS
    <3> QED
      BY <1>11, <3>1 DEF EndsALine
  <2>2. Cut(full[0], size) = full[0]
    BY <2>1 DEF Cut
  <2>3. f[0] = Cut(full[0], size) /\ 0 \in 0..n
    BY <1>5, <1>11, <2>2
  <2> QED
    BY <2>1, <2>3
<1>13. ASSUME NEW i \in 1..n, i - 1 \in P PROVE i \in P
  <2>1. full[i - 1] \in Seq(Bytes) /\ EndsALine(full[i - 1]) /\ f[i - 1] = Cut(full[i - 1], size)
    BY <1>13
  <2>2. full[i] = full[i - 1] \o Append(entries[i].name, NL)
    BY <1>10, <1>11
  <2>3. /\ AddEntry(Cut(full[i - 1], size), entries[i].name, size) = Cut(full[i], size)
        /\ full[i] \in Seq(Bytes) /\ EndsALine(full[i])
    BY <1>6, <2>1, <2>2, AddEntryCuts
  <2>4. f[i] = Cut(full[i], size)
    BY <1>5, <2>1, <2>3
  <2> QED
    BY <2>3, <2>4
<1>14. \A i \in 0..n : i \in P
  <2> HIDE DEF P
  <2> QED
    BY <1>12, <1>13, Rounds
<1>15. f[n] = Cut(full[n], size) /\ full[n] \in Seq(Bytes)
  BY <1>14
<1>16. full[n] = FullListing
  BY <1>1, <1>7, <1>11 DEF FullListing
<1>17. sys_readdir(<<Slash>>, size).bytes = Cut(FullListing, size)
  BY <1>5, <1>15, <1>16 DEF Got
<1> QED
  BY <1>15, <1>16, <1>17 DEF ListingIsExact, Cut

-----------------------------------------------------------------------------
(* The shell *)

\* What cat's buffer has of a file.
Part(n) == SubSeq(Content(vol, n), 1, MinOf(ReadMax - 1, Len(Content(vol, n))))

\* What cat has read and shown at each of its steps.
ShellInv ==
    /\ vol \in Volumes \cup {NoVolume}
    /\ shell = [pc |-> shell.pc, cmd |-> shell.cmd, arg |-> shell.arg, fd |-> shell.fd, buf |-> shell.buf,
                n |-> shell.n]
    /\ shell.fd \in Int /\ (shell.fd > 0 => vol \in Volumes)
    /\ shell.pc = "opened" => shown = <<>>
    /\ shell.cmd = "cat" /\ shell.fd > 2 /\ IsSoundFile(vol, shell.fd) =>
          /\ shell.pc = "read" => shell.buf = Part(shell.fd) /\ shell.n = Len(shell.buf)
          /\ shell.pc \in {"close", "done"} => CatIsExact(shell.fd)

LEMMA BufferSizes ==
    /\ ReadMax \in Nat /\ WriteMax \in Nat /\ WriteMax >= 1 /\ ReadMax - 1 \in Nat
    /\ WriteMax <= ReadMax - 1
BY UserlandAssumption

LEMMA OpenType ==
    ASSUME vol \in Volumes \cup {NoVolume}, NEW path \in Paths, NEW fd, fd = sys_open(path)
    PROVE  fd \in Int /\ (fd > 0 => vol \in Volumes)
<1>1. CASE vol.mounted
  <2>1. vol \in Volumes
    BY <1>1 DEF NoVolume
  <2>2. path \in Seq(Bytes) /\ PathMax \in Nat /\ PathMax > 0
    BY UserlandAssumption
  <2>3. kpath(path) \in Seq(Bytes)
    <3>1. PICK m \in 0..Len(path) : m = MinOf(Len(path), PathMax - 1)
      <4>1. PICK l \in Nat : l = Len(path)
        BY <2>2, LenProperties
      <4>2. MinOf(l, PathMax - 1) \in 0..l
        BY <2>2, <4>1 DEF MinOf
      <4> QED
        BY <4>1, <4>2
    <3> QED
      BY <2>2, <3>1, Prefix DEF kpath
  <2>4. resolve_path(vol, kpath(path)) \in Nat
    BY <2>1, <2>3, ResolveType
  <2> QED
    BY <1>1, <2>1, <2>4 DEF sys_open
<1>2. CASE ~vol.mounted
  BY <1>2 DEF sys_open
<1> QED
  BY <1>1, <1>2

\* A sound file has an inode in a volume.
LEMMA PartIs ==
    ASSUME vol \in Volumes, NEW n \in Nat, IsSoundFile(vol, n), NEW c, c = Content(vol, n)
    PROVE  /\ c \in Seq(Bytes)
           /\ \E m \in 0..Len(c) : /\ m = MinOf(ReadMax - 1, Len(c)) /\ Part(n) = SubSeq(c, 1, m)
                                   /\ Part(n) \in Seq(Bytes) /\ Len(Part(n)) = m
<1>1. c \in Seq(Bytes)
  BY ContentType
<1>2. PICK l \in Nat : l = Len(c)
  BY <1>1, LenProperties
<1>3. MinOf(ReadMax - 1, l) \in 0..l
  BY BufferSizes DEF MinOf
<1>4. PICK m \in 0..l : m = MinOf(ReadMax - 1, l)
  BY <1>3
<1>5. Part(n) = SubSeq(c, 1, m)
  BY <1>2, <1>4 DEF Part
<1>6. SubSeq(c, 1, m) \in Seq(Bytes) /\ Len(SubSeq(c, 1, m)) = m
  BY <1>1, <1>2, Prefix
<1> QED
  BY <1>1, <1>2, <1>4, <1>5, <1>6

LEMMA CatReadInv == ASSUME ShellInv, CatRead PROVE ShellInv'
<1>1. PICK r : r = sys_read(shell.fd, ReadMax - 1)
  OBVIOUS
<1>2. /\ shell' = [shell EXCEPT !.pc = IF r.ret > 0 THEN "read" ELSE "close", !.buf = r.bytes, !.n = r.ret]
      /\ shell.pc = "opened" /\ shown = <<>> /\ shown' = shown /\ vol' = vol
  BY <1>1 DEF CatRead, ShellVars, ShellInv
<1>3. /\ shell' = [pc |-> shell'.pc, cmd |-> shell'.cmd, arg |-> shell'.arg, fd |-> shell'.fd,
                   buf |-> shell'.buf, n |-> shell'.n]
      /\ shell'.pc = (IF r.ret > 0 THEN "read" ELSE "close") /\ shell'.buf = r.bytes /\ shell'.n = r.ret
      /\ shell'.cmd = shell.cmd /\ shell'.fd = shell.fd
  BY <1>2 DEF ShellInv
<1>4. ASSUME shell.cmd = "cat", shell.fd > 2, IsSoundFile(vol, shell.fd)
      PROVE  /\ r.ret > 0 => r.bytes = Part(shell.fd) /\ r.ret = Len(r.bytes)
             /\ ~(r.ret > 0) => CatIsExact(shell.fd)
  <2>1. PICK fd \in Nat : fd = shell.fd
    BY <1>4 DEF ShellInv
  <2>2. vol \in Volumes /\ vol.mounted
    <3>1. shell.fd > 0
      BY <1>4, <2>1
    <3> QED
      BY <3>1, VolumeFields DEF ShellInv
  <2>3. PICK c : c = Content(vol, fd)
    OBVIOUS
  <2>4. /\ c \in Seq(Bytes)
        /\ \E m \in 0..Len(c) : /\ m = MinOf(ReadMax - 1, Len(c)) /\ Part(fd) = SubSeq(c, 1, m)
                                /\ Part(fd) \in Seq(Bytes) /\ Len(Part(fd)) = m
    BY <1>4, <2>1, <2>2, <2>3, PartIs
  <2>5. PICK m \in 0..Len(c) : /\ m = MinOf(ReadMax - 1, Len(c)) /\ Part(fd) = SubSeq(c, 1, m)
                               /\ Part(fd) \in Seq(Bytes) /\ Len(Part(fd)) = m
    BY <2>4
  <2>6. PICK l \in Nat : l = Len(c) /\ l = mesafs_read_inode(vol, fd).size
    BY <1>4, <2>1, <2>2, <2>3, ContentType
  <2>7. PICK k \in Nat : k = ReadMax - 1
    BY BufferSizes
  <2>8. r = mesafs_read(vol, fd, k, 0)
    <3>1. MinOf(k, ReadMax) = k
      BY <2>7, BufferSizes DEF MinOf
    <3>2. ~(fd <= 2)
      BY <1>4, <2>1
    <3> QED
      BY <1>1, <2>1, <2>2, <2>7, <3>1, <3>2 DEF sys_read
  <2>9. r = Got(SubSeq(c, 0 + 1, MinOf(0 + k, l)))
    BY <1>4, <2>1, <2>2, <2>3, <2>6, <2>8, ReadExact
  <2>10. 0 + 1 = 1 /\ MinOf(0 + k, l) = m
    BY <2>5, <2>6, <2>7
  <2>11. r = Got(Part(fd))
    BY <2>5, <2>9, <2>10
  <2>12. r.bytes = Part(fd) /\ r.ret = m
    BY <2>5, <2>11 DEF Got
  <2>13. ASSUME ~(r.ret > 0) PROVE CatIsExact(fd)
    <3>0. m \in 0..l
      BY <2>6
    <3>1. m = 0
      BY <2>12, <2>13, <3>0
    <3>2. l = 0
      BY <2>5, <2>6, <3>1, BufferSizes DEF MinOf
    <3>3. c = <<>>
      BY <2>4, <2>6, <3>2, EmptySeq
    <3>4. UpToNul(c) = <<>>
      BY <3>3 DEF UpToNul
    <3>5. SubSeq(<<>>, 1, MinOf(Len(<<>>), WriteMax)) = <<>>
      <4>1. MinOf(0, WriteMax) = 0 /\ Len(<<>>) = 0
        BY BufferSizes DEF MinOf
      <4> QED
        BY <4>1, SubSeqEmpty
    <3>6. ~(Len(c) >= ReadMax - 1)
      BY <2>6, <3>2, BufferSizes
    <3>7. <<>> \o <<>> = <<>>
      OBVIOUS
    <3> QED
      BY <1>2, <2>3, <3>4, <3>5, <3>6, <3>7 DEF CatIsExact
  <2> QED
    BY <2>1, <2>5, <2>12, <2>13
<1>5. ASSUME shell'.cmd = "cat", shell'.fd > 2, IsSoundFile(vol, shell.fd)'
      PROVE  /\ shell'.pc = "read" => shell'.buf = Part(shell.fd)' /\ shell'.n = Len(shell'.buf)
             /\ shell'.pc \in {"close", "done"} => CatIsExact(shell.fd)'
  <2>1. /\ r.ret > 0 => r.bytes = Part(shell.fd) /\ r.ret = Len(r.bytes)
        /\ ~(r.ret > 0) => CatIsExact(shell.fd)
    BY <1>2, <1>3, <1>4, <1>5
  <2>2. Part(shell.fd)' = Part(shell.fd) /\ (CatIsExact(shell.fd)' <=> CatIsExact(shell.fd))
    BY <1>2, <1>3 DEF Part, CatIsExact
  <2> QED
    BY <1>3, <2>1, <2>2
<1> QED
  BY <1>2, <1>3, <1>5 DEF ShellInv

LEMMA CatShowInv == ASSUME ShellInv, CatShow PROVE ShellInv'
<1>1. /\ shell' = [shell EXCEPT !.pc = "close"] /\ shell.pc = "read" /\ vol' = vol
      /\ shown' = puts(shell.buf) \o (IF shell.n = ReadMax - 1 THEN <<"...">> ELSE <<>>)
  BY DEF CatShow, ShellVars
<1>2. /\ shell' = [pc |-> shell'.pc, cmd |-> shell'.cmd, arg |-> shell'.arg, fd |-> shell'.fd,
                   buf |-> shell'.buf, n |-> shell'.n]
      /\ shell'.pc = "close" /\ shell'.cmd = shell.cmd /\ shell'.fd = shell.fd
  BY <1>1 DEF ShellInv
<1>3. ASSUME shell.cmd = "cat", shell.fd > 2, IsSoundFile(vol, shell.fd)
      PROVE  CatIsExact(shell.fd)'
  <2>1. PICK fd \in Nat : fd = shell.fd
    BY <1>3 DEF ShellInv
  <2>2. vol \in Volumes
    <3>1. shell.fd > 0
      BY <1>3, <2>1
    <3> QED
      BY <3>1 DEF ShellInv
  <2>3. PICK c : c = Content(vol, fd)
    OBVIOUS
  <2>4. /\ c \in Seq(Bytes)
        /\ \E m \in 0..Len(c) : /\ m = MinOf(ReadMax - 1, Len(c)) /\ Part(fd) = SubSeq(c, 1, m)
                                /\ Part(fd) \in Seq(Bytes) /\ Len(Part(fd)) = m
    BY <1>3, <2>1, <2>2, <2>3, PartIs
  <2>5. PICK m \in 0..Len(c) : /\ m = MinOf(ReadMax - 1, Len(c)) /\ Part(fd) = SubSeq(c, 1, m)
                               /\ Part(fd) \in Seq(Bytes) /\ Len(Part(fd)) = m
    BY <2>4
  <2>6. PICK l \in Nat : l = Len(c)
    BY <2>4, LenProperties
  <2>7. m = l \/ m >= WriteMax
    BY <2>5, <2>6, BufferSizes DEF MinOf
  <2>8. m = ReadMax - 1 <=> l >= ReadMax - 1
    BY <2>5, <2>6, BufferSizes DEF MinOf
  <2>9. PICK text : text = UpToNul(c)
    OBVIOUS
  <2>10. puts(Part(fd)) = SubSeq(text, 1, MinOf(Len(text), WriteMax))
    BY <2>4, <2>5, <2>6, <2>7, <2>9, PutsOfPart
  <2>11. shell.buf = Part(fd) /\ shell.n = m
    BY <1>1, <1>3, <2>1, <2>5 DEF ShellInv
  <2>12. shown' = SubSeq(text, 1, MinOf(Len(text), WriteMax))
                  \o (IF Len(c) >= ReadMax - 1 THEN <<"...">> ELSE <<>>)
    BY <1>1, <2>6, <2>8, <2>10, <2>11
  <2> QED
    BY <1>1, <1>2, <2>1, <2>3, <2>9, <2>12 DEF CatIsExact
<1>4. ASSUME shell'.cmd = "cat", shell'.fd > 2, IsSoundFile(vol, shell.fd)'
      PROVE  CatIsExact(shell.fd)'
  BY <1>1, <1>2, <1>3, <1>4
<1> QED
  BY <1>1, <1>2, <1>4 DEF ShellInv

LEMMA CatCloseInv == ASSUME ShellInv, CatClose PROVE ShellInv'
<1>1. shell' = [shell EXCEPT !.pc = "done"] /\ shell.pc = "close" /\ vol' = vol /\ shown' = shown
  BY DEF CatClose, ShellVars
<1>2. /\ shell' = [pc |-> shell'.pc, cmd |-> shell'.cmd, arg |-> shell'.arg, fd |-> shell'.fd,
                   buf |-> shell'.buf, n |-> shell'.n]
      /\ shell'.pc = "done" /\ shell'.cmd = shell.cmd /\ shell'.fd = shell.fd
  BY <1>1 DEF ShellInv
<1>3. ASSUME shell'.cmd = "cat", shell'.fd > 2, IsSoundFile(vol, shell.fd)'
      PROVE  CatIsExact(shell.fd)'
  <2>1. CatIsExact(shell.fd)
    BY <1>1, <1>2, <1>3 DEF ShellInv
  <2> QED
    BY <1>1, <1>2, <2>1 DEF CatIsExact
<1> QED
  BY <1>1, <1>2, <1>3 DEF ShellInv

\* A step after which no file is open.
LEMMA NoFileInv ==
    ASSUME ShellInv, vol' = vol, NEW pc, NEW cmd, NEW arg, NEW fd \in Int, fd <= 0, pc # "opened",
           shell' = [pc |-> pc, cmd |-> cmd, arg |-> arg, fd |-> fd, buf |-> <<>>, n |-> 0]
    PROVE  ShellInv'
<1>1. /\ shell' = [pc |-> shell'.pc, cmd |-> shell'.cmd, arg |-> shell'.arg, fd |-> shell'.fd,
                   buf |-> shell'.buf, n |-> shell'.n]
      /\ shell'.fd = fd /\ shell'.pc # "opened"
  OBVIOUS
<1> QED
  BY <1>1 DEF ShellInv

LEMMA CatOpenInv == ASSUME ShellInv, CatOpen PROVE ShellInv'
<1>1. PICK path \in Paths :
         LET fd == sys_open(path)
         IN  IF path = <<>>
             THEN shown' = <<"Usage">> /\ shell' = [Done EXCEPT !.cmd = "usage"]
             ELSE IF fd < 0
             THEN /\ shown' = <<"Error">>
                  /\ shell' = [Done EXCEPT !.cmd = "cat", !.arg = path, !.fd = fd]
             ELSE /\ shown' = <<>>
                  /\ shell' = [Idle EXCEPT !.cmd = "cat", !.arg = path, !.fd = fd, !.pc = "opened"]
  BY DEF CatOpen
<1>2. PICK fd \in Int : fd = sys_open(path) /\ (fd > 0 => vol \in Volumes)
  BY OpenType DEF ShellInv
<1>3. vol' = vol
  BY DEF CatOpen, ShellVars
<1>4. CASE shell' = [Done EXCEPT !.cmd = "usage"]
  <2>1. shell' = [pc |-> "done", cmd |-> "usage", arg |-> <<>>, fd |-> 0, buf |-> <<>>, n |-> 0]
    BY <1>4 DEF Done, Idle
  <2> QED
    BY <1>3, <2>1, NoFileInv
<1>5. CASE fd < 0 /\ shell' = [Done EXCEPT !.cmd = "cat", !.arg = path, !.fd = fd]
  <2>1. shell' = [pc |-> "done", cmd |-> "cat", arg |-> path, fd |-> fd, buf |-> <<>>, n |-> 0]
    BY <1>5 DEF Done, Idle
  <2>2. fd <= 0
    BY <1>5
  <2> QED
    BY <1>3, <2>1, <2>2, NoFileInv
<1>6. CASE shown' = <<>> /\ shell' = [Idle EXCEPT !.cmd = "cat", !.arg = path, !.fd = fd, !.pc = "opened"]
  <2>1. /\ shell' = [pc |-> shell'.pc, cmd |-> shell'.cmd, arg |-> shell'.arg, fd |-> shell'.fd,
                     buf |-> shell'.buf, n |-> shell'.n]
        /\ shell'.pc = "opened" /\ shell'.fd = fd
    BY <1>6 DEF Idle
  <2> QED
    BY <1>2, <1>3, <1>6, <2>1 DEF ShellInv
<1> QED
  BY <1>1, <1>2, <1>4, <1>5, <1>6

LEMMA OthersKeepShell == ASSUME ShellInv, UNCHANGED <<vol, shell, shown>> PROVE ShellInv'
<1>1. Part(shell.fd)' = Part(shell.fd) /\ (CatIsExact(shell.fd)' <=> CatIsExact(shell.fd))
  BY DEF Part, CatIsExact
<1> QED
  BY <1>1 DEF ShellInv

LEMMA ShellStep == ASSUME ShellInv, [Next]_vars PROVE ShellInv'
<1>1. CASE Prompt
  <2>1. /\ vol' = vol
        /\ shell' = [pc |-> "prompt", cmd |-> "none", arg |-> <<>>, fd |-> 0, buf |-> <<>>, n |-> 0]
    BY <1>1 DEF Prompt, ShellVars, Idle
  <2> QED
    BY <2>1, NoFileInv
<1>2. CASE ShellPrints
  <2>1. PICK cmd \in {"help", "clear", "exit", "echo", "unknown"} : Command(cmd)
    BY <1>2 DEF ShellPrints
  <2>2. vol' = vol
    BY <2>1 DEF Command, ShellVars
  <2>3. CASE shell' = [Done EXCEPT !.cmd = cmd]
    <3>1. shell' = [pc |-> "done", cmd |-> cmd, arg |-> <<>>, fd |-> 0, buf |-> <<>>, n |-> 0]
      BY <2>3 DEF Done, Idle
    <3> QED
      BY <2>2, <3>1, NoFileInv
  <2>4. CASE shell' = [Idle EXCEPT !.cmd = cmd, !.pc = "zombie"]
    <3>1. shell' = [pc |-> "zombie", cmd |-> cmd, arg |-> <<>>, fd |-> 0, buf |-> <<>>, n |-> 0]
      BY <2>4 DEF Idle
    <3> QED
      BY <2>2, <3>1, NoFileInv
  <2>5. ASSUME NEW t \in Texts, shell' = [Done EXCEPT !.cmd = cmd, !.arg = t]
        PROVE  ShellInv'
    <3>1. shell' = [pc |-> "done", cmd |-> cmd, arg |-> t, fd |-> 0, buf |-> <<>>, n |-> 0]
      BY <2>5 DEF Done, Idle
    <3> QED
      BY <2>2, <3>1, NoFileInv
  <2>6. \/ shell' = [Done EXCEPT !.cmd = cmd]
        \/ shell' = [Idle EXCEPT !.cmd = cmd, !.pc = "zombie"]
        \/ \E t \in Texts : shell' = [Done EXCEPT !.cmd = cmd, !.arg = t]
    BY <2>1 DEF Command
  <2> QED
    BY <2>3, <2>4, <2>5, <2>6
<1>3. CASE Ls
  <2>1. shell' = [Done EXCEPT !.cmd = "ls"]
    BY <1>3 DEF Ls
  <2>2. shell' = [pc |-> "done", cmd |-> "ls", arg |-> <<>>, fd |-> 0, buf |-> <<>>, n |-> 0]
    BY <2>1 DEF Done, Idle
  <2>3. vol' = vol
    BY <1>3 DEF Ls, ShellVars
  <2> QED
    BY <2>2, <2>3, NoFileInv
<1>4. CASE CatOpen \/ CatRead \/ CatShow \/ CatClose
  BY <1>4, CatOpenInv, CatReadInv, CatShowInv, CatCloseInv
<1>5. CASE Messages
  BY <1>5, OthersKeepShell DEF Messages, AppFileCalls, ClientSends, ServerReceives, ServerShows,
                               ServerReplies, AppSends, AppReceives, AppCalls, MessageVars
<1>6. CASE Exec
  <2>1. ExecFinds => UNCHANGED ExecVars
    BY DEF ExecFinds
  <2>2. ExecReads => UNCHANGED ExecVars
    BY DEF ExecReads
  <2>3. ExecLoads => UNCHANGED ExecVars
    BY DEF ExecLoads
  <2>4. ExecExits => UNCHANGED ExecVars
    BY DEF ExecExits
  <2> QED
    BY <1>6, <2>1, <2>2, <2>3, <2>4, OthersKeepShell DEF Exec, ExecVars
<1>7. CASE UNCHANGED vars
  BY <1>7, OthersKeepShell DEF vars
<1> QED
  BY <1>1, <1>2, <1>3, <1>4, <1>5, <1>6, <1>7 DEF Next, Shell

LEMMA ShellShowsFiles == ASSUME ShellInv PROVE FilesAreShownAsStored
<1>1. ASSUME shell.cmd = "cat", shell.fd > 2, IsSoundFile(vol, shell.fd)
      PROVE  /\ shell.pc = "opened" => ReadIsExact(shell.fd)
             /\ shell.pc = "done" => CatIsExact(shell.fd)
  <2>1. PICK fd \in Nat : fd = shell.fd
    BY <1>1 DEF ShellInv
  <2>2. vol \in Volumes
    <3>1. shell.fd > 0
      BY <1>1, <2>1
    <3> QED
      BY <3>1 DEF ShellInv
  <2>3. PICK size \in Nat : size = mesafs_read_inode(vol, fd).size
    BY <1>1, <2>1, <2>2, ContentType
  <2>4. ASSUME NEW offset \in 0..(size + 1), NEW count \in 0..(size + 1)
        PROVE  mesafs_read(vol, fd, count, offset).bytes =
                  SubSeq(Content(vol, fd), offset + 1, MinOf(offset + count, size))
    <3>1. offset \in Nat /\ count \in Nat
      OBVIOUS
    <3>2. mesafs_read(vol, fd, count, offset) =
             Got(SubSeq(Content(vol, fd), offset + 1, MinOf(offset + count, size)))
      BY <1>1, <2>1, <2>2, <2>3, <3>1, ReadExact
    <3>3. PICK x : x = SubSeq(Content(vol, fd), offset + 1, MinOf(offset + count, size))
      OBVIOUS
    <3>4. Got(x).bytes = x
      BY DEF Got
    <3> QED
      BY <3>2, <3>3, <3>4
  <2>5. ReadIsExact(fd)
    BY <2>3, <2>4 DEF ReadIsExact, FileSize
  <2>6. shell.pc = "done" => CatIsExact(shell.fd)
    BY <1>1 DEF ShellInv
  <2> QED
    BY <2>1, <2>5, <2>6
<1>2. ASSUME vol.mounted, IsDir(vol, vol.root)
      PROVE  \A size \in 2..(Len(FullListing) + 2) : ListingIsExact(size)
  <2>1. vol \in Volumes
    BY <1>2 DEF ShellInv, NoVolume
  <2>2. FullListing \in Seq(Bytes)
    <3>1. 2 \in Nat /\ 2 >= 2
      OBVIOUS
    <3> QED
      BY <1>2, <2>1, <3>1, ListingExact
  <2>3. PICK l \in Nat : l = Len(FullListing)
    BY <2>2, LenProperties
  <2>4. ASSUME NEW size \in 2..(l + 2) PROVE ListingIsExact(size)
    <3>1. size \in Nat /\ size >= 2
      OBVIOUS
    <3> QED
      BY <1>2, <2>1, <3>1, ListingExact
  <2> QED
    BY <2>3, <2>4
<1> QED
  BY <1>1, <1>2 DEF FilesAreShownAsStored

\* What cat and ls show is what the volume stores, for every volume: across
\* block borders, at a file's end, beside a zero byte, and for names that fill
\* the buffer (mesafs.c:383, syscall.c:650, shell.c).
THEOREM FilesAreShown == Spec => []FilesAreShownAsStored
<1>1. Init => ShellInv
  <2>1. ASSUME Init PROVE ShellInv
    <3>1. shell = Idle /\ vol \in Volumes \cup {NoVolume}
      BY <2>1 DEF Init
    <3> QED
      BY <3>1 DEF Idle, ShellInv
  <2> QED
    BY <2>1
<1>2. ShellInv /\ [Next]_vars => ShellInv'
  BY ShellStep
<1>3. ShellInv => FilesAreShownAsStored
  BY ShellShowsFiles
<1> QED
  BY <1>1, <1>2, <1>3, PTL DEF Spec

-----------------------------------------------------------------------------
(* Names and paths *)

\* After i names the path f[i] was put together, and the inode f[i] is reached.
IsJoining(f, l) ==
    f = [i \in 0..Len(l) |-> IF i = 0 THEN <<>> ELSE Attach(f[i - 1], l[i])]
IsFollowing(f, v, l) ==
    f = [i \in 0..Len(l) |-> IF i = 0 THEN v.root ELSE Follow(v, f[i - 1], l[i])]

LEMMA AttachType ==
    ASSUME NEW p \in Seq(Bytes), NEW x \in Seq(Bytes)
    PROVE  /\ Attach(p, x) \in Seq(Bytes)
           /\ p = <<>> => Attach(p, x) = x
           /\ p # <<>> => /\ Len(Attach(p, x)) = Len(p) + 1 + Len(x)
                          /\ \A i \in 1..Len(p) : Attach(p, x)[i] = p[i]
                          /\ Attach(p, x)[Len(p) + 1] = Slash
                          /\ \A i \in 1..Len(x) : Attach(p, x)[Len(p) + 1 + i] = x[i]
<1>1. CASE p = <<>>
  BY <1>1 DEF Attach
<1>2. CASE p # <<>>
  <2>1. PICK c : c = <<Slash>>
    OBVIOUS
  <2>2. c \in Seq(Bytes) /\ Len(c) = 1 /\ c[1] = Slash
    BY <2>1, UserlandAssumption
  <2>3. PICK k \in Nat, l \in Nat : k = Len(p) /\ l = Len(x)
    BY LenProperties
  <2>4. PICK q : q = p \o c
    OBVIOUS
  <2>5. /\ q \in Seq(Bytes) /\ Len(q) = k + 1
        /\ \A i \in 1..(k + 1) : q[i] = IF i <= k THEN p[i] ELSE c[i - k]
    <3>1. PICK d \in Nat : d = Len(c) /\ d = 1
      BY <2>2
    <3>2. /\ q \in Seq(Bytes) /\ Len(q) = k + d
          /\ \A i \in 1..(k + d) : q[i] = IF i <= k THEN p[i] ELSE c[i - k]
      <4>1. c \in Seq(Bytes)
        BY <2>2
      <4>2. k = Len(p) /\ d = Len(c)
        BY <2>3, <3>1
      <4> QED
        BY <2>4, <4>1, <4>2, ConcatProperties
    <3> QED
      BY <3>1, <3>2
  <2>6. PICK r : r = q \o x
    OBVIOUS
  <2>7. PICK m \in Nat : m = k + 1
    OBVIOUS
  <2>8. q \in Seq(Bytes) /\ Len(q) = m
    BY <2>5, <2>7
  <2>9. /\ r \in Seq(Bytes) /\ Len(r) = m + l
        /\ \A i \in 1..(m + l) : r[i] = IF i <= m THEN q[i] ELSE x[i - m]
    BY <2>3, <2>6, <2>8, ConcatProperties
  <2>10. ASSUME NEW i \in 1..k PROVE r[i] = p[i]
    BY <2>3, <2>5, <2>7, <2>9
  <2>11. r[m] = Slash
    <3>1. m \in 1..(m + l) /\ m \in 1..(k + 1) /\ ~(m <= k) /\ m - k = 1
      BY <2>3, <2>7
    <3>2. r[m] = q[m] /\ q[m] = c[m - k]
      BY <2>5, <2>9, <3>1
    <3> QED
      BY <2>2, <3>1, <3>2
  <2>12. ASSUME NEW i \in 1..l PROVE r[m + i] = x[i]
    <3>1. m + i \in 1..(m + l) /\ ~(m + i <= m) /\ (m + i) - m = i
      BY <2>3
    <3> QED
      BY <2>9, <3>1
  <2>13. Attach(p, x) = r
    BY <1>2, <2>1, <2>4, <2>6 DEF Attach
  <2> QED
    BY <1>2, <2>3, <2>7, <2>9, <2>10, <2>11, <2>12, <2>13
<1> QED
  BY <1>1, <1>2

LEMMA JoiningExists ==
    ASSUME NEW l \in Seq(Seq(Bytes))
    PROVE  \E f : IsJoining(f, l)
<1>1. PICK n \in Nat : n = Len(l)
  BY LenProperties
<1>2. PICK S : S = Seq(Bytes)
  OBVIOUS
<1>3. PICK g : g = [i \in 1..n |-> [p \in S |-> Attach(p, l[i])]]
  OBVIOUS
<1>4. \A i \in 1..n, p \in S : Attach(p, l[i]) \in S
  BY <1>1, <1>2, AttachType, LenProperties
<1>5. g \in [1..n -> [S -> S]] /\ <<>> \in S
  BY <1>2, <1>3, <1>4
<1>6. PICK f : IsLoop(f, n, S, <<>>, g)
  BY <1>5, LoopExists
<1>7. f \in [0..n -> S] /\ f[0] = <<>> /\ \A i \in 1..n : f[i] = g[i][f[i - 1]]
  BY <1>6 DEF IsLoop
<1>8. ASSUME NEW i \in 1..n PROVE f[i] = Attach(f[i - 1], l[i])
  <2>1. f[i - 1] \in S /\ f[i] = g[i][f[i - 1]]
    BY <1>7
  <2> QED
    BY <1>3, <2>1
<1>9. f = [i \in 0..n |-> IF i = 0 THEN <<>> ELSE Attach(f[i - 1], l[i])]
  BY <1>7, <1>8
<1> QED
  BY <1>1, <1>9 DEF IsJoining

LEMMA JoinedLoop ==
    ASSUME NEW l \in Seq(Seq(Bytes)), NEW n \in Nat, n = Len(l)
    PROVE  \E f : /\ f[0] = <<>> /\ Joined(l) = f[n]
                  /\ \A i \in 1..n : f[i] = Attach(f[i - 1], l[i])
<1>1. PICK f : f = CHOOSE ff : IsJoining(ff, l)
  OBVIOUS
<1>2. IsJoining(f, l)
  BY <1>1, JoiningExists
<1>3. Joined(l) = f[n]
  BY <1>1 DEF Joined, IsJoining
<1>4. f = [i \in 0..n |-> IF i = 0 THEN <<>> ELSE Attach(f[i - 1], l[i])]
  BY <1>2 DEF IsJoining
<1>5. f[0] = <<>>
  BY <1>4
<1>6. ASSUME NEW i \in 1..n PROVE f[i] = Attach(f[i - 1], l[i])
  <2>1. i \in 0..n /\ i # 0
    OBVIOUS
  <2> QED
    BY <1>4, <2>1
<1> QED
  BY <1>3, <1>5, <1>6

Hit(e, name) == IsUsed(e) /\ e.name = name

\* The first entry of that name among the entries is the first among the used ones.
SameFirst(entries, i, used, name) ==
    \/ /\ \A a \in 1..i : ~Hit(entries[a], name)
       /\ \A b \in 1..Len(used) : used[b].name # name
    \/ \E a \in 1..i, b \in 1..Len(used) :
          /\ Hit(entries[a], name) /\ used[b] = entries[a]
          /\ \A c \in 1..(a - 1) : ~Hit(entries[c], name)
          /\ \A c \in 1..(b - 1) : used[c].name # name

LEMMA SameFirstStep ==
    ASSUME NEW entries \in Seq(DirEntries), NEW i \in 1..Len(entries), NEW used \in Seq(DirEntries),
           NEW name, SameFirst(entries, i - 1, used, name), NEW next, next = AddUsed(used, entries[i])
    PROVE  next \in Seq(DirEntries) /\ SameFirst(entries, i, next, name)
<1>1. PICK l \in Nat, e \in DirEntries : l = Len(used) /\ e = entries[i]
  BY LenProperties
<1>2. Len(entries) \in Nat
  BY LenProperties
<1>3. CASE ~IsUsed(e)
  <2>1. next = used /\ ~Hit(e, name)
    BY <1>1, <1>3 DEF AddUsed, Hit
  <2> QED
    BY <1>1, <1>2, <2>1 DEF SameFirst
<1>4. CASE IsUsed(e)
  <2>1. next = Append(used, e)
    BY <1>1, <1>4 DEF AddUsed
  <2>2. /\ next \in Seq(DirEntries) /\ Len(next) = l + 1
        /\ \A b \in 1..l : next[b] = used[b]
        /\ next[l + 1] = e
    BY <1>1, <2>1, AppendProperties
  <2>3. CASE \E a \in 1..(i - 1), b \in 1..l :
                /\ Hit(entries[a], name) /\ used[b] = entries[a]
                /\ \A c \in 1..(a - 1) : ~Hit(entries[c], name)
                /\ \A c \in 1..(b - 1) : used[c].name # name
    <3>1. PICK a \in 1..(i - 1), b \in 1..l :
                /\ Hit(entries[a], name) /\ used[b] = entries[a]
                /\ \A c \in 1..(a - 1) : ~Hit(entries[c], name)
                /\ \A c \in 1..(b - 1) : used[c].name # name
      BY <2>3
    <3>2. a \in 1..i /\ b \in 1..(l + 1) /\ next[b] = used[b] /\ \A c \in 1..(b - 1) : next[c] = used[c]
      BY <1>1, <1>2, <2>2
    <3>3. b \in 1..Len(next) /\ next[b] = entries[a] /\ \A c \in 1..(b - 1) : next[c].name # name
      BY <2>2, <3>1, <3>2
    <3>4. SameFirst(entries, i, next, name)
      BY <3>1, <3>2, <3>3 DEF SameFirst
    <3> QED
      BY <2>2, <3>4
  <2>4. CASE /\ \A a \in 1..(i - 1) : ~Hit(entries[a], name)
             /\ \A b \in 1..l : used[b].name # name
    <3>1. CASE e.name = name
      <4>1. Hit(entries[i], name) /\ next[l + 1] = entries[i] /\ i \in 1..i /\ l + 1 \in 1..(l + 1)
        BY <1>1, <1>2, <1>4, <2>2, <3>1 DEF Hit
      <4>2. \A c \in 1..((l + 1) - 1) : next[c].name # name
        BY <1>1, <2>2, <2>4
      <4> QED
        BY <2>2, <2>4, <4>1, <4>2 DEF SameFirst
    <3>2. CASE e.name # name
      <4>1. \A a \in 1..i : ~Hit(entries[a], name)
        <5>1. \A a \in 1..i : a = i \/ a \in 1..(i - 1)
          BY <1>2
        <5> QED
          BY <1>1, <2>4, <3>2, <5>1 DEF Hit
      <4>2. \A b \in 1..(l + 1) : next[b].name # name
        <5>1. \A b \in 1..(l + 1) : b = l + 1 \/ b \in 1..l
          BY <1>1
        <5> QED
          BY <2>2, <2>4, <3>2, <5>1
      <4> QED
        BY <2>2, <4>1, <4>2 DEF SameFirst
    <3> QED
      BY <3>1, <3>2
  <2> QED
    BY <1>1, <2>2, <2>3, <2>4 DEF SameFirst
<1> QED
  BY <1>3, <1>4

LEMMA UsedSameFirst ==
    ASSUME NEW v, NEW n, NEW name, EntriesOf(v, n) \in Seq(DirEntries)
    PROVE  /\ UsedEntries(v, n) \in Seq(DirEntries)
           /\ SameFirst(EntriesOf(v, n), Len(EntriesOf(v, n)), UsedEntries(v, n), name)
<1>1. PICK entries : entries = EntriesOf(v, n)
  OBVIOUS
<1>2. PICK m \in Nat : m = Len(entries)
  BY <1>1, LenProperties
<1>3. PICK f : /\ f[0] = <<>> /\ UsedEntries(v, n) = f[m]
               /\ \A i \in 1..m : f[i] = AddUsed(f[i - 1], entries[i])
  BY <1>1, <1>2, UsedEntriesLoop
<1> DEFINE P == {i \in 0..m : f[i] \in Seq(DirEntries) /\ SameFirst(entries, i, f[i], name)}
<1>4. 0 \in P
  <2>1. <<>> \in Seq(DirEntries) /\ Len(<<>>) = 0
    OBVIOUS
  <2>2. SameFirst(entries, 0, <<>>, name)
    BY <2>1 DEF SameFirst
  <2>3. f[0] \in Seq(DirEntries) /\ SameFirst(entries, 0, f[0], name) /\ 0 \in 0..m
    BY <1>3, <2>1, <2>2
  <2> QED
    BY <2>3
<1>5. ASSUME NEW i \in 1..m, i - 1 \in P PROVE i \in P
  <2>1. f[i] = AddUsed(f[i - 1], entries[i]) /\ i \in 1..Len(entries)
    BY <1>2, <1>3
  <2>2. f[i - 1] \in Seq(DirEntries) /\ SameFirst(entries, i - 1, f[i - 1], name)
    BY <1>5
  <2>3. f[i] \in Seq(DirEntries) /\ SameFirst(entries, i, f[i], name)
    BY <1>1, <2>1, <2>2, SameFirstStep
  <2> QED
    BY <2>3
<1>6. \A i \in 0..m : i \in P
  <2> HIDE DEF P
  <2> QED
    BY <1>4, <1>5, Rounds
<1>7. f[m] \in Seq(DirEntries) /\ SameFirst(entries, m, f[m], name)
  BY <1>6
<1> QED
  BY <1>1, <1>2, <1>3, <1>7

\* The reference looks among the used entries, find_in_dir among all.
LEMMA ChildIsFound ==
    ASSUME NEW v \in Volumes, NEW n \in Nat, NEW name
    PROVE  Child(v, n, name) = find_in_dir(v, n, name)
<1>1. PICK entries, used : entries = EntriesOf(v, n) /\ used = UsedEntries(v, n)
  OBVIOUS
<1> DEFINE named == {i \in DOMAIN entries : IsUsed(entries[i]) /\ entries[i].name = name}
<1>2. CASE ~IsDir(v, n)
  BY <1>2 DEF Child, find_in_dir
<1>3. CASE IsDir(v, n)
  <2>1. entries \in Seq(DirEntries) /\ used \in Seq(DirEntries) /\ SameFirst(entries, Len(entries), used, name)
    BY <1>1, <1>3, EntriesType, UsedSameFirst
  <2>2. PICK m \in Nat, l \in Nat : m = Len(entries) /\ l = Len(used)
    BY <2>1, LenProperties
  <2>3. DOMAIN entries = 1..m /\ DOMAIN used = 1..l
    BY <2>1, <2>2, LenProperties
  <2>4. CASE /\ \A a \in 1..m : ~Hit(entries[a], name)
             /\ \A b \in 1..l : used[b].name # name
    <3>1. named = {}
      BY <2>3, <2>4 DEF Hit
    <3>2. ~ \E i \in DOMAIN used : used[i].name = name
      BY <2>3, <2>4
    <3>3. Child(v, n, name) = 0
      BY <1>1, <3>2 DEF Child
    <3>4. find_in_dir(v, n, name) = 0
      BY <1>1, <3>1 DEF find_in_dir
    <3> QED
      BY <3>3, <3>4
  <2>5. CASE \E a \in 1..m, b \in 1..l :
                /\ Hit(entries[a], name) /\ used[b] = entries[a]
                /\ \A c \in 1..(a - 1) : ~Hit(entries[c], name)
                /\ \A c \in 1..(b - 1) : used[c].name # name
    <3>1. PICK a \in 1..m, b \in 1..l :
                /\ Hit(entries[a], name) /\ used[b] = entries[a]
                /\ \A c \in 1..(a - 1) : ~Hit(entries[c], name)
                /\ \A c \in 1..(b - 1) : used[c].name # name
      BY <2>5
    <3>2. a \in named /\ \A j \in named : a <= j
      BY <2>3, <3>1 DEF Hit
    <3>3. PICK first : first = CHOOSE i \in named : \A j \in named : i <= j
      OBVIOUS
    <3>4. first \in named /\ \A j \in named : first <= j
      <4> HIDE DEF named
      <4> QED
        BY <3>2, <3>3
    <3>5. first = a
      <4>1. first <= a /\ a <= first /\ first \in 1..m
        BY <2>3, <3>2, <3>4
      <4> QED
        BY <4>1
    <3>6. find_in_dir(v, n, name) = entries[a].inode
      BY <1>1, <1>3, <3>2, <3>3, <3>5 DEF find_in_dir
    <3>7. b \in DOMAIN used /\ used[b].name = name
      BY <2>3, <3>1 DEF Hit
    <3>8. PICK i : i = CHOOSE k \in DOMAIN used : /\ used[k].name = name
                                                  /\ \A j \in 1..(k - 1) : used[j].name # name
      OBVIOUS
    <3>9. i \in DOMAIN used /\ used[i].name = name /\ \A j \in 1..(i - 1) : used[j].name # name
      BY <3>1, <3>7, <3>8
    <3>10. i = b
      BY <2>3, <3>1, <3>7, <3>9
    <3>11. Child(v, n, name) = used[b].inode
      BY <1>1, <1>3, <3>7, <3>8, <3>10 DEF Child
    <3> QED
      BY <3>1, <3>6, <3>11
  <2> QED
    BY <2>1, <2>2, <2>4, <2>5 DEF SameFirst
<1> QED
  BY <1>2, <1>3

LEMMA FollowType ==
    ASSUME NEW v \in Volumes, NEW n \in Nat, NEW name
    PROVE  Follow(v, n, name) \in Nat
BY ChildIsFound, FindType DEF Follow

LEMMA FollowingExists ==
    ASSUME NEW v \in Volumes, NEW l, Len(l) \in Nat
    PROVE  \E f : IsFollowing(f, v, l)
<1>1. PICK n \in Nat : n = Len(l)
  OBVIOUS
<1>2. PICK g, S : g = [i \in 1..n |-> [p \in Nat |-> Follow(v, p, l[i])]] /\ S = Nat
  OBVIOUS
<1>3. \A i \in 1..n, p \in Nat : Follow(v, p, l[i]) \in Nat
  BY FollowType
<1>4. g \in [1..n -> [S -> S]] /\ v.root \in S
  BY <1>2, <1>3, VolumeFields
<1>5. PICK f : IsLoop(f, n, S, v.root, g)
  BY <1>4, LoopExists
<1>6. f \in [0..n -> S] /\ f[0] = v.root /\ \A i \in 1..n : f[i] = g[i][f[i - 1]]
  BY <1>5 DEF IsLoop
<1>7. ASSUME NEW i \in 1..n PROVE f[i] = Follow(v, f[i - 1], l[i])
  <2>1. i - 1 \in 0..n
    OBVIOUS
  <2>2. f[i - 1] \in S /\ f[i] = g[i][f[i - 1]]
    BY <1>6, <2>1
  <2>3. S = Nat
    BY <1>2
  <2>4. PICK p \in Nat : p = f[i - 1]
    BY <2>2, <2>3
  <2>5. g[i][p] = Follow(v, p, l[i])
    BY <1>2
  <2> QED
    BY <2>2, <2>4, <2>5
<1>8. f = [i \in 0..n |-> IF i = 0 THEN v.root ELSE Follow(v, f[i - 1], l[i])]
  BY <1>6, <1>7
<1> QED
  BY <1>1, <1>8 DEF IsFollowing

LEMMA ReachedLoop ==
    ASSUME NEW v \in Volumes, NEW l \in Seq(Seq(Bytes)), NEW n \in Nat, n = Len(l)
    PROVE  \E f : /\ f[0] = v.root /\ Reached(v, l) = f[n]
                  /\ \A i \in 1..n : f[i] = Follow(v, f[i - 1], l[i])
<1>1. PICK f : f = CHOOSE ff : IsFollowing(ff, v, l)
  OBVIOUS
<1>2. IsFollowing(f, v, l)
  BY <1>1, FollowingExists
<1>3. Reached(v, l) = f[n]
  BY <1>1 DEF Reached, IsFollowing
<1>4. f = [i \in 0..n |-> IF i = 0 THEN v.root ELSE Follow(v, f[i - 1], l[i])]
  BY <1>2 DEF IsFollowing
<1>5. f[0] = v.root
  BY <1>4
<1>6. ASSUME NEW i \in 1..n PROVE f[i] = Follow(v, f[i - 1], l[i])
  <2>1. i \in 0..n /\ i # 0
    OBVIOUS
  <2> QED
    BY <1>4, <2>1
<1> QED
  BY <1>3, <1>5, <1>6

\* One name more.
LEMMA JoinedMore ==
    ASSUME NEW l \in Seq(Seq(Bytes)), NEW x \in Seq(Bytes)
    PROVE  Joined(l) \in Seq(Bytes) /\ Joined(Append(l, x)) = Attach(Joined(l), x)
<1>0. PICK n \in Nat : n = Len(l)
  BY LenProperties
<1>1. PICK k : n = Len(l) /\ k = Append(l, x)
  BY <1>0
<1>2. k \in Seq(Seq(Bytes)) /\ Len(k) = n + 1 /\ (\A i \in 1..n : k[i] = l[i]) /\ k[n + 1] = x
  BY <1>1, AppendProperties
<1>3. PICK f : f[0] = <<>> /\ Joined(l) = f[n] /\ \A i \in 1..n : f[i] = Attach(f[i - 1], l[i])
  BY <1>1, JoinedLoop
<1>4. PICK m \in Nat : m = n + 1
  OBVIOUS
<1>5. PICK g : g[0] = <<>> /\ Joined(k) = g[m] /\ \A i \in 1..m : g[i] = Attach(g[i - 1], k[i])
  BY <1>2, <1>4, JoinedLoop
<1> DEFINE P == {i \in 0..n : g[i] = f[i] /\ f[i] \in Seq(Bytes)}
<1>6. 0 \in P
  <2>1. 0 \in 0..n /\ g[0] = f[0] /\ f[0] \in Seq(Bytes)
    BY <1>3, <1>5, EmptySeq
  <2> QED
    BY <2>1
<1>7. ASSUME NEW i \in 1..n, i - 1 \in P PROVE i \in P
  <2>1. f[i] = Attach(f[i - 1], l[i]) /\ g[i] = Attach(g[i - 1], l[i])
    BY <1>2, <1>3, <1>4, <1>5
  <2>2. g[i - 1] = f[i - 1] /\ f[i - 1] \in Seq(Bytes) /\ l[i] \in Seq(Bytes)
    BY <1>1, <1>7, LenProperties
  <2>3. f[i] \in Seq(Bytes) /\ g[i] = f[i]
    BY <2>1, <2>2, AttachType
  <2> QED
    BY <2>3
<1>8. \A i \in 0..n : i \in P
  <2> HIDE DEF P
  <2> QED
    BY <1>6, <1>7, Rounds
<1>9. g[n] = f[n] /\ f[n] \in Seq(Bytes)
  BY <1>8
<1>10. g[m] = Attach(g[n], x)
  <2>1. m \in 1..m /\ m - 1 = n
    BY <1>4
  <2>2. g[m] = Attach(g[m - 1], k[m])
    BY <1>5, <2>1
  <2> QED
    BY <1>2, <1>4, <2>1, <2>2
<1> QED
  BY <1>1, <1>3, <1>5, <1>9, <1>10

LEMMA ReachedMore ==
    ASSUME NEW v \in Volumes, NEW l \in Seq(Seq(Bytes)), NEW x \in Seq(Bytes)
    PROVE  Reached(v, Append(l, x)) = Follow(v, Reached(v, l), x)
<1>0. PICK n \in Nat : n = Len(l)
  BY LenProperties
<1>1. PICK k : n = Len(l) /\ k = Append(l, x)
  BY <1>0
<1>2. k \in Seq(Seq(Bytes)) /\ Len(k) = n + 1 /\ (\A i \in 1..n : k[i] = l[i]) /\ k[n + 1] = x
  BY <1>1, AppendProperties
<1>3. PICK f : /\ f[0] = v.root /\ Reached(v, l) = f[n]
               /\ \A i \in 1..n : f[i] = Follow(v, f[i - 1], l[i])
  <2>1. n = Len(l)
    BY <1>1
  <2> QED
    BY <2>1, ReachedLoop
<1>4. PICK m \in Nat : m = n + 1
  OBVIOUS
<1>5. PICK g : /\ g[0] = v.root /\ Reached(v, k) = g[m]
               /\ \A i \in 1..m : g[i] = Follow(v, g[i - 1], k[i])
  <2>1. m = Len(k) /\ k \in Seq(Seq(Bytes))
    BY <1>2, <1>4
  <2> QED
    BY <2>1, ReachedLoop
<1> DEFINE P == {i \in 0..n : g[i] = f[i]}
<1>6. 0 \in P
  BY <1>3, <1>5
<1>7. ASSUME NEW i \in 1..n, i - 1 \in P PROVE i \in P
  <2>1. f[i] = Follow(v, f[i - 1], l[i]) /\ g[i] = Follow(v, g[i - 1], l[i])
    BY <1>2, <1>3, <1>4, <1>5
  <2>2. g[i - 1] = f[i - 1]
    BY <1>7
  <2> QED
    BY <2>1, <2>2
<1>8. \A i \in 0..n : i \in P
  <2> HIDE DEF P
  <2> QED
    BY <1>6, <1>7, Rounds
<1>9. g[n] = f[n]
  BY <1>8
<1>10. g[m] = Follow(v, g[n], x)
  <2>1. m \in 1..m /\ m - 1 = n
    BY <1>4
  <2>2. g[m] = Follow(v, g[m - 1], k[m])
    BY <1>5, <2>1
  <2> QED
    BY <1>2, <1>4, <2>1, <2>2
<1> QED
  BY <1>1, <1>3, <1>5, <1>9, <1>10

LEMMA NothingJoined ==
    ASSUME NEW v \in Volumes
    PROVE  Joined(<<>>) = <<>> /\ Reached(v, <<>>) = v.root
<1>1. PICK n \in Nat : n = 0 /\ n = Len(<<>>)
  OBVIOUS
<1>2. <<>> \in Seq(Seq(Bytes))
  OBVIOUS
<1>3. PICK f : f[0] = <<>> /\ Joined(<<>>) = f[n]
  BY <1>1, <1>2, JoinedLoop
<1>4. PICK g : g[0] = v.root /\ Reached(v, <<>>) = g[n]
  BY <1>1, <1>2, ReachedLoop
<1> QED
  BY <1>1, <1>3, <1>4

\* b goes on behind a only after a slash.
BeginsWith(a, b) ==
    /\ Len(a) <= Len(b)
    /\ \A i \in 1..Len(a) : b[i] = a[i]
    /\ Len(b) > Len(a) => b[Len(a) + 1] = Slash

LEMMA AttachedBegins ==
    ASSUME NEW p \in Seq(Bytes), NEW x \in Seq(Bytes), p # <<>>
    PROVE  BeginsWith(p, Attach(p, x))
<1>0. PICK k \in Nat, l \in Nat : k = Len(p) /\ l = Len(x)
  BY LenProperties
<1>1. PICK r : k = Len(p) /\ l = Len(x) /\ r = Attach(p, x)
  BY <1>0
<1>2. /\ Len(r) = k + 1 + l
      /\ \A i \in 1..k : r[i] = p[i]
      /\ r[k + 1] = Slash
  BY <1>1, AttachType
<1>3. Len(p) <= Len(r)
  BY <1>1, <1>2
<1> QED
  BY <1>1, <1>2, <1>3 DEF BeginsWith

LEMMA BeginningOfBeginning ==
    ASSUME NEW a, NEW b, NEW c, Len(a) \in Nat, Len(b) \in Nat, Len(c) \in Nat, BeginsWith(a, b), BeginsWith(b, c)
    PROVE  BeginsWith(a, c)
<1>1. PICK i \in Nat, j \in Nat, k \in Nat : i = Len(a) /\ j = Len(b) /\ k = Len(c)
  OBVIOUS
<1>2. /\ i <= j /\ (\A x \in 1..i : b[x] = a[x]) /\ (j > i => b[i + 1] = Slash)
      /\ j <= k /\ (\A x \in 1..j : c[x] = b[x]) /\ (k > j => c[j + 1] = Slash)
  BY <1>1 DEF BeginsWith
<1>3. \A x \in 1..i : c[x] = a[x]
  BY <1>2
<1>4. k > i => c[i + 1] = Slash
  <2>1. CASE j > i
    <3>1. i + 1 \in 1..j
      BY <2>1
    <3> QED
      BY <1>2, <2>1, <3>1
  <2>2. CASE i = j
    BY <1>2, <2>2
  <2> QED
    BY <1>2, <2>1, <2>2
<1> QED
  BY <1>1, <1>2, <1>3, <1>4 DEF BeginsWith

\* The walk stands at s when the names joined in j are behind it.
At(q, s, j) == IF j = <<>> THEN s = 1 ELSE s = Len(j) + 2 /\ BeginsWith(j, q)

LEMMA AtType ==
    ASSUME NEW q, NEW j \in Seq(Bytes), NEW s, At(q, s, j)
    PROVE  s \in Nat \ {0}
<1>1. Len(j) \in Nat
  BY LenProperties
<1> QED
  BY <1>1 DEF At

LEMMA AttachedAt ==
    ASSUME NEW q \in Seq(Bytes), NEW j \in Seq(Bytes), NEW x \in Seq(Bytes), NEW s \in Nat \ {0},
           NEW l \in Nat, NEW r, At(q, s, j), r = Attach(j, x), l = Len(x)
    PROVE  /\ r \in Seq(Bytes) /\ Len(r) = (s - 1) + l
           /\ \A i \in 1..l : r[(s - 1) + i] = x[i]
           /\ s <= Len(q) => \A i \in 1..(s - 1) : r[i] = q[i]
<1>1. PICK m \in Nat, k \in Nat : m = Len(q) /\ k = Len(j)
  BY LenProperties
<1>2. l \in Nat
  BY LenProperties
<1>3. CASE j = <<>>
  <2>1. s = 1 /\ r = x
    BY <1>3, AttachType DEF At
  <2>2. \A i \in 1..l : (s - 1) + i = i
    BY <1>2, <2>1
  <2>3. Len(r) = (s - 1) + l /\ ~ \E i \in 1..(s - 1) : TRUE
    BY <1>2, <2>1
  <2> QED
    BY <2>1, <2>2, <2>3
<1>4. CASE j # <<>>
  <2>1. s = k + 2 /\ BeginsWith(j, q)
    BY <1>1, <1>4 DEF At
  <2>2. /\ r \in Seq(Bytes) /\ Len(r) = k + 1 + l /\ \A i \in 1..l : r[k + 1 + i] = x[i]
        /\ (\A i \in 1..k : r[i] = j[i]) /\ r[k + 1] = Slash
    BY <1>1, <1>4, AttachType
  <2>3. s - 1 = k + 1
    BY <2>1
  <2>4. s <= m => \A i \in 1..(k + 1) : r[i] = q[i]
    <3>1. (\A i \in 1..k : q[i] = j[i]) /\ (m > k => q[k + 1] = Slash)
      BY <1>1, <2>1 DEF BeginsWith
    <3>2. \A i \in 1..(k + 1) : i \in 1..k \/ i = k + 1
      OBVIOUS
    <3>3. s <= m => m > k
      BY <2>1
    <3> QED
      BY <2>2, <3>1, <3>2, <3>3
  <2> QED
    BY <1>1, <2>1, <2>2, <2>3, <2>4
<1> QED
  BY <1>3, <1>4

PlainNames == {x \in FileNames : x # <<>> /\ \A i \in 1..Len(x) : x[i] # Slash}

LEMMA NameSizes == NameField \in Nat /\ ComponentMax \in Nat /\ NameField < ComponentMax
BY MesaFSAssumption

\* Between two such places lies the component x.
LEMMA ComponentBetween ==
    ASSUME NEW q \in Seq(Bytes), NEW j \in Seq(Bytes), NEW x \in PlainNames, NEW s, NEW t,
           At(q, s, j), At(q, t, Attach(j, x))
    PROVE  /\ s \in Nat \ {0} /\ t \in Nat /\ s < t /\ s <= Len(q)
           /\ ComponentEnd(q, s) = t - 1 /\ Component(q, s, t - 1) = x
<1>0. PICK m \in Nat, k \in Nat, l \in Nat : m = Len(q) /\ k = Len(j) /\ l = Len(x)
  BY LenProperties DEF PlainNames, FileNames
<1>1. PICK r : m = Len(q) /\ k = Len(j) /\ l = Len(x) /\ r = Attach(j, x)
  BY <1>0
<1>2. x \in Seq(Bytes) /\ l # 0 /\ l <= NameField /\ \A i \in 1..l : x[i] # Slash
  BY <1>1, EmptySeq DEF PlainNames, FileNames
<1>3. s \in Nat \ {0} /\ r \in Seq(Bytes) /\ Len(r) = (s - 1) + l /\ \A i \in 1..l : r[(s - 1) + i] = x[i]
  <2>1. l = Len(x) /\ r = Attach(j, x) /\ x \in Seq(Bytes) /\ s \in Nat \ {0}
    BY <1>1, <1>2, AtType
  <2> QED
    BY <2>1, AttachedAt
<1>4. PICK z \in Nat : z = s - 1
  BY <1>3
<1>5. r # <<>> /\ t = z + l + 2 /\ BeginsWith(r, q)
  <2>1. Len(r) = z + l /\ z + l # 0
    BY <1>2, <1>3, <1>4
  <2>2. r # <<>>
    BY <2>1
  <2> QED
    BY <1>1, <2>1, <2>2 DEF At
<1>6. /\ z + l <= m /\ (\A i \in 1..(z + l) : q[i] = r[i])
      /\ m > z + l => q[z + l + 1] = Slash
  <2>1. Len(r) = z + l
    BY <1>3, <1>4
  <2> QED
    BY <1>1, <1>5, <2>1 DEF BeginsWith
<1>7. \A i \in 1..l : q[z + i] = x[i]
  <2>1. \A i \in 1..l : z + i \in 1..(z + l)
    BY <1>4
  <2> QED
    BY <1>3, <1>4, <1>6, <2>1
<1>8. \A i \in s..(z + l) : q[i] # Slash
  <2>1. \A i \in s..(z + l) : i - z \in 1..l /\ z + (i - z) = i
    BY <1>3, <1>4
  <2> QED
    BY <1>2, <1>7, <2>1
<1>9. PICK e \in Nat : e = z + l + 1 /\ e = t - 1
  BY <1>5
<1>10. ComponentEnd(q, s) = e
  <2>1. e \in s..(m + 1) /\ (e <= m => q[e] = Slash) /\ \A i \in s..(e - 1) : q[i] # Slash
    BY <1>3, <1>4, <1>6, <1>8, <1>9
  <2>2. \A d \in s..(m + 1) : (d <= m => q[d] = Slash) /\ (\A i \in s..(d - 1) : q[i] # Slash) => d = e
    <3>1. ASSUME NEW d \in s..(m + 1), (d <= m => q[d] = Slash) /\ (\A i \in s..(d - 1) : q[i] # Slash)
          PROVE  d = e
      <4>1. CASE d < e
        BY <3>1, <4>1, <2>1
      <4>2. CASE d > e
        BY <3>1, <4>2, <2>1
      <4> QED
        BY <4>1, <4>2
    <3> QED
      BY <3>1
  <2> QED
    BY <1>1, <2>1, <2>2 DEF ComponentEnd
<1>11. Component(q, s, e) = x
  <2>0. PICK u \in Nat : u = z + l
    OBVIOUS
  <2>1. PICK y : y = SubSeq(q, s, u)
    OBVIOUS
  <2>2. Component(q, s, e) = y
    <3>1. MinOf(e - 1, s + ComponentMax - 1) = u
      BY <1>2, <1>3, <1>4, <1>9, <2>0, NameSizes DEF MinOf
    <3> QED
      BY <2>1, <3>1 DEF Component
  <2>3. y \in Seq(Bytes) /\ Len(y) = l /\ \A i \in 1..l : y[i] = q[z + i]
    <3>1. s \in 1..(m + 1) /\ u \in (s - 1)..m /\ u - s + 1 = l
      BY <1>2, <1>3, <1>4, <1>6, <2>0
    <3>2. y \in Seq(Bytes) /\ Len(y) = u - s + 1 /\ \A i \in 1..(u - s + 1) : y[i] = q[s + i - 1]
      BY <1>1, <2>1, <3>1, SubSeqProperties
    <3>3. ASSUME NEW i \in 1..l PROVE y[i] = q[z + i]
      <4>1. s + i - 1 = z + i
        BY <1>3, <1>4
      <4> QED
        BY <3>1, <3>2, <4>1
    <3> QED
      BY <3>1, <3>2, <3>3
  <2>4. y = x
    BY <1>1, <1>2, <1>7, <2>3, SeqEqual
  <2> QED
    BY <2>2, <2>4
<1> QED
  BY <1>1, <1>2, <1>3, <1>4, <1>5, <1>6, <1>9, <1>10, <1>11

LEMMA Slice ==
    ASSUME NEW q \in Seq(Bytes), NEW s \in Nat \ {0}, NEW u \in Nat, s - 1 <= u, u <= Len(q)
    PROVE  /\ SubSeq(q, s, u) \in Seq(Bytes) /\ Len(SubSeq(q, s, u)) = (u + 1) - s
           /\ \A i \in 1..((u + 1) - s) : SubSeq(q, s, u)[i] = q[s + i - 1]
<1>1. PICK m \in Nat : m = Len(q)
  BY LenProperties
<1>2. s \in 1..(m + 1) /\ u \in (s - 1)..m
  BY <1>1
<1>3. u - s + 1 = (u + 1) - s
  OBVIOUS
<1> QED
  BY <1>1, <1>2, <1>3, SubSeqProperties

\* The component at such a place leads to the next one.
LEMMA AttachedIsAt ==
    ASSUME NEW q \in Seq(Bytes), NEW j \in Seq(Bytes), NEW x \in Seq(Bytes), NEW s \in Nat \ {0},
           NEW l \in Nat \ {0}, l = Len(x), At(q, s, j), s <= Len(q), (s - 1) + l <= Len(q),
           \A i \in 1..l : x[i] = q[(s - 1) + i],
           s + l <= Len(q) => q[s + l] = Slash
    PROVE  At(q, s + l + 1, Attach(j, x))
<1>0. PICK m \in Nat : m = Len(q)
  BY LenProperties
<1>1. PICK r : m = Len(q) /\ r = Attach(j, x)
  BY <1>0
<1>2. r \in Seq(Bytes) /\ Len(r) = (s - 1) + l
  <2>1. l \in Nat
    OBVIOUS
  <2>2. r \in Seq(Bytes)
    BY <1>1, <2>1, AttachedAt
  <2>3. Len(r) = (s - 1) + l
    <3>1. PICK k \in Nat : k = Len(j)
      BY LenProperties
    <3>2. CASE j = <<>>
      <4>1. s = 1 /\ r = x
        BY <1>1, <3>2, AttachType DEF At
      <4> QED
        BY <4>1
    <3>3. CASE j # <<>>
      <4>1. s = k + 2
        BY <3>1, <3>3 DEF At
      <4>2. Len(r) = k + 1 + l
        BY <1>1, <3>1, <3>3, AttachType
      <4> QED
        BY <4>1, <4>2
    <3> QED
      BY <3>2, <3>3
  <2> QED
    BY <2>2, <2>3
<1>3. \A i \in 1..l : r[(s - 1) + i] = x[i]
  BY <1>1, AttachedAt
<1>4. \A i \in 1..(s - 1) : r[i] = q[i]
  BY <1>1, AttachedAt
<1>5. PICK u \in Nat \ {0} : u = (s - 1) + l /\ u + 1 = s + l /\ u + 2 = s + l + 1
  <2>1. (s - 1) + l \in Nat \ {0} /\ ((s - 1) + l) + 1 = s + l /\ ((s - 1) + l) + 2 = s + l + 1
    OBVIOUS
  <2> QED
    BY <2>1
<1>6. ASSUME NEW i \in 1..u PROVE q[i] = r[i]
  <2>1. CASE i \in 1..(s - 1)
    BY <1>4, <2>1
  <2>2. CASE i >= s
    <3>1. PICK d \in 1..l : (s - 1) + d = i
      <4>1. i - (s - 1) \in 1..l /\ (s - 1) + (i - (s - 1)) = i
        BY <1>5, <2>2
      <4> QED
        BY <4>1
    <3>2. r[(s - 1) + d] = x[d] /\ x[d] = q[(s - 1) + d]
      BY <1>3
    <3> QED
      BY <3>1, <3>2
  <2> QED
    BY <2>1, <2>2
<1>7. Len(r) = u /\ r # <<>>
  BY <1>2, <1>5
<1>8. BeginsWith(r, q)
  BY <1>1, <1>5, <1>6, <1>7 DEF BeginsWith
<1>9. At(q, u + 2, r)
  BY <1>7, <1>8 DEF At
<1> QED
  BY <1>1, <1>5, <1>9

LEMMA ComponentAttached ==
    ASSUME NEW q \in Seq(Bytes), NEW j \in Seq(Bytes), NEW s \in Nat \ {0}, NEW e \in Nat, NEW x,
           s < e, s <= Len(q), e <= Len(q) + 1, e <= Len(q) => q[e] = Slash,
           \A i \in s..(e - 1) : q[i] # Slash, At(q, s, j), x = SubSeq(q, s, e - 1)
    PROVE  /\ x \in Seq(Bytes) /\ x # <<>> /\ \A i \in 1..Len(x) : x[i] # Slash
           /\ At(q, e + 1, Attach(j, x))
<1>1. PICK m \in Nat : m = Len(q)
  BY LenProperties
<1>2. PICK u \in Nat, l \in Nat \ {0} : u = e - 1 /\ l = e - s
  OBVIOUS
<1>3. x \in Seq(Bytes) /\ Len(x) = l /\ \A i \in 1..l : x[i] = q[s + i - 1]
  <2>1. u <= Len(q) /\ s - 1 <= u /\ x = SubSeq(q, s, u)
    BY <1>1, <1>2
  <2>2. x \in Seq(Bytes) /\ Len(x) = (u + 1) - s /\ \A i \in 1..((u + 1) - s) : x[i] = q[s + i - 1]
    BY <2>1, Slice
  <2>3. (u + 1) - s = l
    BY <1>2
  <2> QED
    BY <2>2, <2>3
<1>4. \A i \in 1..l : s + i - 1 \in s..(e - 1) /\ s + i - 1 = (s - 1) + i
  BY <1>2
<1>5. x # <<>>
  BY <1>3
<1>6. PICK y : y = x
  OBVIOUS
<1>7. y \in Seq(Bytes) /\ l = Len(y) /\ \A i \in 1..l : y[i] = q[(s - 1) + i]
  BY <1>3, <1>4, <1>6
<1>8. (s - 1) + l <= Len(q) /\ s + l = e
  BY <1>1, <1>2
<1>9. s + l <= Len(q) => q[s + l] = Slash
  BY <1>8
<1>10. At(q, s + l + 1, Attach(j, y))
  BY <1>7, <1>8, <1>9, AttachedIsAt
<1> QED
  BY <1>3, <1>4, <1>5, <1>6, <1>8, <1>10

LEMMA FoundName ==
    ASSUME NEW v \in Volumes, NEW n \in Nat, NEW name, find_in_dir(v, n, name) # 0
    PROVE  name \in Names(v) /\ name # <<>> /\ name \in FileNames
<1>1. PICK entries : entries = EntriesOf(v, n)
  OBVIOUS
<1> DEFINE named == {i \in DOMAIN entries : IsUsed(entries[i]) /\ entries[i].name = name}
<1>2. IsDir(v, n) /\ named # {}
  BY <1>1 DEF find_in_dir
<1>3. PICK i \in DOMAIN entries : IsUsed(entries[i]) /\ entries[i].name = name
  BY <1>2
<1>4. entries \in [1..EntriesMax -> DirEntries]
  BY <1>1, <1>2, EntriesAre
<1>5. i \in 1..EntriesMax /\ name \in FileNames /\ name # <<>>
  BY <1>3, <1>4 DEF IsUsed, DirEntries
<1>6. PICK b \in DOMAIN v.blocks : entries = v.blocks[b].entries
  BY <1>1, <1>2, EntriesAre
<1>7. name \in {v.blocks[b].entries[a].name : a \in 1..EntriesMax}
  BY <1>3, <1>5, <1>6
<1> QED
  BY <1>5, <1>6, <1>7 DEF Names

LEMMA SpellableIs ==
    ASSUME NEW v \in Volumes
    PROVE  Spellable(v) \subseteq PlainNames
<1>1. ASSUME NEW x \in Names(v) PROVE x \in FileNames
  <2>1. PICK b \in DOMAIN v.blocks : x \in {v.blocks[b].entries[i].name : i \in 1..EntriesMax}
    BY <1>1 DEF Names
  <2>2. PICK i \in 1..EntriesMax : x = v.blocks[b].entries[i].name
    BY <2>1
  <2>3. v.blocks[b].entries \in [1..EntriesMax -> DirEntries]
    BY VolumeFields DEF Blocks
  <2> QED
    BY <2>2, <2>3 DEF DirEntries
<1> QED
  BY <1>1 DEF Spellable, PlainNames

\* What a round finds is found under the name that it passes.
LEMMA RoundPassesName ==
    ASSUME NEW v \in Volumes, NEW q \in Seq(Bytes), NEW w \in WalkStates, NEW j \in Seq(Bytes),
           At(q, w.s, j), w.s <= Len(q), NEW next, next = WalkRound(v, q, w), next.n # 0
    PROVE  \E x \in Spellable(v) : /\ next.n = find_in_dir(v, w.n, x)
                                   /\ At(q, next.s, Attach(j, x)) /\ next.s > w.s
<1>1. PICK s \in Nat \ {0}, n \in Nat : s = w.s /\ n = w.n
  BY AtType DEF WalkStates
<1>2. PICK m \in Nat : m = Len(q)
  BY LenProperties
<1>3. PICK e : e = ComponentEnd(q, s)
  OBVIOUS
<1>4. e \in s..(m + 1) /\ (e <= m => q[e] = Slash) /\ \A i \in s..(e - 1) : q[i] # Slash
  BY <1>1, <1>2, <1>3, ComponentEndFound
<1>5. PICK c : c = Component(q, s, e)
  OBVIOUS
<1>6. next = [s |-> IF find_in_dir(v, n, c) = 0 THEN Len(q) + 1 ELSE e + 1, n |-> find_in_dir(v, n, c)]
  BY <1>1, <1>2, <1>3, <1>5 DEF WalkRound
<1>7. next.n = find_in_dir(v, n, c) /\ next.s = e + 1
  BY <1>6
<1>8. c \in Names(v) /\ c # <<>> /\ c \in FileNames
  BY <1>1, <1>7, FoundName
<1>9. c = SubSeq(q, s, e - 1) /\ s < e
  <2>1. PICK u \in Nat : u = MinOf(e - 1, s + ComponentMax - 1)
    BY <1>4, NameSizes DEF MinOf
  <2>2. c = SubSeq(q, s, u)
    BY <1>5, <2>1 DEF Component
  <2>3. u <= m /\ s - 1 <= u
    BY <1>4, <2>1, NameSizes DEF MinOf
  <2>4. Len(c) = (u + 1) - s
    BY <1>2, <2>2, <2>3, Slice
  <2>5. Len(c) # 0 /\ Len(c) <= NameField
    BY <1>8, EmptySeq DEF FileNames
  <2>6. u = e - 1
    BY <1>4, <2>1, <2>3, <2>4, <2>5, NameSizes DEF MinOf
  <2> QED
    BY <1>4, <2>2, <2>3, <2>4, <2>5, <2>6
<1>10. /\ \A i \in 1..Len(c) : c[i] # Slash
       /\ At(q, e + 1, Attach(j, c))
  <2>1. e \in Nat /\ s <= Len(q) /\ e <= Len(q) + 1 /\ (e <= Len(q) => q[e] = Slash) /\ At(q, s, j)
    BY <1>1, <1>2, <1>4
  <2> QED
    BY <1>4, <1>9, <2>1, ComponentAttached
<1>11. c \in Spellable(v)
  BY <1>8, <1>10 DEF Spellable
<1>12. e + 1 > s
  BY <1>4
<1> QED
  BY <1>1, <1>7, <1>10, <1>11, <1>12

\* The names a walk has passed.
IsTrail(v, q, w, l) == /\ l \in Seq(Spellable(v))
                       /\ At(q, w.s, Joined(l)) /\ Reached(v, l) = w.n

LEMMA NamesAreBytes ==
    ASSUME NEW v \in Volumes, NEW l \in Seq(Spellable(v))
    PROVE  l \in Seq(Seq(Bytes)) /\ l \in Seq(PlainNames)
<1>1. Spellable(v) \subseteq Seq(Bytes) /\ Spellable(v) \subseteq PlainNames
  BY SpellableIs DEF PlainNames, FileNames
<1>2. PICK n \in Nat : n = Len(l)
  BY LenProperties
<1>3. l \in [1..n -> Spellable(v)]
  BY <1>2, LenProperties
<1>4. l \in [1..n -> Seq(Bytes)] /\ l \in [1..n -> PlainNames]
  BY <1>1, <1>3
<1> QED
  BY <1>4

LEMMA RoundExtendsTrail ==
    ASSUME NEW v \in Volumes, NEW q \in Seq(Bytes), NEW w \in WalkStates, NEW l,
           IsTrail(v, q, w, l), w.s <= Len(q), w.n # 0, NEW next, next = WalkRound(v, q, w), next.n # 0
    PROVE  next.s > w.s /\ \E k : IsTrail(v, q, next, k)
<1>1. l \in Seq(Spellable(v)) /\ At(q, w.s, Joined(l)) /\ Reached(v, l) = w.n
  BY DEF IsTrail
<1>2. l \in Seq(Seq(Bytes))
  BY <1>1, NamesAreBytes
<1>3. PICK j : j = Joined(l)
  OBVIOUS
<1>4. <<>> \in Seq(Bytes) /\ j \in Seq(Bytes)
  BY <1>2, <1>3, JoinedMore
<1>5. PICK x \in Spellable(v) : /\ next.n = find_in_dir(v, w.n, x)
                                /\ At(q, next.s, Attach(j, x)) /\ next.s > w.s
  BY <1>1, <1>3, <1>4, RoundPassesName
<1>6. x \in Seq(Bytes)
  BY SpellableIs DEF PlainNames, FileNames
<1>7. Joined(Append(l, x)) = Attach(j, x)
  BY <1>2, <1>3, <1>6, JoinedMore
<1>8. Reached(v, Append(l, x)) = Follow(v, w.n, x)
  BY <1>1, <1>2, <1>6, ReachedMore
<1>9. Follow(v, w.n, x) = next.n
  <2>1. w.n \in Nat
    BY DEF WalkStates
  <2> QED
    BY <1>5, <2>1, ChildIsFound DEF Follow
<1>10. Append(l, x) \in Seq(Spellable(v))
  BY <1>1, AppendProperties
<1>11. IsTrail(v, q, next, Append(l, x))
  BY <1>5, <1>7, <1>8, <1>9, <1>10 DEF IsTrail
<1> QED
  BY <1>5, <1>11

\* A walk that found something has passed such a list of names to the end.
LEMMA WalkHasTrail ==
    ASSUME NEW v \in Volumes, NEW q \in Seq(Bytes), NEW m \in Nat, m = Len(q), NEW f,
           f[0] = [s |-> 1, n |-> v.root], \A i \in 1..m : f[i] = WalkRound(v, q, f[i - 1]),
           \A i \in 0..m : f[i] \in WalkStates
    PROVE  f[m].n = 0 \/ (f[m].s > m /\ \E l : IsTrail(v, q, f[m], l))
<1> DEFINE P == {i \in 0..m : \/ f[i].n = 0 /\ f[i].s > m
                              \/ f[i].n # 0 /\ f[i].s > i /\ \E l : IsTrail(v, q, f[i], l)}
<1>1. 0 \in P
  <2>1. f[0].s = 1 /\ f[0].n = v.root /\ 0 \in 0..m /\ <<>> \in Seq(Spellable(v))
    OBVIOUS
  <2>2. At(q, f[0].s, <<>>)
    BY <2>1 DEF At
  <2>3. IsTrail(v, q, f[0], <<>>)
    BY <2>1, <2>2, NothingJoined DEF IsTrail
  <2>4. f[0].s > 0 /\ f[0].n # 0
    BY <2>1, VolumeFields
  <2> QED
    BY <2>1, <2>3, <2>4
<1>2. ASSUME NEW i \in 1..m, i - 1 \in P PROVE i \in P
  <2>1. PICK w, next : w = f[i - 1] /\ next = f[i]
    OBVIOUS
  <2>2. w \in WalkStates /\ next = WalkRound(v, q, w) /\ next \in WalkStates
    BY <2>1
  <2>3. w.s \in Nat /\ w.n \in Nat /\ next.s \in Nat
    BY <2>2 DEF WalkStates
  <2>4. (w.n = 0 /\ w.s > m) \/ (w.n # 0 /\ w.s > i - 1 /\ \E l : IsTrail(v, q, w, l))
    BY <1>2, <2>1
  <2>5. CASE w.s > m
    <3>1. next = w
      BY <2>2, <2>5 DEF WalkRound
    <3>2. w.s > i
      BY <2>3, <2>5
    <3>3. (next.n = 0 /\ next.s > m) \/ (next.n # 0 /\ next.s > i /\ \E l : IsTrail(v, q, next, l))
      BY <2>4, <2>5, <3>1, <3>2
    <3> QED
      BY <2>1, <3>3
  <2>6. CASE w.s <= m /\ next.n = 0
    <3>1. next.s = Len(q) + 1
      BY <2>2, <2>3, <2>6 DEF WalkRound
    <3> QED
      BY <2>1, <2>6, <3>1
  <2>7. CASE w.s <= m /\ next.n # 0
    <3>1. PICK l : IsTrail(v, q, w, l)
      BY <2>3, <2>4, <2>7
    <3>0. w.n # 0 /\ w.s <= Len(q)
      BY <2>3, <2>4, <2>7
    <3>2. next.s > w.s /\ \E k : IsTrail(v, q, next, k)
      BY <2>2, <2>7, <3>0, <3>1, RoundExtendsTrail
    <3>3. next.s > i
      BY <2>3, <2>4, <2>7, <3>2
    <3> QED
      BY <2>1, <2>7, <3>2, <3>3
  <2> QED
    BY <2>3, <2>5, <2>6, <2>7
<1>3. \A i \in 0..m : i \in P
  <2> HIDE DEF P
  <2> QED
    BY <1>1, <1>2, Rounds
<1>4. m \in P
  BY <1>3
<1> QED
  BY <1>4

\* A path with a slash at its end, and in front.
Closed(p) == p \o <<Slash>>
Rooted(p) == <<Slash>> \o p

\* One more slash at the end.
LEMMA SlashBehind ==
    ASSUME NEW p \in Seq(Bytes), NEW k \in Nat, k = Len(p), NEW c, c = Closed(p)
    PROVE  c \in Seq(Bytes) /\ Len(c) = k + 1 /\ c[k + 1] = Slash /\ \A i \in 1..k : c[i] = p[i]
<1>1. PICK d : d = <<Slash>>
  OBVIOUS
<1>2. d \in Seq(Bytes) /\ Len(d) = 1 /\ d[1] = Slash
  BY <1>1, UserlandAssumption
<1>3. PICK o \in Nat : o = Len(d) /\ o = 1
  BY <1>2
<1>4. c = p \o d
  BY <1>1 DEF Closed
<1>5. /\ c \in Seq(Bytes) /\ Len(c) = k + o
      /\ \A i \in 1..(k + o) : c[i] = IF i <= k THEN p[i] ELSE d[i - k]
  <2>1. d \in Seq(Bytes) /\ o = Len(d)
    BY <1>2, <1>3
  <2> QED
    BY <1>4, <2>1, ConcatProperties
<1>6. k + 1 \in 1..(k + 1) /\ ~(k + 1 <= k) /\ (k + 1) - k = 1
  OBVIOUS
<1>7. c[k + 1] = Slash
  BY <1>2, <1>3, <1>5, <1>6
<1>8. \A i \in 1..k : i \in 1..(k + 1) /\ i <= k
  OBVIOUS
<1> QED
  BY <1>3, <1>5, <1>7, <1>8

\* And one in front.
LEMMA SlashBefore ==
    ASSUME NEW p \in Seq(Bytes), NEW k \in Nat, k = Len(p), NEW c, c = Rooted(p)
    PROVE  c \in Seq(Bytes) /\ Len(c) = k + 1 /\ c[1] = Slash /\ \A i \in 1..k : c[i + 1] = p[i]
<1>1. PICK d : d = <<Slash>>
  OBVIOUS
<1>2. d \in Seq(Bytes) /\ Len(d) = 1 /\ d[1] = Slash
  BY <1>1, UserlandAssumption
<1>3. PICK o \in Nat : o = Len(d) /\ o = 1
  BY <1>2
<1>4. c = d \o p
  BY <1>1 DEF Rooted
<1>5. /\ c \in Seq(Bytes) /\ Len(c) = o + k
      /\ \A i \in 1..(o + k) : c[i] = IF i <= o THEN d[i] ELSE p[i - o]
  <2>1. d \in Seq(Bytes) /\ o = Len(d)
    BY <1>2, <1>3
  <2> QED
    BY <1>4, <2>1, ConcatProperties
<1>6. 1 \in 1..(1 + k)
  OBVIOUS
<1>7. c[1] = Slash
  BY <1>2, <1>3, <1>5, <1>6
<1>8. \A i \in 1..k : i + 1 \in 1..(1 + k) /\ ~(i + 1 <= 1) /\ (i + 1) - 1 = i
  OBVIOUS
<1> QED
  BY <1>3, <1>5, <1>7, <1>8

LEMMA AtEnd ==
    ASSUME NEW q \in Seq(Bytes), NEW j \in Seq(Bytes), NEW s, At(q, s, j), s > Len(q)
    PROVE  q = j \/ (j # <<>> /\ q = Closed(j))
<1>1. PICK m \in Nat, k \in Nat : m = Len(q) /\ k = Len(j)
  BY LenProperties
<1>2. CASE j = <<>>
  <2>1. m = 0
    BY <1>1, <1>2 DEF At
  <2> QED
    BY <1>1, <1>2, <2>1, EmptySeq
<1>3. CASE j # <<>>
  <2>1. s = k + 2 /\ k <= m /\ (\A i \in 1..k : q[i] = j[i]) /\ (m > k => q[k + 1] = Slash)
    BY <1>1, <1>3 DEF At, BeginsWith
  <2>2. CASE m = k
    BY <1>1, <2>1, <2>2, SeqEqual
  <2>3. CASE m = k + 1
    <3>1. PICK c : c = Closed(j)
      OBVIOUS
    <3>2. c \in Seq(Bytes) /\ Len(c) = k + 1 /\ c[k + 1] = Slash /\ \A i \in 1..k : c[i] = j[i]
      BY <1>1, <3>1, SlashBehind
    <3>3. \A i \in 1..(k + 1) : i \in 1..k \/ i = k + 1
      OBVIOUS
    <3>4. \A i \in 1..(k + 1) : q[i] = c[i]
      BY <2>1, <2>3, <3>2, <3>3
    <3>5. q = c
      BY <1>1, <2>3, <3>2, <3>4, SeqEqual
    <3> QED
      BY <1>3, <3>1, <3>5
  <2> QED
    BY <1>1, <2>1, <2>2, <2>3
<1> QED
  BY <1>2, <1>3

LEMMA RelativeIs ==
    ASSUME NEW path \in Seq(Bytes), NEW q, q = Relative(path)
    PROVE  q \in Seq(Bytes) /\ (path = q \/ path = Rooted(q))
<1>1. CASE path # <<>> /\ path[1] = Slash
  <2>1. q = Tail(path)
    BY <1>1 DEF Relative
  <2>2. PICK n \in Nat : n = Len(path)
    BY LenProperties
  <2>3. n # 0
    BY <1>1, <2>2, EmptySeq
  <2>4. PICK k \in Nat : k = n - 1
    BY <2>3
  <2>5. q \in Seq(Bytes) /\ Len(q) = k /\ \A i \in 1..k : q[i] = path[i + 1]
    BY <1>1, <2>1, <2>2, <2>4, HeadTailProperties
  <2>6. PICK c : c = Rooted(q)
    OBVIOUS
  <2>7. c \in Seq(Bytes) /\ Len(c) = k + 1 /\ c[1] = Slash /\ \A i \in 1..k : c[i + 1] = q[i]
    BY <2>5, <2>6, SlashBefore
  <2>8. \A i \in 1..n : i = 1 \/ (i - 1 \in 1..k /\ (i - 1) + 1 = i)
    BY <2>4
  <2>9. \A i \in 1..n : c[i] = path[i]
    BY <1>1, <2>5, <2>7, <2>8
  <2>10. c = path
    BY <2>2, <2>4, <2>7, <2>9, SeqEqual
  <2> QED
    BY <2>5, <2>6, <2>10
<1>2. CASE ~(path # <<>> /\ path[1] = Slash)
  BY <1>2 DEF Relative
<1> QED
  BY <1>1, <1>2

\* What resolve_path finds is what the directories say of some spelling.
LEMMA FoundIsNamed ==
    ASSUME NEW v \in Volumes, NEW path \in Seq(Bytes), resolve_path(v, path) # 0
    PROVE  \E l \in Seq(Spellable(v)) : path \in Spellings(l) /\ Reached(v, l) = resolve_path(v, path)
<1>1. PICK q : q = Relative(path)
  OBVIOUS
<1>2. q \in Seq(Bytes) /\ (path = q \/ path = Rooted(q))
  BY <1>1, RelativeIs
<1>3. PICK m \in Nat : m = Len(q)
  BY <1>2, LenProperties
<1>4. PICK f : /\ f[0] = [s |-> 1, n |-> v.root] /\ resolve_path(v, path) = f[m].n
               /\ \A i \in 1..m : f[i] = WalkRound(v, q, f[i - 1])
               /\ \A i \in 0..m : f[i] \in WalkStates
  BY <1>1, <1>3, ResolveLoop
<1>5. f[m].s > m /\ \E l : IsTrail(v, q, f[m], l)
  BY <1>2, <1>3, <1>4, WalkHasTrail
<1>6. PICK l : IsTrail(v, q, f[m], l)
  BY <1>5
<1>7. PICK j : j = Joined(l)
  OBVIOUS
<1>8. l \in Seq(Spellable(v)) /\ At(q, f[m].s, j) /\ Reached(v, l) = f[m].n
  BY <1>6, <1>7 DEF IsTrail
<1>9. j \in Seq(Bytes)
  <2>1. l \in Seq(Seq(Bytes)) /\ <<>> \in Seq(Bytes)
    BY <1>8, NamesAreBytes
  <2> QED
    BY <1>7, <2>1, JoinedMore
<1>10. q = j \/ (j # <<>> /\ q = Closed(j))
  BY <1>2, <1>3, <1>5, <1>8, <1>9, AtEnd
<1>11. j # <<>> => l # <<>>
  BY <1>7, NothingJoined
<1>12. Rooted(Closed(j)) = <<Slash>> \o j \o <<Slash>>
  <2>1. <<Slash>> \in Seq(Bytes)
    BY UserlandAssumption
  <2> QED
    BY <1>9, <2>1, ConcatAssociative DEF Rooted, Closed
<1>13. path \in Spellings(l)
  BY <1>2, <1>7, <1>10, <1>11, <1>12 DEF Spellings, Rooted, Closed
<1> QED
  BY <1>4, <1>8, <1>13

\* How the path grows as names are joined.
LEMMA JoinedGrows ==
    ASSUME NEW l \in Seq(PlainNames), NEW n \in Nat, n = Len(l), NEW f, f[0] = <<>>,
           \A i \in 1..n : f[i] = Attach(f[i - 1], l[i])
    PROVE  \A i \in 0..n : /\ f[i] \in Seq(Bytes) /\ 2 * i <= Len(f[i]) + 1
                           /\ i > 0 => f[i] # <<>> /\ f[i][1] # Slash
<1> DEFINE P == {i \in 0..n : /\ f[i] \in Seq(Bytes) /\ 2 * i <= Len(f[i]) + 1
                              /\ i > 0 => f[i] # <<>> /\ f[i][1] # Slash}
<1>1. 0 \in P
  <2>1. f[0] \in Seq(Bytes) /\ Len(f[0]) = 0 /\ 0 \in 0..n
    BY EmptySeq
  <2>2. 2 * 0 <= Len(f[0]) + 1 /\ ~(0 > 0)
    BY <2>1
  <2> QED
    BY <2>1, <2>2
<1>2. ASSUME NEW i \in 1..n, i - 1 \in P PROVE i \in P
  <2>1. PICK p, x : p = f[i - 1] /\ x = l[i]
    OBVIOUS
  <2>2. /\ p \in Seq(Bytes) /\ 2 * (i - 1) <= Len(p) + 1
        /\ i - 1 > 0 => p # <<>> /\ p[1] # Slash
    BY <1>2, <2>1
  <2>3. x \in PlainNames
    BY <2>1, LenProperties
  <2>4. x \in Seq(Bytes) /\ x # <<>> /\ \A a \in 1..Len(x) : x[a] # Slash
    BY <2>3 DEF PlainNames, FileNames
  <2>5. PICK k \in Nat, m \in Nat : k = Len(p) /\ m = Len(x)
    BY <2>2, <2>4, LenProperties
  <2>6. m # 0
    BY <2>4, <2>5, EmptySeq
  <2>7. PICK r : r = Attach(p, x)
    OBVIOUS
  <2>8. r = f[i]
    BY <2>1, <2>7
  <2>9. r \in Seq(Bytes) /\ (p = <<>> => r = x)
    BY <2>2, <2>4, <2>7, AttachType
  <2>10. CASE p = <<>>
    <3>1. k = 0 /\ r = x
      BY <2>5, <2>9, <2>10
    <3>2. i = 1
      BY <2>2, <2>10
    <3>3. 2 * i <= Len(r) + 1
      BY <2>5, <2>6, <3>1, <3>2
    <3>4. 1 \in 1..Len(x)
      BY <2>5, <2>6
    <3>5. r # <<>> /\ r[1] # Slash
      BY <2>4, <3>1, <3>4
    <3> QED
      BY <2>8, <2>9, <3>3, <3>5
  <2>11. CASE p # <<>>
    <3>1. k # 0
      BY <2>2, <2>5, <2>11, EmptySeq
    <3>2. Len(r) = k + 1 + m /\ \A a \in 1..k : r[a] = p[a]
      BY <2>2, <2>4, <2>5, <2>7, <2>11, AttachType
    <3>3. 2 * i <= Len(r) + 1 /\ Len(r) # 0
      BY <2>2, <2>5, <2>6, <3>2
    <3>4. 1 \in 1..k
      BY <3>1
    <3>5. i - 1 > 0
      <4>1. i # 1
        <5>1. ASSUME i = 1 PROVE p = <<>>
          <6>1. i - 1 = 0
            BY <5>1
          <6> QED
            BY <2>1, <6>1
        <5> QED
          BY <2>11, <5>1
      <4> QED
        BY <4>1
    <3>6. r # <<>> /\ r[1] # Slash
      BY <2>2, <3>2, <3>3, <3>4, <3>5
    <3> QED
      BY <2>8, <2>9, <3>3, <3>6
  <2> QED
    BY <2>10, <2>11
<1>3. \A i \in 0..n : i \in P
  <2> HIDE DEF P
  <2> QED
    BY <1>1, <1>2, Rounds
<1> QED
  BY <1>3

LEMMA JoinedCuts ==
    ASSUME NEW l \in Seq(PlainNames), NEW n \in Nat, n = Len(l), NEW f,
           \A i \in 1..n : f[i] = Attach(f[i - 1], l[i]),
           \A i \in 0..n : f[i] \in Seq(Bytes) /\ (i > 0 => f[i] # <<>>),
           NEW i \in 1..n
    PROVE  BeginsWith(f[i], f[n])
<1> DEFINE P == {j \in 0..n : j >= i => BeginsWith(f[i], f[j])}
<1>1. 0 \in P
  BY i \in 1..n
<1>2. ASSUME NEW j \in 1..n, j - 1 \in P PROVE j \in P
  <2>1. CASE j < i
    BY <2>1
  <2>2. CASE j = i
    <3>1. BeginsWith(f[i], f[i])
      <4>1. Len(f[i]) \in Nat
        BY LenProperties
      <4> QED
        BY <4>1 DEF BeginsWith
    <3> QED
      BY <2>2, <3>1
  <2>3. CASE j > i
    <3>1. j - 1 >= i /\ j - 1 \in 0..n /\ j - 1 > 0
      BY <2>3
    <3>2. BeginsWith(f[i], f[j - 1])
      BY <1>2, <3>1
    <3>3. PICK p, x : p = f[j - 1] /\ x = l[j]
      OBVIOUS
    <3>4. p \in Seq(Bytes) /\ p # <<>>
      BY <3>1, <3>3
    <3>5. x \in Seq(Bytes)
      BY <3>3, LenProperties DEF PlainNames, FileNames
    <3>6. f[j] = Attach(p, x)
      BY <3>3
    <3>7. BeginsWith(p, f[j])
      BY <3>4, <3>5, <3>6, AttachedBegins
    <3>8. Len(f[i]) \in Nat /\ Len(p) \in Nat /\ Len(f[j]) \in Nat
      <4>1. f[i] \in Seq(Bytes) /\ f[j] \in Seq(Bytes)
        OBVIOUS
      <4> QED
        BY <3>4, <4>1, LenProperties
    <3>9. BeginsWith(f[i], f[j])
      BY <3>2, <3>3, <3>7, <3>8, BeginningOfBeginning
    <3> QED
      BY <3>9
  <2> QED
    BY <2>1, <2>2, <2>3
<1>3. \A j \in 0..n : j \in P
  <2> HIDE DEF P
  <2> QED
    BY <1>1, <1>2, Rounds
<1>4. n \in P /\ n >= i
  BY <1>3
<1> QED
  BY <1>4

\* A round follows one name of the list.
LEMMA RoundFollows ==
    ASSUME NEW v \in Volumes, NEW q \in Seq(Bytes), NEW w \in WalkStates, NEW j \in Seq(Bytes),
           NEW x \in PlainNames, NEW t, At(q, w.s, j), At(q, t, Attach(j, x)), w.n # 0,
           NEW next, next = WalkRound(v, q, w)
    PROVE  /\ next.n = Follow(v, w.n, x)
           /\ next.s = IF next.n = 0 THEN Len(q) + 1 ELSE t
<1>1. PICK s \in Nat, n \in Nat : s = w.s /\ n = w.n
  BY DEF WalkStates
<1>2. /\ s \in Nat \ {0} /\ t \in Nat /\ s < t /\ s <= Len(q)
      /\ ComponentEnd(q, s) = t - 1 /\ Component(q, s, t - 1) = x
  BY <1>1, ComponentBetween
<1>3. Len(q) \in Nat
  BY LenProperties
<1>4. next = [s |-> IF find_in_dir(v, n, x) = 0 THEN Len(q) + 1 ELSE (t - 1) + 1, n |-> find_in_dir(v, n, x)]
  BY <1>1, <1>2, <1>3 DEF WalkRound
<1>5. (t - 1) + 1 = t
  BY <1>2
<1>6. find_in_dir(v, n, x) = Follow(v, n, x)
  BY <1>1, ChildIsFound DEF Follow
<1> QED
  BY <1>1, <1>4, <1>5, <1>6

\* Where the walk stands behind the names joined in j.
Behind(j) == IF j = <<>> THEN 1 ELSE Len(j) + 2

\* The walk f, the path p and the inodes a after each round and each name.
Walks(f, v, q, m) == /\ f[0] = [s |-> 1, n |-> v.root]
                     /\ \A i \in 1..m : f[i] = WalkRound(v, q, f[i - 1])
                     /\ \A i \in 0..m : f[i] \in WalkStates
Joins(p, l, n) == p[0] = <<>> /\ \A i \in 1..n : p[i] = Attach(p[i - 1], l[i])
Follows(a, v, l, n) == a[0] = v.root /\ \A i \in 1..n : a[i] = Follow(v, a[i - 1], l[i])
EndsWith(p, n, q, m) == IF n = 0 THEN m = 0 ELSE BeginsWith(p[n], q) /\ m <= Len(p[n]) + 1

LEMMA WalkFollows ==
    ASSUME NEW v \in Volumes, NEW q \in Seq(Bytes), NEW m \in Nat, m = Len(q),
           NEW l \in Seq(PlainNames), NEW n \in Nat, n = Len(l),
           NEW f, Walks(f, v, q, m), NEW p, Joins(p, l, n), NEW a, Follows(a, v, l, n),
           EndsWith(p, n, q, m)
    PROVE  f[m].n = a[n]
<1>0. /\ f[0] = [s |-> 1, n |-> v.root]
      /\ \A i \in 1..m : f[i] = WalkRound(v, q, f[i - 1])
      /\ \A i \in 0..m : f[i] \in WalkStates
      /\ p[0] = <<>> /\ \A i \in 1..n : p[i] = Attach(p[i - 1], l[i])
      /\ a[0] = v.root /\ \A i \in 1..n : a[i] = Follow(v, a[i - 1], l[i])
      /\ n = 0 => m = 0
      /\ n # 0 => BeginsWith(p[n], q) /\ m <= Len(p[n]) + 1
  BY DEF Walks, Joins, Follows, EndsWith
<1>1. \A i \in 0..n : /\ p[i] \in Seq(Bytes) /\ 2 * i <= Len(p[i]) + 1
                      /\ i > 0 => p[i] # <<>> /\ p[i][1] # Slash
  BY <1>0, JoinedGrows
<1>2. \A i \in 0..n : p[i] \in Seq(Bytes) /\ Len(p[i]) \in Nat
  BY <1>1, LenProperties
<1>3. ASSUME NEW i \in 0..n PROVE At(q, Behind(p[i]), p[i])
  <2>1. CASE i = 0
    BY <1>0, <2>1 DEF At, Behind
  <2>2. CASE i # 0
    <3>1. i \in 1..n
      BY <2>2
    <3>2. BeginsWith(p[i], p[n])
      <4>1. \A k \in 0..n : p[k] \in Seq(Bytes) /\ (k > 0 => p[k] # <<>>)
        BY <1>1
      <4> QED
        BY <1>0, <3>1, <4>1, JoinedCuts
    <3>3. BeginsWith(p[n], q)
      BY <1>0, <3>1
    <3>4. BeginsWith(p[i], q)
      <4>1. Len(p[i]) \in Nat /\ Len(p[n]) \in Nat /\ Len(q) \in Nat
        BY <1>2
      <4> QED
        BY <3>2, <3>3, <4>1, BeginningOfBeginning
    <3> QED
      BY <3>4 DEF At, Behind
  <2> QED
    BY <2>1, <2>2
<1>4. n <= m
  <2>1. CASE n = 0
    BY <1>0, <2>1
  <2>2. CASE n # 0
    <3>1. Len(p[n]) <= m
      BY <1>0, <2>2 DEF BeginsWith
    <3>2. 2 * n <= Len(p[n]) + 1 /\ Len(p[n]) \in Nat
      BY <1>1, <1>2
    <3> QED
      BY <2>2, <3>1, <3>2
  <2> QED
    BY <2>1, <2>2
<1> DEFINE P == {i \in 0..n : f[i].n = a[i] /\ f[i].s = IF a[i] = 0 THEN m + 1 ELSE Behind(p[i])}
<1>5. 0 \in P
  <2>1. f[0].s = 1 /\ f[0].n = v.root /\ v.root # 0 /\ Behind(p[0]) = 1 /\ 0 \in 0..n
    BY <1>0, VolumeFields DEF Behind
  <2>2. f[0].n = a[0] /\ a[0] # 0
    BY <1>0, <2>1
  <2> QED
    BY <2>1, <2>2
<1>6. ASSUME NEW i \in 1..n, i - 1 \in P PROVE i \in P
  <2>1. PICK w, next : w = f[i - 1] /\ next = f[i]
    OBVIOUS
  <2>2. i \in 1..m /\ i - 1 \in 0..m /\ i \in 0..n /\ i - 1 \in 0..n
    BY <1>4
  <2>3. w \in WalkStates /\ next = WalkRound(v, q, w)
    BY <1>0, <2>1, <2>2
  <2>4. w.n = a[i - 1] /\ w.s = IF a[i - 1] = 0 THEN m + 1 ELSE Behind(p[i - 1])
    BY <1>6, <2>1
  <2>5. a[i] = Follow(v, w.n, l[i])
    BY <1>0, <2>4
  <2>6. CASE w.n = 0
    <3>1. w.s > m
      BY <2>4, <2>6
    <3>2. next = w
      BY <2>3, <3>1 DEF WalkRound
    <3>3. a[i] = 0
      BY <2>5, <2>6 DEF Follow
    <3>4. next.n = 0 /\ next.s = m + 1
      BY <2>4, <2>6, <3>2
    <3>5. f[i].n = a[i] /\ f[i].s = IF a[i] = 0 THEN m + 1 ELSE Behind(p[i])
      BY <2>1, <3>3, <3>4
    <3> QED
      BY <3>5
  <2>7. CASE w.n # 0
    <3>1. PICK j, x, t : j = p[i - 1] /\ x = l[i] /\ t = Behind(p[i])
      OBVIOUS
    <3>2. At(q, w.s, j) /\ At(q, t, Attach(j, x)) /\ j \in Seq(Bytes)
      <4>1. At(q, Behind(j), j) /\ w.s = Behind(j) /\ j \in Seq(Bytes)
        BY <1>2, <1>3, <2>2, <2>4, <2>7, <3>1
      <4>2. At(q, t, p[i])
        BY <1>3, <2>2, <3>1
      <4>3. p[i] = Attach(j, x)
        BY <1>0, <3>1
      <4> QED
        BY <4>1, <4>2, <4>3
    <3>3. x \in PlainNames
      BY <3>1, LenProperties
    <3>4. /\ next.n = Follow(v, w.n, x)
          /\ next.s = IF next.n = 0 THEN Len(q) + 1 ELSE t
      BY <2>3, <2>7, <3>2, <3>3, RoundFollows
    <3> QED
      BY <2>1, <2>5, <3>1, <3>4
  <2> QED
    BY <2>6, <2>7
<1>7. \A i \in 0..n : i \in P
  <2> HIDE DEF P
  <2> QED
    BY <1>5, <1>6, Rounds
<1>8. f[n].n = a[n] /\ f[n].s > m
  <2>1. f[n].n = a[n] /\ f[n].s = IF a[n] = 0 THEN m + 1 ELSE Behind(p[n])
    BY <1>7
  <2>2. Behind(p[n]) > m
    <3>1. CASE n = 0
      BY <1>0, <3>1 DEF Behind
    <3>2. CASE n # 0
      <4>1. p[n] # <<>> /\ Len(p[n]) \in Nat /\ m <= Len(p[n]) + 1
        BY <1>0, <1>1, <1>2, <3>2
      <4> QED
        BY <4>1 DEF Behind
    <3> QED
      BY <3>1, <3>2
  <2> QED
    BY <2>1, <2>2
<1> DEFINE Q == {i \in 0..m : i >= n => f[i] = f[n]}
<1>9. 0 \in Q
  OBVIOUS
<1>10. ASSUME NEW i \in 1..m, i - 1 \in Q PROVE i \in Q
  <2>1. CASE i <= n
    BY <2>1
  <2>2. CASE i > n
    <3>1. f[i - 1] = f[n]
      BY <1>10, <2>2
    <3>2. f[i] = WalkRound(v, q, f[n])
      BY <1>0, <3>1
    <3>3. WalkRound(v, q, f[n]) = f[n]
      BY <1>8 DEF WalkRound
    <3> QED
      BY <3>2, <3>3
  <2> QED
    BY <2>1, <2>2
<1>11. \A i \in 0..m : i \in Q
  <2> HIDE DEF Q
  <2> QED
    BY <1>9, <1>10, Rounds
<1>12. f[m] = f[n]
  BY <1>4, <1>11
<1> QED
  BY <1>8, <1>12

\* The two spellings without a slash in front.
LEMMA SpelledOut ==
    ASSUME NEW l \in Seq(PlainNames), NEW j \in Seq(Bytes), j = Joined(l), NEW path, path \in Spellings(l)
    PROVE  LET q == Relative(path)
           IN  path \in Seq(Bytes) /\ (q = j \/ (l # <<>> /\ q = Closed(j)))
<1>1. \/ path = j \/ path = Rooted(j)
      \/ l # <<>> /\ path = Closed(j)
      \/ l # <<>> /\ path = Rooted(Closed(j))
  <2>1. Rooted(Closed(j)) = <<Slash>> \o j \o <<Slash>>
    <3>1. <<Slash>> \in Seq(Bytes)
      BY UserlandAssumption
    <3> QED
      BY <3>1, ConcatAssociative DEF Rooted, Closed
  <2> QED
    BY <2>1 DEF Spellings, Rooted, Closed
<1>2. ASSUME NEW r \in Seq(Bytes), path = Rooted(r) PROVE path \in Seq(Bytes) /\ Relative(path) = r
  <2>1. PICK k \in Nat : k = Len(r)
    BY LenProperties
  <2>2. path \in Seq(Bytes) /\ Len(path) = k + 1 /\ path[1] = Slash /\ \A i \in 1..k : path[i + 1] = r[i]
    BY <1>2, <2>1, SlashBefore
  <2>3. path # <<>>
    BY <2>2
  <2>4. PICK t : t = Tail(path)
    OBVIOUS
  <2>5. t \in Seq(Bytes) /\ Len(t) = (k + 1) - 1 /\ \A i \in 1..Len(t) : t[i] = path[i + 1]
    BY <2>2, <2>3, <2>4, HeadTailProperties
  <2>6. Len(t) = k
    BY <2>5
  <2>7. t = r
    BY <2>1, <2>2, <2>5, <2>6, SeqEqual
  <2> QED
    BY <2>2, <2>3, <2>4, <2>7 DEF Relative
<1>3. PICK k \in Nat : k = Len(j)
  BY LenProperties
<1>4. Closed(j) \in Seq(Bytes) /\ (k > 0 => Closed(j)[1] = j[1])
  <2>1. PICK c : c = Closed(j)
    OBVIOUS
  <2>2. c \in Seq(Bytes) /\ \A i \in 1..k : c[i] = j[i]
    BY <1>3, <2>1, SlashBehind
  <2> QED
    BY <2>1, <2>2
<1>5. l # <<>> => k > 0 /\ j[1] # Slash
  <2>1. l \in Seq(Seq(Bytes))
    <3>1. PlainNames \subseteq Seq(Bytes)
      BY DEF PlainNames, FileNames
    <3> QED
      BY <3>1, SeqMonotonic
  <2>2. PICK n \in Nat : n = Len(l)
    BY LenProperties
  <2>3. PICK f : f[0] = <<>> /\ Joined(l) = f[n] /\ \A i \in 1..n : f[i] = Attach(f[i - 1], l[i])
    BY <2>1, <2>2, JoinedLoop
  <2>4. \A i \in 0..n : /\ f[i] \in Seq(Bytes) /\ 2 * i <= Len(f[i]) + 1
                        /\ i > 0 => f[i] # <<>> /\ f[i][1] # Slash
    BY <2>2, <2>3, JoinedGrows
  <2>5. ASSUME l # <<>> PROVE k > 0 /\ j[1] # Slash
    <3>1. n > 0
      BY <2>2, <2>5, EmptySeq
    <3>2. j # <<>> /\ j[1] # Slash
      BY <2>3, <2>4, <3>1
    <3> QED
      BY <1>3, <3>2, EmptySeq
  <2> QED
    BY <2>5
<1>6. l = <<>> => j = <<>>
  <2>1. ASSUME l = <<>> PROVE j = <<>>
    <3>1. PICK n \in Nat : n = 0 /\ n = Len(l)
      BY <2>1
    <3>2. l \in Seq(Seq(Bytes))
      BY <2>1
    <3>3. PICK f : f[0] = <<>> /\ Joined(l) = f[n]
      BY <3>1, <3>2, JoinedLoop
    <3> QED
      BY <3>1, <3>3
  <2> QED
    BY <2>1
<1>7. CASE path = j
  BY <1>5, <1>6, <1>7 DEF Relative
<1>8. CASE l # <<>> /\ path = Closed(j)
  BY <1>4, <1>5, <1>8 DEF Relative
<1> QED
  BY <1>1, <1>2, <1>4, <1>7, <1>8

\* Every spelling of a list of names is resolved to the inode it leads to.
LEMMA NamedIsFound ==
    ASSUME NEW v \in Volumes, NEW l \in Seq(Spellable(v)), NEW path, path \in Spellings(l)
    PROVE  path \in Seq(Bytes) /\ resolve_path(v, path) = Reached(v, l)
<1>1. l \in Seq(Seq(Bytes)) /\ l \in Seq(PlainNames)
  BY NamesAreBytes
<1>2. PICK n \in Nat : n = Len(l)
  BY LenProperties
<1>3. PICK p : /\ p[0] = <<>> /\ Joined(l) = p[n]
               /\ \A i \in 1..n : p[i] = Attach(p[i - 1], l[i])
  BY <1>1, <1>2, JoinedLoop
<1>4. PICK a : /\ a[0] = v.root /\ Reached(v, l) = a[n]
               /\ \A i \in 1..n : a[i] = Follow(v, a[i - 1], l[i])
  BY <1>1, <1>2, ReachedLoop
<1>5. PICK j \in Seq(Bytes) : j = Joined(l) /\ j = p[n]
  <2>1. p[n] \in Seq(Bytes)
    BY <1>1, <1>2, <1>3, JoinedGrows
  <2> QED
    BY <1>3, <2>1
<1>6. PICK q : q = Relative(path)
  OBVIOUS
<1>7. path \in Seq(Bytes) /\ (q = j \/ (l # <<>> /\ q = Closed(j)))
  BY <1>1, <1>5, <1>6, SpelledOut
<1>8. q \in Seq(Bytes)
  BY <1>6, <1>7, RelativeIs
<1>9. PICK m \in Nat, k \in Nat : m = Len(q) /\ k = Len(j)
  BY <1>8, LenProperties
<1>10. PICK f : /\ f[0] = [s |-> 1, n |-> v.root] /\ resolve_path(v, path) = f[m].n
                /\ \A i \in 1..m : f[i] = WalkRound(v, q, f[i - 1])
                /\ \A i \in 0..m : f[i] \in WalkStates
  <2>1. path \in Seq(Bytes)
    BY <1>7
  <2> QED
    BY <1>6, <1>9, <2>1, ResolveLoop
<1>11. EndsWith(p, n, q, m)
  <2>1. CASE q = j
    <3>1. BeginsWith(j, j)
      BY <1>9 DEF BeginsWith
    <3>2. n = 0 => j = <<>>
      BY <1>3, <1>5
    <3> QED
      BY <1>5, <1>9, <2>1, <3>1, <3>2 DEF EndsWith
  <2>2. CASE l # <<>> /\ q = Closed(j)
    <3>0. q = Closed(j) /\ k = Len(j)
      BY <1>9, <2>2
    <3>1. q \in Seq(Bytes) /\ Len(q) = k + 1 /\ q[k + 1] = Slash /\ \A i \in 1..k : q[i] = j[i]
      BY <3>0, SlashBehind
    <3>2. BeginsWith(j, q)
      BY <1>9, <3>1 DEF BeginsWith
    <3>3. n # 0
      BY <1>2, <2>2, EmptySeq
    <3> QED
      BY <1>5, <1>9, <3>1, <3>2, <3>3 DEF EndsWith
  <2> QED
    BY <1>7, <2>1, <2>2
<1>12. f[m].n = a[n]
  <2>1. m = Len(q) /\ n = Len(l) /\ l \in Seq(PlainNames)
    BY <1>1, <1>2, <1>9
  <2>2. Walks(f, v, q, m) /\ Joins(p, l, n) /\ Follows(a, v, l, n)
    BY <1>3, <1>4, <1>10 DEF Walks, Joins, Follows
  <2> QED
    BY <1>8, <1>11, <2>1, <2>2, WalkFollows
<1> QED
  BY <1>4, <1>7, <1>10, <1>12

\* A path holds two bytes for every name but the last.
LEMMA SpellingIsLong ==
    ASSUME NEW v \in Volumes, NEW l \in Seq(Spellable(v)), NEW path, path \in Spellings(l)
    PROVE  2 * Len(l) <= Len(path) + 1
<1>1. l \in Seq(Seq(Bytes)) /\ l \in Seq(PlainNames)
  BY NamesAreBytes
<1>2. PICK n \in Nat : n = Len(l)
  BY LenProperties
<1>3. PICK f : /\ f[0] = <<>> /\ Joined(l) = f[n]
               /\ \A i \in 1..n : f[i] = Attach(f[i - 1], l[i])
  BY <1>1, <1>2, JoinedLoop
<1>4. PICK j \in Seq(Bytes) : j = Joined(l) /\ 2 * n <= Len(j) + 1
  <2>0. \A i \in 0..n : /\ f[i] \in Seq(Bytes) /\ 2 * i <= Len(f[i]) + 1
                        /\ i > 0 => f[i] # <<>> /\ f[i][1] # Slash
    BY <1>1, <1>2, <1>3, JoinedGrows
  <2>1. f[n] \in Seq(Bytes) /\ 2 * n <= Len(f[n]) + 1
    BY <2>0
  <2> QED
    BY <1>3, <2>1
<1>5. PICK q : q = Relative(path)
  OBVIOUS
<1>6. path \in Seq(Bytes) /\ (q = j \/ (l # <<>> /\ q = Closed(j)))
  BY <1>1, <1>4, <1>5, SpelledOut
<1>7. q \in Seq(Bytes) /\ (path = q \/ path = Rooted(q))
  BY <1>5, <1>6, RelativeIs
<1>8. PICK k \in Nat, m \in Nat : k = Len(j) /\ m = Len(q)
  BY <1>7, LenProperties
<1>9. m >= k
  <2>1. Len(Closed(j)) = k + 1
    BY <1>8, SlashBehind
  <2> QED
    BY <1>6, <1>8, <2>1
<1>10. Len(path) = m \/ Len(path) = m + 1
  <2>1. Len(Rooted(q)) = m + 1
    BY <1>7, <1>8, SlashBefore
  <2> QED
    BY <1>7, <1>8, <2>1
<1>11. 2 * n <= Len(path) + 1
  BY <1>4, <1>8, <1>9, <1>10
<1> QED
  BY <1>2, <1>11

\* The shell's variables, and how its open file was named.
CatInv ==
    /\ shell = [pc |-> shell.pc, cmd |-> shell.cmd, arg |-> shell.arg, fd |-> shell.fd, buf |-> shell.buf,
                n |-> shell.n]
    /\ shell.pc \in {"prompt", "opened", "read", "close", "done", "zombie"}
    /\ shell.fd \in Int /\ shell.n \in -1..ReadMax /\ Len(shell.buf) \in 0..ReadMax
    /\ shell.cmd = "cat" => shell.arg \in Paths /\ shell.fd = sys_open(shell.arg)

LEMMA ShellReads ==
    ASSUME MailInv, NEW fd \in Int, NEW r, r = sys_read(fd, ReadMax - 1)
    PROVE  r.ret \in -1..ReadMax /\ Len(r.bytes) \in 0..ReadMax
<1>1. ReadMax \in Nat /\ ReadMax - 1 \in Nat
  BY BufferSizes
<1>2. CASE fd <= 2
  <2>1. r = Fail
    BY <1>2 DEF sys_read
  <2>2. Len(<<>>) = 0
    OBVIOUS
  <2> QED
    BY <1>1, <2>1, <2>2 DEF Fail
<1>3. CASE ~(fd <= 2)
  <2>1. fd \in Nat
    BY <1>3
  <2>2. PICK k \in Nat : k = ReadMax - 1
    BY <1>1
  <2>3. r \in Results /\ r.ret \in Int /\ r.ret <= ReadMax
    BY <2>1, <2>2, SysReadType
  <2>4. PICK ret \in Int, bytes \in Seq(Bytes) : ret = r.ret /\ bytes = r.bytes
    BY <2>3, ResultFields
  <2>5. ret = -1 \/ ret = Len(bytes)
    BY <2>3, <2>4, ResultFields
  <2>6. Len(bytes) \in Nat
    BY LenProperties
  <2>7. ret = -1 => Len(bytes) = 0
    <3>1. CASE r = Fail
      BY <2>4, <3>1 DEF Fail
    <3>2. CASE r # Fail
      <4>1. PICK b \in Seq(Bytes) : r = Got(b)
        BY <2>3, <3>2 DEF Results
      <4>2. r.ret = Len(b)
        BY <4>1 DEF Got
      <4>3. Len(b) \in Nat
        BY LenProperties
      <4> QED
        BY <2>4, <4>2, <4>3
    <3> QED
      BY <3>1, <3>2
  <2> QED
    BY <1>1, <2>3, <2>4, <2>5, <2>6, <2>7
<1> QED
  BY <1>2, <1>3

LEMMA CatStep == ASSUME CatInv, MailInv, [Next]_vars PROVE CatInv'
<1>1. CASE UNCHANGED <<vol, shell>>
  <2>1. sys_open(shell.arg)' = sys_open(shell.arg)
    BY <1>1 DEF sys_open
  <2> QED
    BY <1>1, <2>1 DEF CatInv
<1>2. ASSUME NEW pc \in {"prompt", "done", "zombie"}, NEW cmd, NEW arg, cmd # "cat",
             shell' = [pc |-> pc, cmd |-> cmd, arg |-> arg, fd |-> 0, buf |-> <<>>, n |-> 0]
      PROVE  CatInv'
  <2>1. ReadMax \in Nat /\ Len(<<>>) = 0
    BY BufferSizes
  <2>2. /\ shell'.pc = pc /\ shell'.cmd = cmd /\ shell'.arg = arg /\ shell'.fd = 0
        /\ shell'.buf = <<>> /\ shell'.n = 0
    BY <1>2
  <2> QED
    BY <1>2, <2>1, <2>2 DEF CatInv
<1>3. CASE Prompt
  <2>1. shell' = [pc |-> "prompt", cmd |-> "none", arg |-> <<>>, fd |-> 0, buf |-> <<>>, n |-> 0]
    BY <1>3 DEF Prompt, Idle
  <2> QED
    BY <1>2, <2>1
<1>4. CASE ShellPrints
  <2>1. PICK cmd \in {"help", "clear", "exit", "echo", "unknown"} : Command(cmd)
    BY <1>4 DEF ShellPrints
  <2>2. CASE shell' = [Done EXCEPT !.cmd = cmd]
    <3>1. shell' = [pc |-> "done", cmd |-> cmd, arg |-> <<>>, fd |-> 0, buf |-> <<>>, n |-> 0]
      BY <2>2 DEF Done, Idle
    <3> QED
      BY <1>2, <3>1
  <2>3. CASE shell' = [Idle EXCEPT !.cmd = cmd, !.pc = "zombie"]
    <3>1. shell' = [pc |-> "zombie", cmd |-> cmd, arg |-> <<>>, fd |-> 0, buf |-> <<>>, n |-> 0]
      BY <2>3 DEF Idle
    <3> QED
      BY <1>2, <3>1
  <2>4. ASSUME NEW t \in Texts, shell' = [Done EXCEPT !.cmd = cmd, !.arg = t]
        PROVE  CatInv'
    <3>1. shell' = [pc |-> "done", cmd |-> cmd, arg |-> t, fd |-> 0, buf |-> <<>>, n |-> 0]
      BY <2>4 DEF Done, Idle
    <3> QED
      BY <1>2, <3>1
  <2>5. \/ shell' = [Done EXCEPT !.cmd = cmd]
        \/ shell' = [Idle EXCEPT !.cmd = cmd, !.pc = "zombie"]
        \/ \E t \in Texts : shell' = [Done EXCEPT !.cmd = cmd, !.arg = t]
    BY <2>1 DEF Command
  <2> QED
    BY <2>2, <2>3, <2>4, <2>5
<1>5. CASE Ls
  <2>1. shell' = [Done EXCEPT !.cmd = "ls"]
    BY <1>5 DEF Ls
  <2>2. shell' = [pc |-> "done", cmd |-> "ls", arg |-> <<>>, fd |-> 0, buf |-> <<>>, n |-> 0]
    BY <2>1 DEF Done, Idle
  <2> QED
    BY <1>2, <2>2
<1>6. CASE CatOpen
  <2>1. vol' = vol
    BY <1>6 DEF CatOpen, ShellVars
  <2>2. PICK path \in Paths :
           LET fd == sys_open(path)
           IN  IF path = <<>>
               THEN shown' = <<"Usage">> /\ shell' = [Done EXCEPT !.cmd = "usage"]
               ELSE IF fd < 0
               THEN /\ shown' = <<"Error">>
                    /\ shell' = [Done EXCEPT !.cmd = "cat", !.arg = path, !.fd = fd]
               ELSE /\ shown' = <<>>
                    /\ shell' = [Idle EXCEPT !.cmd = "cat", !.arg = path, !.fd = fd, !.pc = "opened"]
    BY <1>6 DEF CatOpen
  <2>3. PICK fd \in Int : fd = sys_open(path)
    <3>1. vol \in Volumes \cup {NoVolume}
      BY DEF MailInv
    <3> QED
      BY <3>1, OpenType
  <2>4. CASE shell' = [Done EXCEPT !.cmd = "usage"]
    <3>1. shell' = [pc |-> "done", cmd |-> "usage", arg |-> <<>>, fd |-> 0, buf |-> <<>>, n |-> 0]
      BY <2>4 DEF Done, Idle
    <3> QED
      BY <1>2, <3>1
  <2>5. ASSUME NEW pc \in {"done", "opened"},
               shell' = [pc |-> pc, cmd |-> "cat", arg |-> path, fd |-> fd, buf |-> <<>>, n |-> 0]
        PROVE  CatInv'
    <3>1. ReadMax \in Nat /\ Len(<<>>) = 0
      BY BufferSizes
    <3>2. /\ shell'.pc = pc /\ shell'.cmd = "cat" /\ shell'.arg = path /\ shell'.fd = fd
          /\ shell'.buf = <<>> /\ shell'.n = 0
      BY <2>5
    <3>3. sys_open(shell.arg)' = fd
      BY <2>1, <2>3, <3>2 DEF sys_open
    <3> QED
      BY <2>5, <3>1, <3>2, <3>3 DEF CatInv
  <2>6. CASE shell' = [Done EXCEPT !.cmd = "cat", !.arg = path, !.fd = fd]
    <3>1. shell' = [pc |-> "done", cmd |-> "cat", arg |-> path, fd |-> fd, buf |-> <<>>, n |-> 0]
      BY <2>6 DEF Done, Idle
    <3> QED
      BY <2>5, <3>1
  <2>7. CASE shell' = [Idle EXCEPT !.cmd = "cat", !.arg = path, !.fd = fd, !.pc = "opened"]
    <3>1. shell' = [pc |-> "opened", cmd |-> "cat", arg |-> path, fd |-> fd, buf |-> <<>>, n |-> 0]
      BY <2>7 DEF Idle
    <3> QED
      BY <2>5, <3>1
  <2> QED
    BY <2>2, <2>3, <2>4, <2>6, <2>7
<1>7. ASSUME vol' = vol, NEW pc \in {"read", "close", "done"}, NEW buf, Len(buf) \in 0..ReadMax,
             NEW n \in -1..ReadMax, shell' = [shell EXCEPT !.pc = pc, !.buf = buf, !.n = n]
      PROVE  CatInv'
  <2>1. /\ shell' = [pc |-> shell'.pc, cmd |-> shell'.cmd, arg |-> shell'.arg, fd |-> shell'.fd,
                     buf |-> shell'.buf, n |-> shell'.n]
        /\ shell'.pc = pc /\ shell'.cmd = shell.cmd /\ shell'.arg = shell.arg /\ shell'.fd = shell.fd
        /\ shell'.buf = buf /\ shell'.n = n
    BY <1>7 DEF CatInv
  <2>2. sys_open(shell.arg)' = sys_open(shell.arg)
    BY <1>7, <2>1 DEF sys_open
  <2> QED
    BY <1>7, <2>1, <2>2 DEF CatInv
<1>8. CASE CatRead
  <2>1. PICK r : r = sys_read(shell.fd, ReadMax - 1)
    OBVIOUS
  <2>2. r.ret \in -1..ReadMax /\ Len(r.bytes) \in 0..ReadMax
    BY <2>1, ShellReads DEF CatInv
  <2>3. vol' = vol /\ shell' = [shell EXCEPT !.pc = IF r.ret > 0 THEN "read" ELSE "close",
                                             !.buf = r.bytes, !.n = r.ret]
    BY <1>8, <2>1 DEF CatRead, ShellVars
  <2>4. (IF r.ret > 0 THEN "read" ELSE "close") \in {"read", "close", "done"}
    OBVIOUS
  <2> QED
    BY <1>7, <2>2, <2>3, <2>4
<1>9. CASE CatShow \/ CatClose
  <2>1. PICK pc \in {"read", "close", "done"} : shell' = [shell EXCEPT !.pc = pc]
    BY <1>9 DEF CatShow, CatClose
  <2>2. vol' = vol
    BY <1>9 DEF CatShow, CatClose, ShellVars
  <2>3. shell' = [shell EXCEPT !.pc = pc, !.buf = shell.buf, !.n = shell.n]
    BY <2>1 DEF CatInv
  <2>4. Len(shell.buf) \in 0..ReadMax /\ shell.n \in -1..ReadMax
    BY DEF CatInv
  <2> QED
    BY <1>7, <2>2, <2>3, <2>4
<1>10. CASE Messages
  BY <1>1, <1>10 DEF Messages, AppFileCalls, ClientSends, ServerReceives, ServerShows,
                     ServerReplies, AppSends, AppReceives, AppCalls, MessageVars
<1>11. CASE Exec
  <2>1. ExecFinds => UNCHANGED ExecVars
    BY DEF ExecFinds
  <2>2. ExecReads => UNCHANGED ExecVars
    BY DEF ExecReads
  <2>3. ExecLoads => UNCHANGED ExecVars
    BY DEF ExecLoads
  <2>4. ExecExits => UNCHANGED ExecVars
    BY DEF ExecExits
  <2> QED
    BY <1>1, <1>11, <2>1, <2>2, <2>3, <2>4 DEF Exec, ExecVars
<1>12. CASE UNCHANGED vars
  BY <1>1, <1>12 DEF vars
<1> QED
  BY <1>3, <1>4, <1>5, <1>6, <1>8, <1>9, <1>10, <1>11, <1>12 DEF Next, Shell

\* A path that a user typed fits the kernel's copy.
LEMMA TypedPath ==
    ASSUME vol \in Volumes, NEW path \in Paths
    PROVE  /\ path \in Seq(Bytes)
           /\ sys_open(path) = IF resolve_path(vol, path) = 0 THEN -1 ELSE resolve_path(vol, path)
<1>1. path \in Seq(Bytes) /\ Len(path) < PathMax /\ PathMax \in Nat
  BY UserlandAssumption
<1>2. PICK l \in Nat : l = Len(path)
  BY <1>1, LenProperties
<1>3. MinOf(l, PathMax - 1) = l
  BY <1>1, <1>2 DEF MinOf
<1>4. PICK y : y = SubSeq(path, 1, l)
  OBVIOUS
<1>5. y \in Seq(Bytes) /\ Len(y) = l /\ \A i \in 1..l : y[i] = path[i]
  <2>1. l \in 0..Len(path)
    BY <1>2
  <2> QED
    BY <1>1, <1>4, <2>1, Prefix
<1>6. y = path
  BY <1>1, <1>2, <1>5, SeqEqual
<1>7. kpath(path) = path
  BY <1>2, <1>3, <1>4, <1>6 DEF kpath
<1>8. vol.mounted
  BY VolumeFields
<1> QED
  BY <1>1, <1>7, <1>8 DEF sys_open

LEMMA TypesHold == ASSUME CatInv, MailInv, ExecInv PROVE TypeOK
<1>1. \A p \in Pids : Len(mailbox[p]) <= QueueMax
  BY DEF MailInv, Queues
<1>2. server.from \in Pids \cup {AnyPid} /\ server.n \in 0..255 /\ server.pc \in {"receive", "show", "reply"}
  BY DEF MailInv
<1>3. Len(shell.buf) <= ReadMax
  BY BufferSizes DEF CatInv
<1>4. DOMAIN exec.mem = LoadAddr
  BY DEF ExecInv
<1>5. vol \in Volumes \cup {NoVolume}
  BY DEF MailInv
<1>6. exec.pc \in {"user", "read", "load", "loaded", "zombie"} /\ exec.frames \in 0..MaxFrames
  BY DEF ExecInv
<1>7. /\ shell.pc \in {"prompt", "opened", "read", "close", "done", "zombie"}
      /\ shell.fd \in Int /\ shell.n \in -1..ReadMax
  BY DEF CatInv
<1> QED
  BY <1>1, <1>2, <1>3, <1>4, <1>5, <1>6, <1>7 DEF TypeOK

LEMMA TypedPathsAreFollowed == ASSUME CatInv, MailInv, ExecInv PROVE PathsNameFiles
<1>1. TypeOK
  BY TypesHold
<1>2. ASSUME shell.cmd = "cat", vol.mounted
      PROVE  LET lists == UNION {[1..k -> Spellable(vol)] : k \in 0..((Len(shell.arg) + 1) \div 2)}
                 found == {Reached(vol, l) : l \in {x \in lists : shell.arg \in Spellings(x)}} \ {0}
             IN  IF shell.fd < 0 THEN found = {} ELSE found = {shell.fd}
  <2> DEFINE lists == UNION {[1..k -> Spellable(vol)] : k \in 0..((Len(shell.arg) + 1) \div 2)}
             found == {Reached(vol, l) : l \in {x \in lists : shell.arg \in Spellings(x)}} \ {0}
  <2>1. vol \in Volumes
    BY <1>2 DEF MailInv, NoVolume
  <2>2. PICK path \in Paths : path = shell.arg /\ shell.fd = sys_open(path)
    BY <1>2 DEF CatInv
  <2>3. PICK n \in Nat : n = resolve_path(vol, path)
    <3>1. path \in Seq(Bytes)
      BY UserlandAssumption
    <3> QED
      BY <2>1, <3>1, ResolveType
  <2>4. path \in Seq(Bytes) /\ shell.fd = IF n = 0 THEN -1 ELSE n
    BY <2>1, <2>2, <2>3, TypedPath
  <2>5. PICK m \in Nat : m = Len(path)
    BY <2>4, LenProperties
  <2>6. ASSUME NEW l \in lists, path \in Spellings(l) PROVE Reached(vol, l) = n
    <3>1. PICK k \in 0..((m + 1) \div 2) : l \in [1..k -> Spellable(vol)]
      BY <2>2, <2>5
    <3>2. (m + 1) \div 2 \in Nat
      BY DivMod
    <3>3. k \in Nat
      BY <3>2
    <3>4. l \in Seq(Spellable(vol))
      BY <3>1, <3>3
    <3> QED
      BY <2>1, <2>3, <2>6, <3>4, NamedIsFound
  <2>7. ASSUME n # 0 PROVE n \in found
    <3>1. PICK l \in Seq(Spellable(vol)) : path \in Spellings(l) /\ Reached(vol, l) = n
      BY <2>1, <2>3, <2>4, <2>7, FoundIsNamed
    <3>2. PICK k \in Nat : k = Len(l)
      BY LenProperties
    <3>3. 2 * k <= m + 1
      BY <2>1, <2>5, <3>1, <3>2, SpellingIsLong
    <3>4. k \in 0..((m + 1) \div 2)
      <4>1. PICK d \in Nat : d = (m + 1) \div 2 /\ m + 1 <= 2 * d + 1
        <5>1. (m + 1) \div 2 \in Nat /\ (m + 1) % 2 \in 0..1 /\ m + 1 = 2 * ((m + 1) \div 2) + ((m + 1) % 2)
          BY DivMod
        <5> QED
          BY <5>1
      <4>2. k <= d
        BY <3>3, <4>1
      <4> QED
        BY <4>1, <4>2
    <3>5. l \in [1..k -> Spellable(vol)]
      BY <3>2, LenProperties
    <3>6. l \in lists
      BY <2>2, <2>5, <3>4, <3>5
    <3>7. l \in {x \in lists : shell.arg \in Spellings(x)}
      BY <2>2, <3>1, <3>6
    <3> HIDE DEF lists
    <3> QED
      BY <2>7, <3>1, <3>7
  <2>8. \A y \in found : y = n /\ n # 0
    <3> HIDE DEF lists
    <3> QED
      BY <2>2, <2>6
  <2>9. IF shell.fd < 0 THEN found = {} ELSE found = {shell.fd}
    <3> HIDE DEF found
    <3>1. CASE n = 0
      BY <2>4, <2>8, <3>1
    <3>2. CASE n # 0
      <4>1. shell.fd = n /\ ~(shell.fd < 0)
        BY <2>4, <3>2
      <4>2. found = {n}
        BY <2>7, <2>8, <3>2
      <4> QED
        BY <4>1, <4>2
    <3> QED
      BY <3>1, <3>2
  <2> QED
    BY <2>9
<1> QED
  BY <1>1, <1>2 DEF PathsNameFiles

LEMMA CatInit == ASSUME Init PROVE CatInv
<1>1. shell = [pc |-> "prompt", cmd |-> "none", arg |-> <<>>, fd |-> 0, buf |-> <<>>, n |-> 0]
  BY DEF Init, Idle
<1>2. ReadMax \in Nat /\ Len(<<>>) = 0
  BY BufferSizes
<1> QED
  BY <1>1, <1>2 DEF CatInv

\* For every volume and every line a user can type, cat opens exactly what the
\* directories say the path names (resolve_path, mesafs.c:299): the walk from
\* the root along names, slashes at either end or not.
THEOREM PathsAreFollowed == Spec => []PathsNameFiles
<1> DEFINE IInv == CatInv /\ MailInv /\ ExecInv
<1>1. Init => IInv
  BY CatInit, MailInit, ExecInit
<1>2. IInv /\ [Next]_vars => IInv'
  BY CatStep, MailStep, ExecStep
<1>3. IInv => PathsNameFiles
  BY TypedPathsAreFollowed
<1> QED
  BY <1>1, <1>2, <1>3, PTL DEF Spec
=============================================================================
