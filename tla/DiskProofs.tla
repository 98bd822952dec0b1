----------------------------- MODULE DiskProofs -----------------------------
(***************************************************************************)
(* Theorems about the disk.                                                *)
(*                                                                         *)
(* The ATA driver with its drive implements an array of sectors            *)
(* (SectorDisk), for sectors and disks of any size and waits of any        *)
(* length, until a wait before a command gives up, and never tears a       *)
(* sector.  The invariant Inv says what stands in the ports while an LBA   *)
(* is written to them, that the drive executes the command it was sent and *)
(* how many words have gone over; it lasts until that wait.  Loose is what *)
(* is left of it afterwards, when the drive may have missed ports and      *)
(* command.                                                                *)
(*                                                                         *)
(* What a boot writes to the disk (Storage), for disks and partitions of   *)
(* any size, blocks of any size and any number of power failures.  The     *)
(* inductive invariant BootInv says how far the boot has come and which of *)
(* the sectors that differ from the ones it found it has written.          *)
(***************************************************************************)
EXTENDS Ata, Storage, SequenceTheorems, TLAPS

-----------------------------------------------------------------------------
(* The driver *)
\* Where the driver is in an operation, by what it does with the drive.
Addressing == {"drive", "low", "mid", "high", "command"}
Executing == {"ready2", "drq", "read", "write"}
Ending == {"ready3", "return"}
Booting == {"detect", "identify", "size"}
Operating == {"ready"} \cup Addressing \cup Executing \cup Ending

Jobs == [kind : {"identify", "read", "write", "commit"}, lba : Lbas]

\* The first n words of a sector.
IsPart(words, whole) ==
    Len(words) < Words /\ \A i \in 1..Len(words) : words[i] = whole[i]

\* The types of the variables, as far as the proof needs them.
Types ==
    /\ pc \in Booting \cup Operating \cup {"idle"}
    /\ op \in Requests \cup {None}
    /\ polls \in 0..Limit
    /\ buffer \in Seq(Values) /\ Len(buffer) <= Words
    /\ total \in {0, Size}
    /\ store \in [Lbas -> Contents]
    /\ port \in [{"drive", "low", "mid", "high"} -> Nat]
    /\ port["drive"] < Nibble
    /\ \A p \in {"low", "mid", "high"} : port[p] < Byte
    /\ status \in {"READY", "BSY", "DRQ", "ERR", "FLOATING"}
    /\ job \in Jobs \cup {None}
    /\ sector \in Seq(Values) /\ Len(sector) <= Words

\* Before the drive is known there is no operation, and only IDENTIFY was sent.
Stage ==
    /\ IF total = 0 THEN pc \in Booting \cup {"idle"} /\ job.kind \in {"none", "identify"}
                    ELSE pc \notin Booting /\ status # "FLOATING"
    /\ status \in {"READY", "FLOATING"} => job = None
    /\ pc = "detect" => Addressed = 0 /\ status \in {"READY", "FLOATING"}
    /\ op # None <=> pc \in Operating
    /\ pc \in Operating => op.lba \in Lbas
    /\ pc \notin Operating => buffer = <<>>

\* The digits that the driver has written stand in the ports.
PortsAreSet ==
    /\ pc \in Addressing => status = "READY"
    /\ pc \in Addressing \ {"drive"} => port["drive"] = Digit["drive"]
    /\ pc \in {"mid", "high", "command"} => port["low"] = Digit["low"]
    /\ pc \in {"high", "command"} => port["mid"] = Digit["mid"]
    /\ pc = "command" => port["high"] = Digit["high"]

\* The drive executes the command it was sent, and the words go over one by one.
CommandRuns ==
    /\ pc \in Operating \ {"read", "return"} => buffer = <<>>
    /\ pc \in Executing => job = [kind |-> op.kind, lba |-> op.lba]
    /\ pc \in {"ready2", "drq"} => status \in {"BSY", "DRQ", "ERR"}
    /\ pc \in {"ready2", "drq"} /\ status = "DRQ" =>
            sector = IF op.kind = "read" THEN store[op.lba] ELSE <<>>
    /\ pc = "read" => /\ op.kind = "read" /\ status = "DRQ"
                      /\ sector = store[op.lba] /\ IsPart(buffer, sector)
    /\ pc = "write" => op.kind = "write" /\ status = "DRQ" /\ IsPart(sector, op.data)

\* A sector may still be on its way to the medium when its write has returned,
\* and while the next operation waits, but not when it addresses the drive.
CommitIsAwaited ==
    /\ pc \in {"ready", "ready2", "ready3"} => polls < Limit
    /\ total # 0 /\ pc \in {"idle", "ready"} \cup Ending =>
            status = "READY" \/ (status = "BSY" /\ job.kind = "commit")
    /\ job.kind = "commit" =>
            /\ status = "BSY" /\ sector \in Contents
            /\ pc \in {"idle", "ready"} \cup Ending

\* What an operation is about to return.
ResultIsRight ==
    /\ pc = "ready3" => op.kind = "write"
    /\ pc \in Ending /\ op.kind = "write" => Committed[op.lba] = op.data
    /\ pc = "return" /\ op.kind = "read" => status = "READY" /\ buffer = store[op.lba]

Inv == Types /\ Stage /\ PortsAreSet /\ CommandRuns /\ CommitIsAwaited /\ ResultIsRight
-----------------------------------------------------------------------------
(* The four digits of an LBA *)

LEMMA DivMod ==
    ASSUME NEW v \in Nat, NEW a \in Nat, a > 0
    PROVE  v \div a \in Nat /\ v % a \in 0..(a - 1) /\ v = a * (v \div a) + (v % a)
<1>1. v \div a \in Nat /\ v % a \in 0..(a - 1)
  OBVIOUS
<1>2. v % a = v - a * (v \div a)
  OBVIOUS
<1>3. PICK x \in Int : x = a * (v \div a)
  BY <1>1
<1> QED
  BY <1>1, <1>2, <1>3

LEMMA Times ==
    ASSUME NEW a \in Nat, NEW m \in Nat, NEW n \in Nat, m <= n
    PROVE  a * m <= a * n /\ a * m \in Nat
OBVIOUS

\* A quotient is known from the multiples around the number.
LEMMA Quotient ==
    ASSUME NEW v \in Nat, NEW a \in Nat, a > 0, NEW p \in Nat,
           a * p <= v, v < a * (p + 1)
    PROVE  v \div a = p
<1>1. PICK q \in Nat, r \in 0..(a - 1) : q = v \div a /\ v = a * q + r
  BY DivMod
<1>2. q <= p
  <2>1. SUFFICES ASSUME p + 1 <= q PROVE FALSE
    OBVIOUS
  <2>2. PICK x \in Nat, y \in Nat : x = a * (p + 1) /\ y = a * q
    BY Times
  <2> QED
    BY <1>1, <2>1, <2>2, Times
<1>3. p <= q
  <2>1. SUFFICES ASSUME q + 1 <= p PROVE FALSE
    OBVIOUS
  <2>2. PICK x \in Nat, y \in Nat : x = a * p /\ y = a * q
    BY Times
  <2>3. a * (q + 1) = y + a /\ a * (q + 1) <= x
    BY <2>1, <2>2, Times
  <2> QED
    BY <1>1, <2>2, <2>3
<1> QED
  BY <1>1, <1>2, <1>3

\* Dividing twice is dividing by the product.
LEMMA DivTwice ==
    ASSUME NEW v \in Nat, NEW a \in Nat, a > 0, NEW b \in Nat, b > 0
    PROVE  (v \div a) \div b = v \div (a * b)
<1>1. PICK q \in Nat, r \in 0..(a - 1) : q = v \div a /\ v = a * q + r
  BY DivMod
<1>2. PICK p \in Nat, s \in 0..(b - 1) : p = q \div b /\ q = b * p + s
  BY DivMod
<1>3. PICK c \in Nat : c = a * b /\ c > 0
  OBVIOUS
<1>4. PICK x \in Nat, y \in Nat : x = c * p /\ y = a * s
  BY Times
<1>5. a * q = x + y
  <2>1. a * (b * p + s) = (a * b) * p + a * s
    OBVIOUS
  <2> QED
    BY <1>2, <1>3, <1>4, <2>1
<1>6. y + a <= c
  <2>1. a * (s + 1) <= a * b
    BY <1>2, Times
  <2>2. a * (s + 1) = y + a
    BY <1>4
  <2> QED
    BY <1>3, <2>1, <2>2
<1>7. c * (p + 1) = x + c
  BY <1>4
<1>8. x <= v /\ v < x + c
  BY <1>1, <1>5, <1>6
<1>9. v \div c = p
  BY <1>3, <1>4, <1>7, <1>8, Quotient
<1> QED
  BY <1>1, <1>2, <1>3, <1>9

LEMMA Small ==
    ASSUME NEW v \in Nat, NEW a \in Nat, v < a
    PROVE  v % a = v
OBVIOUS

LEMMA DivSmall ==
    ASSUME NEW v \in Nat, NEW a \in Nat, a > 0, NEW n \in Nat, v < a * n
    PROVE  v \div a < n
<1>1. PICK q \in Nat, r \in 0..(a - 1) : q = v \div a /\ v = a * q + r
  BY DivMod
<1>2. SUFFICES ASSUME n <= q PROVE FALSE
  BY <1>1
<1>3. PICK x \in Nat, y \in Nat : x = a * n /\ y = a * q
  BY Times
<1> QED
  BY <1>1, <1>2, <1>3, Times

\* The digits of base b with the leading one below n, put together, are the
\* number.
LEMMA Recombine ==
    ASSUME NEW v \in Nat, NEW b \in Nat, b > 0, NEW n \in Nat, n > 0,
           v < b * b * b * n
    PROVE  (v % b) + b * (((v \div b) % b) + b * (((v \div (b * b)) % b)
                + b * ((v \div (b * b * b)) % n))) = v
<1>1. PICK q \in Nat, r \in 0..(b - 1) : q = v \div b /\ r = v % b /\ v = b * q + r
  BY DivMod
<1>2. PICK p \in Nat, s \in 0..(b - 1) : p = q \div b /\ s = q % b /\ q = b * p + s
  BY DivMod
<1>3. PICK m \in Nat, t \in 0..(b - 1) : m = p \div b /\ t = p % b /\ p = b * m + t
  BY DivMod
<1>4. PICK c \in Nat : c = b * b /\ c > 0
  OBVIOUS
<1>5. PICK d \in Nat : d = c * b /\ d > 0
  BY <1>4
<1>6. v \div c = p
  BY <1>1, <1>2, <1>4, DivTwice
<1>7. v \div d = m
  BY <1>3, <1>4, <1>5, <1>6, DivTwice
<1>8. m < n
  BY <1>4, <1>5, <1>7, DivSmall
<1>9. m % n = m
  BY <1>8, Small
<1>10. (v \div b) % b = s /\ (v \div (b * b)) % b = t /\ (v \div (b * b * b)) % n = m
  BY <1>1, <1>2, <1>3, <1>4, <1>5, <1>6, <1>7, <1>9
<1>11. r + b * (s + b * (t + b * m)) = v
  BY <1>1, <1>2, <1>3
<1> QED
  BY <1>1, <1>10, <1>11

-----------------------------------------------------------------------------
(* Constants, requests and words *)

LEMMA Sizes ==
    /\ Byte \in Nat /\ Byte > 0 /\ Nibble \in Nat /\ Nibble > 0
    /\ Words \in Nat /\ Words > 0 /\ Limit \in Nat /\ Limit > 0
    /\ Size \in Nat /\ Size > 0 /\ Size <= Byte * Byte * Byte * Nibble
    /\ Tried \subseteq Nat
<1>1. Byte * Byte * Byte * Nibble \in Int
  BY AtaAssumption
<1> QED
  BY <1>1, AtaAssumption

LEMMA RequestFields ==
    ASSUME NEW r \in Requests
    PROVE  /\ r.lba \in Nat /\ r.kind \in {"read", "write"} /\ r # None
           /\ r.kind = "write" => r.data \in Contents
<1>1. CASE r \in [kind : {"read"}, lba : Tried]
  <2>1. r.kind = "read" /\ r.lba \in Tried /\ None.kind = "none"
    BY <1>1 DEF None
  <2> QED
    BY <2>1, Sizes
<1>2. CASE r \in [kind : {"write"}, lba : Tried, data : {[i \in 1..Words |-> v] : v \in Values}]
  <2>1. r.kind = "write" /\ r.lba \in Tried /\ r.data \in {[i \in 1..Words |-> v] : v \in Values}
    BY <1>2
  <2>3. None.kind = "none"
    BY DEF None
  <2>2. r.data \in Contents
    BY <2>1 DEF Contents
  <2> QED
    BY <2>1, <2>2, <2>3, Sizes
<1> QED
  BY <1>1, <1>2 DEF Requests

\* A sector is a sequence of Words words.
LEMMA SectorWords ==
    ASSUME NEW w \in Contents
    PROVE  w \in Seq(Values) /\ Len(w) = Words
BY Sizes DEF Contents

LEMMA SameWords ==
    ASSUME NEW s \in Seq(Values), NEW w \in Contents, Len(s) = Words,
           \A i \in 1..Words : s[i] = w[i]
    PROVE  s = w
<1>1. DOMAIN s = 1..Words /\ DOMAIN w = 1..Words
  BY LenProperties DEF Contents
<1>2. s = [i \in 1..Words |-> s[i]] /\ w = [i \in 1..Words |-> w[i]]
  BY <1>1, LenProperties DEF Contents
<1> QED
  BY <1>2

\* One more word of a sector, the last one perhaps.
LEMMA NextWord ==
    ASSUME NEW s \in Seq(Values), NEW w \in Contents, IsPart(s, w),
           NEW t, t = Append(s, w[Len(s) + 1])
    PROVE  /\ t \in Seq(Values) /\ Len(t) = Len(s) + 1 /\ Len(t) <= Words
           /\ Len(t) = Words => t = w
           /\ Len(t) # Words => IsPart(t, w)
<1>1. Len(s) \in Nat /\ Len(s) < Words /\ w[Len(s) + 1] \in Values
  BY Sizes, LenProperties DEF IsPart, Contents
<1>2. /\ t \in Seq(Values) /\ Len(t) = Len(s) + 1
      /\ \A i \in 1..Len(s) : t[i] = s[i]
      /\ t[Len(s) + 1] = w[Len(s) + 1]
  BY <1>1, AppendProperties
<1>3. \A i \in 1..Len(t) : t[i] = w[i]
  BY <1>1, <1>2 DEF IsPart
<1>4. Len(t) = Words => t = w
  BY <1>2, <1>3, SameWords
<1> QED
  BY <1>1, <1>2, <1>3, <1>4, Sizes DEF IsPart

-----------------------------------------------------------------------------
(* The invariant *)

LEMMA InitInv == Init => Inv
<1> SUFFICES ASSUME Init PROVE Inv
  OBVIOUS
<1>1. Types
  <2>1. store \in [Lbas -> Contents]
    BY DEF Init, Contents
  <2>2. /\ port \in [{"drive", "low", "mid", "high"} -> Nat]
        /\ \A p \in {"drive", "low", "mid", "high"} : port[p] = 0
    BY DEF Init
  <2>3. buffer \in Seq(Values) /\ Len(buffer) = 0 /\ sector \in Seq(Values) /\ Len(sector) = 0
    BY DEF Init
  <2> QED
    BY <2>1, <2>2, <2>3, Sizes DEF Init, Types, Booting
<1>2. Stage /\ PortsAreSet /\ CommandRuns /\ CommitIsAwaited /\ ResultIsRight
  BY Sizes DEF Init, Stage, PortsAreSet, CommandRuns, CommitIsAwaited, ResultIsRight,
         Operating, Addressing, Executing, Ending, Booting, Addressed, None
<1> QED
  BY <1>1, <1>2 DEF Inv

\* The ports hold the LBA when the command is sent.
LEMMA PortsHoldTheLba ==
    ASSUME Inv, pc = "command"
    PROVE  Addressed = op.lba /\ op.lba \in Lbas /\ op \in Requests
<1>1. op \in Requests /\ op.lba \in Lbas
  BY DEF Inv, Types, Stage, Operating, Addressing
<1>2. PICK v : v = op.lba
  OBVIOUS
<1>3. v \in Nat /\ v < Byte * Byte * Byte * Nibble
  <2>1. Byte * Byte * Byte * Nibble \in Int
    BY Sizes
  <2> QED
    BY <1>1, <1>2, <2>1, Sizes DEF Lbas
<1>4. /\ port["low"] = v % Byte
      /\ port["mid"] = (v \div Byte) % Byte
      /\ port["high"] = (v \div (Byte * Byte)) % Byte
      /\ port["drive"] = (v \div (Byte * Byte * Byte)) % Nibble
  BY <1>2 DEF Inv, PortsAreSet, Digit, Addressing
<1>5. (v % Byte) + Byte * (((v \div Byte) % Byte) + Byte * (((v \div (Byte * Byte)) % Byte)
          + Byte * ((v \div (Byte * Byte * Byte)) % Nibble))) = v
  BY <1>3, Recombine, Sizes
<1> QED
  BY <1>1, <1>2, <1>4, <1>5, Zenon DEF Addressed

\* A digit fits its port.
LEMMA DigitFits ==
    ASSUME NEW v \in Nat
    PROVE  /\ v % Byte \in Nat /\ v % Byte < Byte
           /\ (v \div Byte) % Byte \in Nat /\ (v \div Byte) % Byte < Byte
           /\ (v \div (Byte * Byte)) % Byte \in Nat /\ (v \div (Byte * Byte)) % Byte < Byte
           /\ (v \div (Byte * Byte * Byte)) % Nibble \in Nat
           /\ (v \div (Byte * Byte * Byte)) % Nibble < Nibble
<1>1. PICK b \in Nat, n \in Nat : b = Byte /\ n = Nibble /\ b > 0 /\ n > 0
  BY Sizes
<1>2. PICK c \in Nat : c = b * b /\ c > 0
  BY <1>1
<1>3. PICK d \in Nat : d = c * b /\ d > 0
  BY <1>1, <1>2
<1>4. v \div b \in Nat /\ v \div c \in Nat /\ v \div d \in Nat
  BY <1>1, <1>2, <1>3, DivMod
<1>5. /\ v % b \in 0..(b - 1) /\ (v \div b) % b \in 0..(b - 1) /\ (v \div c) % b \in 0..(b - 1)
      /\ (v \div d) % n \in 0..(n - 1)
  BY <1>1, <1>4, DivMod
<1> QED
  BY <1>1, <1>2, <1>3, <1>5

LEMMA NoDriveInv ==
    ASSUME Inv, NoDrive
    PROVE  Inv'
<1>1. Types'
  BY DEF Inv, NoDrive, drive, Types
<1>2. Stage'
  BY DEF Inv, NoDrive, Present, drive, Stage, Operating, Addressing, Executing, Ending
<1>3. PortsAreSet'
  BY DEF NoDrive, PortsAreSet, Addressing
<1>4. CommandRuns'
  BY DEF Inv, NoDrive, Stage, CommandRuns, Executing
<1>5. CommitIsAwaited'
  BY DEF Inv, NoDrive, drive, Stage, CommitIsAwaited
<1>6. ResultIsRight'
  BY DEF NoDrive, ResultIsRight, Ending
<1> QED
  BY <1>1, <1>2, <1>3, <1>4, <1>5, <1>6 DEF Inv

LEMMA IdentifyInv ==
    ASSUME Inv, Identify
    PROVE  Inv'
<1>a. /\ status' = "BSY" /\ job' \in Jobs /\ job'.kind = "identify"
  BY Sizes DEF Identify, Command, Inv, Stage, Jobs, Lbas
<1>1. Types'
  BY <1>a, Sizes DEF Inv, Identify, Types, Booting
<1>2. Stage'
  BY <1>a DEF Inv, Identify, Stage, Operating, Addressing, Executing, Ending, Booting
<1>3. PortsAreSet'
  BY DEF Identify, PortsAreSet, Addressing
<1>4. CommandRuns'
  BY DEF Inv, Identify, Stage, CommandRuns, Executing
<1>5. CommitIsAwaited'
  BY <1>a DEF Identify, CommitIsAwaited, Ending
<1>6. ResultIsRight'
  BY DEF Identify, ResultIsRight, Ending
<1> QED
  BY <1>1, <1>2, <1>3, <1>4, <1>5, <1>6 DEF Inv

LEMMA IdentifyPollInv ==
    ASSUME Inv, IdentifyPoll
    PROVE  Inv'
<1>1. Types'
  BY Sizes DEF Inv, IdentifyPoll, Types, Booting
<1>2. Stage'
  BY DEF Inv, IdentifyPoll, Stage, Operating, Addressing, Executing, Ending, Booting
<1>3. PortsAreSet'
  BY DEF IdentifyPoll, PortsAreSet, Addressing
<1>4. CommandRuns'
  BY DEF Inv, IdentifyPoll, Stage, CommandRuns, Executing
<1>5. CommitIsAwaited'
  BY DEF Inv, IdentifyPoll, Types, Stage, PortsAreSet, CommitIsAwaited, Operating, Executing
<1>6. ResultIsRight'
  BY DEF IdentifyPoll, ResultIsRight, Ending
<1> QED
  BY <1>1, <1>2, <1>3, <1>4, <1>5, <1>6 DEF Inv

LEMMA IdentifyTimeoutInv ==
    ASSUME Inv, IdentifyTimeout
    PROVE  Inv'
<1>1. Types'
  BY DEF Inv, IdentifyTimeout, drive, Types
<1>2. Stage'
  BY DEF Inv, IdentifyTimeout, drive, Types, Stage, Operating, Addressing, Executing, Ending
<1>3. PortsAreSet'
  BY DEF IdentifyTimeout, PortsAreSet, Addressing
<1>4. CommandRuns'
  BY DEF Inv, IdentifyTimeout, Stage, CommandRuns, Executing
<1>5. CommitIsAwaited'
  BY DEF Inv, IdentifyTimeout, drive, Types, Stage, PortsAreSet, CommitIsAwaited, Operating, Executing, Ending
<1>6. ResultIsRight'
  BY DEF IdentifyTimeout, ResultIsRight, Ending
<1> QED
  BY <1>1, <1>2, <1>3, <1>4, <1>5, <1>6 DEF Inv

LEMMA ReadSizeInv ==
    ASSUME Inv, ReadSize
    PROVE  Inv'
<1>1. Types'
  BY DEF Inv, ReadSize, Types
<1>2. Stage'
  BY Sizes DEF Inv, ReadSize, Stage, Operating, Addressing, Executing, Ending, Booting
<1>3. PortsAreSet'
  BY DEF ReadSize, PortsAreSet, Addressing
<1>4. CommandRuns'
  BY DEF Inv, ReadSize, Stage, CommandRuns, Executing
<1>5. CommitIsAwaited'
  BY DEF ReadSize, CommitIsAwaited, None
<1>6. ResultIsRight'
  BY DEF ReadSize, ResultIsRight, Ending
<1> QED
  BY <1>1, <1>2, <1>3, <1>4, <1>5, <1>6 DEF Inv

LEMMA WaitReadyInv ==
    ASSUME Inv, WaitReady, ~gaveUp'
    PROVE  Inv'
<1>a. /\ pc \in {"ready", "ready2", "ready3"}
      /\ IF WaitEnds
         THEN /\ polls' = 0
              /\ (pc = "ready" /\ pc' = "drive") \/ (pc = "ready2" /\ pc' = "drq")
                    \/ (pc = "ready3" /\ pc' = "return")
         ELSE pc' = pc /\ polls' = polls + 1
      /\ UNCHANGED <<op, buffer, total, answer, store, port, status, job, sector>>
  BY DEF WaitReady, After
<1>d. pc = "ready" => ~(WaitEnds /\ status = "BSY")
  BY Zenon DEF WaitReady
<1>b. polls \in Nat /\ polls < Limit
  BY <1>a DEF Inv, Types, CommitIsAwaited
<1>c. polls' \in 0..Limit /\ (pc' = pc => polls' < Limit)
  BY <1>a, <1>b, Sizes DEF WaitEnds
<1>e. ASSUME pc = "ready", pc' = "drive" PROVE status = "READY"
  BY <1>a, <1>d, <1>e DEF Inv, CommitIsAwaited, Stage, Operating, Booting
<1>1. Types'
  BY <1>a, <1>c DEF Inv, Types, Operating, Addressing, Executing, Ending
<1>2. Stage'
  BY <1>a DEF Inv, Stage, Operating, Addressing, Executing, Ending, Booting
<1>3. PortsAreSet'
  BY <1>a, <1>e DEF PortsAreSet, Addressing
<1>4. CommandRuns'
  BY <1>a DEF Inv, Stage, CommandRuns, Executing
<1>5. CommitIsAwaited'
  BY <1>a, <1>c, <1>e DEF Inv, CommitIsAwaited, Ending
<1>6. ResultIsRight'
  BY <1>a DEF Inv, ResultIsRight, Ending, Committed
<1> QED
  BY <1>1, <1>2, <1>3, <1>4, <1>5, <1>6 DEF Inv

LEMMA SetPortInv ==
    ASSUME Inv, SetPort
    PROVE  Inv'
<1>a. /\ pc \in {"drive", "low", "mid", "high"} /\ op \in Requests /\ op.lba \in Lbas /\ op.lba \in Nat
      /\ status = "READY"
  BY RequestFields DEF Inv, Types, Stage, PortsAreSet, SetPort, NextPort, Operating, Addressing
<1>b. /\ port' = [port EXCEPT ![pc] = Digit[pc]] /\ Digit[pc] \in Nat
      /\ Digit[pc] < IF pc = "drive" THEN Nibble ELSE Byte
  BY <1>a, DigitFits DEF SetPort, Outb, Digit
<1>c. /\ (pc = "drive" /\ pc' = "low") \/ (pc = "low" /\ pc' = "mid")
           \/ (pc = "mid" /\ pc' = "high") \/ (pc = "high" /\ pc' = "command")
      /\ UNCHANGED <<op, polls, buffer, total, answer, store, status, job, sector>>
  BY DEF SetPort, NextPort
<1>d. Digit' = Digit
  BY <1>c DEF Digit
<1>e. port \in [{"drive", "low", "mid", "high"} -> Nat]
  BY DEF Inv, Types
<1>1. Types'
  BY <1>b, <1>c DEF Inv, Types, Operating, Addressing
<1>2. Stage'
  BY <1>c DEF Inv, Stage, Operating, Addressing, Booting
<1>3. PortsAreSet'
  BY <1>b, <1>c, <1>d, <1>e DEF Inv, Stage, PortsAreSet, Addressing, Jobs, Committed, IsPart
<1>4. CommandRuns'
  BY <1>c DEF Inv, Stage, CommandRuns, Executing, Jobs, Committed, IsPart
<1>5. CommitIsAwaited'
  BY <1>a, <1>c DEF Inv, CommitIsAwaited, Jobs, Committed, IsPart
<1>6. ResultIsRight'
  BY <1>c DEF ResultIsRight, Ending, Jobs, Committed, IsPart
<1> QED
  BY <1>1, <1>2, <1>3, <1>4, <1>5, <1>6 DEF Inv

LEMMA SendCommandInv ==
    ASSUME Inv, SendCommand
    PROVE  Inv'
<1>a. op \in Requests /\ op.lba \in Lbas /\ Addressed = op.lba /\ op.kind \in {"read", "write"}
  BY PortsHoldTheLba, RequestFields DEF SendCommand
<1>b. /\ pc = "command" /\ pc' = "ready2" /\ polls' = 0 /\ status = "READY"
      /\ status' = "BSY"
      /\ job' = [kind |-> op.kind, lba |-> op.lba]
      /\ UNCHANGED <<op, buffer, total, answer, store, port, sector>>
  BY <1>a DEF SendCommand, Command, Inv, PortsAreSet, Addressing
<1>c. job' \in Jobs /\ job'.kind = op.kind
  BY <1>a, <1>b DEF Jobs
<1>1. Types'
  BY <1>b, <1>c, Sizes DEF Inv, Types, Operating, Executing
<1>2. Stage'
  BY <1>b DEF Inv, Types, Stage, Operating, Executing, Booting
<1>3. PortsAreSet'
  BY <1>b DEF PortsAreSet, Addressing
<1>4. CommandRuns'
  BY <1>b DEF Inv, Stage, CommandRuns
<1>5. CommitIsAwaited'
  BY <1>a, <1>b, Sizes DEF CommitIsAwaited, Ending
<1>6. ResultIsRight'
  BY <1>b DEF ResultIsRight, Ending
<1> QED
  BY <1>1, <1>2, <1>3, <1>4, <1>5, <1>6 DEF Inv

LEMMA WaitDataInv ==
    ASSUME Inv, WaitData
    PROVE  Inv'
<1>a. op \in Requests /\ op.kind \in {"read", "write"} /\ (op.kind = "write" => op.data \in Contents)
  BY RequestFields DEF WaitData, Inv, Types, Stage, Operating, Executing
<1>b. IsPart(<<>>, op.data) /\ IsPart(<<>>, store[op.lba])
  BY Sizes DEF IsPart
<1>1. Types'
  BY <1>a, Sizes DEF Inv, WaitData, Types, Operating, Executing
<1>2. Stage'
  BY <1>a DEF Inv, WaitData, Stage, Operating, Executing, Booting
<1>3. PortsAreSet'
  BY <1>a DEF WaitData, PortsAreSet, Addressing
<1>4. CommandRuns'
  BY <1>b DEF Inv, WaitData, CommandRuns, Operating, Executing
<1>5. CommitIsAwaited'
  BY <1>a DEF Inv, WaitData, CommitIsAwaited, Ending
<1>6. ResultIsRight'
  BY <1>a DEF WaitData, ResultIsRight, Operating, Executing, Ending, Contents
<1> QED
  BY <1>1, <1>2, <1>3, <1>4, <1>5, <1>6 DEF Inv

LEMMA ReadWordInv ==
    ASSUME Inv, ReadWord
    PROVE  Inv'
<1>a. store[op.lba] \in Contents
  BY DEF ReadWord, Inv, Types, Stage, Operating, Executing
<1>b. /\ buffer' \in Seq(Values) /\ Len(buffer') <= Words
      /\ Len(buffer') = Words => buffer' = store[op.lba]
      /\ Len(buffer') # Words => IsPart(buffer', store[op.lba])
  <2>1. buffer \in Seq(Values) /\ IsPart(buffer, store[op.lba])
    BY DEF ReadWord, Inv, Types, CommandRuns
  <2>2. buffer' = Append(buffer, store[op.lba][Len(buffer) + 1])
    BY DEF ReadWord, Inv, CommandRuns
  <2>3. PICK s, w, t : s = buffer /\ w = store[op.lba] /\ t = buffer'
    OBVIOUS
  <2>4. s \in Seq(Values) /\ w \in Contents /\ IsPart(s, w) /\ t = Append(s, w[Len(s) + 1])
    BY <1>a, <2>1, <2>2, <2>3
  <2> QED
    BY <2>3, <2>4, NextWord
<1>c. Len(buffer') = Words => pc' = "return" /\ status' = "READY" /\ job' = None /\ sector' = <<>>
  BY DEF ReadWord
<1>d. Len(buffer') # Words => UNCHANGED <<pc, status, job, sector>>
  BY DEF ReadWord
<1>e. pc = "read" /\ UNCHANGED <<op, polls, total, answer, store, port>>
  BY DEF ReadWord
<1>f. sector' \in Seq(Values) /\ Len(sector') <= Words
  <2>1. <<>> \in Seq(Values) /\ Len(<<>>) = 0
    OBVIOUS
  <2>2. sector \in Seq(Values) /\ Len(sector) <= Words
    BY DEF Inv, Types
  <2>3. sector' = sector \/ sector' = <<>>
    BY <1>c, <1>d
  <2>4. CASE sector' = sector
    BY <2>2, <2>4
  <2>5. CASE sector' = <<>>
    BY <2>1, <2>5, Sizes
  <2> QED
    BY <2>3, <2>4, <2>5
<1>g. job'.kind \in {"none", "read"}
  BY <1>c, <1>d, <1>e DEF None, Inv, CommandRuns, Executing
<1>1. Types'
  BY <1>b, <1>c, <1>d, <1>e, <1>f DEF Inv, Types, Operating, Ending
<1>2. Stage'
  BY <1>c, <1>d, <1>e DEF Inv, Types, Stage, Operating, Ending, Booting
<1>3. PortsAreSet'
  BY <1>c, <1>d, <1>e DEF PortsAreSet, Addressing
<1>4. CommandRuns'
  BY <1>b, <1>c, <1>d, <1>e DEF Inv, CommandRuns, Executing
<1>5. CommitIsAwaited'
  BY <1>c, <1>d, <1>e, <1>g DEF Inv, CommitIsAwaited
<1>6. ResultIsRight'
  BY <1>b, <1>c, <1>d, <1>e DEF Inv, CommandRuns, ResultIsRight
<1> QED
  BY <1>1, <1>2, <1>3, <1>4, <1>5, <1>6 DEF Inv

LEMMA WriteWordInv ==
    ASSUME Inv, WriteWord
    PROVE  Inv'
<1>a. op \in Requests /\ op.kind = "write" /\ op.data \in Contents /\ op.lba \in Lbas
  BY RequestFields DEF WriteWord, Inv, Types, Stage, CommandRuns, Executing
<1>b. /\ sector' \in Seq(Values) /\ Len(sector') <= Words
      /\ Len(sector') = Words => sector' = op.data
      /\ Len(sector') # Words => IsPart(sector', op.data)
  <2>1. sector \in Seq(Values) /\ IsPart(sector, op.data)
    BY DEF WriteWord, Inv, Types, CommandRuns
  <2>2. sector' = Append(sector, op.data[Len(sector) + 1])
    BY DEF WriteWord
  <2>3. PICK s, w, t : s = sector /\ w = op.data /\ t = sector'
    OBVIOUS
  <2>4. s \in Seq(Values) /\ w \in Contents /\ IsPart(s, w) /\ t = Append(s, w[Len(s) + 1])
    BY <1>a, <2>1, <2>2, <2>3
  <2> QED
    BY <2>3, <2>4, NextWord
<1>c. job = [kind |-> "write", lba |-> op.lba]
  BY <1>a DEF WriteWord, Inv, CommandRuns, Executing
<1>d. Len(sector') = Words => /\ pc' = "ready3" /\ status' = "BSY" /\ polls' = 0
                             /\ job' = [kind |-> "commit", lba |-> op.lba]
  BY <1>c DEF WriteWord
<1>e. Len(sector') # Words => UNCHANGED <<pc, status, job, polls>>
  BY DEF WriteWord
<1>f. pc = "write" /\ UNCHANGED <<op, buffer, total, answer, store, port>>
  BY DEF WriteWord
<1>g. Len(sector') = Words => job' \in Jobs
  BY <1>a, <1>d DEF Jobs
<1>1. Types'
  BY <1>b, <1>c, <1>d, <1>e, <1>f, <1>g, Sizes DEF Inv, Types, Operating, Ending
<1>2. Stage'
  BY <1>d, <1>e, <1>f DEF Inv, Types, Stage, Operating, Ending, Booting
<1>3. PortsAreSet'
  BY <1>d, <1>e, <1>f DEF PortsAreSet, Addressing
<1>4. CommandRuns'
  BY <1>b, <1>d, <1>e, <1>f DEF Inv, Stage, CommandRuns, Executing, Addressed
<1>5. CommitIsAwaited'
  BY <1>a, <1>b, <1>c, <1>d, <1>e, <1>f, Sizes DEF CommitIsAwaited, Ending
<1>6. ResultIsRight'
  BY <1>a, <1>b, <1>c, <1>d, <1>e, <1>f DEF Inv, Types, ResultIsRight, Committed
<1> QED
  BY <1>1, <1>2, <1>3, <1>4, <1>5, <1>6 DEF Inv

LEMMA ReturnInv ==
    ASSUME Inv, Return
    PROVE  Inv'
<1>1. Types'
  BY Sizes DEF Inv, Return, drive, Types
<1>2. Stage'
  BY DEF Inv, Return, drive, Stage, Operating, Addressing, Executing, Ending, Booting
<1>3. PortsAreSet'
  BY DEF Return, PortsAreSet, Addressing
<1>4. CommandRuns'
  BY DEF Return, CommandRuns, Executing
<1>5. CommitIsAwaited'
  BY DEF Inv, Return, drive, CommitIsAwaited, Ending
<1>6. ResultIsRight'
  BY DEF Return, ResultIsRight, Ending
<1> QED
  BY <1>1, <1>2, <1>3, <1>4, <1>5, <1>6 DEF Inv

LEMMA DataRequestInv ==
    ASSUME Inv, DataRequest
    PROVE  Inv'
<1>a. pc \in {"ready2", "drq"} => job.kind = op.kind /\ job.lba = op.lba
  BY DEF Inv, CommandRuns, Executing
<1>b. sector' \in Seq(Values) /\ Len(sector') <= Words
  BY SectorWords, Sizes DEF DataRequest, Inv, Types, Jobs, None
<1>1. Types'
  BY <1>b DEF Inv, DataRequest, driver, Types
<1>2. Stage'
  BY DEF Inv, DataRequest, driver, Stage
<1>3. PortsAreSet'
  BY DEF Inv, DataRequest, driver, PortsAreSet, Addressing
<1>4. CommandRuns'
  BY <1>a DEF Inv, DataRequest, driver, CommandRuns
<1>5. CommitIsAwaited'
  BY DEF Inv, DataRequest, driver, CommitIsAwaited
<1>6. ResultIsRight'
  BY DEF Inv, DataRequest, driver, ResultIsRight, Committed
<1> QED
  BY <1>1, <1>2, <1>3, <1>4, <1>5, <1>6 DEF Inv

LEMMA ReportErrorInv ==
    ASSUME Inv, ReportError
    PROVE  Inv'
<1>1. Types'
  BY DEF Inv, ReportError, driver, Types
<1>2. Stage'
  BY DEF Inv, ReportError, driver, Stage
<1>3. PortsAreSet'
  BY DEF Inv, ReportError, driver, PortsAreSet, Addressing
<1>4. CommandRuns'
  BY DEF Inv, ReportError, driver, CommandRuns
<1>5. CommitIsAwaited'
  BY DEF Inv, ReportError, driver, CommitIsAwaited
<1>6. ResultIsRight'
  BY DEF Inv, ReportError, driver, ResultIsRight, Committed
<1> QED
  BY <1>1, <1>2, <1>3, <1>4, <1>5, <1>6 DEF Inv

LEMMA CommitSectorInv ==
    ASSUME Inv, CommitSector
    PROVE  Inv'
<1>a. job \in Jobs /\ job.lba \in Lbas /\ sector \in Contents
  BY DEF CommitSector, Inv, Types, CommitIsAwaited, Jobs, None
<1>b. store' \in [Lbas -> Contents]
  BY <1>a DEF CommitSector, Inv, Types
<1>c. sector' \in Seq(Values) /\ Len(sector') = 0
  BY DEF CommitSector
<1>1. Types'
  BY <1>a, Sizes DEF Inv, CommitSector, driver, Types
<1>2. Stage'
  BY DEF Inv, CommitSector, driver, Stage
<1>3. PortsAreSet'
  BY DEF Inv, CommitSector, driver, PortsAreSet, Addressing
<1>4. CommandRuns'
  BY DEF Inv, CommitSector, driver, CommandRuns, CommitIsAwaited, Executing, Ending
<1>5. CommitIsAwaited'
  BY DEF Inv, CommitSector, driver, CommitIsAwaited, None
<1>6. ResultIsRight'
  BY DEF Inv, CommitSector, driver, ResultIsRight, None, Committed
<1> QED
  BY <1>1, <1>2, <1>3, <1>4, <1>5, <1>6 DEF Inv

LEMMA RefuseInv ==
    ASSUME Inv, NEW r \in Requests, Refuse(r)
    PROVE  Inv'
<1>1. Types'
  BY DEF Inv, Refuse, drive, Types
<1>2. Stage'
  BY DEF Inv, Refuse, drive, Stage
<1>3. PortsAreSet'
  BY DEF Refuse, PortsAreSet, Addressing
<1>4. CommandRuns'
  BY DEF Inv, Refuse, drive, CommandRuns
<1>5. CommitIsAwaited'
  BY DEF Inv, Refuse, drive, CommitIsAwaited
<1>6. ResultIsRight'
  BY DEF Refuse, ResultIsRight, Ending
<1> QED
  BY <1>1, <1>2, <1>3, <1>4, <1>5, <1>6 DEF Inv

LEMMA StartInv ==
    ASSUME Inv, NEW r \in Requests, Start(r)
    PROVE  Inv'
<1>a. r.lba \in Lbas /\ r # None /\ total = Size
  BY RequestFields, Sizes DEF Start, InRange, Inv, Types, Lbas
<1>b. buffer' \in Seq(Values) /\ Len(buffer') = 0
  BY DEF Start
<1>1. Types'
  BY Sizes DEF Inv, Start, drive, Types, Operating
<1>2. Stage'
  BY <1>a, Sizes DEF Inv, Start, drive, Stage, Operating, Booting
<1>3. PortsAreSet'
  BY DEF Start, PortsAreSet, Addressing
<1>4. CommandRuns'
  BY DEF Start, CommandRuns, Executing
<1>5. CommitIsAwaited'
  BY Sizes DEF Inv, Start, drive, CommitIsAwaited
<1>6. ResultIsRight'
  BY DEF Start, ResultIsRight, Ending
<1> QED
  BY <1>1, <1>2, <1>3, <1>4, <1>5, <1>6 DEF Inv

LEMMA NextInv == Inv /\ ~gaveUp' /\ [Next]_vars => Inv'
<1> SUFFICES ASSUME Inv, ~gaveUp', [Next]_vars PROVE Inv'
  OBVIOUS
<1>1. CASE UNCHANGED vars
  BY <1>1 DEF Inv, Types, Stage, PortsAreSet, CommandRuns, CommitIsAwaited, ResultIsRight,
              Digit, Addressed, Committed, vars, driver, drive
<1>2. CASE Call
  BY <1>2, RefuseInv, StartInv DEF Call
<1>3. CASE DriverStep
  BY <1>3, NoDriveInv, IdentifyInv, IdentifyPollInv, IdentifyTimeoutInv, ReadSizeInv, WaitReadyInv,
     SetPortInv, SendCommandInv, WaitDataInv, ReadWordInv, WriteWordInv, ReturnInv DEF DriverStep
<1>4. CASE DriveStep
  BY <1>4, DataRequestInv, ReportErrorInv, CommitSectorInv DEF DriveStep
<1> QED
  BY <1>1, <1>2, <1>3, <1>4 DEF Next

-----------------------------------------------------------------------------
(* The refinement *)

\* With no sector on its way, what counts is what is on the medium.
LEMMA NothingOnItsWay ==
    ASSUME job.kind # "commit"
    PROVE  Committed = store
BY DEF Committed

LEMMA CommittedType ==
    ASSUME Inv
    PROVE  Committed \in [Lbas -> Contents]
BY DEF Inv, Types, CommitIsAwaited, Committed, Jobs, None

\* Most steps are invisible: they return nothing, and either leave the sector
\* on its way and the medium alone or find and leave none on its way.
LEMMA Invisible ==
    ASSUME Inv,
           \/ UNCHANGED <<answer, store, job, sector>>
           \/ UNCHANGED <<answer, store>> /\ job.kind # "commit" /\ job'.kind # "commit"
    PROVE  UNCHANGED <<Committed, answer>>
BY DEF Committed

\* The last word of a write makes the sector count.
LEMMA WriteWordRefines ==
    ASSUME Inv, WriteWord
    PROVE  (\E lba \in Lbas, data \in Contents : Sectors!Commit(lba, data))
             \/ UNCHANGED <<Committed, answer>>
<1>1. op \in Requests /\ op.kind = "write" /\ op.data \in Contents /\ op.lba \in Lbas
  BY RequestFields DEF WriteWord, Inv, Types, Stage, CommandRuns, Operating, Executing
<1>2. job = [kind |-> "write", lba |-> op.lba]
  BY <1>1 DEF WriteWord, Inv, CommandRuns, Executing
<1>3. UNCHANGED <<answer, store>> /\ Committed = store
  BY <1>2 DEF WriteWord, Committed
<1>4. CASE Len(sector') = Words
  <2>1. job' = [kind |-> "commit", lba |-> op.lba] /\ pc' = "ready3" /\ op' = op
    BY <1>2, <1>4 DEF WriteWord
  <2>2. Committed' = [store EXCEPT ![op.lba] = sector']
    BY <1>3, <2>1 DEF Committed
  <2>3. sector' = op.data
    <3>1. sector \in Seq(Values) /\ IsPart(sector, op.data)
      BY DEF WriteWord, Inv, Types, CommandRuns
    <3>2. sector' = Append(sector, op.data[Len(sector) + 1])
      BY DEF WriteWord
    <3>3. PICK s, w, t : s = sector /\ w = op.data /\ t = sector'
      OBVIOUS
    <3>4. s \in Seq(Values) /\ w \in Contents /\ IsPart(s, w) /\ t = Append(s, w[Len(s) + 1])
      BY <1>1, <3>1, <3>2, <3>3
    <3> QED
      BY <1>4, <3>3, <3>4, NextWord
  <2>4. Sectors!Commit(op.lba, op.data)
    BY <1>3, <2>2, <2>3 DEF Sectors!Commit
  <2> QED
    BY <1>1, <2>4
<1>5. CASE Len(sector') # Words
  <2>1. job' = job
    BY <1>5 DEF WriteWord
  <2> QED
    BY <1>2, <1>3, <2>1 DEF Committed
<1> QED
  BY <1>4, <1>5

LEMMA ReturnRefines ==
    ASSUME Inv, Return
    PROVE  \E lba \in Lbas : Sectors!Read(lba) \/ Sectors!Written(lba)
<1>1. op \in Requests /\ op.kind \in {"read", "write"} /\ op.lba \in Lbas
  BY RequestFields DEF Return, Inv, Types, Stage, Operating, Ending
<1>2. Committed' = Committed
  BY DEF Return, drive, Committed
<1>3. CASE op.kind = "read"
  <2>1. buffer = store[op.lba] /\ Committed = store
    BY <1>3 DEF Return, Inv, ResultIsRight, Stage, Committed, None
  <2> QED
    BY <1>1, <1>2, <1>3, <2>1 DEF Return, Sectors!Read
<1>4. CASE op.kind = "write"
  <2>1. Committed[op.lba] = op.data
    BY <1>4 DEF Return, Inv, ResultIsRight, Ending
  <2> QED
    BY <1>1, <1>2, <1>4, <2>1 DEF Return, Sectors!Written
<1> QED
  BY <1>1, <1>3, <1>4

LEMMA InitRefines == Init => Sectors!Init
<1> SUFFICES ASSUME Init PROVE Sectors!Init
  OBVIOUS
<1>1. Inv
  BY InitInv
<1> QED
  BY <1>1, CommittedType DEF Init, Sectors!Init

LEMMA StepRefines == Inv /\ [Next]_vars => [Sectors!Next]_<<Committed, answer>>
<1> SUFFICES ASSUME Inv, [Next]_vars PROVE Sectors!Next \/ UNCHANGED <<Committed, answer>>
  OBVIOUS
<1>1. CASE UNCHANGED vars
  BY <1>1, Invisible DEF vars, driver, drive
<1>2. CASE Call
  <2>1. PICK r \in Requests : Start(r) \/ Refuse(r)
    BY <1>2 DEF Call
  <2>2. CASE Start(r)
    BY <2>2, Invisible DEF Start, drive
  <2>3. CASE Refuse(r)
    BY <2>3 DEF Refuse, drive, Committed, Sectors!Refused, Sectors!Next
  <2> QED
    BY <2>1, <2>2, <2>3
<1>3. CASE NoDrive \/ IdentifyPoll \/ IdentifyTimeout \/ WaitReady \/ SetPort \/ WaitData
  BY <1>3, Invisible DEF NoDrive, IdentifyPoll, IdentifyTimeout, WaitReady, SetPort, WaitData, drive
<1>4. CASE Identify
  <2>1. job.kind # "commit"
    BY <1>4 DEF Identify, Inv, CommitIsAwaited, Ending
  <2>2. UNCHANGED <<answer, store>> /\ job'.kind # "commit"
    BY <1>4, <2>1 DEF Identify, Command
  <2> QED
    BY <2>1, <2>2, Invisible
<1>5. CASE ReadSize
  <2>1. job.kind # "commit"
    BY <1>5 DEF ReadSize, Inv, CommitIsAwaited, Ending
  <2> QED
    BY <1>5, <2>1, Invisible DEF ReadSize, None
<1>6. CASE SendCommand
  <2>1. job.kind # "commit" /\ op.kind # "commit"
    <3>1. op \in Requests
      BY <1>6, PortsHoldTheLba DEF SendCommand
    <3> QED
      BY <1>6, <3>1, RequestFields DEF SendCommand, Inv, CommitIsAwaited, Ending
  <2>2. UNCHANGED <<answer, store>> /\ job'.kind # "commit"
    BY <1>6, <2>1 DEF SendCommand, Command
  <2> QED
    BY <2>1, <2>2, Invisible
<1>7. CASE ReadWord
  <2>1. job.kind # "commit"
    BY <1>7 DEF ReadWord, Inv, CommitIsAwaited, Ending
  <2>2. job' = None \/ job' = job
    BY <1>7 DEF ReadWord
  <2>3. UNCHANGED <<answer, store>> /\ job'.kind # "commit"
    BY <1>7, <2>1, <2>2 DEF ReadWord, None
  <2> QED
    BY <2>1, <2>3, Invisible
<1>8. CASE WriteWord
  BY <1>8, WriteWordRefines DEF Sectors!Next
<1>9. CASE Return
  BY <1>9, ReturnRefines DEF Sectors!Next
<1>10. CASE DataRequest
  <2>1. job.kind # "commit"
    BY <1>10 DEF DataRequest
  <2> QED
    BY <1>10, <2>1, Invisible DEF DataRequest, driver
<1>11. CASE ReportError
  BY <1>11, Invisible DEF ReportError, driver
<1>12. CASE CommitSector
  <2>1. Committed' = store' /\ store' = Committed
    BY <1>12 DEF CommitSector, Committed, None
  <2> QED
    BY <1>12, <2>1 DEF CommitSector, driver
<1> QED
  BY <1>1, <1>2, <1>3, <1>4, <1>5, <1>6, <1>7, <1>8, <1>9, <1>10, <1>11, <1>12
     DEF Next, DriverStep, DriveStep

LEMMA InvTypeOK == Inv => TypeOK
<1> SUFFICES ASSUME Inv PROVE TypeOK
  OBVIOUS
<1>1. \A p \in DOMAIN port : port[p] \in 0..((IF p = "drive" THEN Nibble ELSE Byte) - 1)
  BY Sizes DEF Inv, Types
<1>2. job # None => job.lba \in Lbas
  BY DEF Inv, Types, Jobs
<1> QED
  BY <1>1, <1>2 DEF Inv, Types, TypeOK, After, NextPort, Operating, Addressing, Executing, Ending, Booting

-----------------------------------------------------------------------------
(* After a wait before a command gave up *)

\* The types, as far as they still hold.
LooseTypes ==
    /\ pc \in Booting \cup Operating \cup {"idle"}
    /\ op \in Requests \cup {None}
    /\ pc \in Operating => op # None
    /\ total = 0 => pc \in Booting \cup {"idle"}
    /\ total # 0 => pc \notin Booting
    /\ store \in [Lbas -> Contents]
    /\ sector \in Seq(Values)

\* A busy drive executes the command of the driver, or still the last commit,
\* and when it requests data the command was this one, for some sector it has.
LooseJob ==
    /\ job.kind = "commit" =>
            status = "BSY" /\ pc \notin Booting /\ job.lba \in Lbas /\ sector \in Contents
    /\ status \in {"BSY", "DRQ"} => job = [kind |-> job.kind, lba |-> job.lba]
    /\ status = "DRQ" => job.lba \in Lbas
    /\ total # 0 /\ pc \notin Executing /\ status = "BSY" => job.kind = "commit"
    /\ pc \in {"ready2", "drq"} =>
            /\ status = "BSY" => job.kind \in {"commit", op.kind}
            /\ status = "DRQ" => job.kind = op.kind /\ (op.kind = "write" => sector = <<>>)
    /\ pc = "read" => job.kind = "read" /\ status = "DRQ"
    /\ pc = "write" => /\ op.kind = "write" /\ job.kind = "write" /\ status = "DRQ"
                       /\ IsPart(sector, op.data)

Loose == LooseTypes /\ LooseJob

LEMMA InitLoose == Init => Loose
<1> SUFFICES ASSUME Init PROVE Loose
  OBVIOUS
<1>1. LooseTypes
  <2>1. store \in [Lbas -> Contents] /\ sector \in Seq(Values)
    BY DEF Init, Contents
  <2> QED
    BY <2>1 DEF Init, LooseTypes, Booting, Operating, Addressing, Executing, Ending
<1>2. LooseJob
  BY DEF Init, LooseJob, None, Executing
<1> QED
  BY <1>1, <1>2 DEF Loose

LEMMA LooseRequest ==
    ASSUME Loose, pc \in Operating
    PROVE  op \in Requests /\ op.kind \in {"read", "write"} /\ (op.kind = "write" => op.data \in Contents)
BY RequestFields DEF Loose, LooseTypes

\* The last word of a write completes the caller's words.
LEMMA LooseWord ==
    ASSUME Loose, WriteWord
    PROVE  /\ op.data \in Contents /\ sector' \in Seq(Values)
           /\ Len(sector') = Words => sector' = op.data
           /\ Len(sector') # Words => IsPart(sector', op.data)
<1>1. op.data \in Contents
  BY LooseRequest DEF WriteWord, Loose, LooseJob, Operating, Executing
<1>2. sector \in Seq(Values) /\ IsPart(sector, op.data)
  BY DEF WriteWord, Loose, LooseTypes, LooseJob
<1>3. sector' = Append(sector, op.data[Len(sector) + 1])
  BY DEF WriteWord
<1>4. PICK s, w, t : s = sector /\ w = op.data /\ t = sector'
  OBVIOUS
<1>5. s \in Seq(Values) /\ w \in Contents /\ IsPart(s, w) /\ t = Append(s, w[Len(s) + 1])
  BY <1>1, <1>2, <1>3, <1>4
<1> QED
  BY <1>1, <1>4, <1>5, NextWord

LEMMA LooseDriver ==
    ASSUME Loose, DriverStep
    PROVE  Loose'
<1> USE DEF Operating, Addressing, Executing, Ending, Booting
<1>1. CASE NoDrive \/ IdentifyTimeout
  BY <1>1 DEF NoDrive, IdentifyTimeout, drive, Loose, LooseTypes, LooseJob
<1>2. CASE Identify
  <2>1. job.kind # "commit"
    BY <1>2 DEF Identify, Loose, LooseJob
  <2>2. status' = "BSY" /\ job'.kind # "commit" /\ total = 0
    BY <1>2, <2>1 DEF Identify, Command, Loose, LooseTypes
  <2>3. job' = [kind |-> job'.kind, lba |-> job'.lba]
    BY <1>2 DEF Identify, Command, Loose, LooseJob
  <2> QED
    BY <1>2, <2>2, <2>3 DEF Identify, Loose, LooseTypes, LooseJob
<1>3. CASE IdentifyPoll
  BY <1>3 DEF IdentifyPoll, Loose, LooseTypes, LooseJob
<1>4. CASE ReadSize
  BY <1>4, Sizes DEF ReadSize, None, Loose, LooseTypes, LooseJob
<1>5. CASE WaitReady
  <2>1. /\ pc' = pc \/ (pc = "ready" /\ pc' = "drive") \/ (pc = "ready2" /\ pc' = "drq")
             \/ (pc = "ready3" /\ pc' = "return")
        /\ UNCHANGED <<op, total, store, status, job, sector>>
    BY <1>5 DEF WaitReady, After
  <2> QED
    BY <2>1 DEF Loose, LooseTypes, LooseJob
<1>6. CASE SetPort
  <2>1. /\ (pc = "drive" /\ pc' = "low") \/ (pc = "low" /\ pc' = "mid")
             \/ (pc = "mid" /\ pc' = "high") \/ (pc = "high" /\ pc' = "command")
        /\ UNCHANGED <<op, total, store, status, job, sector>>
    BY <1>6 DEF SetPort, NextPort
  <2> QED
    BY <2>1 DEF Loose, LooseTypes, LooseJob
<1>7. CASE SendCommand
  <2>1. op \in Requests /\ op.kind \in {"read", "write"} /\ total # 0
    BY <1>7, LooseRequest DEF SendCommand, Loose, LooseTypes
  <2>2. pc = "command" /\ pc' = "ready2" /\ UNCHANGED <<op, total, store, sector>>
    BY <1>7 DEF SendCommand
  <2>3. status' = "BSY" /\ (job' = job \/ job' = [kind |-> op.kind, lba |-> Addressed])
    BY <1>7 DEF SendCommand, Command
  <2>4. status = "BSY" => job.kind = "commit"
    BY <2>1, <2>2 DEF Loose, LooseJob
  <2>5. (job' = job /\ status = "BSY") \/ job' = [kind |-> op.kind, lba |-> Addressed]
    BY <1>7 DEF SendCommand, Command
  <2>6. LooseTypes'
    BY <2>1, <2>2 DEF Loose, LooseTypes
  <2>7. LooseJob'
    <3>1. CASE job' = job /\ status = "BSY"
      BY <2>2, <2>3, <2>4, <3>1 DEF Loose, LooseJob
    <3>2. CASE job' = [kind |-> op.kind, lba |-> Addressed]
      BY <2>1, <2>2, <2>3, <3>2 DEF LooseJob
    <3> QED
      BY <2>5, <3>1, <3>2
  <2> QED
    BY <2>6, <2>7 DEF Loose
<1>8. CASE WaitData
  <2>1. op.kind \in {"read", "write"} /\ (op.kind = "write" => op.data \in Contents)
    BY <1>8, LooseRequest DEF WaitData
  <2>2. IsPart(<<>>, op.data)
    BY Sizes DEF IsPart
  <2>3. pc' = IF status = "DRQ" THEN op.kind ELSE pc
    BY <1>8 DEF WaitData
  <2> QED
    BY <1>8, <2>1, <2>2, <2>3 DEF WaitData, Loose, LooseTypes, LooseJob
<1>9. CASE ReadWord
  <2>1. CASE Len(buffer') = Words
    <3>1. pc' = "return" /\ status' = "READY" /\ job' = None /\ sector' = <<>>
      BY <1>9, <2>1 DEF ReadWord
    <3>2. sector' \in Seq(Values)
      BY <3>1
    <3> QED
      BY <1>9, <3>1, <3>2 DEF ReadWord, None, Loose, LooseTypes, LooseJob
  <2>2. CASE Len(buffer') # Words
    BY <1>9, <2>2 DEF ReadWord, Loose, LooseTypes, LooseJob
  <2> QED
    BY <2>1, <2>2
<1>10. CASE WriteWord
  <2>1. CASE Len(sector') = Words
    <3>1. pc' = "ready3" /\ status' = "BSY" /\ job' = [kind |-> "commit", lba |-> job.lba]
      <4>1. job = [kind |-> job.kind, lba |-> job.lba]
        BY <1>10 DEF WriteWord, Loose, LooseJob
      <4> QED
        BY <1>10, <2>1, <4>1 DEF WriteWord
    <3> QED
      BY <1>10, <2>1, <3>1, LooseWord DEF WriteWord, Loose, LooseTypes, LooseJob
  <2>2. CASE Len(sector') # Words
    BY <1>10, <2>2, LooseWord DEF WriteWord, Loose, LooseTypes, LooseJob
  <2> QED
    BY <2>1, <2>2
<1>11. CASE Return
  BY <1>11 DEF Return, drive, Loose, LooseTypes, LooseJob
<1> QED
  BY <1>1, <1>2, <1>3, <1>4, <1>5, <1>6, <1>7, <1>8, <1>9, <1>10, <1>11 DEF DriverStep

LEMMA LooseDrive ==
    ASSUME Loose, DriveStep
    PROVE  Loose'
<1> USE DEF Operating, Addressing, Executing, Ending, Booting
<1>1. CASE DataRequest
  <2>1. sector' \in Seq(Values) /\ (job.kind # "read" => sector' = <<>>)
    BY <1>1, SectorWords DEF DataRequest, Loose, LooseTypes
  <2> QED
    BY <1>1, <2>1 DEF DataRequest, driver, Loose, LooseTypes, LooseJob
<1>2. CASE ReportError
  BY <1>2 DEF ReportError, driver, Loose, LooseTypes, LooseJob
<1>3. CASE CommitSector
  <2>1. store' \in [Lbas -> Contents] /\ sector' \in Seq(Values)
    BY <1>3 DEF CommitSector, Loose, LooseTypes, LooseJob
  <2> QED
    BY <1>3, <2>1 DEF CommitSector, driver, None, Loose, LooseTypes, LooseJob
<1> QED
  BY <1>1, <1>2, <1>3 DEF DriveStep

LEMMA LooseCall ==
    ASSUME Loose, Call
    PROVE  Loose'
<1>1. PICK r \in Requests : Start(r) \/ Refuse(r)
  BY DEF Call
<1>2. CASE Start(r)
  <2>1. r # None /\ total # 0
    BY <1>2, RequestFields DEF Start, InRange
  <2> QED
    BY <1>2, <2>1 DEF Start, drive, Loose, LooseTypes, LooseJob, Operating, Addressing, Executing, Booting
<1>3. CASE Refuse(r)
  BY <1>3 DEF Refuse, drive, Loose, LooseTypes, LooseJob
<1> QED
  BY <1>1, <1>2, <1>3

LEMMA NextLoose == Loose /\ [Next]_vars => Loose'
<1> SUFFICES ASSUME Loose, [Next]_vars PROVE Loose'
  OBVIOUS
<1>1. CASE UNCHANGED vars
  BY <1>1 DEF Loose, LooseTypes, LooseJob, vars, driver, drive
<1> QED
  BY <1>1, LooseCall, LooseDriver, LooseDrive DEF Next

\* No step tears a sector.
LEMMA StepIsWhole == Loose /\ [Next]_vars => WholeSectors
<1> SUFFICES ASSUME Loose, [Next]_vars PROVE WholeSectors
  OBVIOUS
<1>a. ASSUME UNCHANGED <<store, job, sector>> PROVE WholeSectors
  BY <1>a DEF Committed, WholeSectors
<1>b. ASSUME store' = store, job.kind # "commit", job'.kind # "commit" PROVE WholeSectors
  BY <1>b DEF Committed, WholeSectors
<1>1. CASE UNCHANGED vars
  BY <1>1, <1>a DEF vars, drive
<1>2. CASE Call
  BY <1>2, <1>a DEF Call, Start, Refuse, drive
<1>3. CASE NoDrive \/ IdentifyPoll \/ IdentifyTimeout \/ WaitReady \/ SetPort \/ WaitData
  BY <1>3, <1>a DEF NoDrive, IdentifyPoll, IdentifyTimeout, WaitReady, SetPort, WaitData, drive
<1>4. CASE Identify
  <2>1. job.kind # "commit"
    BY <1>4 DEF Identify, Loose, LooseJob, Booting
  <2> QED
    BY <1>4, <1>b, <2>1 DEF Identify, Command
<1>5. CASE ReadSize
  <2>1. job.kind # "commit"
    BY <1>5 DEF ReadSize, Loose, LooseJob, Booting
  <2> QED
    BY <1>5, <1>b, <2>1 DEF ReadSize, None
<1>6. CASE SendCommand
  <2>1. op.kind # "commit"
    BY <1>6, LooseRequest DEF SendCommand, Operating, Addressing
  <2>2. CASE status = "BSY"
    BY <1>6, <1>a, <2>2 DEF SendCommand, Command
  <2>3. CASE status # "BSY"
    BY <1>6, <1>b, <2>1, <2>3 DEF SendCommand, Command, Loose, LooseJob
  <2> QED
    BY <2>2, <2>3
<1>7. CASE ReadWord
  <2>1. job.kind # "commit" /\ job' \in {None, job}
    BY <1>7 DEF ReadWord, Loose, LooseJob
  <2> QED
    BY <1>7, <1>b, <2>1 DEF ReadWord, None
<1>8. CASE WriteWord
  <2>1. job.kind = "write" /\ job.lba \in Lbas /\ store' = store
    BY <1>8 DEF WriteWord, Loose, LooseJob
  <2>2. CASE Len(sector') = Words
    <3>1. job' = [kind |-> "commit", lba |-> job.lba] /\ sector' = op.data
      <4>1. job = [kind |-> job.kind, lba |-> job.lba]
        BY <1>8 DEF WriteWord, Loose, LooseJob
      <4> QED
        BY <1>8, <2>2, <4>1, LooseWord DEF WriteWord
    <3> QED
      BY <2>1, <3>1 DEF Committed, WholeSectors
  <2>3. CASE Len(sector') # Words
    BY <1>8, <1>b, <2>1, <2>3 DEF WriteWord
  <2> QED
    BY <2>2, <2>3
<1>9. CASE Return
  BY <1>9, <1>a DEF Return, drive
<1>10. CASE DataRequest
  BY <1>10, <1>b DEF DataRequest
<1>11. CASE ReportError
  BY <1>11, <1>a DEF ReportError
<1>12. CASE CommitSector
  BY <1>12 DEF CommitSector, Committed, None, WholeSectors
<1> QED
  BY <1>1, <1>2, <1>3, <1>4, <1>5, <1>6, <1>7, <1>8, <1>9, <1>10, <1>11, <1>12
     DEF Next, DriverStep, DriveStep

LEMMA GaveUpStays == gaveUp /\ [Next]_vars => gaveUp'
BY DEF Next, Call, Start, Refuse, DriverStep, NoDrive, Identify, IdentifyPoll, IdentifyTimeout,
       ReadSize, WaitReady, SetPort, SendCommand, WaitData, ReadWord, WriteWord, Return,
       DriveStep, DataRequest, ReportError, CommitSector, vars

\* The driver with the drive behaves as an array of sectors (disk_read_sector
\* and disk_write_sector in disk.c), for sectors, addresses and waits of any
\* size and a drive that is busy as long as it likes.  The wait at the end of a
\* write may give up: the sector then reaches the medium after the write has
\* returned.  Once the wait before a command gives up as well the drive may
\* take the command for another sector, but still writes whole sectors.
THEOREM AtaIsASectorDisk == Spec => IsASectorDisk
<1> DEFINE Invs == Loose /\ (gaveUp \/ Inv)
<1>1. Init => Invs
  BY InitInv, InitLoose
<1>2. Invs /\ [Next]_vars => Invs'
  BY NextInv, NextLoose, GaveUpStays
<1>3. Invs => gaveUp \/ TypeOK
  BY InvTypeOK
<1>4. Init => Sectors!Init
  BY InitRefines
<1>5. Invs /\ [Next]_vars =>
          [IF gaveUp' THEN WholeSectors ELSE Sectors!Next]_<<Committed, answer>>
  BY StepRefines, StepIsWhole, GaveUpStays
<1> HIDE DEF Invs
<1> QED
  BY <1>1, <1>2, <1>3, <1>4, <1>5, PTL DEF Spec, IsASectorDisk

-----------------------------------------------------------------------------
(* A boot *)

\* The boot found a MesaFS superblock it can read.
FoundMesaFS == size > LbaStart /\ IsSuperblock(atPowerOn[LbaStart])

\* What is known at each point of the boot.
BootProgress ==
    /\ sectors = IF boot = "disk" THEN 0 ELSE size
    /\ boot \in {"disk", "mbr"} => part = NoPart /\ disk = atPowerOn
    /\ boot \in {"disk", "mbr", "mount"} => nextWrite = 0
    /\ boot \in {"format", "remount"} => HasMesaFS /\ BigEnough /\ ~FoundMesaFS
    /\ boot = "remount" => nextWrite = FormatWrites
    /\ boot # "up" => fs = 0

\* Every superblock on the disk was written by a format that was not refused.
SuperblocksAreLarge ==
    \A s \in SectorNumbers :
        /\ IsSuperblock(disk[s]) => disk[s][2] >= MetaBlocks
        /\ IsSuperblock(atPowerOn[s]) => atPowerOn[s][2] >= MetaBlocks

\* A partition table that was found is still there, and any other sector that
\* has changed is one that the format has come to.
ChangesAreFormatted ==
    /\ IsMbr(atPowerOn[0]) => disk[0] = atPowerOn[0]
    /\ \A s \in SectorNumbers \ {0} : disk[s] # atPowerOn[s] =>
          /\ HasMesaFS /\ BigEnough /\ ~FoundMesaFS
          /\ \E k \in 0..(FormatWrites - 1) : k < nextWrite /\ s = FormatLba(k)

\* The sectors the format has passed hold what it writes, and a file system is
\* mounted that was found or that the format has finished.
FormatProgress ==
    /\ \A k \in 0..(FormatWrites - 1) : k < nextWrite => disk[FormatLba(k)] # Junk
    /\ fs > 0 => IsSuperblock(atPowerOn[LbaStart]) \/ nextWrite = FormatWrites

BootInv == /\ StorageTypeOK
       /\ BootProgress
       /\ SuperblocksAreLarge
       /\ ChangesAreFormatted
       /\ FormatProgress

-----------------------------------------------------------------------------
(* The sectors of a format *)

\* A partition of at least MetaBlocks blocks has room for the superblock, the
\* inode block and the directory block.
LEMMA MetadataFits ==
    ASSUME NEW n \in Nat, n \div BlockSectors >= MetaBlocks
    PROVE  1 + BlockSectors < n
<1>1. BlockSectors \in Nat /\ BlockSectors > 0 /\ MetaBlocks >= 3 /\ MetaBlocks \in Nat
  BY StorageAssumption
<1> DEFINE q == n \div BlockSectors
<1>2. q \in Nat /\ n >= q * BlockSectors /\ q >= 3
  BY <1>1
<1>3. q * BlockSectors >= 3 * BlockSectors
  BY <1>1, <1>2
<1>4. q * BlockSectors \in Int
  BY <1>1, <1>2
<1> HIDE DEF q
<1> QED
  BY <1>1, <1>2, <1>3, <1>4

\* mesafs_format writes from the start of the partition up to the end of the
\* directory block, all of it sectors that the model looks at.
LEMMA FormatLbaRange ==
    ASSUME NEW k \in 0..(FormatWrites - 1)
    PROVE  /\ FormatLba(k) \in SectorNumbers \ {0}
           /\ FormatLba(k) \in LbaStart..(LbaStart + 1 + BlockSectors)
           /\ FormatLba(k) = LbaStart <=> k = 0
<1> USE StorageAssumption
<1>1. CASE k = 0
  BY <1>1 DEF FormatLba, SectorNumbers
<1>2. CASE k \in 1..BlockSectors
  BY <1>2 DEF FormatLba, SectorNumbers
<1>3. CASE k > BlockSectors
  BY <1>3 DEF FormatLba, SectorNumbers, FormatWrites
<1> QED
  BY <1>1, <1>2, <1>3 DEF FormatWrites

\* What the format writes is a superblock of this partition, inodes or zeros.
LEMMA FormatDataType ==
    ASSUME StorageTypeOK, HasMesaFS, BigEnough, NEW k \in 0..(FormatWrites - 1)
    PROVE  /\ FormatData(k) \in SectorContents
           /\ FormatData(k) # Junk
           /\ ~IsMbr(FormatData(k))
           /\ IsSuperblock(FormatData(k)) => FormatData(k)[2] >= MetaBlocks
<1>1. part[2] \in PartSizes \cup {DefaultSectors}
  BY DEF StorageTypeOK, HasMesaFS, NoPart
<1>2. Superblock(Blocks) \in SectorContents
  BY <1>1 DEF SectorContents, Blocks
<1>3. RootInSlot0 \in SectorContents /\ Zero \in SectorContents
  BY DEF SectorContents
<1>4. FormatData(k) \in {Superblock(Blocks), RootInSlot0, Zero}
  BY DEF FormatData
<1> QED
  BY <1>2, <1>3, <1>4 DEF BigEnough, Superblock, RootInSlot0, Zero, Junk, IsMbr, IsSuperblock

\* A valid partition table lists a partition of one of the sizes tried.
LEMMA TableEntry ==
    ASSUME NEW c \in SectorContents, IsMbr(c)
    PROVE  <<c[2], c[3]>> \in {<<t, n>> : t \in {"MESAFS", "FAT16"},
                                          n \in PartSizes \cup {DefaultSectors}}
BY DEF SectorContents, IsMbr, Mbr, Junk, Zero, RootInSlot0, Superblock

\* The default table is one.
LEMMA DefaultTable ==
    /\ Mbr("MESAFS", DefaultSectors) \in SectorContents
    /\ ~IsSuperblock(Mbr("MESAFS", DefaultSectors))
    /\ IsMbr(Mbr("MESAFS", DefaultSectors))
<1>1. Mbr("MESAFS", DefaultSectors) \in SectorContents
  BY DEF SectorContents
<1> QED
  BY <1>1 DEF Mbr, IsSuperblock, IsMbr

\* The sectors that the boot looks at are among the ones the model has.
LEMMA BootSectors ==
    /\ 0 \in SectorNumbers /\ LbaStart \in SectorNumbers /\ LbaStart # 0
    /\ FormatWrites \in Nat /\ FormatWrites > 0
BY StorageAssumption DEF SectorNumbers, FormatWrites

-----------------------------------------------------------------------------
(* The inductive invariant *)

LEMMA BootInitInv == BootInit => BootInv
<1> SUFFICES ASSUME BootInit PROVE BootInv
  OBVIOUS
<1> USE StorageAssumption
<1>1. PICK first \in Layouts : disk = [s \in SectorNumbers |-> IF s = 0 THEN first ELSE Junk]
  BY DEF BootInit
<1>2. first \in SectorContents /\ ~IsSuperblock(first)
  BY DEF Layouts, SectorContents, IsSuperblock, Junk, Mbr
<1>3. Junk \in SectorContents /\ ~IsSuperblock(Junk)
  BY DEF SectorContents, IsSuperblock, Junk
<1>4. StorageTypeOK
  BY <1>1, <1>2, <1>3, BootSectors DEF BootInit, StorageTypeOK
<1>5. BootProgress
  BY DEF BootInit, BootProgress
<1>6. SuperblocksAreLarge
  BY <1>1, <1>2, <1>3 DEF BootInit, SuperblocksAreLarge
<1>7. ChangesAreFormatted
  BY DEF BootInit, ChangesAreFormatted
<1>8. FormatProgress
  BY BootSectors DEF BootInit, FormatProgress
<1> QED
  BY <1>4, <1>5, <1>6, <1>7, <1>8 DEF BootInv

\* A step that writes no sector and lists no partition: what remains to be shown
\* is how far the boot has come.
LEMMA QuietStep ==
    ASSUME BootInv, UNCHANGED <<size, disk, atPowerOn, part, nextWrite>>
    PROVE  SuperblocksAreLarge' /\ ChangesAreFormatted'
BY DEF BootInv, SuperblocksAreLarge, ChangesAreFormatted, HasMesaFS, BigEnough, Blocks,
       FoundMesaFS, FormatLba

LEMMA DiskInitInv ==
    ASSUME BootInv, DiskInit
    PROVE  BootInv'
<1>1. StorageTypeOK'
  BY DEF BootInv, StorageTypeOK, DiskInit
<1>2. BootProgress'
  BY DEF BootInv, BootProgress, DiskInit, NoPart
<1>3. FormatProgress'
  BY DEF BootInv, FormatProgress, DiskInit, FormatLba
<1> QED
  BY <1>1, <1>2, <1>3, QuietStep DEF BootInv, DiskInit

LEMMA ReadTableInv ==
    ASSUME BootInv, ReadTable
    PROVE  BootInv'
<1>1. part' \in {<<t, n>> : t \in {"MESAFS", "FAT16"}, n \in PartSizes \cup {DefaultSectors}}
  BY TableEntry, BootSectors DEF BootInv, StorageTypeOK, ReadTable, MbrIsValid
<1>2. StorageTypeOK'
  BY <1>1 DEF BootInv, StorageTypeOK, ReadTable
<1>3. BootProgress'
  BY DEF BootInv, BootProgress, ReadTable
<1>4. SuperblocksAreLarge' /\ FormatProgress'
  BY DEF BootInv, SuperblocksAreLarge, FormatProgress, ReadTable, FormatLba
<1>5. ChangesAreFormatted'
  BY DEF BootInv, BootProgress, ChangesAreFormatted, ReadTable
<1> QED
  BY <1>2, <1>3, <1>4, <1>5 DEF BootInv

LEMMA WriteDefaultTableInv ==
    ASSUME BootInv, WriteDefaultTable
    PROVE  BootInv'
<1>1. disk' \in [SectorNumbers -> SectorContents] /\ \A s \in SectorNumbers \ {0} : disk'[s] = disk[s]
  BY BootSectors, DefaultTable DEF BootInv, StorageTypeOK, WriteDefaultTable
<1>2. disk'[0] = Mbr("MESAFS", DefaultSectors)
  BY BootSectors DEF BootInv, StorageTypeOK, WriteDefaultTable
<1>3. StorageTypeOK'
  BY <1>1 DEF BootInv, StorageTypeOK, WriteDefaultTable
<1>4. BootProgress'
  BY DEF BootInv, BootProgress, WriteDefaultTable
<1>5. SuperblocksAreLarge'
  BY <1>1, <1>2, DefaultTable DEF BootInv, SuperblocksAreLarge, WriteDefaultTable
<1>6. ChangesAreFormatted'
  BY <1>1 DEF BootInv, BootProgress, ChangesAreFormatted, WriteDefaultTable, MbrIsValid
<1>7. nextWrite = 0 /\ fs = 0
  BY DEF BootInv, BootProgress, WriteDefaultTable
<1>8. FormatProgress'
  BY <1>7, BootSectors DEF FormatProgress, WriteDefaultTable
<1> QED
  BY <1>3, <1>4, <1>5, <1>6, <1>8 DEF BootInv

\* The steps that only move the boot on: no table can be written, there is no
\* partition, the format fails or is done.
LEMMA MovingOnInv ==
    ASSUME BootInv, NoTable \/ NoPartition \/ FormatFails \/ FormatDone
    PROVE  BootInv'
<1> USE DEF NoTable, NoPartition, FormatFails, FormatDone
<1>1. StorageTypeOK'
  BY DEF BootInv, StorageTypeOK
<1>2. BootProgress'
  BY DEF BootInv, BootProgress, HasMesaFS, BigEnough, Blocks, FoundMesaFS
<1>3. FormatProgress'
  BY DEF BootInv, FormatProgress, FormatLba
<1> QED
  BY <1>1, <1>2, <1>3, QuietStep DEF BootInv

\* What a first mount finds at the start of the partition was there at power on.
LEMMA MountInv ==
    ASSUME BootInv, Mount
    PROVE  BootInv'
<1>1. disk[LbaStart][2] >= MetaBlocks
  BY BootSectors DEF BootInv, SuperblocksAreLarge, Mount, SuperblockIsValid
<1>2. StorageTypeOK'
  BY <1>1 DEF BootInv, StorageTypeOK, Mount
<1>3. BootProgress'
  BY DEF BootInv, BootProgress, Mount, MountPoints
<1>4. nextWrite = FormatWrites \/ IsSuperblock(atPowerOn[LbaStart])
  <2>1. CASE boot = "remount"
    BY <2>1 DEF BootInv, BootProgress
  <2>2. CASE boot = "mount"
    <3>1. nextWrite = 0
      BY <2>2 DEF BootInv, BootProgress
    <3>2. disk[LbaStart] = atPowerOn[LbaStart]
      BY <3>1, BootSectors DEF BootInv, ChangesAreFormatted
    <3> QED
      BY <3>2 DEF Mount, SuperblockIsValid
  <2> QED
    BY <2>1, <2>2 DEF Mount, MountPoints
<1>5. FormatProgress'
  BY <1>4 DEF BootInv, FormatProgress, Mount, FormatLba
<1> QED
  BY <1>2, <1>3, <1>5, QuietStep DEF BootInv, Mount

LEMMA MountFailsInv ==
    ASSUME BootInv, MountFails
    PROVE  BootInv'
<1>1. nextWrite = 0 /\ nextWrite' = nextWrite /\ fs = 0 /\ sectors = size
  BY DEF BootInv, BootProgress, MountFails
<1>2. disk[LbaStart] = atPowerOn[LbaStart]
  BY <1>1, BootSectors DEF BootInv, ChangesAreFormatted
<1>3. size \in Nat
  BY StorageAssumption DEF BootInv, StorageTypeOK
<1>4. ~FoundMesaFS
  BY <1>1, <1>2, <1>3, StorageAssumption DEF FoundMesaFS, MountFails, SuperblockIsValid, Readable
<1>5. StorageTypeOK'
  BY <1>1 DEF BootInv, StorageTypeOK, MountFails
<1>6. BootProgress'
  BY <1>1, <1>4 DEF BootInv, BootProgress, MountFails, HasMesaFS, BigEnough, Blocks, FoundMesaFS
<1>7. FormatProgress'
  BY <1>1, BootSectors DEF BootInv, FormatProgress, MountFails
<1> QED
  BY <1>1, <1>5, <1>6, <1>7, QuietStep DEF BootInv, MountFails

LEMMA FormatWriteInv ==
    ASSUME BootInv, FormatWrite
    PROVE  BootInv'
<1>1. HasMesaFS /\ BigEnough /\ ~FoundMesaFS /\ fs = 0 /\ sectors = size
  BY DEF BootInv, BootProgress, FormatWrite
<1>2. PICK k \in 0..(FormatWrites - 1) : k = nextWrite
  BY BootSectors DEF BootInv, StorageTypeOK, FormatWrite
<1>3. PICK a \in SectorNumbers \ {0} : a = FormatLba(k)
  BY FormatLbaRange
<1>4. PICK d \in SectorContents : d = FormatData(k)
  BY <1>1, FormatDataType DEF BootInv
<1>5. d # Junk /\ ~IsMbr(d) /\ (IsSuperblock(d) => d[2] >= MetaBlocks)
  BY <1>1, <1>4, FormatDataType DEF BootInv
<1>6. disk' = [disk EXCEPT ![a] = d] /\ nextWrite' = k + 1
  BY <1>2, <1>3, <1>4 DEF FormatWrite
<1>7. /\ disk' \in [SectorNumbers -> SectorContents] /\ disk'[a] = d
      /\ \A s \in SectorNumbers \ {a} : disk'[s] = disk[s]
  BY <1>6 DEF BootInv, StorageTypeOK
<1>8. StorageTypeOK'
  BY <1>2, <1>6, <1>7, BootSectors DEF BootInv, StorageTypeOK, FormatWrite
<1>9. BootProgress'
  BY <1>1 DEF BootInv, BootProgress, FormatWrite, HasMesaFS, BigEnough, Blocks, FoundMesaFS
<1>10. SuperblocksAreLarge'
  BY <1>5, <1>7 DEF BootInv, SuperblocksAreLarge, FormatWrite
<1>11. disk'[0] = disk[0]
  BY <1>3, <1>7, BootSectors
<1>12. \A s \in SectorNumbers \ {0} : disk'[s] # atPowerOn[s] =>
          \E j \in 0..(FormatWrites - 1) : j < nextWrite' /\ s = FormatLba(j)
  <2> TAKE s \in SectorNumbers \ {0}
  <2>1. CASE s = a
    BY <2>1, <1>2, <1>3, <1>6
  <2>2. CASE s # a
    BY <2>2, <1>2, <1>6, <1>7 DEF BootInv, ChangesAreFormatted
  <2> QED
    BY <2>1, <2>2
<1>13. ChangesAreFormatted'
  BY <1>1, <1>11, <1>12 DEF BootInv, ChangesAreFormatted, FormatWrite, HasMesaFS, BigEnough,
                            Blocks, FoundMesaFS, FormatLba
<1>14. \A j \in 0..(FormatWrites - 1) : j < k + 1 => disk'[FormatLba(j)] # Junk
  <2> TAKE j \in 0..(FormatWrites - 1)
  <2>1. j < k + 1 => j = k \/ j < k
    BY BootSectors
  <2>2. FormatLba(j) = a \/ disk'[FormatLba(j)] = disk[FormatLba(j)]
    BY <1>7, FormatLbaRange
  <2> QED
    BY <2>1, <2>2, <1>2, <1>3, <1>5, <1>7 DEF BootInv, FormatProgress
<1>15. FormatProgress'
  BY <1>1, <1>6, <1>14 DEF FormatProgress, FormatWrite, FormatLba
<1> QED
  BY <1>8, <1>9, <1>10, <1>13, <1>15 DEF BootInv

\* A boot after a power failure takes the disk as it is.
LEMMA RestartInv ==
    ASSUME BootInv, Restart
    PROVE  BootInv'
<1>1. StorageTypeOK'
  BY BootSectors, StorageAssumption DEF BootInv, StorageTypeOK, Restart
<1>2. BootProgress'
  BY DEF BootProgress, Restart
<1>3. SuperblocksAreLarge' /\ ChangesAreFormatted'
  BY DEF BootInv, SuperblocksAreLarge, ChangesAreFormatted, Restart
<1>4. FormatProgress'
  BY BootSectors DEF FormatProgress, Restart
<1> QED
  BY <1>1, <1>2, <1>3, <1>4 DEF BootInv

LEMMA BootNextInv == BootInv /\ [BootNext]_storageVars => BootInv'
<1> SUFFICES ASSUME BootInv, [BootNext]_storageVars PROVE BootInv'
  OBVIOUS
<1>1. CASE UNCHANGED storageVars
  <2>1. StorageTypeOK' /\ BootProgress' /\ FormatProgress'
    BY <1>1 DEF storageVars, BootInv, StorageTypeOK, BootProgress, FormatProgress, HasMesaFS, BigEnough, Blocks,
                FoundMesaFS, FormatLba
  <2> QED
    BY <1>1, <2>1, QuietStep DEF storageVars, BootInv
<1> QED
  BY <1>1, DiskInitInv, ReadTableInv, WriteDefaultTableInv, MovingOnInv, MountInv,
     MountFailsInv, FormatWriteInv, RestartInv DEF BootNext, BootStep

\* The inductive invariant holds throughout.
LEMMA BootInvHolds == BootSpec => []BootInv
BY BootInitInv, BootNextInv, PTL DEF BootSpec

-----------------------------------------------------------------------------
(* The properties of Storage *)

\* No boot, after any number of power failures, writes over a partition table it
\* found or to a disk whose first partition it could have mounted (kernel_main
\* formats only after mesafs_mount has failed).
THEOREM FoundDataCorrect == BootSpec => []FoundDataAreKept
<1>1. BootInv => FoundDataAreKept
  <2> SUFFICES ASSUME BootInv, IsMbr(atPowerOn[0]) PROVE
          /\ disk[0] = atPowerOn[0]
          /\ FoundMesaFS => disk = atPowerOn
    BY DEF FoundDataAreKept, FoundMesaFS
  <2>1. disk[0] = atPowerOn[0]
    BY DEF BootInv, ChangesAreFormatted
  <2>2. FoundMesaFS => \A s \in SectorNumbers : disk[s] = atPowerOn[s]
    BY <2>1 DEF BootInv, ChangesAreFormatted
  <2> QED
    BY <2>1, <2>2 DEF BootInv, StorageTypeOK
<1> QED
  BY <1>1, BootInvHolds, PTL

\* mesafs_format writes inside the partition it was given, for any size it does
\* not refuse; sector 0 apart, a boot writes nowhere else.
THEOREM WritesCorrect == BootSpec => []WritesStayInsideThePartition
<1>1. BootInv => WritesStayInsideThePartition
  <2> SUFFICES ASSUME BootInv, NEW s \in SectorNumbers \ {0}, disk[s] # atPowerOn[s]
               PROVE  HasMesaFS /\ s >= LbaStart /\ s < LbaStart + part[2]
    BY DEF WritesStayInsideThePartition, BootInv
  <2>1. HasMesaFS /\ BigEnough /\ \E k \in 0..(FormatWrites - 1) : s = FormatLba(k)
    BY DEF BootInv, ChangesAreFormatted
  <2>2. part[2] \in Nat
    BY <2>1, StorageAssumption DEF BootInv, StorageTypeOK, HasMesaFS, NoPart
  <2>3. 1 + BlockSectors < part[2]
    BY <2>1, <2>2, MetadataFits DEF BigEnough, Blocks
  <2>4. s \in LbaStart..(LbaStart + 1 + BlockSectors)
    BY <2>1, FormatLbaRange
  <2> QED
    BY <2>1, <2>2, <2>3, <2>4, StorageAssumption
<1> QED
  BY <1>1, BootInvHolds, PTL

\* After a format, kernel_main mounts only what was written to the end, however
\* often power failed before.
THEOREM FreshMountCorrect == BootSpec => []FreshMountIsComplete
<1>1. BootInv => FreshMountIsComplete
  BY BootSectors DEF BootInv, FormatProgress, FreshMountIsComplete
<1> QED
  BY <1>1, BootInvHolds, PTL
=============================================================================
