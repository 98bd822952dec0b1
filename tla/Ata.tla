-------------------------------- MODULE Ata --------------------------------
(***************************************************************************)
(* The ATA driver (drivers/disk.c): ata_identify, disk_read_sector and     *)
(* disk_write_sector as the sequence of port accesses they are, against a  *)
(* drive that works at its own speed.                                      *)
(*                                                                         *)
(* The drive is not in the repository; it follows the ATA rules the driver *)
(* relies on.  It is busy for as long as it likes, ignores the ports while *)
(* it is busy, and may answer a command with ERR instead of DRQ: always    *)
(* for an LBA it does not have, and with DriveErrors for any.  A sector is *)
(* a few words; the four LBA ports are digits, three of a byte and one of  *)
(* four bits.                                                              *)
(*                                                                         *)
(* Operations come one at a time: the driver has no lock, and the system   *)
(* call entry does not let a second caller in (Context).                   *)
(*                                                                         *)
(* An operator whose comment begins with "Fault:" is a plausible mistake   *)
(* in the definition after it; substituting it must break a property.      *)
(***************************************************************************)
EXTENDS Integers, Sequences

CONSTANTS Byte, Nibble,   \* 256 and 16: the digits of an LBA
          Words,          \* 256: words of a sector
          Values,         \* what a word may hold
          Size,           \* sectors of the drive
          Tried,          \* the LBAs the kernel asks for
          Limit,          \* 100000: polls before a wait gives up
          DriveErrors     \* whether the drive may report an error

ASSUME AtaAssumption ==
    /\ {Byte, Nibble, Words, Limit} \subseteq Nat \ {0}
    /\ Size \in 1..(Byte * Byte * Byte * Nibble)
    /\ Tried \subseteq Nat
    /\ DriveErrors \in BOOLEAN

VARIABLES
    pc,       \* where the driver is
    op,       \* the operation: kind, lba, data to write
    polls,    \* polls made by the present wait
    buffer,   \* the words read so far
    total,    \* disk_total_sectors
    answer,   \* what the last operation returned
    store,    \* the sectors on the drive
    port,     \* the drive's registers
    status,   \* its status: BSY, DRQ, ERR
    job,      \* the command it executes, with the LBA it was given
    sector,   \* its sector buffer
    gaveUp    \* history: a wait for the drive ended before a command, the drive busy

driver == <<pc, op, polls, buffer, total, answer>>
drive == <<store, port, status, job, sector>>
vars == <<driver, drive, gaveUp>>

Lbas == 0..(Size - 1)
Contents == [1..Words -> Values]
None == [kind |-> "none"]
Present == status # "FLOATING"

Init ==
    /\ pc = "detect"
    /\ op = None
    /\ polls = 0
    /\ buffer = <<>>
    /\ total = 0
    /\ answer = None
    /\ \E v \in Values : store = [s \in Lbas |-> [i \in 1..Words |-> v]]
    /\ port = [p \in {"drive", "low", "mid", "high"} |-> 0]
    /\ status \in {"READY", "FLOATING"}
    /\ job = None
    /\ sector = <<>>
    /\ gaveUp = FALSE

-----------------------------------------------------------------------------
(* The drive *)

\* A register write takes effect unless the drive is busy.
Outb(p, value) ==
    port' = IF status = "BSY" THEN port ELSE [port EXCEPT ![p] = value]

Addressed == port["low"] + Byte * (port["mid"] + Byte * (port["high"] + Byte * port["drive"]))

\* A command makes the drive busy; it notes the LBA that stands in the ports.
Command(kind) ==
    IF status = "BSY" THEN UNCHANGED <<status, job>>
    ELSE /\ status' = "BSY"
         /\ job' = [kind |-> kind, lba |-> Addressed]

\* The sector is in the buffer, or there is room for one.
DataRequest ==
    /\ status = "BSY" /\ job.kind \in {"read", "write", "identify"}
    /\ job.lba \in Lbas
    /\ status' = "DRQ"
    /\ sector' = IF job.kind = "read" THEN store[job.lba] ELSE <<>>
    /\ UNCHANGED <<driver, store, port, job, gaveUp>>

\* The drive cannot execute the command.
ReportError ==
    /\ status = "BSY" /\ job.kind # "commit"
    /\ DriveErrors \/ job.lba \notin Lbas
    /\ status' = "ERR"
    /\ UNCHANGED <<driver, store, port, job, sector, gaveUp>>

\* The sector buffer goes to the medium.
CommitSector ==
    /\ status = "BSY" /\ job.kind = "commit"
    /\ status' = "READY"
    /\ store' = [store EXCEPT ![job.lba] = sector]
    /\ job' = None
    /\ sector' = <<>>
    /\ UNCHANGED <<driver, port, gaveUp>>

DriveStep == DataRequest \/ ReportError \/ CommitSector

-----------------------------------------------------------------------------
(* disk_init *)

\* A floating port has no drive behind it: the fallback's virtual disk is
\* larger than the kernel heap, kmalloc returns NULL and total stays 0.
NoDrive ==
    /\ pc = "detect"
    /\ ~Present
    /\ pc' = "idle"
    /\ UNCHANGED <<op, polls, buffer, total, answer, drive, gaveUp>>

\* ata_identify clears the LBA ports and sends IDENTIFY.
Identify ==
    /\ pc = "detect"
    /\ Present
    /\ port' = [p \in DOMAIN port |-> 0]
    /\ Command("identify")
    /\ pc' = "identify"
    /\ polls' = 0
    /\ UNCHANGED <<op, buffer, total, answer, store, sector, gaveUp>>

\* Fault: the loop has no limit and looks at DRQ alone, as ata_wait_data does.
IdentifyPoll_NoLimit ==
    /\ pc = "identify"
    /\ pc' = IF status = "DRQ" THEN "size" ELSE pc
    /\ UNCHANGED <<op, polls, buffer, total, answer, store, port, status, job, sector, gaveUp>>

\* It polls until ERR, DRQ or the end of its patience, and with DRQ reads the
\* 256 words that hold the size.
IdentifyPoll ==
    /\ pc = "identify"
    /\ polls < Limit
    /\ polls' = polls + 1
    /\ pc' = IF status = "DRQ" THEN "size" ELSE IF status = "ERR" THEN "idle" ELSE pc
    /\ UNCHANGED <<op, buffer, total, answer, store, port, status, job, sector, gaveUp>>

IdentifyTimeout ==
    /\ pc = "identify"
    /\ polls = Limit
    /\ pc' = "idle"
    /\ UNCHANGED <<op, polls, buffer, total, answer, drive, gaveUp>>

ReadSize ==
    /\ pc = "size"
    /\ total' = Size
    /\ status' = "READY"
    /\ job' = None
    /\ pc' = "idle"
    /\ UNCHANGED <<op, polls, buffer, answer, store, port, sector, gaveUp>>

-----------------------------------------------------------------------------
(* disk_read_sector and disk_write_sector *)

Requests ==
    [kind : {"read"}, lba : Tried]
      \cup [kind : {"write"}, lba : Tried, data : {[i \in 1..Words |-> v] : v \in Values}]

\* The check both begin with.
InRange(lba) == total # 0 /\ lba < total

Refuse(r) ==
    /\ pc = "idle"
    /\ ~InRange(r.lba)
    /\ answer' = None
    /\ UNCHANGED <<pc, op, polls, buffer, total, drive, gaveUp>>

Start(r) ==
    /\ pc = "idle"
    /\ InRange(r.lba)
    /\ op' = r
    /\ buffer' = <<>>
    /\ polls' = 0
    /\ pc' = "ready"
    /\ UNCHANGED <<total, answer, drive, gaveUp>>

After == [ready |-> "drive", ready2 |-> "drq", ready3 |-> "return"]

\* A wait ends when the drive is not busy or Limit polls were made.
WaitEnds == polls + 1 = Limit \/ status # "BSY"

\* Fault: no wait for the drive before the ports are written.
WaitReady_NotFirst ==
    /\ pc \in DOMAIN After
    /\ IF pc = "ready" \/ WaitEnds
       THEN pc' = After[pc] /\ polls' = 0
       ELSE pc' = pc /\ polls' = polls + 1
    /\ gaveUp' = (gaveUp \/ (pc = "ready" /\ WaitEnds /\ status = "BSY"))
    /\ UNCHANGED <<op, buffer, total, answer, store, port, status, job, sector>>

\* ata_wait_ready; the caller is not told why it ended.
WaitReady ==
    /\ pc \in DOMAIN After
    /\ IF WaitEnds
       THEN pc' = After[pc] /\ polls' = 0
       ELSE pc' = pc /\ polls' = polls + 1
    /\ gaveUp' = (gaveUp \/ (pc = "ready" /\ WaitEnds /\ status = "BSY"))
    /\ UNCHANGED <<op, buffer, total, answer, store, port, status, job, sector>>

\* lba >> 24 & 0x0F, lba & 0xFF, lba >> 8 & 0xFF, lba >> 16 & 0xFF
Digit ==
    [drive |-> (op.lba \div (Byte * Byte * Byte)) % Nibble,
     low |-> op.lba % Byte,
     mid |-> (op.lba \div Byte) % Byte,
     high |-> (op.lba \div (Byte * Byte)) % Byte]

NextPort == [drive |-> "low", low |-> "mid", mid |-> "high", high |-> "command"]

\* The outb's of the address, in the code's order.
SetPort ==
    /\ pc \in DOMAIN NextPort
    /\ Outb(pc, Digit[pc])
    /\ pc' = NextPort[pc]
    /\ UNCHANGED <<op, polls, buffer, total, answer, store, status, job, sector, gaveUp>>

SendCommand ==
    /\ pc = "command"
    /\ Command(op.kind)
    /\ polls' = 0
    /\ pc' = "ready2"
    /\ UNCHANGED <<op, buffer, total, answer, store, port, sector, gaveUp>>

\* ata_wait_data, second loop: until DRQ, whatever else the status says.
WaitData ==
    /\ pc = "drq"
    /\ pc' = IF status = "DRQ" THEN op.kind ELSE pc
    /\ UNCHANGED <<op, polls, buffer, total, answer, store, port, status, job, sector, gaveUp>>

\* One inw of the data port; DRQ goes with the last word.
ReadWord ==
    /\ pc = "read"
    /\ buffer' = Append(buffer, sector[Len(buffer) + 1])
    /\ IF Len(buffer') = Words
       THEN pc' = "return" /\ status' = "READY" /\ job' = None /\ sector' = <<>>
       ELSE UNCHANGED <<pc, status, job, sector>>
    /\ UNCHANGED <<op, polls, total, answer, store, port, gaveUp>>

\* One outw; with the last word the drive is busy with the medium.
WriteWord ==
    /\ pc = "write"
    /\ sector' = Append(sector, op.data[Len(sector) + 1])
    /\ IF Len(sector') = Words
       THEN /\ pc' = "ready3" /\ status' = "BSY"
            /\ job' = [job EXCEPT !.kind = "commit"] /\ polls' = 0
       ELSE UNCHANGED <<pc, status, job, polls>>
    /\ UNCHANGED <<op, buffer, total, answer, store, port, gaveUp>>

Return ==
    /\ pc = "return"
    /\ answer' = [kind |-> op.kind, lba |-> op.lba,
                  data |-> IF op.kind = "read" THEN buffer ELSE op.data]
    /\ pc' = "idle"
    /\ op' = None
    /\ buffer' = <<>>
    /\ UNCHANGED <<polls, total, drive, gaveUp>>

Call == \E r \in Requests : Start(r) \/ Refuse(r)

DriverStep ==
    \/ NoDrive \/ Identify \/ IdentifyPoll \/ IdentifyTimeout \/ ReadSize
    \/ WaitReady \/ SetPort \/ SendCommand \/ WaitData \/ ReadWord \/ WriteWord \/ Return

Next == Call \/ DriverStep \/ DriveStep

\* The driver is sequential code and the drive answers some time.
Fairness == WF_vars(DriverStep) /\ WF_vars(DriveStep)

Spec == Init /\ [][Next]_vars /\ Fairness

-----------------------------------------------------------------------------
(* Properties *)

\* The store holds sectors, the ports digits, and a command an LBA of the drive
\* as long as its ports were not written while it was busy.
TypeOK ==
    /\ pc \in {"detect", "identify", "size", "idle", "command", "drq", "read", "write", "return"}
                \cup DOMAIN After \cup DOMAIN NextPort
    /\ polls \in 0..Limit
    /\ Len(buffer) <= Words /\ Len(sector) <= Words
    /\ total \in {0, Size}
    /\ store \in [Lbas -> Contents]
    /\ \A p \in DOMAIN port : port[p] \in 0..((IF p = "drive" THEN Nibble ELSE Byte) - 1)
    /\ status \in {"READY", "BSY", "DRQ", "ERR", "FLOATING"}
    /\ job # None => job.lba \in Lbas

\* A write counts as done once the drive has all its words.
Committed ==
    IF job.kind = "commit" THEN [store EXCEPT ![job.lba] = sector] ELSE store

Sectors == INSTANCE SectorDisk WITH store <- Committed

\* A step leaves every sector as it is or puts the caller's words in one.
WholeSectors ==
    Committed' = Committed \/ \E s \in Lbas : Committed' = [Committed EXCEPT ![s] = op.data]

\* Driver and drive together are an array of sectors: a read returns what was
\* last written to that LBA, a write changes that sector, whole, and no other,
\* and an operation that is refused does nothing.  This holds also when the wait
\* at the end of a write gave up, and until the wait before the next command
\* gives up too (disk.c:49-51): the driver is not told and writes the ports of a
\* busy drive, which may then take the command for another sector, or miss it.
\* From then on no more is promised than that no sector is torn.
IsASectorDisk ==
    /\ Sectors!Init
    /\ [][IF gaveUp' THEN WholeSectors ELSE Sectors!Next]_<<Committed, answer>>
    /\ [](gaveUp \/ TypeOK)

\* Every operation returns.  disk_init does so whatever the drive does: no
\* drive, an error, or no answer in time only leave the disk without sectors.
\* A read or a write does not if the drive reports an error, or has missed its
\* command because it was busy: ata_wait_data looks at DRQ alone and never ends
\* (disk.c:60).
OperationsReturn ==
    (pc # "idle") ~> (pc = "idle" \/ (status = "ERR" /\ total # 0) \/ gaveUp)
=============================================================================
