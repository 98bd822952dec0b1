---------------------------- MODULE SectorDisk ----------------------------
(***************************************************************************)
(* What the file system expects of drivers/disk.c: an array of sectors,    *)
(* read and written whole, one at a time.  A write is in the store at the  *)
(* latest when it returns.                                                 *)
(***************************************************************************)
CONSTANTS Lbas, Contents, None

VARIABLES store,    \* the sectors
          answer    \* what the last operation returned

Init ==
    /\ store \in [Lbas -> Contents]
    /\ answer = None

\* disk_read_sector returns 0
Read(lba) ==
    /\ answer' = [kind |-> "read", lba |-> lba, data |-> store[lba]]
    /\ UNCHANGED store

\* disk_write_sector takes effect, then returns 0
Commit(lba, data) ==
    /\ store' = [store EXCEPT ![lba] = data]
    /\ UNCHANGED answer

Written(lba) ==
    /\ answer' = [kind |-> "write", lba |-> lba, data |-> store[lba]]
    /\ UNCHANGED store

\* either returns -1
Refused ==
    /\ answer' = None
    /\ UNCHANGED store

Next ==
    \/ \E lba \in Lbas : Read(lba) \/ Written(lba)
    \/ \E lba \in Lbas, data \in Contents : Commit(lba, data)
    \/ Refused

Spec == Init /\ [][Next]_<<store, answer>>
=============================================================================
