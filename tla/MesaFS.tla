------------------------------- MODULE MesaFS -------------------------------
(***************************************************************************)
(* The reading side of drivers/mesafs.c: inodes, directories, paths and    *)
(* file contents.  mesafs_write and the allocators are stubs, so a mounted *)
(* volume never changes; it was made by another system.                    *)
(*                                                                         *)
(* A volume v gives for every block number what read_block returns (three  *)
(* readings of the same bytes: as inodes, as directory entries, as data).  *)
(* Operators named X_Something are faulty variants of X.                   *)
(***************************************************************************)
EXTENDS Integers, Sequences, SequencesExt

CONSTANTS BlockSize,      \* MESAFS_BLOCK_SIZE: bytes of a block
          SlotsPerBlock,  \* 4096 / 128: inode numbers per table block
          SlotsInside,    \* the inodes of 140 bytes that lie inside a block
          NDirect,        \* direct block pointers of an inode
          NameField,      \* sizeof(dirent.name)
          ComponentMax    \* sizeof(component) - 1 in resolve_path

ASSUME MesaFSAssumption ==
    /\ {BlockSize, SlotsPerBlock, SlotsInside, NDirect, NameField, ComponentMax} \subseteq Nat \ {0}
    /\ SlotsInside <= SlotsPerBlock
    /\ NameField < ComponentMax

Slash == "/"
NUL == "NUL"
NL == "NL"
FILE == 1
DIR == 2

MinOf(a, b) == IF a < b THEN a ELSE b

InRange(v, b) == b < v.total_blocks
read_block(v, b) == v.blocks[b]

(***************************************************************************)
(* The table is indexed as if an inode had 128 bytes, but the structure    *)
(* has 140: the last slots of a block end behind the buffer, where the     *)
(* stack holds anything (v.beyond).                                        *)
(***************************************************************************)
InodeExists(v, n) == n < v.total_inodes /\ InRange(v, 1 + n \div SlotsPerBlock)

mesafs_read_inode(v, n) ==
    LET slot == n % SlotsPerBlock
    IN  IF slot < SlotsInside
        THEN read_block(v, 1 + n \div SlotsPerBlock).inodes[slot + 1]
        ELSE v.beyond

\* A directory has one block; both its readers go through its entries and skip
\* the unused ones.
EntriesOf(v, n) == read_block(v, mesafs_read_inode(v, n).direct[1]).entries
IsUsed(e) == e.inode # 0 /\ e.name # <<>>

AddUsed(list, e) == IF IsUsed(e) THEN Append(list, e) ELSE list

UsedEntries(v, n) ==
    LET used[i \in 0..Len(EntriesOf(v, n))] ==
            IF i = 0 THEN <<>> ELSE AddUsed(used[i - 1], EntriesOf(v, n)[i])
    IN  used[Len(EntriesOf(v, n))]

IsDir(v, n) ==
    /\ InodeExists(v, n)
    /\ mesafs_read_inode(v, n).type = DIR
    /\ InRange(v, mesafs_read_inode(v, n).direct[1])

\* The loop over the entries compares the first name_len bytes and then asks
\* for the end of the name; the first entry that matches wins.  An entry's name
\* is its first name_len bytes; a name_len above the width of the field is not
\* modelled.
find_in_dir(v, n, name) ==
    LET named == {i \in DOMAIN EntriesOf(v, n) : IsUsed(EntriesOf(v, n)[i]) /\ EntriesOf(v, n)[i].name = name}
        first == CHOOSE i \in named : \A j \in named : i <= j
    IN  IF IsDir(v, n) /\ named # {} THEN EntriesOf(v, n)[first].inode ELSE 0

\* Fault: the component is cut to the width of a directory entry's name.
Component_NameField(p, s, e) == SubSeq(p, s, MinOf(e - 1, s + NameField - 1))

\* component[64]: a longer name is cut to 63 bytes.
Component(p, s, e) == SubSeq(p, s, MinOf(e - 1, s + ComponentMax - 1))

\* Position of the next '/' at or after s, or of the final zero.
ComponentEnd(p, s) ==
    CHOOSE e \in s..(Len(p) + 1) :
        /\ e <= Len(p) => p[e] = Slash
        /\ \A j \in s..(e - 1) : p[j] # Slash

\* One round of the loop of resolve_path: the component at w.s is looked up in
\* the directory w.n.
WalkRound(v, p, w) ==
    LET e == ComponentEnd(p, w.s)
        next == find_in_dir(v, w.n, Component(p, w.s, e))
    IN  IF w.s > Len(p) THEN w
        ELSE [s |-> IF next = 0 THEN Len(p) + 1 ELSE e + 1, n |-> next]

\* One leading '/' is skipped, one trailing '/' ends the loop, and an empty
\* component in between names nothing.
resolve_path(v, path) ==
    LET p == IF path # <<>> /\ path[1] = Slash THEN Tail(path) ELSE path
        walk[i \in 0..Len(p)] == IF i = 0 THEN [s |-> 1, n |-> v.root]
                                ELSE WalkRound(v, p, walk[i - 1])
    IN  walk[Len(p)].n

Fail == [ret |-> -1, bytes |-> <<>>]
Got(bytes) == [ret |-> Len(bytes), bytes |-> bytes]

\* Fault: block_offset is not reset after the first block.
BlockOffset_Kept(k, offset) == offset % BlockSize

BlockOffset(k, offset) ==
    IF k = offset \div BlockSize THEN offset % BlockSize ELSE 0

\* One round of the loop of mesafs_read, for block k of the file: r has what is
\* to be returned, the bytes still wanted and whether the loop goes on.  It
\* stops at a hole, at blocks_used and at the last direct block.
ReadRound(v, inode, offset, r, k) ==
    LET b == inode.direct[k + 1]
        c == MinOf(BlockSize - BlockOffset(k, offset), r.left)
    IN  IF ~r.more \/ r.left = 0 \/ k >= inode.blocks_used \/ k >= NDirect
        THEN [r EXCEPT !.more = FALSE]
        ELSE IF b = 0 THEN [r EXCEPT !.more = FALSE]
        ELSE IF ~InRange(v, b) THEN [got |-> Fail, left |-> r.left, more |-> FALSE]
        ELSE [got |-> Got(r.got.bytes \o SubSeq(read_block(v, b).bytes, BlockOffset(k, offset) + 1,
                                                BlockOffset(k, offset) + c)),
              left |-> r.left - c, more |-> TRUE]

ReadBlocks(v, inode, count, offset) ==
    LET loop[i \in 0..NDirect] ==
            IF i = 0 THEN [got |-> Got(<<>>), left |-> count, more |-> TRUE]
            ELSE ReadRound(v, inode, offset, loop[i - 1], offset \div BlockSize + i - 1)
    IN  loop[NDirect].got

mesafs_read(v, n, count, offset) ==
    LET inode == mesafs_read_inode(v, n)
    IN  IF n = 0 \/ ~InodeExists(v, n) THEN Fail
        ELSE IF inode.type # FILE THEN Fail
        ELSE IF offset >= inode.size THEN Got(<<>>)
        ELSE ReadBlocks(v, inode, MinOf(count, inode.size - offset), offset)

\* The entries mesafs_list_dir copies, at most max of them.
mesafs_list_dir(v, n, max) ==
    LET used == UsedEntries(v, n)
    IN  IF n = 0 \/ ~IsDir(v, n) THEN [ret |-> -1, entries |-> <<>>]
        ELSE [ret |-> MinOf(Len(used), max), entries |-> SubSeq(used, 1, MinOf(Len(used), max))]

-----------------------------------------------------------------------------
(***************************************************************************)
(* What a volume means, said without loops: the names on the way from the  *)
(* root to an inode, the spellings of such a list of names as a path, and  *)
(* the bytes of a file.                                                    *)
(***************************************************************************)
Child(v, n, name) ==
    IF IsDir(v, n) /\ \E i \in DOMAIN UsedEntries(v, n) : UsedEntries(v, n)[i].name = name
    THEN LET i == CHOOSE i \in DOMAIN UsedEntries(v, n) :
                     /\ UsedEntries(v, n)[i].name = name
                     /\ \A j \in 1..(i - 1) : UsedEntries(v, n)[j].name # name
         IN  UsedEntries(v, n)[i].inode
    ELSE 0

\* One name further on the way, and one name more in a path.
Follow(v, n, name) == IF n = 0 THEN 0 ELSE Child(v, n, name)
Attach(p, name) == IF p = <<>> THEN name ELSE p \o <<Slash>> \o name

\* The inode that a list of names leads to, 0 if there is none.
Reached(v, names) ==
    LET at[i \in 0..Len(names)] ==
            IF i = 0 THEN v.root ELSE Follow(v, at[i - 1], names[i])
    IN  at[Len(names)]

Joined(names) ==
    LET path[i \in 0..Len(names)] == IF i = 0 THEN <<>> ELSE Attach(path[i - 1], names[i])
    IN  path[Len(names)]

Spellings(names) ==
    LET j == Joined(names)
    IN  {j, <<Slash>> \o j} \cup
        (IF names = <<>> THEN {} ELSE {j \o <<Slash>>, <<Slash>> \o j \o <<Slash>>})

\* The bytes of a file: byte i is in direct block i div BlockSize.
Content(v, n) ==
    LET inode == mesafs_read_inode(v, n)
    IN  [i \in 1..inode.size |->
            read_block(v, inode.direct[(i - 1) \div BlockSize + 1]).bytes[((i - 1) % BlockSize) + 1]]

\* A file all of whose bytes the direct blocks hold.
IsSoundFile(v, n) ==
    /\ n # 0 /\ InodeExists(v, n)
    /\ LET inode == mesafs_read_inode(v, n)
           used == MinOf(inode.blocks_used, NDirect)
       IN  /\ inode.type = FILE
           /\ \A k \in 1..used : inode.direct[k] # 0 /\ InRange(v, inode.direct[k])
           /\ inode.size <= used * BlockSize
=============================================================================
