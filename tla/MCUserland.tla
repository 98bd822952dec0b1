----------------------------- MODULE MCUserland -----------------------------
(***************************************************************************)
(* Volumes, programs and arguments for model checking Userland.  Blocks in *)
(* use are eight apart, because read_block takes the block number for a    *)
(* sector number.                                                          *)
(***************************************************************************)
EXTENDS Userland

Nothing == [type |-> 0, size |-> 0, blocks_used |-> 0, direct |-> <<0, 0, 0>>]
File(size, used, direct) == [type |-> FILE, size |-> size, blocks_used |-> used, direct |-> direct]
Dir(b) == [type |-> DIR, size |-> 0, blocks_used |-> 1, direct |-> <<b, 0, 0>>]
Entry(n, name) == [inode |-> n, name |-> name]
Unused == Entry(0, <<>>)

\* A block seen as inodes, as entries and as data.
Zeros == [inodes |-> [i \in 1..7 |-> Nothing], entries |-> <<Unused, Unused>>,
          bytes |-> <<NUL, NUL, NUL>>]
Table(inodes) == [Zeros EXCEPT !.inodes = [i \in 1..7 |->
                     IF i - 1 \in DOMAIN inodes THEN inodes[i - 1] ELSE Nothing]]
Entries(e1, e2) == [Zeros EXCEPT !.entries = <<e1, e2>>]
Data(a, b, c) == [Zeros EXCEPT !.bytes = <<a, b, c>>]

Volume(blocks, beyond) ==
    [mounted |-> TRUE, total_blocks |-> 58, total_inodes |-> 16, root |-> 1, beyond |-> beyond,
     blocks |-> [b \in 0..57 |-> IF b \in DOMAIN blocks THEN blocks[b] ELSE Zeros]]

\* The first byte of an executable stands for its headers.
Executable(kind) == <<kind, "b", "c", "d", "e", "f", "g", "h">>

Segment(type, offset, vaddr, filesz, memsz) ==
    [type |-> type, offset |-> offset, vaddr |-> vaddr, filesz |-> filesz, memsz |-> memsz]

Elf64(type, phdrs) ==
    [magic |-> "ELF", class |-> 64, type |-> type, machine |-> "X86_64", phdrs |-> phdrs]

\* The wild program has a segment whose end wraps around, one that is only half
\* in the file and one that is sane.
MCHeaderOf ==
    [c \in {Executable(k) : k \in {"aligned", "shifted", "shared", "wild", "dynamic"}} |->
       CASE c[1] = "aligned" -> Elf64("EXEC", <<Segment("LOAD", 0, 8, 3, 6),
                                                Segment("NOTE", 0, 8, 8, 8),
                                                Segment("LOAD", 3, 16, 5, 5)>>)
         [] c[1] = "shifted" -> Elf64("EXEC", <<Segment("LOAD", 1, 9, 5, 6)>>)
         [] c[1] = "shared" -> Elf64("EXEC", <<Segment("LOAD", 0, 8, 5, 5),
                                               Segment("LOAD", 5, 14, 2, 4)>>)
         [] c[1] = "wild" -> Elf64("EXEC", <<Segment("LOAD", 0, 12, 4, AddrSpace - 8),
                                             Segment("LOAD", 6, 16, 4, 4),
                                             Segment("LOAD", 2, 8, 3, 4)>>)
         [] c[1] = "dynamic" -> Elf64("DYN", <<Segment("LOAD", 0, 8, 3, 6)>>)]

\* /a, /ab/b (an executable) and /ab/ab, whose number is the one of stderr.
Tree(kind) ==
    LET x == Executable(kind)
    IN  Volume((1 :> Table((1 :> Dir(9)) @@ (2 :> File(2, 1, <<25, 0, 0>>)) @@
                           (3 :> File(7, 3, <<17, 25, 33>>)) @@ (4 :> Dir(41)) @@
                           (5 :> File(8, 3, <<10, 18, 26>>)))) @@
               (9 :> Entries(Entry(3, <<"a">>), Entry(4, <<"a", "b">>))) @@
               (41 :> Entries(Entry(5, <<"b">>), Entry(2, <<"a", "b">>))) @@
               (17 :> Data("p", "q", "r")) @@ (25 :> Data("s", "t", "u")) @@
               (33 :> Data("v", NUL, "w")) @@
               (10 :> Data(x[1], x[2], x[3])) @@ (18 :> Data(x[4], x[5], x[6])) @@
               (26 :> Data(x[7], x[8], NUL)), Nothing)

\* Two entries of one name; a file larger than its blocks, one with a hole,
\* one with a zero byte and one with a block that does not exist; an inode in
\* the last slot.
Odd(first, second, beyond) ==
    Volume((1 :> Table((1 :> Dir(9)) @@ (3 :> File(7, 2, <<17, 25, 33>>)) @@
                       (4 :> File(7, 3, <<17, 0, 33>>)) @@ (5 :> File(6, 2, <<33, 17, 0>>)) @@
                       (6 :> File(4, 2, <<17, 90, 0>>)))) @@
           (9 :> Entries(Entry(first, <<"a">>), Entry(second, <<"a">>))) @@
           (17 :> Data("p", "q", "r")) @@ (25 :> Data("s", "t", "u")) @@
           (33 :> Data("v", NUL, "w")), beyond)

\* As mesafs_format leaves it: block 1, where inode 1 is looked for, is empty.
Formatted == Volume(1 :> Zeros, Nothing)

MCVolumes ==
    {Tree(k) : k \in {"aligned", "shifted", "shared", "wild", "dynamic"}} \cup
    {Odd(3, 4, Nothing), Odd(5, 6, Nothing), Odd(6, 3, Nothing),
     Odd(7, 5, File(3, 1, <<25, 0, 0>>)), Formatted}

MCPaths == UNION {[1..n -> {Slash, "a", "b"}] : n \in 0..5}
MCTexts == {<<>>, <<"x">>, <<"x", "x", "x", "x">>}
MCPointers == {0, 512, KernelBase - 256, KernelBase - 2, AddrSpace - 1}
MCSizes == {0, 3, 257, AddrSpace - 1}
=============================================================================
