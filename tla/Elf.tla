-------------------------------- MODULE Elf ---------------------------------
(***************************************************************************)
(* elf/elf.c: the check of an ELF header and the loading of its segments   *)
(* into user memory.  A header is a record of the fields the code looks    *)
(* at, phdrs the program headers; mem maps user addresses to bytes.  The   *)
(* page tables of the loaded addresses exist (mm_map_page is in Memory).   *)
(* Addresses and sizes are uint64_t: their sums wrap around.               *)
(***************************************************************************)
EXTENDS UserAccess, Integers, Sequences, SequencesExt

CONSTANTS PageSize,     \* 4096
          LoadAddr      \* the user addresses that segments may occupy

ASSUME ElfAssumption ==
    /\ PageSize \in Nat \ {0}
    /\ LoadAddr \subseteq Nat

ZERO == "NUL"           \* a cleared byte
STALE == "stale"        \* a byte that is not the program's: what a frame held
                        \* before (pmm_alloc_page keeps it) or what lies behind
                        \* the buffer of the file

elf_validate(h) ==
    h.magic = "ELF" /\ h.class = 64 /\ h.type = "EXEC" /\ h.machine = "X86_64"

Plus(a, b) == (a + b) % AddrSpace
PageDown(a) == a - (a % PageSize)
StartPage(ph) == PageDown(ph.vaddr)
EndPage(ph) == PageDown((ph.vaddr + ph.memsz + PageSize - 1) % AddrSpace)

\* src[j]: nothing checks that offset and filesz lie in the file.
ImageByte(data, i) == IF i < Len(data) THEN data[i + 1] ELSE STALE

CopySize(ph, page) ==
    IF Plus(page - ph.vaddr, PageSize) > ph.filesz THEN ph.filesz - (page - ph.vaddr) ELSE PageSize

\* Fault: the bytes after the file's part of a page are left as they were.
PageByte_NoClear(ph, data, page, a) ==
    IF page >= ph.vaddr /\ page < Plus(ph.vaddr, ph.filesz)
    THEN IF a - page < CopySize(ph, page) THEN ImageByte(data, ph.offset + (a - ph.vaddr)) ELSE STALE
    ELSE IF page < Plus(ph.vaddr, ph.memsz) THEN ZERO ELSE STALE

\* The byte at address a of a page that was mapped to a fresh frame.  A page
\* that starts before the segment counts as .bss.
PageByte(ph, data, page, a) ==
    IF page >= ph.vaddr /\ page < Plus(ph.vaddr, ph.filesz)
    THEN IF a - page < CopySize(ph, page) THEN ImageByte(data, ph.offset + (a - ph.vaddr))
         ELSE IF ph.memsz > ph.filesz THEN ZERO ELSE STALE
    ELSE IF page < Plus(ph.vaddr, ph.memsz) THEN ZERO ELSE STALE

\* One round of the page loop; m is [ok, mem, frames].
LoadPage(ph, data, m, page) ==
    IF ~m.ok \/ m.frames = 0 THEN [m EXCEPT !.ok = FALSE]
    ELSE [ok |-> TRUE, frames |-> m.frames - 1,
          mem |-> [a \in DOMAIN m.mem |->
                     IF PageDown(a) = page THEN PageByte(ph, data, page, a) ELSE m.mem[a]]]

\* The page loop makes no round if the end has wrapped around.
Pages(ph) ==
    IF StartPage(ph) >= EndPage(ph) THEN <<>>
    ELSE [k \in 1..((EndPage(ph) - StartPage(ph)) \div PageSize) |-> StartPage(ph) + (k - 1) * PageSize]

LoadSegment(ph, data, m) ==
    LET load[k \in 0..Len(Pages(ph))] ==
            IF k = 0 THEN m ELSE LoadPage(ph, data, load[k - 1], Pages(ph)[k])
    IN  IF ph.type = "LOAD" THEN load[Len(Pages(ph))] ELSE m

elf_load_segments(h, data, mem, frames) ==
    LET load[i \in 0..Len(h.phdrs)] ==
            IF i = 0 THEN [ok |-> elf_validate(h), mem |-> mem, frames |-> frames]
            ELSE LoadSegment(h.phdrs[i], data, load[i - 1])
    IN  load[Len(h.phdrs)]

-----------------------------------------------------------------------------
(***************************************************************************)
(* What a program header asks for: filesz bytes of the file at vaddr and   *)
(* zeros up to memsz.  The loader provides it for segments that start on a *)
(* page and have their pages to themselves, if the header is sane: the     *)
(* part in the file lies in the file and is not longer than the part in    *)
(* memory, and the end of the last page is an address.  The code checks    *)
(* none of this.                                                           *)
(***************************************************************************)
PagesOf(ph) == {Pages(ph)[k] : k \in DOMAIN Pages(ph)}

IsSane(ph, data) ==
    /\ ph.filesz <= ph.memsz
    /\ ph.offset + ph.filesz <= Len(data)
    /\ ph.vaddr + ph.memsz + PageSize - 1 < AddrSpace

IsLoadable(h, data, i) ==
    /\ h.phdrs[i].type = "LOAD"
    /\ IsSane(h.phdrs[i], data)
    /\ h.phdrs[i].vaddr % PageSize = 0
    /\ \A j \in DOMAIN h.phdrs \ {i} :
          h.phdrs[j].type = "LOAD" => PagesOf(h.phdrs[i]) \cap PagesOf(h.phdrs[j]) = {}

HoldsSegment(mem, data, ph) ==
    \A k \in 0..(ph.memsz - 1) :
        mem[ph.vaddr + k] = IF k < ph.filesz THEN data[ph.offset + k + 1] ELSE ZERO
=============================================================================
