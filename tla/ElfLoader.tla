----------------------------- MODULE ElfLoader ------------------------------
(***************************************************************************)
(* From a file in memory to the pages of a program: elf_load looks at the  *)
(* header and goes through the program headers, process_map_memory maps    *)
(* what they describe, or the whole file when it is no ELF file, and the   *)
(* stack.                                                                  *)
(***************************************************************************)
EXTENDS Integers, Sequences

CONSTANTS PageSize,
          FileSize, FileAt,   \* the file, and where in memory it is, or was put
          HeapAt, HeapPages,  \* where kzalloc finds room for bss sections
          ProgramAt,          \* PHIX_PROGRAM_VIRTUAL_ADDRESS
          StackAt, StackPages, StackPhys, \* the stack, in virtual and in real memory
          Vaddrs, Offsets, Filesizes, Memsizes, \* values of program headers
          MaxHeaders          \* bound: program headers of a file

ASSUME PagesAssumption ==
  /\ PageSize \in Nat \ {0} /\ {FileSize, HeapPages, StackPages} \subseteq Nat
  /\ \A a \in {FileAt, HeapAt, ProgramAt, StackAt, StackPhys} : a \in Nat /\ a % PageSize = 0
  /\ StackAt + StackPages * PageSize <= ProgramAt  \* config.h: the stack ends below the program
  /\ UNION {Vaddrs, Offsets, Filesizes} \subseteq Nat /\ Memsizes \subseteq Nat \ {0}
  /\ MaxHeaders \in Nat

VARIABLES header, phdrs,  \* the file
          at,     \* what is done next
          i,      \* which program header
          vbase, vend,  \* virtual_base_address and virtual_end_address
          next,   \* pages of the heap handed out
          pages,  \* the entries of the page table that were set
          bss     \* process->bss, and where kzalloc put each bss section

vars == <<header, phdrs, at, i, vbase, vend, next, pages, bss>>

Phdr == [type : {"PT_LOAD"}, vaddr : Vaddrs, offset : Offsets,
         filesz : Filesizes \cup {0}, memsz : Memsizes, writable : BOOLEAN]
Note == [type |-> "PT_NOTE", vaddr |-> 0, offset |-> 0, filesz |-> 1, memsz |-> 1, writable |-> FALSE]
Header == [signature : BOOLEAN, class : {"NONE", "32", "64"}, data : {"NONE", "LSB", "MSB"}, phoff : {0, 52}]
GoodHeader == [signature |-> TRUE, class |-> "32", data |-> "LSB", phoff |-> 52]

Headers == {p \in Phdr : p.filesz <= p.memsz} \cup {Note}

\* A page table entry: the page, and whether it may be written.
Entry == [page : Nat, writable : BOOLEAN]

TypeOK ==
  /\ at \in {"validate", "scan", "map", "binary", "stack", "done", "EBADFORMAT", "EINVAL", "ENOMEM"}
  /\ i \in 1..(Len(phdrs) + 1)
  /\ next \in 0..HeapPages
  /\ DOMAIN pages \subseteq Nat /\ \A v \in DOMAIN pages : pages[v] \in Entry

Init ==
  /\ \/ header = GoodHeader /\ phdrs \in UNION {[1..n -> Headers] : n \in 0..MaxHeaders}
     \/ header \in Header /\ phdrs = <<>>
  /\ at = "validate" /\ i = 1
  /\ vbase = 0 /\ vend = 0
  /\ next = 0
  /\ pages = [v \in {} |-> [page |-> 0, writable |-> FALSE]]
  /\ bss = [n \in {} |-> 0]
-----------------------------------------------------------------------------
\* mutant: the class is not looked at
validate_any_class(h) == h.signature /\ h.data \in {"NONE", "LSB"} /\ h.phoff # 0

\* elf_validate_load: signature, class, encoding, program headers.  The type and
\* the entry address are not part of it.
elf_validate_load(h) ==
  /\ h.signature
  /\ h.class \in {"NONE", "32"}
  /\ h.data \in {"NONE", "LSB"}
  /\ h.phoff # 0

\* elf_process_loaded: with EBADFORMAT process_load_data takes the file as it is.
elf_process_loaded ==
  /\ at = "validate"
  /\ at' = IF elf_validate_load(header) THEN "scan" ELSE "binary"
  /\ UNCHANGED <<header, phdrs, i, vbase, vend, next, pages, bss>>

\* virtual_end_address, where 0 stands for "not set".
higher_end(end, p) == IF end = 0 \/ end <= p.vaddr + p.memsz THEN p.vaddr + p.memsz ELSE end

\* virtual_base_address, in the same way.
lower_base(base, p) == IF base = 0 \/ base >= p.vaddr THEN p.vaddr ELSE base

\* elf_process_pheader: only PT_LOAD is known.
elf_process_pheader ==
  /\ at = "scan" /\ i <= Len(phdrs)
  /\ \/ /\ phdrs[i].type = "PT_LOAD"
        /\ vbase' = lower_base(vbase, phdrs[i])
        /\ vend' = higher_end(vend, phdrs[i])
        /\ i' = i + 1
        /\ UNCHANGED at
     \/ /\ phdrs[i].type # "PT_LOAD"
        /\ at' = "EINVAL"
        /\ UNCHANGED <<vbase, vend, i>>
  /\ UNCHANGED <<header, phdrs, next, pages, bss>>

\* elf_process_pheaders is through, and process_map_memory begins.
elf_loaded ==
  /\ at = "scan" /\ i > Len(phdrs)
  /\ at' = "map" /\ i' = 1
  /\ UNCHANGED <<header, phdrs, vbase, vend, next, pages, bss>>

\* mutant: an address at the start of a page is moved as well
PAGE_ALIGN_OVER(x) == ((x + PageSize) \div PageSize) * PageSize

PAGE_ALIGN(x) == ((x + PageSize - 1) \div PageSize) * PageSize

PAGE_ALIGN_LOWER(x) == (x \div PageSize) * PageSize

\* paging_map_to: pages from virtual address v on are those from p to pend.
paging_map_to(directory, v, p, pend, writable) ==
  LET first == v \div PageSize
      count == (pend - p) \div PageSize
      set   == first..(first + count - 1)
  IN [n \in DOMAIN directory \cup set |->
        IF n \in set THEN [page |-> p \div PageSize + (n - first), writable |-> writable]
        ELSE directory[n]]

\* mutant: a section without bytes in the file is mapped to the file
bss_in_file(p, room) == FileAt + p.offset

\* phdr_paddr: in the file, or for a section without bytes in the file in memory of
\* its own.
phdr_paddr(p, room) == IF p.filesz = 0 THEN room ELSE FileAt + p.offset

\* kzalloc finds room for a bss section.
kzalloc_finds(need) == next + need <= HeapPages

\* process_map_elf, one program header.
process_map_elf ==
  /\ at = "map" /\ i <= Len(phdrs)
  /\ LET p     == phdrs[i]
         need  == PAGE_ALIGN(p.memsz) \div PageSize
         room  == HeapAt + next * PageSize
         paddr == phdr_paddr(p, room)
     IN \/ /\ p.filesz = 0 /\ ~kzalloc_finds(need)
           /\ at' = "ENOMEM"
           /\ UNCHANGED <<i, next, pages, bss>>
        \/ /\ p.filesz # 0 \/ kzalloc_finds(need)
           /\ next' = IF p.filesz = 0 THEN next + need ELSE next
           /\ bss' = IF p.filesz = 0
                     THEN [n \in DOMAIN bss \cup {i} |-> IF n = i THEN room ELSE bss[n]] ELSE bss
           /\ pages' = paging_map_to(pages, PAGE_ALIGN_LOWER(p.vaddr), PAGE_ALIGN_LOWER(paddr),
                                     PAGE_ALIGN(paddr + p.memsz), p.writable)
           /\ i' = i + 1
           /\ UNCHANGED at
  /\ UNCHANGED <<header, phdrs, vbase, vend>>

process_map_elf_returns ==
  /\ at = "map" /\ i > Len(phdrs)
  /\ at' = "stack"
  /\ UNCHANGED <<header, phdrs, i, vbase, vend, next, pages, bss>>

\* process_map_binary
process_map_binary ==
  /\ at = "binary"
  /\ pages' = paging_map_to(pages, ProgramAt, FileAt, PAGE_ALIGN(FileAt + FileSize), TRUE)
  /\ at' = "stack"
  /\ UNCHANGED <<header, phdrs, i, vbase, vend, next, bss>>

\* The stack, the last thing process_map_memory maps.
map_stack ==
  /\ at = "stack"
  /\ pages' = paging_map_to(pages, StackAt, StackPhys,
                          PAGE_ALIGN(StackPhys + StackPages * PageSize), TRUE)
  /\ at' = "done"
  /\ UNCHANGED <<header, phdrs, i, vbase, vend, next, bss>>

Next ==
  \/ elf_process_loaded \/ elf_process_pheader \/ elf_loaded
  \/ process_map_elf \/ process_map_elf_returns
  \/ process_map_binary \/ map_stack

Spec == Init /\ [][Next]_vars
-----------------------------------------------------------------------------
(* Properties *)

IsElf == elf_validate_load(header)
Loaded == at = "done"

\* Where virtual address v of the program is in memory.
Translated(v) == pages[v \div PageSize].page * PageSize + (v % PageSize)

PagesOf(p) == (p.vaddr \div PageSize)..((p.vaddr + p.memsz - 1) \div PageSize)
StackPageSet == (StackAt \div PageSize)..(StackAt \div PageSize + StackPages - 1)

\* What a linker script with aligned sections gives: a page belongs to one segment,
\* a segment lies in its page as it does in the file, bss begins with a page, and a
\* segment is wholly in the file or not at all.
Alone(k) == /\ PagesOf(phdrs[k]) \cap StackPageSet = {}
            /\ \A m \in DOMAIN phdrs \ {k} : PagesOf(phdrs[k]) \cap PagesOf(phdrs[m]) = {}
InPlace(p) == p.vaddr % PageSize = (IF p.filesz = 0 THEN 0 ELSE p.offset % PageSize)
Uniform(p) == p.filesz \in {0, p.memsz}

\* A program that was loaded has every byte of such a segment where the program
\* header says, the writable ones writable and no other; a byte of bss is one of
\* memory that was cleared for it and is shared with no other byte.  Every segment
\* must lie in its page as it does in the file: one that does not may be given a
\* page more than it has, which is then its neighbour's.
SegmentsInPlace ==
  Loaded /\ IsElf /\ (\A k \in DOMAIN phdrs : InPlace(phdrs[k])) =>
    \A k \in DOMAIN phdrs : Alone(k) /\ Uniform(phdrs[k]) =>
      \A b \in 0..(phdrs[k].memsz - 1) :
        LET v == phdrs[k].vaddr + b
        IN /\ v \div PageSize \in DOMAIN pages
           /\ Translated(v) = IF phdrs[k].filesz = 0 THEN bss[k] + b ELSE FileAt + phdrs[k].offset + b
           /\ pages[v \div PageSize].writable = phdrs[k].writable

\* When no segment ends behind the file, nothing but the file, the memory of its bss
\* sections and the stack is mapped for the program, however the segments lie.
OwnedPages ==
  (FileAt \div PageSize)..((FileAt + FileSize - 1) \div PageSize)
    \cup (HeapAt \div PageSize)..(HeapAt \div PageSize + next - 1)
    \cup (StackPhys \div PageSize)..(StackPhys \div PageSize + StackPages - 1)
MapsOwnPages ==
  (\A k \in DOMAIN phdrs : phdrs[k].filesz = 0 \/ phdrs[k].offset + phdrs[k].memsz <= FileSize)
    => \A v \in DOMAIN pages : pages[v].page \in OwnedPages

\* The bounds of the image are the lowest address and the highest end of its
\* segments, when no segment is at address 0.
BoundsOfImage ==
  at = "map" /\ phdrs # <<>> /\ (\A k \in DOMAIN phdrs : phdrs[k].vaddr # 0) =>
    /\ \E k \in DOMAIN phdrs : vbase = phdrs[k].vaddr
    /\ \E k \in DOMAIN phdrs : vend = phdrs[k].vaddr + phdrs[k].memsz
    /\ \A k \in DOMAIN phdrs : vbase <= phdrs[k].vaddr /\ phdrs[k].vaddr + phdrs[k].memsz <= vend

\* All types, bounds that enclose the image, and no pages but those of the program.
ImageInv == TypeOK /\ BoundsOfImage /\ MapsOwnPages

\* A file that is no ELF file of 32 bits is in memory from PHIX_PROGRAM_VIRTUAL_ADDRESS
\* on, byte by byte and writable.
BinaryInPlace ==
  Loaded /\ (~header.signature \/ header.class = "64" \/ header.data = "MSB") =>
    \A b \in 0..(FileSize - 1) :
      LET v == ProgramAt + b
      IN v \div PageSize \in DOMAIN pages
         /\ Translated(v) = FileAt + b /\ pages[v \div PageSize].writable
=============================================================================
