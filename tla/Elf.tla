--------------------------------- MODULE Elf ---------------------------------
(***************************************************************************)
(* The ELF loader of src/elf.c: load_elf looks at the header of a file in  *)
(* memory and hands an executable on to load_exec_elf, which walks the     *)
(* section headers and the program headers, prints them, and keeps the     *)
(* lowest address and the number of the segments to load.                  *)
(*                                                                         *)
(* A file is what the loader reads of it: the fields of Elf64_Ehdr, the    *)
(* names of the sections, the type and address of the segments, and where  *)
(* the section header e_shstrndx says the names are.  `bad` holds the      *)
(* checks of load_elf that e_ident and e_machine fail.  Offsets count      *)
(* bytes of the file.                                                      *)
(***************************************************************************)
EXTENDS Integers, FiniteSets

CONSTANTS
  Files,    \* files load_elf may be called with
  HalfMod,  \* 2^16: e_shnum, e_phnum and the loop counters are Elf64_Half
  MaxAddr,  \* 0xFFFFFFFFFFFFFFFF
  MaxInt,   \* 2^31 - 1
  EhdrSize, PhdrSize, ShdrSize
            \* sizeof(Elf64_Ehdr), sizeof(Elf64_Phdr), sizeof(Elf64_Shdr)

Half == 0..(HalfMod - 1)
Checks == {"magic", "class", "data", "version", "machine"}
SHN_UNDEF == 0
NULL == -1

File ==
  [bad : SUBSET Checks, type : {"rel", "exec", "dyn", "core"}, size : Nat,
   phoff : Nat, phentsize : Nat, phnum : Half,
   shoff : Nat, shentsize : Nat, shnum : Half, shstrndx : Half,
   strings : [offset : Nat, size : Nat], names : [Half -> Nat],
   segments : [Half -> [type : {"NULL", "LOAD", "OTHER"}, vaddr : 0..MaxAddr]]]

(***************************************************************************)
(* index * e_shentsize (elf.c:8) and index * e_phentsize (elf.c:16) are    *)
(* products of ints: with a table of 2 GiB or more they would overflow.    *)
(* The file load_elf is given lies in the kernel's image and has none.     *)
(***************************************************************************)
ASSUME ElfAssumption ==
  /\ HalfMod \in Nat \ {0} /\ {MaxAddr, MaxInt} \subseteq Nat
  /\ EhdrSize \in Nat /\ PhdrSize \in Nat /\ ShdrSize \in Nat
  /\ Files \subseteq File
  /\ \A f \in Files : f.shnum * f.shentsize <= MaxInt /\ f.phnum * f.phentsize <= MaxInt

VARIABLES
  file,      \* elf_header
  at,        \* "header", the loop load_exec_elf is in, or "returned"
  i,         \* counter of that loop
  lowest,    \* lowest_virt_addr
  loads,     \* load_segments
  message,   \* history: what load_elf has reported of the file, or "LOADED"
             \* once load_exec_elf is through its loops
  reads      \* history: what the last step read, as pairs <<offset, end>>

vars == <<file, at, i, lowest, loads, message, reads>>

-----------------------------------------------------------------------------

\* elf_get_shent and elf_get_phent: where the header is, or NULL.
Shent(f, index) ==
  IF f.shoff = 0 \/ index >= f.shnum THEN NULL ELSE f.shoff + index * f.shentsize

\* Mutant: the size of a section header is taken for that of a program header.
PhentShentsize(f, index) ==
  IF f.phoff = 0 \/ index >= f.phnum THEN NULL ELSE f.phoff + index * f.shentsize

Phent(f, index) ==
  IF f.phoff = 0 \/ index >= f.phnum THEN NULL ELSE f.phoff + index * f.phentsize

\* What is read of a header found at `offset`, if any.
Extent(offset, size) == IF offset = NULL THEN {} ELSE {<<offset, offset + size>>}

\* A name is read up to the NUL that ends the last one.
Name(f, index) == {<<f.strings.offset + f.names[index], f.strings.offset + f.strings.size>>}

\* The check of load_elf that fails first.
FirstFailure(f) ==
  IF "magic" \in f.bad THEN "magic"
  ELSE IF "class" \in f.bad THEN "class"
  ELSE IF "data" \in f.bad THEN "data"
  ELSE IF "version" \in f.bad THEN "version"
  ELSE "machine"

-----------------------------------------------------------------------------

\* load_elf is called.
Init ==
  /\ file \in Files
  /\ at = "header" /\ i = 0 /\ lowest = MaxAddr /\ loads = 0
  /\ message = "none" /\ reads = {}

Header == {<<0, EhdrSize>>}

Return(m) ==
  /\ at' = "returned"
  /\ message' = m

Reject ==
  /\ at = "header" /\ file.bad # {}
  /\ Return(FirstFailure(file))
  /\ reads' = Header
  /\ UNCHANGED <<file, i, lowest, loads>>

(***************************************************************************)
(* load_exec_elf up to its first loop: the section e_shstrndx is used      *)
(* before it is known to be a section.                                     *)
(***************************************************************************)
Exec ==
  /\ at = "header" /\ file.bad = {} /\ file.type = "exec"
  /\ reads' = Header \cup Extent(Shent(file, file.shstrndx), ShdrSize)
  /\ IF Shent(file, file.shstrndx) = NULL \/ file.shstrndx = SHN_UNDEF
     THEN Return("EXEC") /\ UNCHANGED i
     ELSE at' = "sections" /\ i' = 0 /\ message' = "EXEC"
  /\ UNCHANGED <<file, lowest, loads>>

\* Everything that is neither ET_EXEC nor ET_DYN, by the test of elf.c:146.
NotExec ==
  /\ at = "header" /\ file.bad = {} /\ file.type # "exec"
  /\ Return(IF file.type # "dyn" THEN "DYNAMIC" ELSE "not an executable")
  /\ reads' = Header
  /\ UNCHANGED <<file, i, lowest, loads>>

\* Mutant: the loop includes e_shnum, and its counter is no Half.
SectionsWide ==
  /\ at = "sections"
  /\ IF i <= file.shnum
     THEN /\ reads' = Extent(Shent(file, i), ShdrSize)
          /\ i' = i + 1
          /\ UNCHANGED <<at, lowest, loads>>
     ELSE /\ at' = "segments" /\ i' = 0 /\ reads' = {}
          /\ lowest' = MaxAddr /\ loads' = 0
  /\ UNCHANGED <<file, message>>

\* Mutant: the loop includes e_shnum, and a Half cannot exceed the largest.
SectionsIncluded ==
  /\ at = "sections"
  /\ IF i <= file.shnum
     THEN /\ reads' = Extent(Shent(file, i), ShdrSize)
          /\ i' = (i + 1) % HalfMod
          /\ UNCHANGED <<at, lowest, loads>>
     ELSE /\ at' = "segments" /\ i' = 0 /\ reads' = {}
          /\ lowest' = MaxAddr /\ loads' = 0
  /\ UNCHANGED <<file, message>>

\* One turn of the loop over the sections, or its end.
Sections ==
  /\ at = "sections"
  /\ IF i < file.shnum
     THEN /\ reads' = Extent(Shent(file, i), ShdrSize)
                        \cup (IF Shent(file, i) = NULL THEN {} ELSE Name(file, i))
          /\ i' = (i + 1) % HalfMod
          /\ UNCHANGED <<at, lowest, loads>>
     ELSE /\ at' = "segments" /\ i' = 0 /\ reads' = {}
          /\ lowest' = MaxAddr /\ loads' = 0
  /\ UNCHANGED <<file, message>>

Loads(f, index) == Phent(f, index) # NULL /\ f.segments[index].type = "LOAD"

\* Mutant: the lowest address is that of the last segment.
LowerLast(f, index) == f.segments[index].vaddr

Lower(f, index) ==
  IF f.segments[index].vaddr < lowest THEN f.segments[index].vaddr ELSE lowest

\* One turn of the loop over the segments, or the return.
Segments ==
  /\ at = "segments"
  /\ IF i < file.phnum
     THEN /\ reads' = Extent(Phent(file, i), PhdrSize)
          /\ loads' = IF Loads(file, i) THEN loads + 1 ELSE loads
          /\ lowest' = IF Loads(file, i) THEN Lower(file, i) ELSE lowest
          /\ i' = (i + 1) % HalfMod
          /\ UNCHANGED <<at, message>>
     ELSE /\ Return("LOADED") /\ reads' = {}
          /\ UNCHANGED <<i, lowest, loads>>
  /\ UNCHANGED file

Next == Reject \/ Exec \/ NotExec \/ Sections \/ Segments

\* The kernel executes the call it has begun.
Spec == Init /\ [][Next]_vars /\ WF_vars(Next)

-----------------------------------------------------------------------------

TypeOKElf ==
  /\ file \in Files
  /\ at \in {"header", "sections", "segments", "returned"}
  /\ i \in Half
  /\ lowest \in 0..MaxAddr /\ loads \in Nat

(***************************************************************************)
(* A file whose tables, and the names they refer to, lie inside it.  An    *)
(* executable from the linker is one; load_elf is not told the size.       *)
(***************************************************************************)
WellFormed(f) ==
  /\ EhdrSize <= f.size
  /\ f.shoff # 0 /\ f.shnum # 0 =>
       f.shentsize >= ShdrSize /\ f.shoff + f.shnum * f.shentsize <= f.size
  /\ f.phoff # 0 /\ f.phnum # 0 =>
       f.phentsize >= PhdrSize /\ f.phoff + f.phnum * f.phentsize <= f.size
  /\ f.strings.offset + f.strings.size <= f.size
  /\ \A j \in Half : f.names[j] < f.strings.size

(***************************************************************************)
(* Of a well-formed file, which is followed in memory by whatever the      *)
(* linker put there, nothing outside is read: the walks stop at the last   *)
(* entry of their tables and step by the size the header gives, though     *)
(* e_shstrndx is used before it is tested.                                 *)
(***************************************************************************)
ReadsStayInFile ==
  WellFormed(file) => \A r \in reads : 0 <= r[1] /\ r[2] <= file.size

SegmentsToLoad(f) ==
  IF f.phoff = 0 THEN {} ELSE {j \in 0..(f.phnum - 1) : f.segments[j].type = "LOAD"}

(***************************************************************************)
(* Behind the loops, lowest_virt_addr is the least address of a segment to *)
(* load and load_segments their number, which the loading to come (the     *)
(* TODO of elf.c:112) will place segments by.                              *)
(***************************************************************************)
SegmentsAreThoseToLoad ==
  message = "LOADED" =>
    /\ loads = Cardinality(SegmentsToLoad(file))
    /\ \A j \in SegmentsToLoad(file) : lowest <= file.segments[j].vaddr
    /\ lowest # MaxAddr => \E j \in SegmentsToLoad(file) : lowest = file.segments[j].vaddr

(***************************************************************************)
(* load_elf returns, though the counters of the loops have only 16 bits:   *)
(* the largest e_shnum and e_phnum are no exception.                       *)
(***************************************************************************)
LoadElfReturns == <>(at = "returned")

(***************************************************************************)
(* What elf.c:147 reports, "ELF is DYNAMIC", and elf.c:150, "ELF file is   *)
(* not an executable": a file is called dynamic if it is.                  *)
(***************************************************************************)
DynamicIsRecognised ==
  /\ message = "DYNAMIC" => file.type = "dyn"
  /\ message = "not an executable" => file.type # "dyn"
=============================================================================
