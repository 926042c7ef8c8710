------------------------------ MODULE ElfProofs ------------------------------
(***************************************************************************)
(* The loader of Elf.tla for files of any size, with any number of         *)
(* sections and segments a Half can hold: its type invariant, that it      *)
(* reads nothing outside a well-formed file, and that the lowest address   *)
(* and the number of segments it finds are those of the segments to load.  *)
(***************************************************************************)
EXTENDS Elf, FiniteSetTheorems, TLAPS

\* The constants of a file's header, one by one.
LEMMA FileFields ==
  ASSUME NEW f \in Files
  PROVE  /\ f \in File
         /\ f.size \in Nat /\ f.phoff \in Nat /\ f.shoff \in Nat
         /\ f.phentsize \in Nat /\ f.shentsize \in Nat
         /\ f.phnum \in Half /\ f.shnum \in Half /\ f.shstrndx \in Half
         /\ f.strings.offset \in Nat /\ f.strings.size \in Nat
         /\ \A j \in Half : /\ f.names[j] \in Nat
                            /\ f.segments[j].vaddr \in 0..MaxAddr
<1>1. f \in File
  BY ElfAssumption
<1>2. /\ f.strings \in [offset : Nat, size : Nat]
      /\ f.names \in [Half -> Nat]
      /\ f.segments \in [Half -> [type : {"NULL", "LOAD", "OTHER"}, vaddr : 0..MaxAddr]]
  BY <1>1 DEF File
<1>3. \A j \in Half : f.names[j] \in Nat /\ f.segments[j].vaddr \in 0..MaxAddr
  BY <1>2
<1> QED
  BY <1>1, <1>2, <1>3 DEF File

\* Half holds 0 and the successor of everything below a number it holds.
LEMMA NextHalf ==
  ASSUME NEW num \in Half, NEW k \in Half, k < num
  PROVE  /\ (k + 1) % HalfMod = k + 1
         /\ k + 1 \in Half
<1>1. HalfMod \in Nat \ {0}
  BY ElfAssumption
<1>2. k + 1 \in Nat /\ k + 1 < HalfMod
  BY <1>1 DEF Half
<1> QED
  BY <1>1, <1>2 DEF Half

\* The type invariant holds of the initial state.
LEMMA InitType == Init => TypeOKElf
<1>1. 0 \in Half /\ MaxAddr \in 0..MaxAddr
  BY ElfAssumption DEF Half
<1> QED
  BY <1>1 DEF Init, TypeOKElf

\* Every step of the loader keeps the type invariant.
LEMMA NextType == TypeOKElf /\ [Next]_vars => TypeOKElf'
<1> SUFFICES ASSUME TypeOKElf, [Next]_vars PROVE TypeOKElf'
  OBVIOUS
<1>0. 0 \in Half /\ MaxAddr \in 0..MaxAddr /\ file.shnum \in Half /\ file.phnum \in Half
  BY ElfAssumption, FileFields DEF Half, TypeOKElf
<1>1. CASE Reject
  BY <1>1 DEF Reject, Return, TypeOKElf
<1>2. CASE Exec
  BY <1>0, <1>2 DEF Exec, Return, TypeOKElf
<1>3. CASE NotExec
  BY <1>3 DEF NotExec, Return, TypeOKElf
<1>4. CASE Sections
  <2>1. CASE i < file.shnum
    BY <1>0, <1>4, <2>1, NextHalf DEF Sections, TypeOKElf
  <2>2. CASE ~(i < file.shnum)
    BY <1>0, <1>4, <2>2 DEF Sections, TypeOKElf
  <2> QED
    BY <2>1, <2>2
<1>5. CASE Segments
  <2>1. CASE i < file.phnum
    <3>1. i' \in Half
      BY <1>0, <1>5, <2>1, NextHalf DEF Segments, TypeOKElf
    <3>2. file.segments[i].vaddr \in 0..MaxAddr
      BY FileFields DEF TypeOKElf
    <3>3. lowest' \in 0..MaxAddr
      BY <1>5, <2>1, <3>2 DEF Segments, Lower, TypeOKElf
    <3>4. loads' \in Nat
      BY <1>5, <2>1 DEF Segments, TypeOKElf
    <3> QED
      BY <1>5, <2>1, <3>1, <3>3, <3>4 DEF Segments, TypeOKElf
  <2>2. CASE ~(i < file.phnum)
    BY <1>5, <2>2 DEF Segments, Return, TypeOKElf
  <2> QED
    BY <2>1, <2>2
<1>6. CASE UNCHANGED vars
  BY <1>6 DEF vars, TypeOKElf
<1> QED
  BY <1>1, <1>2, <1>3, <1>4, <1>5, <1>6 DEF Next

(***************************************************************************)
(* The loop counters stay Halfs and the locals of load_exec_elf in range,  *)
(* for the largest tables too.                                             *)
(***************************************************************************)
THEOREM ElfTypeCorrect == Spec => []TypeOKElf
  BY InitType, NextType, PTL DEF Spec

-----------------------------------------------------------------------------

\* Entry k of a table that lies in a file lies in it as well.
LEMMA EntryInTable ==
  ASSUME NEW off \in Nat, NEW ent \in Nat, NEW num \in Nat, NEW size \in Nat,
         NEW end \in Nat, NEW k \in Nat,
         k < num, size <= ent, off + num * ent <= end
  PROVE  /\ 0 <= off + k * ent
         /\ off + k * ent + size <= end
<1>1. k * ent \in Nat
  OBVIOUS
<1>2. (k + 1) * ent = k * ent + ent
  OBVIOUS
<1>3. (k + 1) * ent <= num * ent
  <2>1. PICK d \in Nat : num = (k + 1) + d
    <3>1. num - (k + 1) \in Nat /\ num = (k + 1) + (num - (k + 1))
      OBVIOUS
    <3> QED
      BY <3>1
  <2>2. num * ent = (k + 1) * ent + d * ent
    BY <2>1
  <2>3. d * ent \in Nat
    OBVIOUS
  <2> QED
    BY <2>2, <2>3
<1> QED
  BY <1>1, <1>2, <1>3

\* What is read of the section header at an index below e_shnum, and of none.
LEMMA ShentInFile ==
  ASSUME NEW f \in Files, NEW k \in Half, WellFormed(f)
  PROVE  \A r \in Extent(Shent(f, k), ShdrSize) : 0 <= r[1] /\ r[2] <= f.size
<1>1. CASE Shent(f, k) = NULL
  BY <1>1 DEF Extent
<1>2. CASE Shent(f, k) # NULL
  <2>1. f.shoff # 0 /\ k < f.shnum /\ Shent(f, k) = f.shoff + k * f.shentsize
    BY <1>2, FileFields DEF Shent, Half
  <2>2. f.shentsize >= ShdrSize /\ f.shoff + f.shnum * f.shentsize <= f.size
    BY <2>1, FileFields DEF WellFormed, Half
  <2>3. /\ 0 <= f.shoff + k * f.shentsize
        /\ f.shoff + k * f.shentsize + ShdrSize <= f.size
    <3>1. /\ f.shoff \in Nat /\ f.shentsize \in Nat /\ f.shnum \in Nat
          /\ f.size \in Nat /\ k \in Nat /\ ShdrSize \in Nat
      BY FileFields, ElfAssumption DEF Half
    <3>2. ShdrSize <= f.shentsize
      BY <2>2, <3>1
    <3> HIDE DEF Shent, Phent, WellFormed
    <3> QED
      BY <2>1, <2>2, <3>1, <3>2, EntryInTable
  <2> QED
    BY <1>2, <2>1, <2>3 DEF Extent
<1> QED
  BY <1>1, <1>2

\* The same of a program header.
LEMMA PhentInFile ==
  ASSUME NEW f \in Files, NEW k \in Half, WellFormed(f)
  PROVE  \A r \in Extent(Phent(f, k), PhdrSize) : 0 <= r[1] /\ r[2] <= f.size
<1>1. CASE Phent(f, k) = NULL
  BY <1>1 DEF Extent
<1>2. CASE Phent(f, k) # NULL
  <2>1. f.phoff # 0 /\ k < f.phnum /\ Phent(f, k) = f.phoff + k * f.phentsize
    BY <1>2, FileFields DEF Phent, Half
  <2>2. f.phentsize >= PhdrSize /\ f.phoff + f.phnum * f.phentsize <= f.size
    BY <2>1, FileFields DEF WellFormed, Half
  <2>3. /\ 0 <= f.phoff + k * f.phentsize
        /\ f.phoff + k * f.phentsize + PhdrSize <= f.size
    <3>1. /\ f.phoff \in Nat /\ f.phentsize \in Nat /\ f.phnum \in Nat
          /\ f.size \in Nat /\ k \in Nat /\ PhdrSize \in Nat
      BY FileFields, ElfAssumption DEF Half
    <3>2. PhdrSize <= f.phentsize
      BY <2>2, <3>1
    <3> HIDE DEF Shent, Phent, WellFormed
    <3> QED
      BY <2>1, <2>2, <3>1, <3>2, EntryInTable
  <2> QED
    BY <1>2, <2>1, <2>3 DEF Extent
<1> QED
  BY <1>1, <1>2

\* A name and the ELF header of a well-formed file lie in it.
LEMMA NameInFile ==
  ASSUME NEW f \in Files, NEW k \in Half, WellFormed(f)
  PROVE  \A r \in Name(f, k) \cup Header : 0 <= r[1] /\ r[2] <= f.size
<1>1. f.names[k] \in Nat /\ f.strings.offset \in Nat /\ f.strings.size \in Nat
  BY FileFields
<1> QED
  BY <1>1, ElfAssumption DEF WellFormed, Name, Header

\* Every step of the loader reads inside a well-formed file.
LEMMA NextReads ==
  TypeOKElf /\ ReadsStayInFile /\ [Next]_vars => ReadsStayInFile'
<1> SUFFICES ASSUME TypeOKElf, ReadsStayInFile, [Next]_vars, WellFormed(file)'
             PROVE  \A r \in reads' : 0 <= r[1] /\ r[2] <= file'.size
  BY DEF ReadsStayInFile
<1>0. file' = file
  BY DEF Next, Reject, Exec, NotExec, Sections, Segments, vars
<1>1. WellFormed(file) /\ file \in Files /\ i \in Half /\ file.shstrndx \in Half
  BY <1>0, FileFields DEF TypeOKElf, WellFormed
<1>2. CASE Reject \/ NotExec
  BY <1>0, <1>1, <1>2, NameInFile DEF Reject, NotExec
<1>3. CASE Exec
  <2>1. reads' = Header \cup Extent(Shent(file, file.shstrndx), ShdrSize)
    BY <1>3 DEF Exec
  <2>2. \A r \in Header : 0 <= r[1] /\ r[2] <= file.size
    BY <1>1, NameInFile
  <2>3. \A r \in Extent(Shent(file, file.shstrndx), ShdrSize) : 0 <= r[1] /\ r[2] <= file.size
    BY <1>1, ShentInFile
  <2> QED
    BY <1>0, <2>1, <2>2, <2>3
<1>4. CASE Sections
  <2>1. reads' \subseteq Extent(Shent(file, i), ShdrSize) \cup Name(file, i)
    BY <1>4 DEF Sections
  <2>2. \A r \in Name(file, i) : 0 <= r[1] /\ r[2] <= file.size
    BY <1>1, NameInFile
  <2>3. \A r \in Extent(Shent(file, i), ShdrSize) : 0 <= r[1] /\ r[2] <= file.size
    BY <1>1, ShentInFile
  <2> QED
    BY <1>0, <2>1, <2>2, <2>3
<1>5. CASE Segments
  <2>1. reads' \subseteq Extent(Phent(file, i), PhdrSize)
    BY <1>5 DEF Segments
  <2>2. \A r \in Extent(Phent(file, i), PhdrSize) : 0 <= r[1] /\ r[2] <= file.size
    BY <1>1, PhentInFile
  <2> QED
    BY <1>0, <2>1, <2>2
<1>6. CASE UNCHANGED vars
  BY <1>0, <1>1, <1>6 DEF vars, ReadsStayInFile
<1> QED
  BY <1>2, <1>3, <1>4, <1>5, <1>6 DEF Next

(***************************************************************************)
(* However large its tables, load_elf reads nothing outside a well-formed  *)
(* file.                                                                   *)
(***************************************************************************)
THEOREM LoaderReadsTheFile == Spec => []ReadsStayInFile
<1>1. Init => ReadsStayInFile
  BY DEF Init, ReadsStayInFile
<1> QED
  BY <1>1, NextReads, ElfTypeCorrect, PTL DEF Spec

-----------------------------------------------------------------------------

\* The segments to load among the first n.
LoadsAmong(f, n) ==
  IF f.phoff = 0 THEN {} ELSE {j \in 0..(n - 1) : f.segments[j].type = "LOAD"}

\* What lowest and loads are of a set of segments of the file.
Describes(set) ==
  /\ loads = Cardinality(set)
  /\ \A j \in set : lowest <= file.segments[j].vaddr
  /\ lowest # MaxAddr => \E j \in set : lowest = file.segments[j].vaddr

(***************************************************************************)
(* The inductive invariant: in the loop over the segments, the locals      *)
(* describe those walked so far.                                           *)
(***************************************************************************)
SegmentsInv ==
  /\ at # "returned" => message # "LOADED"
  /\ at = "segments" => i <= file.phnum /\ Describes(LoadsAmong(file, i))
  /\ message = "LOADED" => Describes(LoadsAmong(file, file.phnum))

\* One more segment is one more element, or none.
LEMMA OneMoreSegment ==
  ASSUME NEW f \in Files, NEW k \in Nat, k \in Half, k < f.phnum
  PROVE  /\ IsFiniteSet(LoadsAmong(f, k)) /\ Cardinality(LoadsAmong(f, k)) \in Nat
         /\ k \notin LoadsAmong(f, k)
         /\ LoadsAmong(f, k) \subseteq Half
         /\ LoadsAmong(f, k + 1) =
              LoadsAmong(f, k) \cup (IF Loads(f, k) THEN {k} ELSE {})
<1>1. IsFiniteSet(LoadsAmong(f, k))
  <2>1. IsFiniteSet(0..(k - 1))
    BY FS_Interval
  <2>2. LoadsAmong(f, k) \subseteq 0..(k - 1)
    BY DEF LoadsAmong
  <2> QED
    BY <2>1, <2>2, FS_Subset
<1>2. Cardinality(LoadsAmong(f, k)) \in Nat
  BY <1>1, FS_CardinalityType
<1>3. k \notin LoadsAmong(f, k)
  BY DEF LoadsAmong
<1>4. LoadsAmong(f, k) \subseteq Half
  <2>1. HalfMod \in Nat
    BY ElfAssumption
  <2> QED
    BY <2>1 DEF LoadsAmong, Half
<1>5. Phent(f, k) = NULL <=> f.phoff = 0
  <2>1. /\ f.phoff \in Nat /\ f.phentsize \in Nat /\ f.phnum \in Nat
    BY FileFields DEF Half
  <2>2. k * f.phentsize \in Nat
    BY <2>1
  <2> QED
    BY <2>1, <2>2 DEF Phent, NULL
<1>6. ASSUME f.phoff # 0
      PROVE  LoadsAmong(f, k + 1) = LoadsAmong(f, k) \cup (IF Loads(f, k) THEN {k} ELSE {})
  <2>1. 0..((k + 1) - 1) = (0..(k - 1)) \cup {k}
    OBVIOUS
  <2>2. LoadsAmong(f, k + 1) = {j \in (0..(k - 1)) \cup {k} : f.segments[j].type = "LOAD"}
    BY <1>6, <2>1 DEF LoadsAmong
  <2>3. Loads(f, k) <=> f.segments[k].type = "LOAD"
    BY <1>5, <1>6 DEF Loads
  <2> QED
    BY <1>6, <2>2, <2>3 DEF LoadsAmong
<1>7. ASSUME f.phoff = 0
      PROVE  LoadsAmong(f, k + 1) = LoadsAmong(f, k) \cup (IF Loads(f, k) THEN {k} ELSE {})
  BY <1>5, <1>7 DEF LoadsAmong, Loads
<1> QED
  BY <1>1, <1>2, <1>3, <1>4, <1>6, <1>7

\* A turn of the loop over the segments keeps the description true.
LEMMA TurnDescribes ==
  ASSUME TypeOKElf, Segments, i < file.phnum, Describes(LoadsAmong(file, i))
  PROVE  Describes(LoadsAmong(file, i))'
<1> DEFINE seen == LoadsAmong(file, i)
           vaddr(j) == file.segments[j].vaddr
<1>1. i \in Half /\ i \in Nat /\ file \in Files /\ file.phnum \in Half
  BY FileFields DEF TypeOKElf, Half
<1>2. /\ IsFiniteSet(seen) /\ Cardinality(seen) \in Nat /\ i \notin seen
      /\ seen \subseteq Half
      /\ LoadsAmong(file, i + 1) = seen \cup (IF Loads(file, i) THEN {i} ELSE {})
  BY <1>1, OneMoreSegment
<1>3. /\ file' = file /\ i' = i + 1
      /\ loads' = IF Loads(file, i) THEN loads + 1 ELSE loads
      /\ lowest' = IF Loads(file, i) THEN Lower(file, i) ELSE lowest
  <2>1. /\ file' = file /\ i' = (i + 1) % HalfMod
        /\ loads' = IF Loads(file, i) THEN loads + 1 ELSE loads
        /\ lowest' = IF Loads(file, i) THEN Lower(file, i) ELSE lowest
    BY DEF Segments
  <2>2. (i + 1) % HalfMod = i + 1
    BY <1>1, NextHalf
  <2> QED
    BY <2>1, <2>2
<1>4. \A j \in seen \cup {i} : vaddr(j) \in Nat
  <2>1. \A j \in Half : file.segments[j].vaddr \in 0..MaxAddr
    BY <1>1, FileFields
  <2>2. \A j \in Half : vaddr(j) \in Nat
    BY <2>1
  <2>3. seen \cup {i} \subseteq Half
    BY <1>1, <1>2
  <2> HIDE DEF seen, vaddr
  <2> QED
    BY <2>2, <2>3
<1>5. lowest \in Nat /\ lowest <= MaxAddr /\ MaxAddr \in Nat /\ vaddr(i) <= MaxAddr
  BY <1>1, FileFields, ElfAssumption DEF TypeOKElf
<1>6. /\ loads = Cardinality(seen)
      /\ \A j \in seen : lowest <= vaddr(j)
      /\ lowest # MaxAddr => \E j \in seen : lowest = vaddr(j)
  BY DEF Describes
<1>7. CASE Loads(file, i)
  <2>1. LoadsAmong(file, i + 1) = seen \cup {i}
    BY <1>2, <1>7
  <2>2. Cardinality(seen \cup {i}) = Cardinality(seen) + 1
    BY <1>2, FS_AddElement
  <2>3. loads' = Cardinality(seen \cup {i})
    BY <1>3, <1>6, <1>7, <2>2
  <2>4. lowest' = IF vaddr(i) < lowest THEN vaddr(i) ELSE lowest
    BY <1>3, <1>7 DEF Lower
  <2>5. \A j \in seen \cup {i} : lowest' <= vaddr(j)
    BY <1>4, <1>5, <1>6, <2>4
  <2>6. lowest' # MaxAddr => \E j \in seen \cup {i} : lowest' = vaddr(j)
    BY <1>6, <2>4
  <2>7. LoadsAmong(file, i)' = seen \cup {i}
    BY <1>3, <2>1 DEF LoadsAmong
  <2> QED
    BY <2>3, <2>5, <2>6, <2>7, <1>3 DEF Describes
<1>8. CASE ~Loads(file, i)
  <2>1. LoadsAmong(file, i + 1) = seen /\ loads' = loads /\ lowest' = lowest
    BY <1>2, <1>3, <1>8
  <2>2. LoadsAmong(file, i)' = seen
    BY <1>3, <2>1 DEF LoadsAmong
  <2> QED
    BY <1>3, <1>6, <2>1, <2>2 DEF Describes
<1> QED
  BY <1>7, <1>8

\* Every step keeps the inductive invariant.
LEMMA NextSegments == TypeOKElf /\ SegmentsInv /\ [Next]_vars => SegmentsInv'
<1> SUFFICES ASSUME TypeOKElf, SegmentsInv, [Next]_vars PROVE SegmentsInv'
  OBVIOUS
<1>0. file.phnum \in Half /\ file.phnum \in Nat /\ i \in Nat /\ file \in Files
  BY FileFields DEF TypeOKElf, Half
<1>1. CASE Reject
  <2>1. FirstFailure(file) # "LOADED"
    BY DEF FirstFailure
  <2> QED
    BY <1>1, <2>1 DEF Reject, Return, SegmentsInv
<1>2. CASE Exec
  BY <1>2 DEF Exec, Return, SegmentsInv
<1>3. CASE NotExec
  BY <1>3 DEF NotExec, Return, SegmentsInv
<1>4. CASE Sections
  <2>1. CASE i < file.shnum
    BY <1>4, <2>1 DEF Sections, SegmentsInv
  <2>2. CASE ~(i < file.shnum)
    <3>1. LoadsAmong(file, 0) = {}
      BY DEF LoadsAmong
    <3>2. Cardinality({}) = 0
      BY FS_EmptySet
    <3>3. file' = file /\ i' = 0 /\ loads' = 0 /\ lowest' = MaxAddr
          /\ message' = message /\ at' = "segments" /\ at = "sections"
      BY <1>4, <2>2 DEF Sections
    <3>4. LoadsAmong(file, i)' = {}
      BY <3>1, <3>3 DEF LoadsAmong
    <3>5. Describes(LoadsAmong(file, i))'
      BY <3>2, <3>3, <3>4 DEF Describes
    <3> QED
      BY <1>0, <3>3, <3>5 DEF SegmentsInv
  <2> QED
    BY <2>1, <2>2
<1>5. CASE Segments
  <2>1. at = "segments" /\ file' = file
    BY <1>5 DEF Segments
  <2>2. CASE i < file.phnum
    <3>1. at' = at /\ message' = message /\ i' = i + 1
      BY <1>0, <1>5, <2>2, NextHalf DEF Segments, TypeOKElf
    <3>2. Describes(LoadsAmong(file, i))'
      BY <1>5, <2>1, <2>2, TurnDescribes DEF SegmentsInv
    <3> QED
      BY <1>0, <2>1, <2>2, <3>1, <3>2 DEF SegmentsInv
  <2>3. CASE ~(i < file.phnum)
    <3>1. i = file.phnum /\ Describes(LoadsAmong(file, file.phnum))
      BY <1>0, <2>1, <2>3 DEF SegmentsInv
    <3>2. lowest' = lowest /\ loads' = loads /\ at' = "returned"
      BY <1>5, <2>3 DEF Segments, Return
    <3>3. Describes(LoadsAmong(file, file.phnum))'
      BY <2>1, <3>1, <3>2 DEF Describes, LoadsAmong
    <3> QED
      BY <3>2, <3>3 DEF SegmentsInv
  <2> QED
    BY <2>2, <2>3
<1>6. CASE UNCHANGED vars
  BY <1>6 DEF vars, SegmentsInv, Describes, LoadsAmong
<1> QED
  BY <1>1, <1>2, <1>3, <1>4, <1>5, <1>6 DEF Next

(***************************************************************************)
(* Behind its loops load_exec_elf holds the number of the segments to load *)
(* and the least of their addresses, whatever the program headers are.     *)
(***************************************************************************)
THEOREM LoaderFindsItsSegments == Spec => []SegmentsAreThoseToLoad
<1>1. Init => SegmentsInv
  BY DEF Init, SegmentsInv
<1>2. SegmentsInv => SegmentsAreThoseToLoad
  BY DEF SegmentsInv, SegmentsAreThoseToLoad, Describes, LoadsAmong, SegmentsToLoad
<1> QED
  BY <1>1, <1>2, NextSegments, ElfTypeCorrect, PTL DEF Spec
=============================================================================
