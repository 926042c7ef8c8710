-------------------------------- MODULE MCElf --------------------------------
(***************************************************************************)
(* Files with up to HalfMod - 1 = 3 sections and segments, the largest     *)
(* numbers a Half holds: section headers of three bytes behind a header of *)
(* four, then the names, then program headers of two bytes.  The tables    *)
(* may be missing (offset 0), and the file may be cut short.               *)
(***************************************************************************)
EXTENDS Elf

Segment == [type : {"NULL", "LOAD", "OTHER"}, vaddr : {1, 2}]

MakeFile(bad, type, cut, phoff, phnum, shoff, shnum, shstrndx, segments) ==
  [bad |-> bad, type |-> type, size |-> 23 - cut,
   phoff |-> phoff, phentsize |-> 2, phnum |-> phnum,
   shoff |-> shoff, shentsize |-> 3, shnum |-> shnum, shstrndx |-> shstrndx,
   strings |-> [offset |-> 13, size |-> 4], names |-> [j \in Half |-> j],
   segments |-> segments]

Same(segment) == [j \in Half |-> segment]

MCFiles ==
  {MakeFile(bad, type, 0, 17, 1, 4, 2, 1, Same([type |-> "LOAD", vaddr |-> 1])) :
     bad \in {{}, {"magic", "machine"}, {"class", "data"}, {"data"}, {"version"}, {"machine"}},
     type \in {"rel", "exec", "dyn", "core"}}
  \cup
  {MakeFile({}, "exec", cut, phoff, phnum, shoff, shnum, shstrndx,
            Same([type |-> "LOAD", vaddr |-> 2])) :
     cut \in {0, 5}, phoff \in {0, 17}, phnum \in Half, shoff \in {0, 4},
     shnum \in Half, shstrndx \in Half}
  \cup
  {MakeFile({}, "exec", 0, 17, 3, 4, 2, 1,
            [j \in Half |-> IF j = 3 THEN a ELSE segments[j]]) :
     a \in {[type |-> "NULL", vaddr |-> 1]}, segments \in [0..2 -> Segment]}
=============================================================================
