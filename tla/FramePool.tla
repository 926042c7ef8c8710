------------------------------ MODULE FramePool ------------------------------
(***************************************************************************)
(* What the kernel relies on the frame allocator for: a pool of frames of  *)
(* which each is available, taken by one caller, or neither (reserved at   *)
(* boot, or lost).  A frame is only ever taken out of the available ones,  *)
(* so no frame has two owners.  A frame that is given back may become      *)
(* available again or be lost, but it never stays with its old owner.      *)
(***************************************************************************)
VARIABLES avail, taken

Init == taken = {}

Take(f) ==
  /\ f \in avail
  /\ avail' = avail \ {f}
  /\ taken' = taken \cup {f}

GiveBack(f) ==
  /\ f \in taken
  /\ taken' = taken \ {f}
  /\ avail' \in {avail, avail \cup {f}}

Next ==
  \/ \E f \in avail : Take(f)
  \/ \E f \in taken : GiveBack(f)

Spec == Init /\ [][Next]_<<avail, taken>>
=============================================================================
