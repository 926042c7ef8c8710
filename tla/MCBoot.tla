------------------------------- MODULE MCBoot -------------------------------
(***************************************************************************)
(* Tables of four entries, so 64 virtual pages.  RAM is pages 8..23: the   *)
(* kernel image in 8..10, page 11 free as in the real layout (it becomes   *)
(* the root table), the blob in 23.  The high half starts at page 32; the  *)
(* kernel is mapped at 32..34 and the window covers 48..63.                *)
(***************************************************************************)
EXTENDS Boot

MCBootFrames == {0, 1, 2, 15}
MCStale == [e \in 0..(Fanout - 1) |-> [kind |-> "leaf", ppn |-> 5]]

Region(first, bytes) == [address |-> first * 4096, size |-> bytes]
EmptySlot == [address |-> 0, size |-> 0]
UartRegion == Region(4, 256)
ClintRegion == Region(6, 4096)

MCLocations ==
  { <<UartRegion, ClintRegion>>,
    <<ClintRegion, EmptySlot, UartRegion,     \* an unused slot between; and
      Region(12, 1)>>,                        \* the last free frame is used
    <<Region(4, 4096 + 1), Region(5, 4096),   \* overlapping regions
      UartRegion, ClintRegion>>,
    <<UartRegion>>,                           \* no CLINT
    <<UartRegion, ClintRegion, Region(24, 1)>> }  \* more tables than frames

Word(pointer, value) == [pointer |-> pointer, linked |-> value, value |-> value]

MCRodata ==
  { <<Word(TRUE, 8), Word(TRUE, 8), Word(FALSE, 3)>>,
    <<Word(TRUE, 8), Word(FALSE, 24), Word(FALSE, 9)>>,
    <<Word(FALSE, 3), Word(TRUE, 8)>>,        \* data before the pointers
    <<Word(TRUE, 8), Word(FALSE, 9)>> }       \* data that looks like one

\* An address of the image in the other registers, or none.
MCLeftovers == { [moved |-> 10, shifted |-> 9], [moved |-> 3, shifted |-> 3] }
=============================================================================
