----------------------------- MODULE MCPageTable -----------------------------
(***************************************************************************)
(* Tables of two entries, so 8 virtual pages.  RAM is pages 8..21, its     *)
(* first four frames free, the rest of it kernel and blob, and the bitmap  *)
(* covers two frames more than RAM: tables run out of RAM and the bitmap   *)
(* fills up within a few calls.                                            *)
(***************************************************************************)
EXTENDS PageTable

MCBootFrames == 4..13
MCStale == [i \in 0..(Fanout - 1) |->
              [kind |-> IF i = 0 THEN "leaf" ELSE "table", ppn |-> 5]]
MCCallPpns == {4, 5}         \* a multiple of every size, and of none
=============================================================================
