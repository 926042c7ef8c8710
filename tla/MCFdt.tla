------------------------------- MODULE MCFdt --------------------------------
(***************************************************************************)
(* Blobs of up to four nodes, three levels and two slots.  The values of   *)
(* `reg` hold addresses of zero, sizes of zero, and an empty region; read  *)
(* without sizes, the second one is longer than the slots.                 *)
(***************************************************************************)
EXTENDS Fdt

MCRegValues == { <<0, 1, 0, 0>>, <<0, 0, 0, 2, 0, 1, 0, 3>> }
MCBeyond == { <<0, 0, 0, 3, 0, 0, 0, 2, 0, 0, 0, 2, 0, 0, 0, 9>> }
=============================================================================
