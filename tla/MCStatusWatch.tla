--------------------------- MODULE MCStatusWatch ---------------------------
(* Terminal sizes for TLC.                                                 *)
EXTENDS StatusWatch

Size(width, height) == [width |-> width, height |-> height]

(* A window with room to spare, one too low for the region, and none at    *)
(* all; changes of the height alone and of both.                           *)
MCWindowSizes == {Size(80, 3), Size(80, 1), Size(40, 0)}
=============================================================================
