--------------------------- MODULE TerminalRegion ---------------------------
(***************************************************************************)
(* Where `keyhold status --watch` draws: the rows it reserves below prior  *)
(* output and how they follow the size of the terminal (the row arithmetic *)
(* of src/watch_terminal.rs).  Rows count from 0.  What was on the rows,   *)
(* and how a terminal reflows it, is the terminal's business: the cursor   *)
(* rows it reports are parameters.                                         *)
(***************************************************************************)
EXTENDS Integers

CONSTANT RegionRows     \* REGION_ROWS

ASSUME TerminalRegionAssumption == RegionRows \in Nat \ {0}

Sizes == [width : Nat, height : Nat]

(* "width" and "height" are the size the code believes in; "placed" is a   *)
(* history field, the size that "top" and "rows" were computed for.        *)
Regions ==
    [ top : Nat, rows : 0 .. RegionRows, width : Nat, height : Nat,
      placed : Sizes ]

NoRegion ==
    [ top |-> 0, rows |-> 0, width |-> 0, height |-> 0,
      placed |-> [width |-> 0, height |-> 0] ]

Least(a, b) == IF a <= b THEN a ELSE b

SubSaturating(a, b) == IF b <= a THEN a - b ELSE 0

Place(top, rows, size) ==
    [ top |-> top, rows |-> rows,
      width |-> size.width, height |-> size.height, placed |-> size ]

TooSmall(size) == size.width < 2 \/ size.height = 0

(* Mutant: the line feeds are forgotten. *)
ReserveAtCursor(size, cursor) ==
    LET rows == Least(RegionRows, size.height)
    IN  Place(Least(cursor, size.height - 1) + 1 - rows, rows, size)

(* acquire: line feeds from the cursor's row make room for the region.     *)
Reserve(size, cursor) ==
    LET rows   == Least(RegionRows, size.height)
        bottom == Least(cursor + (rows - 1), size.height - 1)
    IN  Place(bottom + 1 - rows, rows, size)

(* resize, with the row the terminal reports for the cursor, which was     *)
(* left at the end of the region; then reserve_to for what is missing.     *)
Shrink(region, size, bottom) ==
    Least(Least(region.rows, size.height), bottom + 1)

(* Mutant: expansion assumes that there is room below. *)
ExpandBelow(size, bottom, rows) ==
    LET wanted == Least(RegionRows, size.height)
    IN  IF wanted > rows
          THEN Place(SubSaturating(bottom + 1, rows), wanted, size)
          ELSE Place(SubSaturating(bottom + 1, rows), rows, size)

Expand(size, bottom, rows) ==
    LET wanted  == Least(RegionRows, size.height)
        lowered == Least(bottom + (wanted - rows), size.height - 1)
    IN  IF wanted > rows
          THEN Place(SubSaturating(lowered + 1, wanted), wanted, size)
          ELSE Place(SubSaturating(bottom + 1, rows), rows, size)

Resize(region, size, cursor) ==
    LET bottom == Least(cursor, size.height - 1)
    IN  IF size.height = 0
          THEN Place(region.top, 0, size)
          ELSE Expand(size, bottom, Shrink(region, size, bottom))

SameSize(region, size) ==
    region.width = size.width /\ region.height = size.height

(* The cursor query of resize failed: only the height has been noted.      *)
HeightNoted(region, size) == [region EXCEPT !.height = size.height]

(***************************************************************************)
(* The region lies within the terminal it was computed for and is as large *)
(* as that terminal allows, so that the last row, which keeps the quit     *)
(* instructions, is one the user sees.                                     *)
(***************************************************************************)
Fits(region) ==
    /\ region.rows = Least(RegionRows, region.placed.height)
    /\ region.rows = 0 \/ region.top + region.rows <= region.placed.height
=============================================================================
