-------------------------------- MODULE Tetris --------------------------------
(***************************************************************************)
(* The Tetris game of tetris/src/tetris.cpp: the field, the falling piece, *)
(* the buttons and the drop timer.  A cell is <<x, y>> with y growing      *)
(* downwards; the field is the set of its filled cells (the colours, and   *)
(* the drawing, are left out).                                             *)
(*                                                                         *)
(* update() looks at the buttons in a fixed order and then at the clock.   *)
(* Each of these is a step here: every step is an update() in which the    *)
(* other buttons are not pressed, and every update() is a sequence of      *)
(* such steps.                                                             *)
(***************************************************************************)
EXTENDS Integers, FiniteSets

CONSTANTS
  Width, Height,  \* BOARD_WIDTH, BOARD_HEIGHT
  Types           \* the tetrominoes that are dealt

ASSUME SizeAssumption == Width \in Nat \ {0} /\ Height \in Nat \ {0}
ASSUME TypesAssumption ==
  Types # {} /\ Types \subseteq {"I", "J", "L", "O", "S", "T", "Z"}

VARIABLES
  field,  \* the filled cells of board
  piece,  \* currentPiece
  ended   \* how the game was lost when the last piece landed, or "no"

vars == <<field, piece, ended>>

Columns == 0..Width - 1
Rows == 0..Height - 1
Cells == Columns \X Rows

tetrominoes ==
  [I |-> {<<-2, 0>>, <<-1, 0>>, <<0, 0>>, <<1, 0>>},
   J |-> {<<-1, -1>>, <<-1, 0>>, <<0, 0>>, <<1, 0>>},
   L |-> {<<1, -1>>, <<-1, 0>>, <<0, 0>>, <<1, 0>>},
   O |-> {<<0, 0>>, <<1, 0>>, <<0, 1>>, <<1, 1>>},
   S |-> {<<0, 0>>, <<1, 0>>, <<-1, 1>>, <<0, 1>>},
   T |-> {<<-1, 0>>, <<0, 0>>, <<1, 0>>, <<0, 1>>},
   Z |-> {<<-1, 0>>, <<0, 0>>, <<0, 1>>, <<1, 1>>}]

Covered(p) == {<<p.x + b[1], p.y + b[2]>> : b \in p.blocks}

(* The borders alone *)
IsInside(p, f) == Covered(p) \subseteq Cells

(* Every block on the field and none on a filled cell *)
IsValidPosition(p, f) == Covered(p) \subseteq Cells \ f

Moved(p, dx, dy) == [p EXCEPT !.x = @ + dx, !.y = @ + dy]
RotatedCopy(p) ==
  IF p.type = "O" THEN p
  ELSE [p EXCEPT !.blocks = {<<b[2], -b[1]>> : b \in @}]

Full(f, y) == \A x \in Columns : <<x, y>> \in f

(* The rows above y moved down onto it, row 0 emptied *)
WithoutRow(f, y) ==
  {c \in f : c[2] > y} \union
  {<<c[1], c[2] + 1>> : c \in {d \in f : d[2] < y}}

ClearLine(f, y) == IF Full(f, y) THEN WithoutRow(f, y) ELSE f

(* Starting from the bottom, one row up after every row, full or not *)
ClearUpwards(f) ==
  LET clear[y \in -1..Height - 1] ==
        [g \in SUBSET Cells |->
           IF y < 0 THEN g ELSE clear[y - 1][ClearLine(g, y)]]
  IN  clear[Height - 1][f]

(* The rows are visited from the top; a full one is taken out before the   *)
(* next is looked at.  clear[y] is the loop from row y on.                 *)
ClearLines(f) ==
  LET clear[y \in 0..Height] ==
        [g \in SUBSET Cells |->
           IF y = Height THEN g ELSE clear[y + 1][ClearLine(g, y)]]
  IN  clear[0][f]

NewPiece(t) ==
  [type |-> t, blocks |-> tetrominoes[t], x |-> Width \div 2, y |-> 0]

resetBoard == {}

(* A new piece on field f; the field is emptied if it does not fit. *)
SpawnNewPiece(f) ==
  \E t \in Types :
    /\ piece' = NewPiece(t)
    /\ field' = IF IsValidPosition(NewPiece(t), f) THEN f ELSE resetBoard
    /\ ended' = IF IsValidPosition(NewPiece(t), f) THEN "no"
                ELSE IF IsInside(NewPiece(t), f) THEN "blocked" ELSE "outside"
-----------------------------------------------------------------------------
Init ==
  /\ field = resetBoard
  /\ piece \in {NewPiece(t) : t \in Types}
  /\ ended = "no"

(* A rotation that may push the piece up *)
RotateKick ==
  \E dy \in {-1, 0} :
    LET p == Moved(RotatedCopy(piece), 0, dy) IN
      /\ IsValidPosition(p, field)
      /\ piece' = p
      /\ UNCHANGED <<field, ended>>

(* rotatePiece *)
Rotate ==
  /\ IsValidPosition(RotatedCopy(piece), field)
  /\ piece' = RotatedCopy(piece)
  /\ UNCHANGED <<field, ended>>

(* movePiece(dx, 0) *)
Shift ==
  \E dx \in {-1, 1} :
    /\ IsValidPosition(Moved(piece, dx, 0), field)
    /\ piece' = Moved(piece, dx, 0)
    /\ UNCHANGED <<field, ended>>

(* movePiece(0, 1) where the piece can go down *)
Fall ==
  /\ IsValidPosition(Moved(piece, 0, 1), field)
  /\ piece' = Moved(piece, 0, 1)
  /\ UNCHANGED <<field, ended>>

(* The cells draw() paints: the field, and the piece where it is on it *)
Picture == field \union (Covered(piece) \intersect Cells)

Landed == field \union (Covered(piece) \intersect Cells)

(* movePiece(0, 1) where it cannot: fixPiece *)
FixPiece ==
  /\ ~IsValidPosition(Moved(piece, 0, 1), field)
  /\ SpawnNewPiece(ClearLines(Landed))

Drop == Fall \/ FixPiece

Next == Rotate \/ Shift \/ Drop

(* The drop timer: update() moves the piece down every half second. *)
Spec == Init /\ [][Next]_vars /\ WF_vars(Drop)
-----------------------------------------------------------------------------
(* The falling piece never leaves the field and never covers a filled      *)
(* cell, whatever was pressed and however the field was cleared; the only  *)
(* exception is a piece just spawned on a field that was emptied for it.   *)
NoOverlap ==
  \/ Covered(piece) \subseteq Cells \ field
  \/ field = {} /\ piece = NewPiece(piece.type)

(* What clearing means: the rows that are not full, in their order, at the *)
(* bottom of the field                                                     *)
Cleared(f) ==
  {<<c[1], c[2] + Cardinality({y \in Rows : y > c[2] /\ Full(f, y)})>> :
     c \in {d \in f : ~Full(f, d[2])}}

(* When a piece lands nothing is lost but full lines, and what was above   *)
(* them comes down by as many lines as vanished below it, unless the game  *)
(* is lost.                                                                *)
RowsComeDown ==
  [][FixPiece /\ ended' = "no" => field' = Cleared(Landed)]_vars

(* Every piece lands: no combination of buttons keeps it up for ever.      *)
EveryPieceLands == []<><<FixPiece>>_vars

(* The game ends when the new piece meets filled cells, and only then.     *)
EndsWhenBlocked == ended # "outside"
=============================================================================
