------------------------------ MODULE TetrisPair ------------------------------
(***************************************************************************)
(* The two implementations of the game side by side.  Each looks at the    *)
(* buttons and the clock of its own accord, and they do not read button A  *)
(* alike: tetris.cpp turns the piece once for a press and drops it while A *)
(* is held for long, tetris.py turns it at every look at a pressed A.  The *)
(* history variable together tells whether so far both have done the same  *)
(* things: seen every press of A once and let go before the next look,     *)
(* seen the other buttons and the clock alike, and been dealt the same     *)
(* pieces.  From the first difference on they are two different games, of  *)
(* which only that of tetris.cpp is followed.                              *)
(***************************************************************************)
EXTENDS Tetris, Sequences

VARIABLES
  board,          \* of TetrisPy
  current_piece,  \* of TetrisPy
  aDown,          \* was button A down at the last look?
  together        \* have the games made the same calls so far?

Letters == <<"I", "J", "L", "O", "S", "T", "Z">>

Py == INSTANCE TetrisPy WITH
        BoardWidth <- Width, BoardHeight <- Height,
        Indices <- {i \in 0..6 : Letters[i + 1] \in Types}

pyVars == <<board, current_piece>>
pairVars == <<field, piece, ended, board, current_piece, aDown, together>>

SameType == Letters[current_piece.type + 1] = piece.type

(* A is found down and was not: wasPressed() holds and button_a is low, so *)
(* rotatePiece and rotate_piece are called.                                *)
PressA ==
  /\ together /\ ~aDown
  /\ \/ Rotate
     \/ ~IsValidPosition(RotatedCopy(piece), field) /\ UNCHANGED vars
  /\ Py!rotate_piece
  /\ aDown' = TRUE
  /\ UNCHANGED together

(* A is found let go. *)
ReleaseA ==
  /\ together /\ aDown
  /\ aDown' = FALSE
  /\ UNCHANGED <<vars, pyVars, together>>

(* A is found down again: only rotate_piece is called. *)
HoldA ==
  /\ together /\ aDown
  /\ Py!rotate_piece
  /\ together' = FALSE
  /\ UNCHANGED <<vars, aDown>>

(* pressedFor(300) holds: movePiece(0, 1), and nothing in Python *)
LongPressA ==
  /\ together /\ aDown
  /\ Drop
  /\ together' = FALSE
  /\ UNCHANGED <<pyVars, aDown>>

(* Button B or C: movePiece(dx, 0) and move_piece(dx, 0) *)
PressShift ==
  /\ together
  /\ \E dx \in {-1, 1} :
       /\ \/ Shift /\ piece'.x = piece.x + dx
          \/ ~IsValidPosition(Moved(piece, dx, 0), field) /\ UNCHANGED vars
       /\ Py!move_piece(dx, 0)
  /\ UNCHANGED <<aDown, together>>

(* The clock: movePiece(0, 1) and move_piece(0, 1).  Each game draws the   *)
(* next piece with a generator of its own.                                 *)
BothTick ==
  /\ together
  /\ Drop
  /\ Py!move_piece(0, 1)
  /\ together' = SameType'
  /\ UNCHANGED aDown

(* A short press, or the clock, at a moment when one game looks and the    *)
(* other sleeps                                                            *)
SeenByOne ==
  /\ together
  /\ \/ Next /\ UNCHANGED pyVars
     \/ UNCHANGED vars /\ Py!PyNext
  /\ together' = FALSE
  /\ UNCHANGED aDown

(* The games have parted: tetris.cpp goes on; neither the other game nor   *)
(* the button is followed.                                                 *)
Alone(step) ==
  /\ ~together
  /\ step
  /\ board' = Py!EmptyBoard /\ current_piece' = Py!TetrisPiece(0)
  /\ aDown' = FALSE
  /\ UNCHANGED together

(* A may be held when the games start. *)
PairInit == Init /\ Py!PyInit /\ aDown \in BOOLEAN /\ together = SameType

PairNext ==
  \/ PressA \/ ReleaseA \/ HoldA \/ LongPressA \/ PressShift
  \/ BothTick \/ SeenByOne \/ Alone(Next)

(* The drop timer of tetris.cpp, whether or not the games are together *)
PairSpec ==
  /\ PairInit /\ [][PairNext]_pairVars
  /\ WF_pairVars(BothTick \/ Alone(Drop))
-----------------------------------------------------------------------------
(* As long as every press of A is let go before the next look and both     *)
(* see the same buttons, the same clock and the same pieces, the two games *)
(* are the same game: they hold the same piece in the same place and their *)
(* players see the same cells filled, although one clears lines from the   *)
(* top in place and the other from the bottom by deleting rows of a list.  *)
SameGame ==
  together =>
    /\ SameType
    /\ piece.x = current_piece.x /\ piece.y = current_piece.y
    /\ Covered(piece) = Py!BlocksOf(current_piece)
    /\ field = {c \in Cells : board[c[2]][c[1]]}
    /\ Picture = Py!PyPicture
=============================================================================
