------------------------------- MODULE TetrisPy -------------------------------
(***************************************************************************)
(* The same game in Python, tetris/src/tetris.py: a list of rows, each a   *)
(* list of cells, of which only "filled or not" is kept here.  Lists are   *)
(* indexed from 0 as in the source.                                        *)
(***************************************************************************)
EXTENDS Integers, Sequences

CONSTANTS
  BoardWidth, BoardHeight,  \* BOARD_WIDTH, BOARD_HEIGHT
  Indices                   \* the indices of TETROMINOES that are dealt

VARIABLES
  board,         \* self.board: row y, column x, filled or not
  current_piece  \* self.current_piece

pyVars == <<board, current_piece>>

(* In the order I, J, L, O, S, T, Z *)
TETROMINOES ==
  <<<<<<-2, 0>>, <<-1, 0>>, <<0, 0>>, <<1, 0>>>>,
    <<<<-1, -1>>, <<-1, 0>>, <<0, 0>>, <<1, 0>>>>,
    <<<<1, -1>>, <<-1, 0>>, <<0, 0>>, <<1, 0>>>>,
    <<<<0, 0>>, <<1, 0>>, <<0, 1>>, <<1, 1>>>>,
    <<<<0, 0>>, <<1, 0>>, <<-1, 1>>, <<0, 1>>>>,
    <<<<-1, 0>>, <<0, 0>>, <<1, 0>>, <<0, 1>>>>,
    <<<<-1, 0>>, <<0, 0>>, <<0, 1>>, <<1, 1>>>>>>

EmptyRow == [x \in 0..BoardWidth - 1 |-> FALSE]
EmptyBoard == [y \in 0..BoardHeight - 1 |-> EmptyRow]

TetrisPiece(index) ==
  [type |-> index, blocks |-> TETROMINOES[index + 1],
   x |-> BoardWidth \div 2, y |-> 0]

rotated_copy(p) ==
  IF p.type = 3 THEN p
  ELSE [p EXCEPT !.blocks = [i \in DOMAIN p.blocks |->
                               <<p.blocks[i][2], -p.blocks[i][1]>>]]

BlocksOf(p) ==
  {<<p.x + p.blocks[i][1], p.y + p.blocks[i][2]>> : i \in DOMAIN p.blocks}

OnBoard(c) == c[1] \in 0..BoardWidth - 1 /\ c[2] \in 0..BoardHeight - 1

is_valid_position(p, b) ==
  \A c \in BlocksOf(p) : OnBoard(c) /\ ~b[c[2]][c[1]]

(* del board[y] and board.insert(0, ...): the rows above y move down. *)
RowDeleted(b, y) ==
  [r \in DOMAIN b |-> IF r = 0 THEN EmptyRow
                      ELSE IF r <= y THEN b[r - 1] ELSE b[r]]

IsFullRow(b, y) == \A x \in 0..BoardWidth - 1 : b[y][x]

Boards == [0..BoardHeight - 1 -> [0..BoardWidth - 1 -> BOOLEAN]]

(* The loop: where it is and what it has made of the rows *)
Loops == [y : -1..BoardHeight - 1, rows : Boards]

(* From the bottom to the top, one row up after every row, full or not *)
clear_lines_once(b) ==
  LET while[s \in Loops] ==
        IF s.y < 0 THEN s.rows
        ELSE while[[y |-> s.y - 1,
                    rows |-> IF IsFullRow(s.rows, s.y)
                             THEN RowDeleted(s.rows, s.y) ELSE s.rows]]
  IN  while[[y |-> BoardHeight - 1, rows |-> b]]

(* From the bottom to the top; after a deletion the same row is looked at  *)
(* again.                                                                  *)
clear_lines(b) ==
  LET while[s \in Loops] ==
        IF s.y < 0 THEN s.rows
        ELSE IF IsFullRow(s.rows, s.y)
        THEN while[[s EXCEPT !.rows = RowDeleted(@, s.y)]]
        ELSE while[[s EXCEPT !.y = @ - 1]]
  IN  while[[y |-> BoardHeight - 1, rows |-> b]]

spawn_new_piece(b) ==
  \E index \in Indices :
    /\ current_piece' = TetrisPiece(index)
    /\ board' = IF is_valid_position(TetrisPiece(index), b) THEN b ELSE EmptyBoard

fix_piece ==
  LET fixed == [y \in DOMAIN board |-> [x \in DOMAIN board[y] |->
                  board[y][x] \/ <<x, y>> \in BlocksOf(current_piece)]]
  IN  spawn_new_piece(clear_lines(fixed))

move_piece(dx, dy) ==
  LET new_piece == [current_piece EXCEPT !.x = @ + dx, !.y = @ + dy]
  IN  \/ /\ is_valid_position(new_piece, board)
         /\ current_piece' = new_piece
         /\ UNCHANGED board
      \/ /\ ~is_valid_position(new_piece, board)
         /\ dy = 1
         /\ fix_piece
      \/ /\ ~is_valid_position(new_piece, board)
         /\ dy # 1
         /\ UNCHANGED pyVars

rotate_piece ==
  /\ current_piece' = IF is_valid_position(rotated_copy(current_piece), board)
                      THEN rotated_copy(current_piece) ELSE current_piece
  /\ UNCHANGED board

PyInit ==
  /\ board = EmptyBoard
  /\ current_piece \in {TetrisPiece(index) : index \in Indices}

(* One look at a button or at the clock *)
PyNext ==
  \/ rotate_piece
  \/ \E dx \in {-1, 1} : move_piece(dx, 0)
  \/ move_piece(0, 1)

(* The cells draw() paints *)
PyPicture ==
  {c \in (0..BoardWidth - 1) \X (0..BoardHeight - 1) :
     board[c[2]][c[1]] \/ c \in BlocksOf(current_piece)}
=============================================================================
