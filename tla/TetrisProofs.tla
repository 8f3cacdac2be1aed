----------------------------- MODULE TetrisProofs -----------------------------
(***************************************************************************)
(* The falling piece and the field of Tetris, and that its two             *)
(* implementations are the same game until a button, the clock or the deal *)
(* parts them, for every size of the field and every set of tetrominoes.   *)
(* That the piece never overlaps holds whatever *)
(* clearLines leaves; that the rows come down is about nothing else.  Its  *)
(* loop is followed row by row: Visited(f, y) is the field when row y is   *)
(* looked at, and one round leads from there to Visited(f, y + 1).  The    *)
(* loop of clear_lines goes up from the bottom and looks at a row again    *)
(* when one was deleted: Settling(f, s, y) is what it has made of the      *)
(* field f when row y holds what was row s.  With ClearLinesClears both    *)
(* loops leave Cleared(f); the rest is that a piece, a place and a picture *)
(* are the same on both sides.                                             *)
(***************************************************************************)
EXTENDS TetrisPair, SetInduction

(* A new piece lies on free cells of the field, or the field was emptied.  *)
LEMMA SpawnedFits ==
  ASSUME NEW f, SpawnNewPiece(f)
  PROVE  NoOverlap'
<1>1. PICK t \in Types :
        /\ piece' = NewPiece(t)
        /\ field' = IF IsValidPosition(NewPiece(t), f) THEN f ELSE resetBoard
  BY DEF SpawnNewPiece
<1>2. CASE IsValidPosition(NewPiece(t), f)
  BY <1>1, <1>2 DEF NoOverlap, IsValidPosition, Covered, Cells, Columns, Rows
<1>3. CASE ~IsValidPosition(NewPiece(t), f)
  <2>1. piece'.type = t
    BY <1>1 DEF NewPiece
  <2> QED
    BY <1>1, <1>3, <2>1 DEF NoOverlap, NewPiece, tetrominoes, resetBoard
<1> QED
  BY <1>2, <1>3

(* A piece that is moved or turned has passed isValidPosition.             *)
LEMMA ValidFits ==
  ASSUME NEW p, IsValidPosition(p, field), piece' = p, field' = field
  PROVE  NoOverlap'
  BY DEF NoOverlap, IsValidPosition, Covered, Cells, Columns, Rows

(* Whatever is pressed, and however the field was cleared, the falling     *)
(* piece covers free cells of the field alone (NoOverlap), or it has just  *)
(* been dealt onto a field that was emptied for it.                        *)
THEOREM PieceNeverOverlaps == Spec => []NoOverlap
<1>1. Init => NoOverlap
  <2> SUFFICES ASSUME Init PROVE NoOverlap
    OBVIOUS
  <2>1. PICK t \in Types : piece = NewPiece(t)
    BY DEF Init
  <2>2. piece.type = t
    BY <2>1 DEF NewPiece
  <2> QED
    BY <2>1, <2>2 DEF Init, NoOverlap, resetBoard
<1>2. NoOverlap /\ [Next]_vars => NoOverlap'
  <2> SUFFICES ASSUME NoOverlap, [Next]_vars PROVE NoOverlap'
    OBVIOUS
  <2>1. CASE Rotate
    BY <2>1, ValidFits DEF Rotate
  <2>2. CASE Shift
    <3>1. PICK dx \in {-1, 1} :
            /\ IsValidPosition(Moved(piece, dx, 0), field)
            /\ piece' = Moved(piece, dx, 0) /\ field' = field
      BY <2>2 DEF Shift
    <3> QED
      BY <3>1, ValidFits
  <2>3. CASE Fall
    BY <2>3, ValidFits DEF Fall
  <2>4. CASE FixPiece
    BY <2>4, SpawnedFits DEF FixPiece
  <2>5. CASE UNCHANGED vars
    BY <2>5 DEF vars, NoOverlap, Covered, Cells, Columns, Rows, NewPiece,
                tetrominoes
  <2> QED
    BY <2>1, <2>2, <2>3, <2>4, <2>5 DEF Next, Drop
<1> QED
  BY <1>1, <1>2, PTL DEF Spec
-----------------------------------------------------------------------------
(* Full lines strictly between two rows *)
Between(f, a, b) ==
  Cardinality({z \in Rows : a < z /\ z < b /\ Full(f, z)})

(* There are no more full lines than lines.                                *)
LEMMA BetweenBound ==
  ASSUME NEW f, NEW a \in Int, NEW b \in Int, a < b
  PROVE  /\ Between(f, a, b) \in Nat
         /\ Between(f, a, b) <= b - a - 1
<1> DEFINE S == {z \in Rows : a < z /\ z < b /\ Full(f, z)}
<1>1. S \subseteq (a + 1)..(b - 1)
  BY SizeAssumption DEF Rows
<1>2. /\ IsFiniteSet((a + 1)..(b - 1))
      /\ Cardinality((a + 1)..(b - 1)) = b - a - 1
  <2>1. a + 1 \in Int /\ b - 1 \in Int
    OBVIOUS
  <2>2. /\ IsFiniteSet((a + 1)..(b - 1))
        /\ Cardinality((a + 1)..(b - 1))
             = IF a + 1 > b - 1 THEN 0 ELSE b - 1 - (a + 1) + 1
    BY <2>1, FS_Interval
  <2> QED
    BY <2>2
<1> HIDE DEF S
<1>3. /\ IsFiniteSet(S) /\ Cardinality(S) \in Nat
      /\ Cardinality(S) <= Cardinality((a + 1)..(b - 1))
  BY <1>1, <1>2, FS_Subset, FS_CardinalityType
<1> QED
  BY <1>2, <1>3 DEF Between, S

(* They are finitely many.                                                 *)
LEMMA FiniteBetween ==
  ASSUME NEW f, NEW a, NEW b
  PROVE  IsFiniteSet({z \in Rows : a < z /\ z < b /\ Full(f, z)})
<1>1. IsFiniteSet(Rows)
  <2>1. 0 \in Int /\ Height - 1 \in Int
    BY SizeAssumption
  <2> QED
    BY <2>1, FS_Interval DEF Rows
<1> QED
  BY <1>1, FS_Subset

(* A row more at either end counts when it is full.                        *)
LEMMA BetweenNext ==
  ASSUME NEW f, NEW a \in Int, NEW b \in Rows, a < b
  PROVE  /\ Full(f, b) => Between(f, a, b + 1) = Between(f, a, b) + 1
         /\ ~Full(f, b) => Between(f, a, b + 1) = Between(f, a, b)
<1> DEFINE S == {z \in Rows : a < z /\ z < b /\ Full(f, z)}
           T == {z \in Rows : a < z /\ z < b + 1 /\ Full(f, z)}
<1>1. IsFiniteSet(S)
  BY FiniteBetween
<1>2. b \notin S
  BY SizeAssumption DEF Rows
<1>3. Full(f, b) => T = S \union {b}
  BY SizeAssumption DEF Rows
<1>4. ~Full(f, b) => T = S
  BY SizeAssumption DEF Rows
<1> HIDE DEF S, T
<1>5. Cardinality(S \union {b}) = Cardinality(S) + 1
  BY <1>1, <1>2, FS_AddElement
<1>6. Between(f, a, b) = Cardinality(S) /\ Between(f, a, b + 1) = Cardinality(T)
  BY DEF Between, S, T
<1> QED
  BY <1>3, <1>4, <1>5, <1>6

(* The same at the upper end                                               *)
LEMMA BetweenBefore ==
  ASSUME NEW f, NEW a \in Rows, NEW b \in Int, a < b
  PROVE  /\ Full(f, a) => Between(f, a - 1, b) = Between(f, a, b) + 1
         /\ ~Full(f, a) => Between(f, a - 1, b) = Between(f, a, b)
<1> DEFINE S == {z \in Rows : a < z /\ z < b /\ Full(f, z)}
           T == {z \in Rows : a - 1 < z /\ z < b /\ Full(f, z)}
<1>1. IsFiniteSet(S)
  BY FiniteBetween
<1>2. a \notin S
  BY SizeAssumption DEF Rows
<1>3. Full(f, a) => T = S \union {a}
  BY SizeAssumption DEF Rows
<1>4. ~Full(f, a) => T = S
  BY SizeAssumption DEF Rows
<1> HIDE DEF S, T
<1>5. Cardinality(S \union {a}) = Cardinality(S) + 1
  BY <1>1, <1>2, FS_AddElement
<1>6. Between(f, a, b) = Cardinality(S) /\ Between(f, a - 1, b) = Cardinality(T)
  BY DEF Between, S, T
<1> QED
  BY <1>3, <1>4, <1>5, <1>6

(* There is no line between a row and the next.                            *)
LEMMA BetweenNone ==
  ASSUME NEW f, NEW a \in Int
  PROVE  Between(f, a, a + 1) = 0
<1>1. {z \in Rows : a < z /\ z < a + 1 /\ Full(f, z)} = {}
  BY SizeAssumption DEF Rows
<1> QED
  BY <1>1, FS_EmptySet DEF Between
-----------------------------------------------------------------------------
(* A cell that has come down by the full lines between its row and row y   *)
Lowered(f, y, c) == <<c[1], c[2] + Between(f, c[2], y)>>

(* The field when the loop of clearLines reaches row y                     *)
Visited(f, y) ==
  {c \in f : c[2] >= y} \union
  {Lowered(f, y, c) : c \in {d \in f : d[2] < y /\ ~Full(f, d[2])}}

(* A cell above row y stays on the field and above row y.                  *)
LEMMA LoweredAbove ==
  ASSUME NEW f \in SUBSET Cells, NEW c \in f, NEW y \in 0..Height, c[2] < y
  PROVE  /\ Lowered(f, y, c) \in Cells
         /\ Lowered(f, y, c)[1] = c[1]
         /\ Lowered(f, y, c)[2] = c[2] + Between(f, c[2], y)
         /\ Lowered(f, y, c)[2] < y
<1>1. c[1] \in Columns /\ c[2] \in Rows
  BY DEF Cells
<1>2. c[2] \in Int /\ y \in Int
  BY <1>1, SizeAssumption DEF Rows
<1>3. Between(f, c[2], y) \in Nat /\ Between(f, c[2], y) <= y - c[2] - 1
  BY <1>2, BetweenBound
<1> DEFINE k == Between(f, c[2], y)
<1> HIDE DEF k
<1>4. c[2] + k \in Rows /\ c[2] + k < y
  BY <1>1, <1>2, <1>3, SizeAssumption DEF Rows, k
<1> QED
  BY <1>1, <1>4 DEF Lowered, Cells, k

(* The field stays a field.                                                *)
LEMMA VisitedCells ==
  ASSUME NEW f \in SUBSET Cells, NEW y \in 0..Height
  PROVE  Visited(f, y) \in SUBSET Cells
<1>1. ASSUME NEW c \in {d \in f : d[2] < y /\ ~Full(f, d[2])}
      PROVE  Lowered(f, y, c) \in Cells
  BY <1>1, LoweredAbove
<1> QED
  BY <1>1 DEF Visited

(* The row that is looked at has not moved.                                *)
LEMMA SameRow ==
  ASSUME NEW f \in SUBSET Cells, NEW y \in Rows
  PROVE  Full(Visited(f, y), y) <=> Full(f, y)
<1>0. y \in 0..Height /\ y \in Int
  BY SizeAssumption DEF Rows
<1> SUFFICES ASSUME NEW x \in Columns
             PROVE  <<x, y>> \in Visited(f, y) <=> <<x, y>> \in f
  BY DEF Full
<1>1. <<x, y>> \in f => <<x, y>> \in Visited(f, y)
  BY <1>0 DEF Visited
<1>2. ASSUME NEW c \in {d \in f : d[2] < y /\ ~Full(f, d[2])}
      PROVE  <<x, y>> # Lowered(f, y, c)
  <2>1. Lowered(f, y, c)[2] < y /\ Lowered(f, y, c) \in Cells
    BY <1>0, LoweredAbove
  <2>2. Lowered(f, y, c)[2] \in Int
    BY <2>1, SizeAssumption DEF Cells, Rows
  <2> QED
    BY <1>0, <2>1, <2>2
<1> QED
  BY <1>1, <1>2 DEF Visited

(* One round of the loop *)
LEMMA VisitNext ==
  ASSUME NEW f \in SUBSET Cells, NEW y \in Rows
  PROVE  ClearLine(Visited(f, y), y) = Visited(f, y + 1)
<1>0. /\ y \in 0..Height /\ y \in Int /\ y + 1 \in 0..Height
      /\ \A c \in f : c \in Cells /\ c[2] \in Int /\ c[2] \in Rows
  BY SizeAssumption DEF Rows, Cells
<1> DEFINE V == Visited(f, y)
           Open(z) == {d \in f : d[2] < z /\ ~Full(f, d[2])}
<1>1. ASSUME NEW c \in f, c[2] < y
      PROVE  /\ Full(f, y) => Lowered(f, y + 1, c)
                                = <<Lowered(f, y, c)[1], Lowered(f, y, c)[2] + 1>>
             /\ ~Full(f, y) => Lowered(f, y + 1, c) = Lowered(f, y, c)
  <2>1. /\ Full(f, y) => Between(f, c[2], y + 1) = Between(f, c[2], y) + 1
        /\ ~Full(f, y) => Between(f, c[2], y + 1) = Between(f, c[2], y)
    BY <1>0, <1>1, BetweenNext
  <2>2. Between(f, c[2], y) \in Nat
    BY <1>0, <1>1, BetweenBound
  <2>3. Lowered(f, y, c)[1] = c[1]
        /\ Lowered(f, y, c)[2] = c[2] + Between(f, c[2], y)
    BY <1>0, <1>1, LoweredAbove
  <2>4. c[2] + (Between(f, c[2], y) + 1) = c[2] + Between(f, c[2], y) + 1
    BY <1>0, <2>2
  <2> QED
    BY <2>1, <2>3, <2>4 DEF Lowered
<1>2. CASE Full(f, y)
  <2>1. ClearLine(V, y) = WithoutRow(V, y)
    BY <1>2, SameRow DEF ClearLine
  <2>2. {c \in V : c[2] > y} = {c \in f : c[2] >= y + 1}
    <3>1. ASSUME NEW c \in Open(y) PROVE ~(Lowered(f, y, c)[2] > y)
      <4>1. Lowered(f, y, c)[2] < y /\ Lowered(f, y, c) \in Cells
        BY <1>0, LoweredAbove
      <4> QED
        BY <1>0, <4>1, SizeAssumption DEF Cells, Rows
    <3>2. \A c \in f : c[2] > y <=> c[2] >= y + 1
      BY <1>0
    <3>3. \A c \in f : c[2] > y => c[2] >= y
      BY <1>0
    <3> QED
      BY <3>1, <3>2, <3>3 DEF Visited
  <2>3. {d \in V : d[2] < y} = {Lowered(f, y, c) : c \in Open(y)}
    <3>1. ASSUME NEW c \in Open(y) PROVE Lowered(f, y, c)[2] < y
      BY <1>0, LoweredAbove
    <3>2. \A c \in f : c[2] >= y => ~(c[2] < y)
      BY <1>0
    <3> QED
      BY <3>1, <3>2 DEF Visited
  <2>4. Open(y + 1) = Open(y)
    <3>1. \A c \in f : ~Full(f, c[2]) => (c[2] < y + 1 <=> c[2] < y)
      BY <1>0, <1>2
    <3> QED
      BY <3>1
  <2>5. {<<d[1], d[2] + 1>> : d \in {Lowered(f, y, c) : c \in Open(y)}}
          = {Lowered(f, y + 1, c) : c \in Open(y)}
    <3>1. \A c \in Open(y) : Lowered(f, y + 1, c)
                               = <<Lowered(f, y, c)[1], Lowered(f, y, c)[2] + 1>>
      BY <1>1, <1>2
    <3> HIDE DEF Open
    <3> QED
      BY <3>1
  <2> HIDE DEF V, Open
  <2>6. WithoutRow(V, y) = {c \in V : c[2] > y} \union
                           {<<d[1], d[2] + 1>> : d \in {e \in V : e[2] < y}}
    BY DEF WithoutRow
  <2>7. WithoutRow(V, y) = {c \in f : c[2] >= y + 1} \union
                           {Lowered(f, y + 1, c) : c \in Open(y + 1)}
    BY <2>2, <2>3, <2>4, <2>5, <2>6, Zenon
  <2> QED
    BY <2>1, <2>7, Zenon DEF Visited, V, Open
<1>3. CASE ~Full(f, y)
  <2>1. ClearLine(V, y) = V
    BY <1>3, SameRow DEF ClearLine
  <2>2. ASSUME NEW c \in f, c[2] = y PROVE Lowered(f, y + 1, c) = c
    <3>1. Between(f, c[2], y + 1) = 0
      BY <1>0, <2>2, BetweenNone
    <3> QED
      BY <1>0, <3>1 DEF Lowered, Cells
  <2>3. Open(y + 1) = Open(y) \union {c \in f : c[2] = y}
    <3>1. \A c \in f : c[2] < y + 1 <=> (c[2] < y \/ c[2] = y)
      BY <1>0
    <3> QED
      BY <1>3, <3>1
  <2>4. {Lowered(f, y + 1, c) : c \in Open(y + 1)}
          = {Lowered(f, y, c) : c \in Open(y)} \union {c \in f : c[2] = y}
    <3>1. \A c \in Open(y) : Lowered(f, y + 1, c) = Lowered(f, y, c)
      BY <1>1, <1>3
    <3>2. \A c \in {d \in f : d[2] = y} : Lowered(f, y + 1, c) = c
      BY <2>2
    <3> HIDE DEF Open
    <3> QED
      BY <2>3, <3>1, <3>2
  <2>5. {c \in f : c[2] >= y}
          = {c \in f : c[2] = y} \union {c \in f : c[2] >= y + 1}
    BY <1>0
  <2> HIDE DEF Open
  <2>6. Visited(f, y + 1) = {c \in f : c[2] >= y + 1} \union
                              {Lowered(f, y + 1, c) : c \in Open(y + 1)}
    BY DEF Visited, Open
  <2>7. V = {c \in f : c[2] >= y} \union {Lowered(f, y, c) : c \in Open(y)}
    BY DEF Visited, Open
  <2> HIDE DEF V
  <2>8. Visited(f, y + 1) = V
    BY <2>4, <2>5, <2>6, <2>7
  <2> QED
    BY <2>1, <2>8 DEF V
<1> QED
  BY <1>2, <1>3

(* The loop begins with the field as it is                                 *)
LEMMA VisitedFirst ==
  ASSUME NEW f \in SUBSET Cells
  PROVE  Visited(f, 0) = f
<1>1. \A c \in f : c[2] >= 0 /\ ~(c[2] < 0)
  BY SizeAssumption DEF Cells, Rows
<1> QED
  BY <1>1 DEF Visited

(* and ends with it cleared.                                               *)
LEMMA VisitedLast ==
  ASSUME NEW f \in SUBSET Cells
  PROVE  Visited(f, Height) = Cleared(f)
<1>1. \A c \in f : c[2] < Height /\ ~(c[2] >= Height)
  BY SizeAssumption DEF Cells, Rows
<1>2. ASSUME NEW c \in f
      PROVE  Lowered(f, Height, c)
               = <<c[1], c[2] + Cardinality({y \in Rows : y > c[2] /\ Full(f, y)})>>
  <2>1. {z \in Rows : c[2] < z /\ z < Height /\ Full(f, z)}
          = {y \in Rows : y > c[2] /\ Full(f, y)}
    <3>1. c[2] \in Int
      BY SizeAssumption DEF Cells, Rows
    <3>2. \A z \in Rows : z < Height /\ (c[2] < z <=> z > c[2])
      BY <3>1, SizeAssumption DEF Rows
    <3> QED
      BY <3>2
  <2> QED
    BY <2>1, Zenon DEF Lowered, Between
<1>3. {d \in f : d[2] < Height /\ ~Full(f, d[2])} = {d \in f : ~Full(f, d[2])}
  BY <1>1
<1>4. {c \in f : c[2] >= Height} = {}
  BY <1>1
<1> DEFINE Open == {d \in f : ~Full(f, d[2])}
<1>5. \A c \in Open : c \in f
  OBVIOUS
<1> HIDE DEF Open
<1>6. {Lowered(f, Height, c) : c \in Open}
        = {<<c[1], c[2] + Cardinality({y \in Rows : y > c[2] /\ Full(f, y)})>> :
             c \in Open}
  BY <1>2, <1>5
<1>7. Visited(f, Height) = {Lowered(f, Height, c) : c \in Open}
  BY <1>3, <1>4 DEF Visited, Open
<1> QED
  BY <1>6, <1>7, Zenon DEF Cleared, Open
-----------------------------------------------------------------------------
(* The loop of clearLines from each row on, as a function *)
IsClear(clear) ==
  clear = [y \in 0..Height |->
             [g \in SUBSET Cells |->
                IF y = Height THEN g ELSE clear[y + 1][ClearLine(g, y)]]]

(* A row taken out leaves cells of the field.                              *)
LEMMA ClearLineCells ==
  ASSUME NEW g \in SUBSET Cells, NEW y \in Rows
  PROVE  ClearLine(g, y) \in SUBSET Cells
<1>1. ASSUME NEW c \in g, c[2] < y PROVE <<c[1], c[2] + 1>> \in Cells
  BY <1>1, SizeAssumption DEF Cells, Rows
<1>2. WithoutRow(g, y) \in SUBSET Cells
  BY <1>1 DEF WithoutRow
<1> QED
  BY <1>2 DEF ClearLine

(* There is such a function: it is built from the last row up.             *)
LEMMA ClearExists == \E clear : IsClear(clear)
<1> DEFINE V == [SUBSET Cells -> SUBSET Cells]
           base == [g \in SUBSET Cells |-> g]
           step == [p \in Nat \X V |->
                      [g \in SUBSET Cells |->
                         IF p[1] \in 1..Height
                         THEN p[2][ClearLine(g, Height - p[1])] ELSE g]]
<1>1. base \in V
  OBVIOUS
<1>2. step \in [Nat \X V -> V]
  <2> SUFFICES ASSUME NEW p \in Nat \X V, NEW g \in SUBSET Cells
               PROVE  (IF p[1] \in 1..Height
                       THEN p[2][ClearLine(g, Height - p[1])] ELSE g)
                         \in SUBSET Cells
    OBVIOUS
  <2>1. CASE p[1] \in 1..Height
    <3>1. Height - p[1] \in Rows
      BY <2>1, SizeAssumption DEF Rows
    <3>2. ClearLine(g, Height - p[1]) \in SUBSET Cells
      BY <3>1, ClearLineCells
    <3> QED
      BY <2>1, <3>2
  <2> QED
    BY <2>1
<1>3. Height \in Nat
  BY SizeAssumption
<1> HIDE DEF base, step, V
<1>4. PICK f \in [0..Height -> V] :
        f[0] = base /\ \A i \in 1..Height : f[i] = step[<<i, f[i - 1]>>]
  <2>1. \E f : IsRun(f, Height, V, base, step)
    BY <1>1, <1>2, <1>3, Recursion, Zenon
  <2> QED
    BY <2>1, Zenon DEF IsRun
<1> DEFINE clear == [y \in 0..Height |-> f[Height - y]]
<1>5. ASSUME NEW y \in 0..Height
      PROVE  clear[y] = [g \in SUBSET Cells |->
                IF y = Height THEN g ELSE clear[y + 1][ClearLine(g, y)]]
  <2>1. CASE y = Height
    <3>1. clear[y] = base
      BY <1>4, <2>1
    <3> QED
      BY <2>1, <3>1 DEF base
  <2>2. CASE y # Height
    <3> DEFINE i == Height - y
    <3>1. /\ i \in 1..Height /\ i \in Nat /\ Height - i = y
          /\ i - 1 = Height - (y + 1) /\ i - 1 \in 0..Height
          /\ y + 1 \in 0..Height
      BY <1>3, <2>2
    <3>2. clear[y] = f[i] /\ clear[y + 1] = f[i - 1]
      BY <3>1
    <3> HIDE DEF i, clear
    <3>3. f[i - 1] \in V /\ <<i, f[i - 1]>> \in Nat \X V
      BY <3>1
    <3>4. step[<<i, f[i - 1]>>]
            = [g \in SUBSET Cells |-> f[i - 1][ClearLine(g, Height - i)]]
      BY <3>1, <3>3 DEF step
    <3> QED
      BY <1>4, <2>2, <3>1, <3>2, <3>4
  <2> QED
    BY <2>1, <2>2
<1>6. IsClear(clear)
  <2>1. clear = [y \in 0..Height |-> clear[y]]
    OBVIOUS
  <2> HIDE DEF clear
  <2>2. [y \in 0..Height |-> clear[y]]
          = [y \in 0..Height |->
             [g \in SUBSET Cells |->
                IF y = Height THEN g ELSE clear[y + 1][ClearLine(g, y)]]]
    BY <1>5
  <2> QED
    BY <2>1, <2>2, Zenon DEF IsClear
<1> QED
  BY <1>6

(* ClearLines is that function at the first row.                           *)
LEMMA ClearIs ==
  ASSUME NEW f
  PROVE  \E clear : IsClear(clear) /\ ClearLines(f) = clear[0][f]
<1> DEFINE clear == CHOOSE clear : IsClear(clear)
<1>1. IsClear(clear)
  BY ClearExists, Zenon
<1>2. ClearLines(f) = clear[0][f]
  BY DEF ClearLines, IsClear
<1> QED
  BY <1>1, <1>2

(* clearLines takes the full rows out and lets what is above them down,    *)
(* for every field of every size.                                          *)
THEOREM ClearLinesClears ==
  ASSUME NEW f \in SUBSET Cells
  PROVE  ClearLines(f) = Cleared(f)
<1>1. PICK clear : IsClear(clear) /\ ClearLines(f) = clear[0][f]
  BY ClearIs
<1>2. ASSUME NEW y \in 0..Height, NEW g \in SUBSET Cells
      PROVE  clear[y][g] = IF y = Height THEN g
                           ELSE clear[y + 1][ClearLine(g, y)]
  <2>1. clear[y] = [h \in SUBSET Cells |->
                      IF y = Height THEN h ELSE clear[y + 1][ClearLine(h, y)]]
    BY <1>1 DEF IsClear
  <2> QED
    BY <2>1
<1> DEFINE P == {n \in Nat : n <= Height =>
                   clear[Height - n][Visited(f, Height - n)] = Cleared(f)}
<1>3. Height \in Nat /\ \A y \in 0..Height : Visited(f, y) \in SUBSET Cells
  BY SizeAssumption, VisitedCells
<1>4. 0 \in P
  <2>1. Height - 0 = Height /\ Height \in 0..Height
    BY <1>3
  <2> QED
    BY <1>2, <1>3, <2>1, VisitedLast
<1>5. \A n \in Nat : n \in P => n + 1 \in P
  <2> SUFFICES ASSUME NEW n \in Nat, n + 1 <= Height,
                      clear[Height - n][Visited(f, Height - n)] = Cleared(f)
               PROVE  clear[Height - (n + 1)][Visited(f, Height - (n + 1))]
                        = Cleared(f)
    BY <1>3
  <2> DEFINE y == Height - (n + 1)
  <2>1. y \in 0..Height /\ y \in Rows /\ y # Height /\ y + 1 = Height - n
    BY <1>3 DEF Rows
  <2> HIDE DEF y
  <2>2. ClearLine(Visited(f, y), y) = Visited(f, y + 1)
    BY <2>1, VisitNext
  <2>3. clear[y][Visited(f, y)] = clear[y + 1][Visited(f, y + 1)]
    BY <1>2, <1>3, <2>1, <2>2
  <2> QED
    BY <2>1, <2>3 DEF y
<1> HIDE DEF P
<1>6. Height \in P
  BY <1>3, <1>4, <1>5, Induction
<1>7. Height - Height = 0
  BY <1>3
<1>8. clear[0][Visited(f, 0)] = Cleared(f)
  BY <1>3, <1>6, <1>7 DEF P
<1> QED
  BY <1>1, <1>8, VisitedFirst
-----------------------------------------------------------------------------
(* Pieces with blocks at whole places, and a field with no cell outside    *)
Pieces ==
  [type : {"I", "J", "L", "O", "S", "T", "Z"},
   blocks : SUBSET (Int \X Int), x : Int, y : Int]

GameType == field \in SUBSET Cells /\ piece \in Pieces

(* The fields of a piece                                                   *)
LEMMA PieceFields ==
  ASSUME NEW p \in Pieces
  PROVE  /\ p.x \in Int /\ p.y \in Int /\ p.blocks \in SUBSET (Int \X Int)
         /\ p.type \in {"I", "J", "L", "O", "S", "T", "Z"}
  BY DEF Pieces

(* A piece that is moved is a piece, elsewhere.                            *)
LEMMA MovedIs ==
  ASSUME NEW p \in Pieces, NEW dx \in Int, NEW dy \in Int
  PROVE  /\ Moved(p, dx, dy) \in Pieces
         /\ Moved(p, dx, dy).x = p.x + dx
         /\ Moved(p, dx, dy).y = p.y + dy
         /\ Moved(p, dx, dy).blocks = p.blocks
         /\ Moved(p, dx, dy).type = p.type
<1> DEFINE v == p.x + dx
           u == p.y + dy
<1>1. Moved(p, dx, dy) = [p EXCEPT !.x = v, !.y = u]
  BY DEF Moved
<1>2. u \in Int /\ v \in Int
  BY PieceFields
<1> HIDE DEF u, v
<1>3. [p EXCEPT !.x = v, !.y = u] \in Pieces
  BY <1>2 DEF Pieces
<1>4. /\ [p EXCEPT !.x = v, !.y = u].x = v
      /\ [p EXCEPT !.x = v, !.y = u].y = u
      /\ [p EXCEPT !.x = v, !.y = u].blocks = p.blocks
      /\ [p EXCEPT !.x = v, !.y = u].type = p.type
  BY DEF Pieces
<1> QED
  BY <1>1, <1>3, <1>4 DEF u, v

(* The blocks turned by a quarter *)
Turned(B) == {<<b[2], -b[1]>> : b \in B}

(* A piece that is turned is a piece in the same place.                    *)
LEMMA RotatedIs ==
  ASSUME NEW p \in Pieces
  PROVE  /\ RotatedCopy(p) \in Pieces
         /\ RotatedCopy(p).x = p.x /\ RotatedCopy(p).y = p.y
         /\ RotatedCopy(p).type = p.type
         /\ RotatedCopy(p).blocks = IF p.type = "O" THEN p.blocks
                                    ELSE Turned(p.blocks)
<1>1. CASE p.type = "O"
  BY <1>1 DEF RotatedCopy
<1>2. CASE p.type # "O"
  <2>1. RotatedCopy(p) = [type |-> p.type, blocks |-> Turned(p.blocks),
                          x |-> p.x, y |-> p.y]
    BY <1>2 DEF RotatedCopy, Pieces, Turned
  <2>2. Turned(p.blocks) \in SUBSET (Int \X Int)
    BY PieceFields DEF Turned
  <2> QED
    BY <1>2, <2>1, <2>2, PieceFields DEF Pieces
<1> QED
  BY <1>1, <1>2

(* A piece that is dealt is a piece.                                       *)
LEMMA NewPieceIs ==
  ASSUME NEW t \in Types
  PROVE  /\ NewPiece(t) \in Pieces
         /\ NewPiece(t).type = t /\ NewPiece(t).blocks = tetrominoes[t]
         /\ NewPiece(t).x = Width \div 2 /\ NewPiece(t).y = 0
<1>1. t \in {"I", "J", "L", "O", "S", "T", "Z"}
  BY TypesAssumption
<1>2. tetrominoes[t] \in SUBSET (Int \X Int)
  BY <1>1 DEF tetrominoes
<1>3. Width \div 2 \in Int
  BY SizeAssumption
<1> HIDE DEF tetrominoes
<1> QED
  BY <1>1, <1>2, <1>3 DEF NewPiece, Pieces

(* A landed piece leaves no cell outside the field.                        *)
LEMMA LandedCells ==
  ASSUME field \in SUBSET Cells
  PROVE  Landed \in SUBSET Cells
  BY DEF Landed

(* Clearing leaves no cell outside the field.                              *)
LEMMA ClearedCells ==
  ASSUME NEW f \in SUBSET Cells
  PROVE  Cleared(f) \in SUBSET Cells
  BY SizeAssumption, VisitedLast, VisitedCells

(* Field and piece keep their types in every game.                         *)
LEMMA GameTypeHolds == Spec => []GameType
<1>1. Init => GameType
  BY NewPieceIs DEF Init, GameType, resetBoard
<1>2. GameType /\ [Next]_vars => GameType'
  <2> SUFFICES ASSUME GameType, [Next]_vars PROVE GameType'
    OBVIOUS
  <2> USE DEF GameType
  <2>1. CASE Rotate
    BY <2>1, RotatedIs DEF Rotate, Cells, Columns, Rows
  <2>2. CASE Shift
    BY <2>2, MovedIs DEF Shift, Cells, Columns, Rows
  <2>3. CASE Fall
    BY <2>3, MovedIs DEF Fall, Cells, Columns, Rows
  <2>4. CASE FixPiece
    <3>1. ClearLines(Landed) \in SUBSET Cells
      BY LandedCells, ClearedCells, ClearLinesClears
    <3> QED
      BY <2>4, <3>1, NewPieceIs
         DEF FixPiece, SpawnNewPiece, resetBoard, Cells, Columns, Rows
  <2>5. CASE UNCHANGED vars
    BY <2>5 DEF vars, Cells, Columns, Rows
  <2> QED
    BY <2>1, <2>2, <2>3, <2>4, <2>5 DEF Next, Drop
<1> QED
  BY <1>1, <1>2, PTL DEF Spec

(* Nothing is lost but full lines when a piece lands: what was above them  *)
(* comes down by as many lines as vanished below it, for every size of the *)
(* field and every game (RowsComeDown).                                    *)
THEOREM RowsAlwaysComeDown == Spec => RowsComeDown
<1>1. GameType /\ [Next]_vars =>
        [FixPiece /\ ended' = "no" => field' = Cleared(Landed)]_vars
  <2> SUFFICES ASSUME GameType, FixPiece, ended' = "no"
               PROVE  field' = Cleared(Landed)
    OBVIOUS
  <2>1. field' = ClearLines(Landed)
    BY DEF FixPiece, SpawnNewPiece
  <2> QED
    BY <2>1, LandedCells, ClearLinesClears DEF GameType
<1> QED
  BY <1>1, GameTypeHolds, PTL DEF Spec, RowsComeDown
-----------------------------------------------------------------------------
(* The filled cells of a list of rows *)
Filled(b) == {c \in Cells : b[c[2]][c[1]]}

(* Rows, columns and cells of a list of rows                               *)
LEMMA RowsOfBoards ==
  ASSUME NEW b \in Py!Boards
  PROVE  /\ DOMAIN b = Rows
         /\ \A y \in Rows : b[y] \in [Columns -> BOOLEAN]
         /\ \A x \in Columns, y \in Rows : <<x, y>> \in Filled(b) <=> b[y][x]
<1>1. DOMAIN b = Rows /\ \A y \in Rows : b[y] \in [Columns -> BOOLEAN]
  BY DEF Py!Boards, Rows, Columns
<1>2. ASSUME NEW x \in Columns, NEW y \in Rows
      PROVE  <<x, y>> \in Filled(b) <=> b[y][x]
  BY DEF Filled, Cells
<1> QED
  BY <1>1, <1>2

(* Both sides call the same rows full.                                     *)
LEMMA FullRows ==
  ASSUME NEW b \in Py!Boards, NEW y \in Rows
  PROVE  Py!IsFullRow(b, y) <=> Full(Filled(b), y)
  BY RowsOfBoards DEF Py!IsFullRow, Full, Columns

(* An empty row is a row with no cell filled, and there is a column.       *)
LEMMA EmptyRowIsOne ==
  /\ Py!EmptyRow \in [Columns -> BOOLEAN]
  /\ \A x \in Columns : ~Py!EmptyRow[x]
  /\ 0 \in Columns
  BY SizeAssumption DEF Py!EmptyRow, Columns

(* Deleting a row and inserting an empty one is WithoutRow.                *)
LEMMA DeletedRows ==
  ASSUME NEW b \in Py!Boards, NEW y \in Rows
  PROVE  /\ Py!RowDeleted(b, y) \in Py!Boards
         /\ Filled(Py!RowDeleted(b, y)) = WithoutRow(Filled(b), y)
<1> DEFINE d == Py!RowDeleted(b, y)
<1>0. /\ DOMAIN b = Rows /\ \A r \in Rows : b[r] \in [Columns -> BOOLEAN]
      /\ \A r \in Rows : r \in Int /\ r >= 0 /\ r < Height
      /\ \A r \in Rows : r # 0 => r - 1 \in Rows
      /\ \A r \in Rows : r < y => r + 1 \in Rows
  BY RowsOfBoards, SizeAssumption DEF Rows
<1>1. ASSUME NEW r \in Rows
      PROVE  d[r] = IF r = 0 THEN Py!EmptyRow ELSE IF r <= y THEN b[r - 1] ELSE b[r]
  BY <1>0 DEF Py!RowDeleted
<1>2. ASSUME NEW r \in Rows PROVE d[r] \in [Columns -> BOOLEAN]
  BY <1>0, <1>1, EmptyRowIsOne
<1>3. d = [r \in Rows |-> d[r]]
  BY <1>0 DEF Py!RowDeleted
<1> HIDE DEF d
<1>4. d \in Py!Boards
  BY <1>2, <1>3 DEF Py!Boards, Rows, Columns
<1>5. ASSUME NEW x \in Columns, NEW r \in Rows
      PROVE  <<x, r>> \in Filled(d) <=> <<x, r>> \in WithoutRow(Filled(b), y)
  <2>1. <<x, r>> \in Filled(d) <=> d[r][x]
    BY <1>4, RowsOfBoards
  <2>2. <<x, r>> \in WithoutRow(Filled(b), y)
          <=> \/ <<x, r>> \in Filled(b) /\ r > y
              \/ \E c \in Filled(b) : c[2] < y /\ <<x, r>> = <<c[1], c[2] + 1>>
    BY DEF WithoutRow
  <2>3. (\E c \in Filled(b) : c[2] < y /\ <<x, r>> = <<c[1], c[2] + 1>>)
          <=> r # 0 /\ r <= y /\ <<x, r - 1>> \in Filled(b)
    <3>1. ASSUME NEW c \in Filled(b), c[2] < y, <<x, r>> = <<c[1], c[2] + 1>>
          PROVE  r # 0 /\ r <= y /\ <<x, r - 1>> \in Filled(b)
      <4>1. c = <<c[1], c[2]>> /\ c[2] \in Int /\ c[2] >= 0 /\ c[1] = x /\ r = c[2] + 1
        BY <1>0, <3>1 DEF Filled, Cells
      <4>2. r - 1 = c[2]
        BY <4>1
      <4>3. c = <<x, r - 1>>
        BY <4>1, <4>2
      <4> QED
        BY <1>0, <3>1, <4>1, <4>3
    <3>2. ASSUME r # 0, r <= y, <<x, r - 1>> \in Filled(b)
          PROVE  \E c \in Filled(b) : c[2] < y /\ <<x, r>> = <<c[1], c[2] + 1>>
      <4>1. r - 1 < y /\ (r - 1) + 1 = r
        BY <1>0, <3>2
      <4> QED
        BY <3>2, <4>1
    <3> QED
      BY <3>1, <3>2
  <2>4. /\ <<x, r>> \in Filled(b) <=> b[r][x]
        /\ r # 0 => (<<x, r - 1>> \in Filled(b) <=> b[r - 1][x])
    BY <1>0, RowsOfBoards
  <2>5. d[r][x] <=> \/ r > y /\ b[r][x]
                    \/ r # 0 /\ r <= y /\ b[r - 1][x]
    <3>1. CASE r = 0
      BY <1>0, <1>1, <3>1, EmptyRowIsOne
    <3>2. CASE r # 0 /\ r <= y
      BY <1>0, <1>1, <3>2
    <3>3. CASE r # 0 /\ ~(r <= y)
      BY <1>0, <1>1, <3>3
    <3> QED
      BY <3>1, <3>2, <3>3
  <2> QED
    BY <2>1, <2>2, <2>3, <2>4, <2>5
<1>6. Filled(d) \in SUBSET Cells /\ WithoutRow(Filled(b), y) \in SUBSET Cells
  <2>1. ASSUME NEW c \in Cells, c[2] < y PROVE <<c[1], c[2] + 1>> \in Cells
    BY <1>0, <2>1 DEF Cells
  <2> QED
    BY <2>1 DEF WithoutRow, Filled
<1>7. Filled(d) = WithoutRow(Filled(b), y)
  <2>1. \A c \in Cells : c = <<c[1], c[2]>> /\ c[1] \in Columns /\ c[2] \in Rows
    BY DEF Cells
  <2> QED
    BY <1>5, <1>6, <2>1
<1> QED
  BY <1>4, <1>7 DEF d
-----------------------------------------------------------------------------
(* Rows that are not full count for nothing.                               *)
LEMMA BetweenSkips ==
  ASSUME NEW f, NEW a \in Int, NEW b \in Int, a < b, ~Full(f, b)
  PROVE  Between(f, a, Height) <= (b - a - 1) + Between(f, b, Height)
<1> DEFINE S == {z \in Rows : a < z /\ z < Height /\ Full(f, z)}
           T == {z \in Rows : a < z /\ z < b /\ Full(f, z)}
           U == {z \in Rows : b < z /\ z < Height /\ Full(f, z)}
<1>1. S \subseteq T \union U
  BY SizeAssumption DEF Rows
<1>2. IsFiniteSet(T) /\ IsFiniteSet(U)
  BY FiniteBetween
<1>3. Cardinality(T) \in Nat /\ Cardinality(T) <= b - a - 1
  BY BetweenBound DEF Between
<1> HIDE DEF S, T, U
<1>4. /\ IsFiniteSet(T \union U)
      /\ Cardinality(T \union U)
           = Cardinality(T) + Cardinality(U) - Cardinality(T \cap U)
  BY <1>2, FS_Union
<1>5. Cardinality(S) <= Cardinality(T \union U) /\ Cardinality(S) \in Nat
  BY <1>1, <1>4, FS_Subset, FS_CardinalityType
<1>6. Cardinality(U) \in Nat /\ Cardinality(T \cap U) \in Nat
  BY <1>2, FS_Intersection, FS_CardinalityType
<1>7. Between(f, a, Height) = Cardinality(S) /\ Between(f, b, Height) = Cardinality(U)
  BY DEF Between, S, U
<1> QED
  BY <1>3, <1>4, <1>5, <1>6, <1>7

(* The field when the loop of clear_lines looks at row y, where row s of   *)
(* the field f it began with has come down to: rows up to s lie y - s      *)
(* rows lower, the rows after it are where they will stay.                 *)
Settling(f, s, y) ==
  {<<c[1], c[2] + (y - s)>> : c \in {d \in f : d[2] <= s}} \union
  {Lowered(f, Height, c) : c \in {d \in f : d[2] > s /\ ~Full(f, d[2])}}

Settled(f, y, g) ==
  \E s \in Int : y - s = Between(f, s, Height) /\ g = Settling(f, s, y)

(* Rows after s that are not full have come to lie below row y.            *)
LEMMA SettledBelow ==
  ASSUME NEW f \in SUBSET Cells, NEW s \in Int, NEW y \in -1..Height - 1,
         y - s = Between(f, s, Height),
         NEW c \in f, c[2] > s, ~Full(f, c[2])
  PROVE  /\ Lowered(f, Height, c) \in Cells
         /\ Lowered(f, Height, c)[1] = c[1]
         /\ Lowered(f, Height, c)[2] = c[2] + Between(f, c[2], Height)
         /\ Lowered(f, Height, c)[2] > y
<1>1. c \in Cells /\ c[2] \in Int /\ c[2] < Height /\ Height \in 0..Height
  BY SizeAssumption DEF Cells, Rows
<1>2. /\ Lowered(f, Height, c) \in Cells
      /\ Lowered(f, Height, c)[1] = c[1]
      /\ Lowered(f, Height, c)[2] = c[2] + Between(f, c[2], Height)
  BY <1>1, LoweredAbove
<1>3. Between(f, s, Height) <= (c[2] - s - 1) + Between(f, c[2], Height)
  BY <1>1, BetweenSkips
<1>4. Between(f, c[2], Height) \in Nat
  BY <1>1, SizeAssumption, BetweenBound
<1> DEFINE k == Between(f, c[2], Height)
           n == Between(f, s, Height)
<1> HIDE DEF k, n
<1>5. y - s = n /\ n <= (c[2] - s - 1) + k /\ k \in Nat
  BY <1>3, <1>4 DEF k, n
<1>6. c[2] + k > y
  BY <1>1, <1>5
<1> QED
  BY <1>2, <1>6 DEF k

(* Rows up to s are still on the field, not above where they were.         *)
LEMMA SettledAbove ==
  ASSUME NEW f \in SUBSET Cells, NEW s \in Int, NEW y \in -1..Height - 1,
         y - s = Between(f, s, Height)
  PROVE  /\ y - s \in Nat /\ s <= y /\ s < Height
         /\ \A c \in f : c[2] <= s => <<c[1], c[2] + (y - s)>> \in Cells
<1>1. s < Height \/ s >= Height
  BY SizeAssumption
<1>2. s >= Height => Between(f, s, Height) = 0
  <2>1. s >= Height => {z \in Rows : s < z /\ z < Height /\ Full(f, z)} = {}
    BY SizeAssumption DEF Rows
  <2> QED
    BY <2>1, FS_EmptySet DEF Between
<1>3. s < Height /\ y - s \in Nat
  <2>1. s < Height => Between(f, s, Height) \in Nat
    BY SizeAssumption, BetweenBound
  <2> QED
    BY <1>1, <1>2, <2>1, SizeAssumption
<1>4. ASSUME NEW c \in f, c[2] <= s PROVE <<c[1], c[2] + (y - s)>> \in Cells
  <2>1. c[1] \in Columns /\ c[2] \in Rows
    BY DEF Cells
  <2>2. c[2] + (y - s) \in Rows
    BY <1>3, <1>4, <2>1, SizeAssumption DEF Rows
  <2> QED
    BY <2>1, <2>2 DEF Cells
<1> QED
  BY <1>3, <1>4

(* Row y is what row s was, or empty above the field.                      *)
LEMMA SettlingRow ==
  ASSUME NEW f \in SUBSET Cells, NEW s \in Int, NEW y \in Rows,
         y - s = Between(f, s, Height)
  PROVE  /\ Full(Settling(f, s, y), y) <=> s \in Rows /\ Full(f, s)
         /\ s \in Rows \/ s < 0
<1>0. /\ y \in -1..Height - 1 /\ y \in Int
      /\ \A c \in f : c \in Cells /\ c[2] \in Int /\ c[2] >= 0
  BY SizeAssumption DEF Rows, Cells
<1>1. s <= y /\ s < Height
  BY <1>0, SettledAbove
<1>2. s \in Rows \/ s < 0
  BY <1>1, SizeAssumption DEF Rows
<1>3. ASSUME NEW x \in Columns
      PROVE  <<x, y>> \in Settling(f, s, y) <=> <<x, s>> \in f
  <2>1. ASSUME <<x, s>> \in f PROVE <<x, y>> \in Settling(f, s, y)
    <3>1. <<x, s>>[2] <= s /\ s + (y - s) = y
      BY <1>0
    <3> QED
      BY <2>1, <3>1 DEF Settling
  <2>2. ASSUME NEW c \in f, c[2] <= s, <<x, y>> = <<c[1], c[2] + (y - s)>>
        PROVE  <<x, s>> \in f
    <3>1. c = <<c[1], c[2]>> /\ c[1] = x /\ y = c[2] + (y - s)
      BY <1>0, <2>2 DEF Cells
    <3>2. c[2] = s
      BY <1>0, <3>1
    <3> QED
      BY <3>1, <3>2
  <2>3. ASSUME NEW c \in f, c[2] > s, ~Full(f, c[2])
        PROVE  <<x, y>> # Lowered(f, Height, c)
    <3>1. Lowered(f, Height, c)[2] > y /\ Lowered(f, Height, c) \in Cells
      BY <1>0, <2>3, SettledBelow
    <3>2. Lowered(f, Height, c)[2] \in Int
      BY <3>1, SizeAssumption DEF Cells, Rows
    <3> QED
      BY <1>0, <3>1, <3>2
  <2> QED
    BY <2>1, <2>2, <2>3 DEF Settling
<1>4. s < 0 => ~Full(Settling(f, s, y), y)
  <2>1. ASSUME s < 0 PROVE <<0, s>> \notin f
    <3>1. <<0, s>> \in f => <<0, s>>[2] >= 0
      BY <1>0
    <3> QED
      BY <2>1, <3>1
  <2>2. 0 \in Columns
    BY EmptyRowIsOne
  <2>3. <<0, y>> \in Settling(f, s, y) <=> <<0, s>> \in f
    BY <1>3, <2>2
  <2> QED
    BY <2>1, <2>2, <2>3 DEF Full
<1>5. s \in Rows => (Full(Settling(f, s, y), y) <=> Full(f, s))
  BY <1>3 DEF Full
<1>6. s < 0 => s \notin Rows
  BY SizeAssumption DEF Rows
<1> QED
  BY <1>2, <1>4, <1>5, <1>6

(* A full row deleted                                                      *)
LEMMA SettlingDeletes ==
  ASSUME NEW f \in SUBSET Cells, NEW s \in Rows, NEW y \in Rows, Full(f, s),
         y - s = Between(f, s, Height)
  PROVE  /\ WithoutRow(Settling(f, s, y), y) = Settling(f, s - 1, y)
         /\ y - (s - 1) = Between(f, s - 1, Height)
<1>0. /\ y \in -1..Height - 1 /\ y \in Int /\ s \in Int
      /\ \A c \in f : c \in Cells /\ c[2] \in Int
  BY SizeAssumption DEF Rows, Cells
<1>1. y - (s - 1) = Between(f, s - 1, Height)
  <2>1. s < Height /\ Height \in Int
    BY SizeAssumption DEF Rows
  <2>2. Between(f, s - 1, Height) = Between(f, s, Height) + 1
    BY <2>1, BetweenBefore
  <2> QED
    BY <1>0, <2>2
<1> DEFINE G == Settling(f, s, y)
           A == {d \in f : d[2] <= s}
           A1 == {d \in f : d[2] <= s - 1}
           B == {d \in f : d[2] > s /\ ~Full(f, d[2])}
           L == {Lowered(f, Height, c) : c \in B}
<1>2. ASSUME NEW c \in B PROVE Lowered(f, Height, c)[2] > y
                               /\ ~(Lowered(f, Height, c)[2] < y)
  <2>1. Lowered(f, Height, c)[2] > y /\ Lowered(f, Height, c) \in Cells
    BY <1>0, SettledBelow
  <2> QED
    BY <1>0, <2>1, SizeAssumption DEF Cells, Rows
<1>3. ASSUME NEW c \in A
      PROVE  /\ c[2] + (y - s) <= y /\ ~(c[2] + (y - s) > y)
             /\ c[2] + (y - s) < y <=> c[2] <= s - 1
             /\ c[2] + (y - s) + 1 = c[2] + (y - (s - 1))
  BY <1>0
<1>4. A1 = {c \in A : c[2] <= s - 1}
  BY <1>0
<1>5. B = {d \in f : d[2] > s - 1 /\ ~Full(f, d[2])}
  <2>1. \A c \in f : ~Full(f, c[2]) => (c[2] > s <=> c[2] > s - 1)
    BY <1>0
  <2> QED
    BY <2>1
<1>6. G = {<<c[1], c[2] + (y - s)>> : c \in A} \union L
  BY DEF Settling
<1>7. Settling(f, s - 1, y) = {<<c[1], c[2] + (y - (s - 1))>> : c \in A1} \union L
  BY <1>5 DEF Settling
<1> HIDE DEF A, A1, B, G
<1>8. {c \in G : c[2] > y} = L
  BY <1>2, <1>3, <1>6
<1>9. {c \in G : c[2] < y} = {<<c[1], c[2] + (y - s)>> : c \in A1}
  <2>1. \A c \in L : ~(c[2] < y)
    BY <1>2
  <2> HIDE DEF L
  <2> QED
    BY <1>3, <1>4, <1>6, <2>1
<1>10. {<<d[1], d[2] + 1>> : d \in {<<c[1], c[2] + (y - s)>> : c \in A1}}
         = {<<c[1], c[2] + (y - (s - 1))>> : c \in A1}
  <2> DEFINE at(c) == <<c[1], c[2] + (y - s)>>
             on(d) == <<d[1], d[2] + 1>>
             to(c) == <<c[1], c[2] + (y - (s - 1))>>
  <2>1. \A c \in A1 : on(at(c)) = to(c)
    BY <1>3, <1>4
  <2> HIDE DEF at, on, to
  <2>2. {on(d) : d \in {at(c) : c \in A1}} = {to(c) : c \in A1}
    BY <2>1
  <2> QED
    BY <2>2, Zenon DEF at, on, to
<1> HIDE DEF L
<1>11. WithoutRow(G, y) = {c \in G : c[2] > y} \union
                          {<<d[1], d[2] + 1>> : d \in {e \in G : e[2] < y}}
  BY DEF WithoutRow
<1>12. WithoutRow(G, y) = L \union
                          {<<c[1], c[2] + (y - (s - 1))>> : c \in A1}
  BY <1>8, <1>9, <1>10, <1>11
<1> QED
  BY <1>1, <1>7, <1>12 DEF G

(* A row that is not full is left where it is.                             *)
LEMMA SettlingGoesUp ==
  ASSUME NEW f \in SUBSET Cells, NEW s \in Int, NEW y \in Rows,
         s \in Rows => ~Full(f, s),
         y - s = Between(f, s, Height)
  PROVE  /\ Settling(f, s, y) = Settling(f, s - 1, y - 1)
         /\ (y - 1) - (s - 1) = Between(f, s - 1, Height)
<1>0. /\ y \in -1..Height - 1 /\ y \in Int
      /\ \A c \in f : c \in Cells /\ c[2] \in Int /\ c[2] \in Rows
  BY SizeAssumption DEF Rows, Cells
<1>1. s \in Rows \/ s < 0
  BY SettlingRow
<1>2. Between(f, s - 1, Height) = Between(f, s, Height)
  <2>1. CASE s \in Rows
    <3>1. s < Height /\ Height \in Int
      BY <2>1, SizeAssumption DEF Rows
    <3> QED
      BY <2>1, <3>1, BetweenBefore
  <2>2. CASE s < 0
    <3>1. {z \in Rows : s - 1 < z /\ z < Height /\ Full(f, z)}
            = {z \in Rows : s < z /\ z < Height /\ Full(f, z)}
      BY <2>2, SizeAssumption DEF Rows
    <3> QED
      BY <3>1 DEF Between
  <2> QED
    BY <1>1, <2>1, <2>2
<1>3. (y - 1) - (s - 1) = y - s
  BY <1>0
<1> DEFINE A == {d \in f : d[2] <= s}
           A1 == {d \in f : d[2] <= s - 1}
           B == {d \in f : d[2] > s /\ ~Full(f, d[2])}
           B1 == {d \in f : d[2] > s - 1 /\ ~Full(f, d[2])}
           R == {d \in f : d[2] = s}
<1>4. A = A1 \union R
  BY <1>0
<1>5. B1 = B \union R
  <2>1. \A c \in f : c[2] > s - 1 <=> (c[2] > s \/ c[2] = s)
    BY <1>0
  <2>2. \A c \in R : ~Full(f, c[2])
    BY <1>0
  <2> QED
    BY <2>1, <2>2
<1>6. ASSUME NEW c \in R PROVE Lowered(f, Height, c) = <<c[1], c[2] + (y - s)>>
  BY DEF Lowered
<1>7. Settling(f, s, y) = {<<c[1], c[2] + (y - s)>> : c \in A} \union
                          {Lowered(f, Height, c) : c \in B}
  BY DEF Settling
<1>8. Settling(f, s - 1, y - 1)
        = {<<c[1], c[2] + (y - s)>> : c \in A1} \union
          {Lowered(f, Height, c) : c \in B1}
  BY <1>3 DEF Settling
<1> HIDE DEF A, A1, B, B1, R
<1>9. Settling(f, s, y) = Settling(f, s - 1, y - 1)
  BY <1>4, <1>5, <1>6, <1>7, <1>8
<1> QED
  BY <1>2, <1>3, <1>9

(* The loop begins with the field as it is                                 *)
LEMMA SettlingFirst ==
  ASSUME NEW f \in SUBSET Cells
  PROVE  Settled(f, Height - 1, f)
<1>1. Between(f, Height - 1, Height) = 0
  <2>1. Height - 1 \in Int /\ (Height - 1) + 1 = Height
    BY SizeAssumption
  <2> QED
    BY <2>1, BetweenNone
<1>2. /\ \A c \in f : c[2] <= Height - 1 /\ ~(c[2] > Height - 1)
      /\ \A c \in f : <<c[1], c[2] + ((Height - 1) - (Height - 1))>> = c
  BY SizeAssumption DEF Cells, Rows
<1>3. {d \in f : d[2] <= Height - 1} = f
      /\ {d \in f : d[2] > Height - 1 /\ ~Full(f, d[2])} = {}
  BY <1>2
<1>4. Settling(f, Height - 1, Height - 1) = f
  BY <1>2, <1>3 DEF Settling
<1>5. Height - 1 \in Int /\ (Height - 1) - (Height - 1) = 0
  BY SizeAssumption
<1> QED
  BY <1>1, <1>4, <1>5 DEF Settled

(* and ends with it cleared.                                               *)
LEMMA SettlingLast ==
  ASSUME NEW f \in SUBSET Cells, NEW g, Settled(f, -1, g)
  PROVE  g = Cleared(f)
<1>1. PICK s \in Int : -1 - s = Between(f, s, Height) /\ g = Settling(f, s, -1)
  BY DEF Settled
<1>2. -1 \in -1..Height - 1
  BY SizeAssumption
<1>3. s <= -1
  BY <1>1, <1>2, SettledAbove
<1>4. \A c \in f : ~(c[2] <= s) /\ c[2] > s
  BY <1>3, SizeAssumption DEF Cells, Rows
<1>5. g = {Lowered(f, Height, c) : c \in {d \in f : ~Full(f, d[2])}}
  <2>1. {d \in f : d[2] <= s} = {}
        /\ {d \in f : d[2] > s /\ ~Full(f, d[2])} = {d \in f : ~Full(f, d[2])}
    BY <1>4
  <2> QED
    BY <1>1, <2>1 DEF Settling
<1>6. \A c \in f : c[2] < Height /\ ~(c[2] >= Height)
  BY SizeAssumption DEF Cells, Rows
<1>7. Visited(f, Height) = {Lowered(f, Height, c) : c \in {d \in f : ~Full(f, d[2])}}
  <2>1. {c \in f : c[2] >= Height} = {}
        /\ {d \in f : d[2] < Height /\ ~Full(f, d[2])} = {d \in f : ~Full(f, d[2])}
    BY <1>6
  <2> QED
    BY <2>1 DEF Visited
<1> QED
  BY <1>5, <1>7, VisitedLast
-----------------------------------------------------------------------------
(* One round of the loop of clear_lines, and that loop as a function       *)
Round(p) ==
  IF Py!IsFullRow(p.rows, p.y) THEN [p EXCEPT !.rows = Py!RowDeleted(@, p.y)]
  ELSE [p EXCEPT !.y = @ - 1]

After(w, p) == IF p.y < 0 THEN p.rows ELSE w[Round(p)]

IsLoop(w) == w = [p \in Py!Loops |-> After(w, p)]

(* At most k rounds are left when the first e rows are empty and y is k    *)
(* rounds away from the top: a round goes up by a row, or takes a full row *)
(* out and makes one more row empty.                                       *)
Rounds(p, k) ==
  \E e \in 0..p.y + 1 :
    /\ \A r \in Rows : r < e => p.rows[r] = Py!EmptyRow
    /\ (p.y + 1) + (p.y + 1 - e) <= k

(* Where the loop may be                                                   *)
LEMMA LoopFields ==
  ASSUME NEW p \in Py!Loops
  PROVE  /\ p.y \in -1..Height - 1 /\ p.y \in Int /\ p.rows \in Py!Boards
         /\ p = [y |-> p.y, rows |-> p.rows]
         /\ p.y < 0 => p.y = -1
         /\ p.y >= 0 => p.y \in Rows
         /\ DOMAIN p = {"y", "rows"}
  BY SizeAssumption DEF Py!Loops, Rows

(* One round: a full row goes, or the loop goes up.                        *)
LEMMA RoundIs ==
  ASSUME NEW p \in Py!Loops, p.y >= 0
  PROVE  /\ Round(p) \in Py!Loops
         /\ Full(Filled(p.rows), p.y)
              => /\ Round(p).y = p.y
                 /\ Round(p).rows = Py!RowDeleted(p.rows, p.y)
         /\ ~Full(Filled(p.rows), p.y)
              => Round(p).y = p.y - 1 /\ Round(p).rows = p.rows
<1>1. p.y \in Rows /\ p.rows \in Py!Boards
  BY LoopFields
<1>2. Py!IsFullRow(p.rows, p.y) <=> Full(Filled(p.rows), p.y)
  BY <1>1, FullRows
<1>3. Py!RowDeleted(p.rows, p.y) \in Py!Boards
  BY <1>1, DeletedRows
<1>4. p.y - 1 \in -1..Height - 1 /\ p.y \in -1..Height - 1
  BY <1>1, SizeAssumption DEF Rows
<1>5. CASE Full(Filled(p.rows), p.y)
  <2>1. Round(p) = [p EXCEPT !.rows = Py!RowDeleted(p.rows, p.y)]
    BY <1>2, <1>5 DEF Round
  <2>2. /\ Round(p).y = p.y /\ Round(p).rows = Py!RowDeleted(p.rows, p.y)
        /\ Round(p) = [y |-> p.y, rows |-> Py!RowDeleted(p.rows, p.y)]
    BY <2>1 DEF Py!Loops
  <2>3. Round(p) \in Py!Loops
    BY <1>3, <1>4, <2>2 DEF Py!Loops
  <2> QED
    BY <1>5, <2>2, <2>3
<1>6. CASE ~Full(Filled(p.rows), p.y)
  <2>1. Round(p) = [p EXCEPT !.y = p.y - 1]
    BY <1>2, <1>6 DEF Round
  <2>2. /\ Round(p).y = p.y - 1 /\ Round(p).rows = p.rows
        /\ Round(p) = [y |-> p.y - 1, rows |-> p.rows]
    BY <2>1 DEF Py!Loops
  <2>3. Round(p) \in Py!Loops
    BY <1>1, <1>4, <2>2 DEF Py!Loops
  <2> QED
    BY <1>6, <2>2, <2>3
<1> QED
  BY <1>5, <1>6

(* There are never more rounds than two for each row,                      *)
LEMMA RoundsBound ==
  ASSUME NEW p \in Py!Loops
  PROVE  Rounds(p, 2 * Height)
<1>1. p.y \in Int /\ p.y >= -1 /\ p.y < Height /\ 0 \in 0..p.y + 1
  BY SizeAssumption, LoopFields
<1>2. \A r \in Rows : ~(r < 0)
  BY DEF Rows
<1>3. (p.y + 1) + (p.y + 1 - 0) <= 2 * Height
  BY <1>1, SizeAssumption
<1> QED
  BY <1>1, <1>2, <1>3 DEF Rounds

(* none is left above the field,                                           *)
LEMMA NoRoundsLeft ==
  ASSUME NEW p \in Py!Loops, Rounds(p, 0)
  PROVE  p.y < 0
<1>1. PICK e \in 0..p.y + 1 : (p.y + 1) + (p.y + 1 - e) <= 0
  BY DEF Rounds
<1> QED
  BY <1>1, LoopFields

(* and a round leaves one round less.                                      *)
LEMMA RoundLess ==
  ASSUME NEW p \in Py!Loops, p.y >= 0, NEW k \in Nat, Rounds(p, k + 1)
  PROVE  Rounds(Round(p), k)
<1>1. PICK e \in 0..p.y + 1 :
        /\ \A r \in Rows : r < e => p.rows[r] = Py!EmptyRow
        /\ (p.y + 1) + (p.y + 1 - e) <= k + 1
  BY DEF Rounds
<1>2. p.y \in Rows /\ p.y \in Int /\ p.rows \in Py!Boards /\ e \in Int
  BY LoopFields
<1>3. CASE Full(Filled(p.rows), p.y)
  <2>1. e <= p.y
    <3>1. ASSUME p.y < e PROVE FALSE
      <4>1. p.rows[p.y] = Py!EmptyRow
        BY <1>1, <1>2, <3>1
      <4>2. <<0, p.y>> \in Filled(p.rows)
        BY <1>3, EmptyRowIsOne DEF Full
      <4>3. p.rows[p.y][0]
        BY <1>2, <4>2, EmptyRowIsOne, RowsOfBoards
      <4> QED
        BY <4>1, <4>3, EmptyRowIsOne
    <3> QED
      BY <1>2, <3>1
  <2>2. Round(p).y = p.y /\ Round(p).rows = Py!RowDeleted(p.rows, p.y)
    BY <1>3, RoundIs
  <2>3. ASSUME NEW r \in Rows, r < e + 1
        PROVE  Round(p).rows[r] = Py!EmptyRow
    <3>1. r \in DOMAIN p.rows
      BY <1>2, RowsOfBoards
    <3>2. Round(p).rows[r] = IF r = 0 THEN Py!EmptyRow
                             ELSE IF r <= p.y THEN p.rows[r - 1] ELSE p.rows[r]
      BY <2>2, <3>1 DEF Py!RowDeleted
    <3>3. r # 0 => r <= p.y /\ r - 1 \in Rows /\ r - 1 < e
      BY <1>2, <2>1, <2>3, SizeAssumption DEF Rows
    <3> QED
      BY <1>1, <3>2, <3>3
  <2>4. /\ e + 1 \in 0..Round(p).y + 1
        /\ (Round(p).y + 1) + (Round(p).y + 1 - (e + 1)) <= k
    BY <1>1, <1>2, <2>1, <2>2
  <2> QED
    BY <2>3, <2>4 DEF Rounds
<1>4. CASE ~Full(Filled(p.rows), p.y)
  <2>1. Round(p).y = p.y - 1 /\ Round(p).rows = p.rows
    BY <1>4, RoundIs
  <2>2. CASE e <= p.y
    <3>1. /\ e \in 0..Round(p).y + 1
          /\ (Round(p).y + 1) + (Round(p).y + 1 - e) <= k
      BY <1>1, <1>2, <2>1, <2>2
    <3> QED
      BY <1>1, <2>1, <3>1 DEF Rounds
  <2>3. CASE e = p.y + 1
    <3>1. /\ p.y \in 0..Round(p).y + 1
          /\ (Round(p).y + 1) + (Round(p).y + 1 - p.y) <= k
      BY <1>1, <1>2, <2>1, <2>3
    <3>2. \A r \in Rows : r < p.y => r < e
      BY <1>2, <2>3, SizeAssumption DEF Rows
    <3> QED
      BY <1>1, <2>1, <3>1, <3>2 DEF Rounds
  <2> QED
    BY <1>2, <2>2, <2>3
<1> QED
  BY <1>3, <1>4
-----------------------------------------------------------------------------
(* The loop ends whatever the rows are, so that a function describes it.   *)
LEMMA LoopExists == \E w : IsLoop(w)
<1> DEFINE V == [Py!Loops -> Py!Boards]
           base == [p \in Py!Loops |-> p.rows]
           step == [q \in Nat \X V |-> [p \in Py!Loops |-> After(q[2], p)]]
           N == 2 * Height
<1>1. base \in V
  BY LoopFields
<1>2. step \in [Nat \X V -> V]
  <2> SUFFICES ASSUME NEW q \in Nat \X V, NEW p \in Py!Loops
               PROVE  After(q[2], p) \in Py!Boards
    OBVIOUS
  <2>1. CASE p.y < 0
    BY <2>1, LoopFields DEF After
  <2>2. CASE p.y >= 0
    <3>1. Round(p) \in Py!Loops
      BY <2>2, RoundIs
    <3>2. After(q[2], p) = q[2][Round(p)]
      BY <2>2, LoopFields DEF After
    <3> QED
      BY <3>1, <3>2
  <2> QED
    BY <2>1, <2>2, LoopFields
<1>3. N \in Nat /\ N + 1 \in Nat
  BY SizeAssumption
<1> HIDE DEF N, V, base
<1>4. PICK h \in [0..N + 1 -> V] :
        h[0] = base /\ \A i \in 1..N + 1 : h[i] = step[<<i, h[i - 1]>>]
  <2> HIDE DEF step
  <2>1. \E h : IsRun(h, N + 1, V, base, step)
    BY <1>1, <1>2, <1>3, Recursion, Zenon
  <2> QED
    BY <2>1, Zenon DEF IsRun
<1>5. ASSUME NEW k \in Nat, k <= N, NEW p \in Py!Loops
      PROVE  h[k + 1][p] = After(h[k], p)
  <2>1. k + 1 \in 1..N + 1 /\ (k + 1) - 1 = k /\ k \in 0..N + 1 /\ k + 1 \in Nat
    BY <1>3, <1>5
  <2>2. h[k] \in V
    BY <1>4, <2>1
  <2>3. h[k + 1] = step[<<k + 1, h[k]>>]
    BY <1>4, <2>1
  <2>4. <<k + 1, h[k]>> \in Nat \X V
    BY <2>1, <2>2
  <2>5. step[<<k + 1, h[k]>>] = [r \in Py!Loops |-> After(h[k], r)]
    BY <2>4
  <2> QED
    BY <2>3, <2>5
<1> HIDE DEF step
<1> DEFINE P == {k \in Nat : k <= N => \A p \in Py!Loops :
                   Rounds(p, k) => h[k + 1][p] = h[k][p]}
<1>6. 0 \in P
  <2> SUFFICES ASSUME NEW p \in Py!Loops, Rounds(p, 0)
               PROVE  h[0 + 1][p] = h[0][p]
    OBVIOUS
  <2>1. p.y < 0
    BY NoRoundsLeft
  <2>2. h[0 + 1][p] = After(h[0], p)
    BY <1>3, <1>5
  <2> QED
    BY <1>4, <2>1, <2>2 DEF After, base
<1>7. \A k \in Nat : k \in P => k + 1 \in P
  <2> SUFFICES ASSUME NEW k \in Nat, k + 1 <= N, NEW p \in Py!Loops,
                      Rounds(p, k + 1),
                      \A q \in Py!Loops : Rounds(q, k) => h[k + 1][q] = h[k][q]
               PROVE  h[(k + 1) + 1][p] = h[k + 1][p]
    BY <1>3
  <2>1. h[(k + 1) + 1][p] = After(h[k + 1], p) /\ h[k + 1][p] = After(h[k], p)
    BY <1>3, <1>5
  <2>2. CASE p.y < 0
    BY <2>1, <2>2 DEF After
  <2>3. CASE p.y >= 0
    <3>1. Round(p) \in Py!Loops /\ Rounds(Round(p), k)
      BY <2>3, RoundIs, RoundLess
    <3>2. ~(p.y < 0)
      BY <2>3, LoopFields
    <3> QED
      BY <2>1, <3>1, <3>2 DEF After
  <2> QED
    BY <2>2, <2>3, LoopFields
<1> HIDE DEF P
<1>8. N \in P
  BY <1>3, <1>6, <1>7, Induction
<1>9. \A p \in Py!Loops : h[N][p] = After(h[N], p)
  <2> SUFFICES ASSUME NEW p \in Py!Loops PROVE h[N][p] = After(h[N], p)
    OBVIOUS
  <2>1. Rounds(p, N)
    BY RoundsBound DEF N
  <2>2. h[N + 1][p] = h[N][p]
    BY <1>3, <1>8, <2>1 DEF P
  <2> QED
    BY <1>3, <1>5, <2>2
<1>10. h[N] \in V
  BY <1>3, <1>4
<1>11. h[N] = [p \in Py!Loops |-> h[N][p]]
  BY <1>10 DEF V
<1>12. [p \in Py!Loops |-> h[N][p]] = [p \in Py!Loops |-> After(h[N], p)]
  BY <1>9
<1>13. IsLoop(h[N])
  BY <1>11, <1>12, Zenon DEF IsLoop
<1> QED
  BY <1>13

(* clear_lines is that function at the bottom row.                         *)
LEMMA LoopIs ==
  ASSUME NEW b
  PROVE  \E w : /\ IsLoop(w)
                /\ Py!clear_lines(b) = w[[y |-> Height - 1, rows |-> b]]
<1> DEFINE Body(w, s) ==
             IF s.y < 0 THEN s.rows
             ELSE IF Py!IsFullRow(s.rows, s.y)
             THEN w[[s EXCEPT !.rows = Py!RowDeleted(@, s.y)]]
             ELSE w[[s EXCEPT !.y = @ - 1]]
           IsWhile(w) == w = [s \in Py!Loops |-> Body(w, s)]
           while == CHOOSE w : IsWhile(w)
<1>1. \A w, s : Body(w, s) = After(w, s)
  BY DEF After, Round
<1>2. Py!clear_lines(b) = while[[y |-> Height - 1, rows |-> b]]
  BY DEF Py!clear_lines
<1> HIDE DEF Body
<1>3. \A w : IsWhile(w) <=> IsLoop(w)
  BY <1>1 DEF IsLoop
<1> HIDE DEF IsWhile
<1>4. \E w : IsWhile(w)
  BY <1>3, LoopExists, Zenon
<1>5. IsWhile(while)
  BY <1>4, Zenon
<1> HIDE DEF while
<1> QED
  BY <1>2, <1>3, <1>5

(* clear_lines takes the full rows out and lets what is above them down,   *)
(* for every list of rows.                                                 *)
THEOREM PyClearLinesClears ==
  ASSUME NEW b \in Py!Boards
  PROVE  /\ Py!clear_lines(b) \in Py!Boards
         /\ Filled(Py!clear_lines(b)) = Cleared(Filled(b))
<1> DEFINE f == Filled(b)
<1>0. f \in SUBSET Cells
  BY DEF Filled
<1>1. PICK w : IsLoop(w) /\ Py!clear_lines(b) = w[[y |-> Height - 1, rows |-> b]]
  BY LoopIs
<1>2. \A p \in Py!Loops : w[p] = After(w, p)
  BY <1>1 DEF IsLoop
<1> DEFINE P == {k \in Nat : \A p \in Py!Loops :
                   Rounds(p, k) /\ Settled(f, p.y, Filled(p.rows))
                     => w[p] \in Py!Boards /\ Filled(w[p]) = Cleared(f)}
<1> HIDE DEF f
<1>3. ASSUME NEW p \in Py!Loops, p.y < 0, Settled(f, p.y, Filled(p.rows))
      PROVE  w[p] \in Py!Boards /\ Filled(w[p]) = Cleared(f)
  <2>1. p.y = -1 /\ w[p] = p.rows /\ p.rows \in Py!Boards
    BY <1>2, <1>3, LoopFields DEF After
  <2> QED
    BY <1>0, <1>3, <2>1, SettlingLast
<1>4. ASSUME NEW p \in Py!Loops, p.y >= 0, Settled(f, p.y, Filled(p.rows))
      PROVE  Settled(f, Round(p).y, Filled(Round(p).rows))
  <2>1. p.y \in Rows /\ p.y \in Int /\ p.rows \in Py!Boards
    BY <1>4, LoopFields
  <2>2. PICK s \in Int : /\ p.y - s = Between(f, s, Height)
                         /\ Filled(p.rows) = Settling(f, s, p.y)
    BY <1>4 DEF Settled
  <2>3. /\ Full(Filled(p.rows), p.y) <=> s \in Rows /\ Full(f, s)
        /\ s \in Rows \/ s < 0
    BY <1>0, <2>1, <2>2, SettlingRow
  <2>4. s - 1 \in Int
    OBVIOUS
  <2>5. CASE Full(Filled(p.rows), p.y)
    <3>1. /\ WithoutRow(Settling(f, s, p.y), p.y) = Settling(f, s - 1, p.y)
          /\ p.y - (s - 1) = Between(f, s - 1, Height)
      BY <1>0, <2>1, <2>2, <2>3, <2>5, SettlingDeletes
    <3>2. Filled(Py!RowDeleted(p.rows, p.y)) = WithoutRow(Filled(p.rows), p.y)
      BY <2>1, DeletedRows
    <3>3. Round(p).y = p.y /\ Round(p).rows = Py!RowDeleted(p.rows, p.y)
      BY <1>4, <2>5, RoundIs
    <3>4. Filled(Round(p).rows) = Settling(f, s - 1, Round(p).y)
      BY <2>2, <3>1, <3>2, <3>3
    <3>5. Round(p).y - (s - 1) = Between(f, s - 1, Height)
      BY <3>1, <3>3
    <3> QED
      BY <2>4, <3>4, <3>5 DEF Settled
  <2>6. CASE ~Full(Filled(p.rows), p.y)
    <3>1. /\ Settling(f, s, p.y) = Settling(f, s - 1, p.y - 1)
          /\ (p.y - 1) - (s - 1) = Between(f, s - 1, Height)
      BY <1>0, <2>1, <2>2, <2>3, <2>6, SettlingGoesUp
    <3>2. Round(p).y = p.y - 1 /\ Round(p).rows = p.rows
      BY <1>4, <2>6, RoundIs
    <3>3. Filled(Round(p).rows) = Settling(f, s - 1, Round(p).y)
      BY <2>2, <3>1, <3>2
    <3>4. Round(p).y - (s - 1) = Between(f, s - 1, Height)
      BY <3>1, <3>2
    <3> QED
      BY <2>4, <3>3, <3>4 DEF Settled
  <2> QED
    BY <2>5, <2>6
<1>5. 0 \in P
  BY <1>3, NoRoundsLeft
<1>6. \A k \in Nat : k \in P => k + 1 \in P
  <2> SUFFICES ASSUME NEW k \in Nat, k \in P, NEW p \in Py!Loops,
                      Rounds(p, k + 1), Settled(f, p.y, Filled(p.rows))
               PROVE  w[p] \in Py!Boards /\ Filled(w[p]) = Cleared(f)
    OBVIOUS
  <2>1. CASE p.y < 0
    BY <1>3, <2>1
  <2>2. CASE p.y >= 0
    <3>1. Round(p) \in Py!Loops /\ Rounds(Round(p), k)
      BY <2>2, RoundIs, RoundLess
    <3>2. Settled(f, Round(p).y, Filled(Round(p).rows))
      BY <1>4, <2>2
    <3>3. w[p] = w[Round(p)]
      BY <1>2, <2>2, LoopFields DEF After
    <3> QED
      BY <3>1, <3>2, <3>3
  <2> QED
    BY <2>1, <2>2, LoopFields
<1> DEFINE p0 == [y |-> Height - 1, rows |-> b]
<1>7. p0 \in Py!Loops /\ p0.y = Height - 1 /\ p0.rows = b
  BY SizeAssumption DEF Py!Loops
<1> HIDE DEF P, p0
<1>8. 2 * Height \in Nat
  BY SizeAssumption
<1>9. 2 * Height \in P
  BY <1>5, <1>6, <1>8, Induction
<1>10. Settled(f, Height - 1, f)
  BY <1>0, SettlingFirst
<1>11. Settled(f, p0.y, Filled(p0.rows))
  BY <1>7, <1>10 DEF f
<1>12. w[p0] \in Py!Boards /\ Filled(w[p0]) = Cleared(f)
  BY <1>7, <1>9, <1>11, RoundsBound DEF P
<1> QED
  BY <1>1, <1>12 DEF p0, f
-----------------------------------------------------------------------------
(* The pieces of tetris.py, and when one is the piece p of tetris.cpp      *)
PyPieces ==
  [type : 0..6, blocks : [1..4 -> Int \X Int], x : Int, y : Int]

Blocks(q) == {q.blocks[i] : i \in 1..4}

SamePiece(p, q) ==
  /\ p \in Pieces /\ q \in PyPieces
  /\ Letters[q.type + 1] = p.type
  /\ q.x = p.x /\ q.y = p.y
  /\ Blocks(q) = p.blocks

(* The fields of a piece of tetris.py                                      *)
LEMMA PyPieceFields ==
  ASSUME NEW q \in PyPieces
  PROVE  /\ q.x \in Int /\ q.y \in Int /\ q.type \in 0..6
         /\ q.blocks \in [1..4 -> Int \X Int] /\ DOMAIN q.blocks = 1..4
  BY DEF PyPieces

(* The same piece covers the same cells.                                   *)
LEMMA SameCover ==
  ASSUME NEW p, NEW q, SamePiece(p, q)
  PROVE  /\ Covered(p) = Py!BlocksOf(q)
         /\ Covered(p) \in SUBSET (Int \X Int)
<1>1. /\ p \in Pieces /\ q \in PyPieces /\ q.x = p.x /\ q.y = p.y
      /\ p.blocks = {q.blocks[i] : i \in 1..4}
  BY DEF SamePiece, Blocks
<1>2. DOMAIN q.blocks = 1..4
  BY <1>1, PyPieceFields
<1>3. Covered(p) = {<<p.x + b[1], p.y + b[2]>> : b \in {q.blocks[i] : i \in 1..4}}
  BY <1>1 DEF Covered
<1>4. Py!BlocksOf(q)
        = {<<p.x + q.blocks[i][1], p.y + q.blocks[i][2]>> : i \in 1..4}
  BY <1>1, <1>2 DEF Py!BlocksOf
<1> DEFINE at(b) == <<p.x + b[1], p.y + b[2]>>
           bl(i) == q.blocks[i]
<1> HIDE DEF at, bl
<1>5. {at(b) : b \in {bl(i) : i \in 1..4}} = {at(bl(i)) : i \in 1..4}
  OBVIOUS
<1>6. Covered(p) = Py!BlocksOf(q)
  BY <1>3, <1>4, <1>5 DEF at, bl
<1>7. \A b \in p.blocks : <<p.x + b[1], p.y + b[2]>> \in Int \X Int
  BY <1>1, PieceFields
<1> QED
  BY <1>6, <1>7 DEF Covered

(* Both sides accept the same places.                                      *)
LEMMA SameValid ==
  ASSUME NEW p, NEW q, SamePiece(p, q), NEW b \in Py!Boards
  PROVE  IsValidPosition(p, Filled(b)) <=> Py!is_valid_position(q, b)
<1>1. Covered(p) = Py!BlocksOf(q) /\ Covered(p) \in SUBSET (Int \X Int)
  BY SameCover
<1>2. ASSUME NEW c \in Int \X Int
      PROVE  c \in Cells \ Filled(b) <=> Py!OnBoard(c) /\ ~b[c[2]][c[1]]
  <2>1. c = <<c[1], c[2]>>
    OBVIOUS
  <2>2. c \in Cells <=> Py!OnBoard(c)
    BY <2>1 DEF Cells, Columns, Rows, Py!OnBoard
  <2> QED
    BY <2>2 DEF Filled
<1> QED
  BY <1>1, <1>2 DEF IsValidPosition, Py!is_valid_position

(* The new_piece of move_piece *)
PyMoved(q, dx, dy) == [q EXCEPT !.x = @ + dx, !.y = @ + dy]

(* The same piece moved alike is the same piece.                           *)
LEMMA SameMoved ==
  ASSUME NEW p, NEW q, SamePiece(p, q), NEW dx \in Int, NEW dy \in Int
  PROVE  SamePiece(Moved(p, dx, dy), PyMoved(q, dx, dy))
<1>1. /\ p \in Pieces /\ q \in PyPieces /\ q.x = p.x /\ q.y = p.y
      /\ Letters[q.type + 1] = p.type /\ Blocks(q) = p.blocks
  BY DEF SamePiece
<1> DEFINE v == q.x + dx
           u == q.y + dy
           m == [q EXCEPT !.x = v, !.y = u]
<1>2. u \in Int /\ v \in Int
  BY <1>1, PyPieceFields
<1>3. v = p.x + dx /\ u = p.y + dy
  BY <1>1
<1> HIDE DEF u, v
<1>4. m \in PyPieces
  BY <1>1, <1>2 DEF PyPieces
<1>5. m.x = v /\ m.y = u /\ m.blocks = q.blocks /\ m.type = q.type
  BY <1>1 DEF PyPieces
<1> HIDE DEF m
<1>6. Blocks(m) = Blocks(q)
  BY <1>5 DEF Blocks
<1>7. SamePiece(Moved(p, dx, dy), m)
  BY <1>1, <1>3, <1>4, <1>5, <1>6, MovedIs DEF SamePiece
<1> QED
  BY <1>7 DEF m, u, v, PyMoved

(* The piece that is not turned is index 3 here and "O" there.             *)
LEMMA LetterO ==
  ASSUME NEW i \in 0..6
  PROVE  Letters[i + 1] = "O" <=> i = 3
<1>1. i = 0 \/ i = 1 \/ i = 2 \/ i = 3 \/ i = 4 \/ i = 5 \/ i = 6
  OBVIOUS
<1>2. /\ Letters[0 + 1] = "I" /\ Letters[1 + 1] = "J" /\ Letters[2 + 1] = "L"
      /\ Letters[3 + 1] = "O" /\ Letters[4 + 1] = "S" /\ Letters[5 + 1] = "T"
      /\ Letters[6 + 1] = "Z"
  BY DEF Letters
<1> HIDE DEF Letters
<1> QED
  BY <1>1, <1>2

(* The same piece turned is the same piece.                                *)
LEMMA SameRotated ==
  ASSUME NEW p, NEW q, SamePiece(p, q)
  PROVE  SamePiece(RotatedCopy(p), Py!rotated_copy(q))
<1>1. /\ p \in Pieces /\ q \in PyPieces /\ q.x = p.x /\ q.y = p.y
      /\ Letters[q.type + 1] = p.type /\ Blocks(q) = p.blocks
  BY DEF SamePiece
<1>2. p.type = "O" <=> q.type = 3
  BY <1>1, LetterO, PyPieceFields
<1>3. CASE p.type = "O"
  BY <1>2, <1>3 DEF RotatedCopy, Py!rotated_copy
<1>4. CASE p.type # "O"
  <2> DEFINE B == [i \in 1..4 |-> <<q.blocks[i][2], -q.blocks[i][1]>>]
             m == [q EXCEPT !.blocks = B]
  <2>1. DOMAIN q.blocks = 1..4 /\ q.blocks \in [1..4 -> Int \X Int]
    BY <1>1, PyPieceFields
  <2>2. Py!rotated_copy(q) = m
    BY <1>2, <1>4, <2>1 DEF Py!rotated_copy
  <2>3. B \in [1..4 -> Int \X Int]
    BY <2>1
  <2>4. {B[i] : i \in 1..4} = Turned({q.blocks[i] : i \in 1..4})
    <3>1. {B[i] : i \in 1..4} = {<<q.blocks[i][2], -q.blocks[i][1]>> : i \in 1..4}
      OBVIOUS
    <3> DEFINE turn(b) == <<b[2], -b[1]>>
               bl(i) == q.blocks[i]
    <3> HIDE DEF turn, bl
    <3>2. {turn(b) : b \in {bl(i) : i \in 1..4}} = {turn(bl(i)) : i \in 1..4}
      OBVIOUS
    <3> QED
      BY <3>1, <3>2 DEF turn, bl, Turned
  <2> HIDE DEF B
  <2>5. m \in PyPieces
    BY <1>1, <2>3 DEF PyPieces
  <2>6. m.x = q.x /\ m.y = q.y /\ m.type = q.type /\ m.blocks = B
    BY <1>1 DEF PyPieces
  <2> HIDE DEF m
  <2>7. Blocks(m) = Turned(p.blocks)
    BY <1>1, <2>4, <2>6 DEF Blocks
  <2>8. SamePiece(RotatedCopy(p), m)
    BY <1>1, <1>4, <2>5, <2>6, <2>7, RotatedIs DEF SamePiece
  <2> QED
    BY <2>2, <2>8
<1> QED
  BY <1>3, <1>4

(* The tables of the two sources                                           *)
LEMMA SameTables ==
  ASSUME NEW i \in 0..6
  PROVE  /\ Py!TETROMINOES[i + 1] \in [1..4 -> Int \X Int]
         /\ {Py!TETROMINOES[i + 1][j] : j \in 1..4} = tetrominoes[Letters[i + 1]]
<1>1. i = 0 \/ i = 1 \/ i = 2 \/ i = 3 \/ i = 4 \/ i = 5 \/ i = 6
  OBVIOUS
<1>2. ASSUME NEW t, t = <<t[1], t[2], t[3], t[4]>>,
             t[1] \in Int \X Int, t[2] \in Int \X Int,
             t[3] \in Int \X Int, t[4] \in Int \X Int
      PROVE  /\ t \in [1..4 -> Int \X Int]
             /\ {t[j] : j \in 1..4} = {t[1], t[2], t[3], t[4]}
  <2>1. \A j \in 1..4 : j = 1 \/ j = 2 \/ j = 3 \/ j = 4
    OBVIOUS
  <2>2. {t[j] : j \in 1..4} = {t[1], t[2], t[3], t[4]}
    BY <2>1
  <2> QED
    BY <1>2, <2>2
<1>3. CASE i = 0
  BY <1>2, <1>3 DEF Py!TETROMINOES, tetrominoes, Letters
<1>4. CASE i = 1
  BY <1>2, <1>4 DEF Py!TETROMINOES, tetrominoes, Letters
<1>5. CASE i = 2
  BY <1>2, <1>5 DEF Py!TETROMINOES, tetrominoes, Letters
<1>6. CASE i = 3
  BY <1>2, <1>6 DEF Py!TETROMINOES, tetrominoes, Letters
<1>7. CASE i = 4
  BY <1>2, <1>7 DEF Py!TETROMINOES, tetrominoes, Letters
<1>8. CASE i = 5
  BY <1>2, <1>8 DEF Py!TETROMINOES, tetrominoes, Letters
<1>9. CASE i = 6
  BY <1>2, <1>9 DEF Py!TETROMINOES, tetrominoes, Letters
<1> QED
  BY <1>1, <1>3, <1>4, <1>5, <1>6, <1>7, <1>8, <1>9

(* A letter and its index deal the same piece.                             *)
LEMMA SameNew ==
  ASSUME NEW t \in Types, NEW i \in 0..6, Letters[i + 1] = t
  PROVE  SamePiece(NewPiece(t), Py!TetrisPiece(i))
<1> DEFINE q == Py!TetrisPiece(i)
           B == Py!TETROMINOES[i + 1]
<1>1. B \in [1..4 -> Int \X Int] /\ {B[j] : j \in 1..4} = tetrominoes[t]
  BY SameTables
<1>2. q = [type |-> i, blocks |-> B, x |-> Width \div 2, y |-> 0]
  BY DEF Py!TetrisPiece
<1> HIDE DEF B, q
<1>3. Width \div 2 \in Int
  BY SizeAssumption
<1>4. q \in PyPieces
  BY <1>1, <1>2, <1>3 DEF PyPieces
<1>5. q.type = i /\ q.blocks = B /\ q.x = Width \div 2 /\ q.y = 0
  BY <1>2
<1>6. Blocks(q) = tetrominoes[t]
  BY <1>1, <1>5 DEF Blocks
<1>7. SamePiece(NewPiece(t), q)
  BY <1>4, <1>5, <1>6, NewPieceIs DEF SamePiece
<1> QED
  BY <1>7 DEF q
-----------------------------------------------------------------------------
(* What ties the two games together: the same piece, and lists of rows     *)
(* that are filled where the field is.                                     *)
SameState ==
  /\ SamePiece(piece, current_piece)
  /\ board \in Py!Boards
  /\ field = Filled(board)

(* The rows of a new game are an empty field.                              *)
LEMMA EmptyBoards ==
  Py!EmptyBoard \in Py!Boards /\ Filled(Py!EmptyBoard) = {}
<1>1. Py!EmptyBoard \in Py!Boards
  BY EmptyRowIsOne DEF Py!EmptyBoard, Py!Boards, Rows, Columns
<1>2. ASSUME NEW c \in Cells PROVE ~Py!EmptyBoard[c[2]][c[1]]
  <2>1. c[1] \in Columns /\ c[2] \in Rows
    BY DEF Cells
  <2>2. Py!EmptyBoard[c[2]] = Py!EmptyRow
    BY <2>1 DEF Py!EmptyBoard, Rows
  <2> QED
    BY <2>1, <2>2, EmptyRowIsOne
<1> QED
  BY <1>1, <1>2 DEF Filled

(* The piece written into the rows and into the field                      *)
LEMMA SameLanded ==
  ASSUME SameState
  PROVE  LET fixed == [y \in DOMAIN board |-> [x \in DOMAIN board[y] |->
                  board[y][x] \/ <<x, y>> \in Py!BlocksOf(current_piece)]]
         IN  fixed \in Py!Boards /\ Filled(fixed) = Landed
<1> DEFINE B == Py!BlocksOf(current_piece)
           fixed == [y \in DOMAIN board |-> [x \in DOMAIN board[y] |->
                       board[y][x] \/ <<x, y>> \in B]]
<1>1. /\ DOMAIN board = Rows
      /\ \A y \in Rows : board[y] \in [Columns -> BOOLEAN]
      /\ Covered(piece) = B
  BY RowsOfBoards, SameCover DEF SameState
<1> HIDE DEF B
<1>2. ASSUME NEW y \in Rows
      PROVE  fixed[y] = [x \in Columns |-> board[y][x] \/ <<x, y>> \in B]
  BY <1>1
<1>3. fixed = [y \in Rows |-> fixed[y]]
  BY <1>1
<1>4. ASSUME NEW y \in Rows
      PROVE  fixed[y] \in [Columns -> BOOLEAN]
  BY <1>1, <1>2
<1> HIDE DEF fixed
<1>5. fixed \in Py!Boards
  BY <1>3, <1>4 DEF Py!Boards, Rows, Columns
<1>6. ASSUME NEW c \in Cells
      PROVE  fixed[c[2]][c[1]] <=> board[c[2]][c[1]] \/ c \in B
  <2>1. c = <<c[1], c[2]>> /\ c[1] \in Columns /\ c[2] \in Rows
    BY DEF Cells
  <2>2. fixed[c[2]] = [x \in Columns |-> board[c[2]][x] \/ <<x, c[2]>> \in B]
    BY <1>2, <2>1
  <2>3. fixed[c[2]][c[1]] = (board[c[2]][c[1]] \/ <<c[1], c[2]>> \in B)
    BY <2>1, <2>2, Zenon
  <2> QED
    BY <2>1, <2>3, Zenon
<1>7. Filled(fixed) = Filled(board) \union (B \cap Cells)
  BY <1>6 DEF Filled
<1>8. Landed = Filled(board) \union (B \cap Cells)
  BY <1>1 DEF Landed, SameState
<1> QED
  BY <1>5, <1>7, <1>8, Zenon DEF fixed, B

(* The next piece keeps the two games tied together.                       *)
LEMMA SameSpawn ==
  ASSUME NEW b \in Py!Boards, SpawnNewPiece(Filled(b)), Py!spawn_new_piece(b),
         Letters[current_piece'.type + 1] = piece'.type
  PROVE  SameState'
<1>1. PICK t \in Types :
        /\ piece' = NewPiece(t)
        /\ field' = IF IsValidPosition(NewPiece(t), Filled(b)) THEN Filled(b)
                    ELSE resetBoard
  BY DEF SpawnNewPiece
<1>2. PICK i \in 0..6 :
        /\ current_piece' = Py!TetrisPiece(i)
        /\ board' = IF Py!is_valid_position(Py!TetrisPiece(i), b) THEN b
                    ELSE Py!EmptyBoard
  BY DEF Py!spawn_new_piece
<1>3. piece'.type = t /\ current_piece'.type = i
  BY <1>1, <1>2 DEF NewPiece, Py!TetrisPiece
<1>4. SamePiece(NewPiece(t), Py!TetrisPiece(i))
  BY <1>3, SameNew
<1>5. IsValidPosition(NewPiece(t), Filled(b))
        <=> Py!is_valid_position(Py!TetrisPiece(i), b)
  BY <1>4, SameValid
<1>6. SamePiece(piece', current_piece')
  BY <1>1, <1>2, <1>4
<1>7. board' \in Py!Boards /\ field' = Filled(board')
  BY <1>1, <1>2, <1>5, EmptyBoards DEF resetBoard
<1> QED
  BY <1>6, <1>7 DEF SameState, SamePiece, Blocks, Filled, Pieces, PyPieces,
                    Letters, Py!Boards, Cells, Columns, Rows

(* The games stay tied together until something parts them.                *)
LEMMA SameStateHolds == PairSpec => [](together => SameState)
<1>1. PairInit => (together => SameState)
  <2> SUFFICES ASSUME PairInit, together PROVE SameState
    OBVIOUS
  <2>1. PICK t \in Types : piece = NewPiece(t)
    BY DEF PairInit, Init
  <2>2. PICK i \in 0..6 : current_piece = Py!TetrisPiece(i)
    BY DEF PairInit, Py!PyInit
  <2>3. Letters[i + 1] = t
    BY <2>1, <2>2 DEF PairInit, SameType, NewPiece, Py!TetrisPiece
  <2>4. SamePiece(piece, current_piece)
    BY <2>1, <2>2, <2>3, SameNew
  <2> QED
    BY <2>4, EmptyBoards DEF PairInit, Init, Py!PyInit, SameState, resetBoard
<1>2. (together => SameState) /\ [PairNext]_pairVars => (together => SameState)'
  <2> SUFFICES ASSUME together => SameState, [PairNext]_pairVars, together'
               PROVE  SameState'
    OBVIOUS
  <2>p. /\ ~HoldA /\ ~LongPressA /\ ~SeenByOne /\ ~Alone(Next)
        /\ together
    BY DEF HoldA, LongPressA, SeenByOne, Alone, PressA, ReleaseA, PressShift,
           BothTick, PairNext, pairVars
  <2>0. /\ SamePiece(piece, current_piece)
        /\ board \in Py!Boards /\ field = Filled(board)
    BY <2>p DEF SameState
  <2>1. ASSUME SamePiece(piece', current_piece'), field' = field, board' = board
        PROVE  SameState'
    BY <2>0, <2>1 DEF SameState, SamePiece, Blocks, Filled, Pieces, PyPieces,
                    Letters, Py!Boards, Cells, Columns, Rows
  <2>2. CASE PressA
    <3> DEFINE q == Py!rotated_copy(current_piece)
    <3>1. SamePiece(RotatedCopy(piece), q)
      BY <2>0, SameRotated
    <3>2. IsValidPosition(RotatedCopy(piece), field)
            <=> Py!is_valid_position(q, board)
      BY <2>0, <3>1, SameValid
    <3>3. /\ current_piece' = IF Py!is_valid_position(q, board) THEN q
                              ELSE current_piece
          /\ board' = board
      BY <2>2 DEF PressA, Py!rotate_piece
    <3> HIDE DEF q
    <3>4. CASE Rotate
      BY <2>1, <3>1, <3>2, <3>3, <3>4 DEF Rotate
    <3>5. CASE ~IsValidPosition(RotatedCopy(piece), field) /\ UNCHANGED vars
      BY <2>0, <2>1, <3>2, <3>3, <3>5 DEF vars
    <3> QED
      BY <2>2, <3>4, <3>5 DEF PressA
  <2>3. CASE PressShift
    <3>1. PICK dx \in {-1, 1} :
            /\ \/ Shift /\ piece'.x = piece.x + dx
               \/ ~IsValidPosition(Moved(piece, dx, 0), field) /\ UNCHANGED vars
            /\ Py!move_piece(dx, 0)
      BY <2>3 DEF PressShift
    <3> DEFINE q == PyMoved(current_piece, dx, 0)
    <3>2. SamePiece(Moved(piece, dx, 0), q)
      <4>1. dx \in Int /\ 0 \in Int
        OBVIOUS
      <4> QED
        BY <2>0, <4>1, SameMoved
    <3>3. IsValidPosition(Moved(piece, dx, 0), field)
            <=> Py!is_valid_position(q, board)
      BY <2>0, <3>2, SameValid
    <3>4. \/ /\ Py!is_valid_position(q, board)
             /\ current_piece' = q /\ board' = board
          \/ /\ ~Py!is_valid_position(q, board)
             /\ current_piece' = current_piece /\ board' = board
      BY <3>1 DEF Py!move_piece, Py!pyVars, PyMoved
    <3> HIDE DEF q
    <3>5. CASE Shift /\ piece'.x = piece.x + dx
      <4>1. PICK ex \in {-1, 1} :
              /\ IsValidPosition(Moved(piece, ex, 0), field)
              /\ piece' = Moved(piece, ex, 0) /\ field' = field
        BY <3>5 DEF Shift
      <4>2. ex = dx
        <5>1. piece \in Pieces
          BY <2>0 DEF SamePiece
        <5>2. piece'.x = piece.x + ex /\ piece.x \in Int
          BY <4>1, <5>1, MovedIs, PieceFields
        <5> QED
          BY <3>5, <5>2
      <4> QED
        BY <2>1, <3>2, <3>3, <3>4, <4>1, <4>2
    <3>6. CASE ~IsValidPosition(Moved(piece, dx, 0), field) /\ UNCHANGED vars
      BY <2>0, <2>1, <3>3, <3>4, <3>6 DEF vars
    <3> QED
      BY <3>1, <3>5, <3>6
  <2>4. CASE BothTick
    <3> DEFINE q == PyMoved(current_piece, 0, 1)
    <3>1. SamePiece(Moved(piece, 0, 1), q)
      <4>1. 0 \in Int /\ 1 \in Int
        OBVIOUS
      <4> QED
        BY <2>0, <4>1, SameMoved
    <3>2. IsValidPosition(Moved(piece, 0, 1), field)
            <=> Py!is_valid_position(q, board)
      BY <2>0, <3>1, SameValid
    <3>3. \/ /\ Py!is_valid_position(q, board)
             /\ current_piece' = q /\ board' = board
          \/ /\ ~Py!is_valid_position(q, board)
             /\ Py!fix_piece
      BY <2>4 DEF BothTick, Py!move_piece, PyMoved
    <3> HIDE DEF q
    <3>4. CASE Fall
      BY <2>1, <3>1, <3>2, <3>3, <3>4 DEF Fall
    <3>5. CASE FixPiece
      <4> DEFINE fixed == [y \in DOMAIN board |-> [x \in DOMAIN board[y] |->
                    board[y][x] \/ <<x, y>> \in Py!BlocksOf(current_piece)]]
      <4>1. fixed \in Py!Boards /\ Filled(fixed) = Landed
        BY <2>p, SameLanded
      <4>2. Py!spawn_new_piece(Py!clear_lines(fixed))
        BY <3>2, <3>3, <3>5 DEF FixPiece, Py!fix_piece
      <4> HIDE DEF fixed
      <4>3. SpawnNewPiece(ClearLines(Landed))
        BY <3>5 DEF FixPiece
      <4>4. /\ Py!clear_lines(fixed) \in Py!Boards
            /\ Filled(Py!clear_lines(fixed)) = Cleared(Landed)
        BY <4>1, PyClearLinesClears
      <4>5. Landed \in SUBSET Cells
        BY <2>0, LandedCells DEF Filled
      <4>6. ClearLines(Landed) = Filled(Py!clear_lines(fixed))
        BY <4>4, <4>5, ClearLinesClears
      <4>7. Letters[current_piece'.type + 1] = piece'.type
        BY <2>4 DEF BothTick, SameType
      <4> QED
        BY <4>2, <4>3, <4>4, <4>6, <4>7, SameSpawn
    <3> QED
      BY <2>4, <3>4, <3>5 DEF BothTick, Drop
  <2>5. CASE UNCHANGED pairVars
    BY <2>0, <2>1, <2>5 DEF pairVars
  <2>6. CASE ReleaseA
    BY <2>0, <2>1, <2>6 DEF ReleaseA, vars, pyVars
  <2> QED
    BY <2>p, <2>2, <2>3, <2>4, <2>5, <2>6 DEF PairNext
<1> QED
  BY <1>1, <1>2, PTL DEF PairSpec

(* The C++ game and the Python game are the same game as long as A is let  *)
(* go before the next look and both see the same buttons, the same clock   *)
(* and the same pieces: the same piece in the same place and the same      *)
(* cells filled and shown (SameGame).                                      *)
THEOREM GamesAreTheSame == PairSpec => []SameGame
<1>1. (together => SameState) => SameGame
  <2> SUFFICES ASSUME together => SameState, together PROVE SameGame
    BY DEF SameGame
  <2>1. /\ SamePiece(piece, current_piece)
        /\ board \in Py!Boards /\ field = Filled(board)
    BY DEF SameState
  <2>2. /\ SameType /\ piece.x = current_piece.x /\ piece.y = current_piece.y
    BY <2>1 DEF SamePiece, SameType
  <2>3. Covered(piece) = Py!BlocksOf(current_piece)
    BY <2>1, SameCover
  <2>4. field = {c \in Cells : board[c[2]][c[1]]}
    BY <2>1 DEF Filled
  <2>5. Py!PyPicture = {c \in Cells : board[c[2]][c[1]]
                                      \/ c \in Py!BlocksOf(current_piece)}
    BY DEF Py!PyPicture, Cells, Columns, Rows
  <2>6. Picture = Py!PyPicture
    BY <2>3, <2>4, <2>5 DEF Picture
  <2> QED
    BY <2>2, <2>3, <2>4, <2>6 DEF SameGame
<1> QED
  BY <1>1, SameStateHolds, PTL
=============================================================================
