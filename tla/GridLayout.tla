----------------------------- MODULE GridLayout -----------------------------
(***************************************************************************)
(* The layout engine of the home page, GridLayoutEngine.cs: first-fit      *)
(* row-major packing, and the index at which a dragged widget goes in.     *)
(*                                                                         *)
(* A widget is a record [id, rows]; of its columns the factory leaves one  *)
(* choice only: a widget of AlwaysFillRow takes the whole row, any other   *)
(* one cell. Coordinates of the drag are in hundredths of a cell.          *)
(***************************************************************************)
EXTENDS Integers, FiniteSets, SequencesExt

CONSTANTS
  DefaultOrder,   \* the factory's widgets, in its order
  AlwaysFillRow,  \* those of them that span the row, and may grow in height
  MaxRowSpan,     \* bound of their rows; the code has none
  MaxWidgets,     \* bound of a list, which a stale drop makes longer
  Columns,        \* the numbers of columns that are chosen
  GridRows        \* rows the packing tries; 1000 in the code, never used up

Id == ToSet(DefaultOrder)

Widget == {w \in [id : Id, rows : 1 .. MaxRowSpan] : w.id \in AlwaysFillRow \/ w.rows = 1}

ASSUME WidgetAssumption ==
  /\ DefaultOrder \in Seq(Id) /\ DefaultOrder # <<>>
  /\ IsInjective(DefaultOrder)
  /\ AlwaysFillRow \subseteq Id
ASSUME BoundAssumption ==
  /\ Columns \subseteq 2 .. 5 /\ {2, 3} \subseteq Columns
  /\ MaxRowSpan \in Nat /\ MaxRowSpan >= 2
  /\ MaxWidgets \in Nat /\ MaxWidgets >= Len(DefaultOrder)
  /\ GridRows \in Nat /\ GridRows >= (MaxWidgets + 1) * MaxRowSpan

MaxOf(a, b) == IF a >= b THEN a ELSE b
MinOf(a, b) == IF a <= b THEN a ELSE b
Distance(a, b) == IF a >= b THEN a - b ELSE b - a

GetEffectiveColumnSpan(w, columns) == IF w.id \in AlwaysFillRow THEN columns ELSE 1

Cells(p) == (p.row .. p.row + p.rows - 1) \X (p.col .. p.col + p.cols - 1)

\* Seeded bug: only the first row of a placed widget is marked.
AllCellsFree_Fault(placed, p) ==
  \A i \in DOMAIN placed : Cells(p) \cap Cells([placed[i] EXCEPT !.rows = 1]) = {}

AllCellsFree(placed, p) == \A i \in DOMAIN placed : Cells(p) \cap Cells(placed[i]) = {}

Place(placed, w, columns) ==
  LET span == GetEffectiveColumnSpan(w, columns)
      At(r, c) == [id |-> w.id, row |-> r, col |-> c, cols |-> span, rows |-> w.rows]
      free == {s \in (0 .. GridRows - 1) \X (0 .. columns - span) :
                 AllCellsFree(placed, At(s[1], s[2]))}
      first == CHOOSE s \in free :
                 \A t \in free : s[1] * columns + s[2] <= t[1] * columns + t[2]
  IN  IF free = {} THEN placed ELSE Append(placed, At(first[1], first[2]))

Pack(list, columns) ==
  LET packed[n \in 0 .. Len(list)] ==
        IF n = 0 THEN <<>> ELSE Place(packed[n - 1], list[n], columns)
  IN  packed[Len(list)]

\* i counts from 0, as the code's indices do
Inserted(remaining, w, i) == InsertAt(remaining, MaxOf(0, MinOf(i, Len(remaining))) + 1, w)

PackWithInserted(remaining, w, i, columns) == Pack(Inserted(remaining, w, i), columns)

Without(list, id) ==
  LET others[n \in 0 .. Len(list)] ==
        IF n = 0 THEN <<>>
        ELSE others[n - 1] \o (IF list[n].id = id THEN <<>> ELSE <<list[n]>>)
  IN  others[Len(list)]

IndexOf(list, id) == SelectInSeq(list, LAMBDA w : w.id = id) - 1

PositionOf(placed, id) == placed[SelectInSeq(placed, LAMBDA p : p.id = id)]

CentreRow(p) == 100 * p.row + 50 * p.rows
CentreCol(p) == 100 * p.col + 50 * p.cols

Inside(at, p) ==
  /\ at.row \in 100 * p.row .. 100 * (p.row + p.rows) - 1
  /\ at.col \in 100 * p.col .. 100 * (p.col + p.cols) - 1

\* the candidate p lies from the origin in a direction the drag has taken
DragDirection(origin, at, p) ==
  LET Along(drag, move) == (drag > 30 /\ move > 0) \/ (drag < -30 /\ move < 0)
  IN  \/ Along(at.col - CentreCol(origin), CentreCol(p) - CentreCol(origin))
      \/ Along(at.row - CentreRow(origin), CentreRow(p) - CentreRow(origin))

\* where each index would put the dragged widget
Candidates(remaining, w, columns) ==
  {[index |-> i, at |-> PositionOf(PackWithInserted(remaining, w, i, columns), w.id)] :
     i \in 0 .. Len(remaining)}

\* The index of the lowest score, the first of equals. Indices are below 50,
\* which lets one number carry both.
ComputeInsertionIndex(candidates, at, origin, index) ==
  LET Score(c) == Distance(CentreRow(c.at), at.row) + Distance(CentreCol(c.at), at.col)
                    - (IF DragDirection(origin, at, c.at) THEN 20 ELSE 0)
                    + Distance(c.index, index)
  IN  IF Cardinality(candidates) = 1 THEN 0
      ELSE IF Inside(at, origin) THEN index
      ELSE Min({50 * Score(c) + c.index : c \in candidates}) % 50

\* the points the centre of a dragged widget is tried at: every half cell
Centres(columns, height) ==
  [row : {50 * r : r \in 0 .. 2 * height}, col : {50 * c : c \in 0 .. 2 * columns}]
=============================================================================
