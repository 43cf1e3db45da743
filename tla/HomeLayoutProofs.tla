-------------------------- MODULE HomeLayoutProofs --------------------------
(***************************************************************************)
(* Proofs about the home page, for every list of widgets, every choice of  *)
(* those that fill the row, every number of columns and every bound.       *)
(*                                                                         *)
(* The packing of the layout engine and the filter before a drag are       *)
(* recursive functions, so what they return is proved by induction over    *)
(* the widgets placed so far: a set of natural numbers has a least one     *)
(* (NatLessThanWellFounded), so a set that has 0 and with n also n + 1 has *)
(* them all, and that a recursive function is what its equation says is    *)
(* proved the same way. The lemmas then follow the code from the bottom:   *)
(* the engine, the lists of the grid host, the widgets the page builds,    *)
(* the parts of the handlers, and one lemma for each step.                 *)
(***************************************************************************)
EXTENDS HomeLayout, SequenceTheorems, WellFoundedInduction, TLAPS

-----------------------------------------------------------------------------
(* Numbers. Induction is stated about a set of numbers.                    *)

\* A set of natural numbers has a least one.
LEMMA Least ==
  ASSUME NEW T, T \subseteq Nat, T # {}
  PROVE  \E x \in T : \A y \in T : x <= y
<1>1. PICK x \in T : \A y \in T : ~ (<<y, x>> \in OpToRel(<, Nat))
  BY NatLessThanWellFounded, WFMin
<1>2. \A y \in T : <<y, x>> \in Nat \X Nat
  BY <1>1
<1>3. \A y \in T : y \in Nat /\ x \in Nat /\ ~ (y < x)
  BY <1>1, <1>2 DEF OpToRel
<1>4. \A y \in T : x <= y
  BY <1>3
<1>5. QED
  BY <1>1, <1>4

\* A set that has 0, and with a number the next one, has them all.
LEMMA Induction ==
  ASSUME NEW P, 0 \in P, \A n \in Nat : n \in P => n + 1 \in P
  PROVE  Nat \subseteq P
<1> SUFFICES ASSUME ~(Nat \subseteq P) PROVE FALSE
  OBVIOUS
<1>1. {n \in Nat : n \notin P} # {}
  OBVIOUS
<1>2. PICK x \in {n \in Nat : n \notin P} : \A y \in {n \in Nat : n \notin P} : x <= y
  BY <1>1, Least
<1>3. x # 0 /\ x - 1 \in Nat
  BY <1>2
<1>4. x - 1 \in P
  BY <1>2, <1>3
<1>5. QED
  BY <1>2, <1>3, <1>4

\* Min and Max of a set of numbers with a bound are in it.
LEMMA MinIn ==
  ASSUME NEW T, T \subseteq Int, T # {}, NEW b \in Int, \A x \in T : b <= x
  PROVE  Min(T) \in T /\ \A y \in T : Min(T) <= y
<1> DEFINE U == {x - b : x \in T}
<1>1. \A x \in T : x - b \in Nat /\ x \in Int
  OBVIOUS
<1>2. U \subseteq Nat /\ U # {}
  BY <1>1
<1>3. PICK u \in U : \A v \in U : u <= v
  BY <1>2, Least
<1>4. PICK m \in T : u = m - b
  BY <1>3
<1>5. \A y \in T : m - b <= y - b
  BY <1>3, <1>4
<1>6. \A y \in T : m <= y
  BY <1>1, <1>5
<1>7. QED
  BY <1>4, <1>6 DEF Min

\* A bounded set of integers that has one has a largest.
LEMMA MaxIn ==
  ASSUME NEW T, T \subseteq Int, T # {}, NEW b \in Int, \A x \in T : x <= b
  PROVE  Max(T) \in T /\ \A y \in T : Max(T) >= y
<1> DEFINE U == {b - x : x \in T}
<1>1. \A x \in T : b - x \in Nat /\ x \in Int
  OBVIOUS
<1>2. U \subseteq Nat /\ U # {}
  BY <1>1
<1>3. PICK u \in U : \A v \in U : u <= v
  BY <1>2, Least
<1>4. PICK m \in T : u = b - m
  BY <1>3
<1>5. \A y \in T : b - m <= b - y
  BY <1>3, <1>4
<1>6. \A y \in T : m >= y
  BY <1>1, <1>5
<1>7. QED
  BY <1>4, <1>6 DEF Max
-----------------------------------------------------------------------------
(* What the two recursive functions of the layout engine compute.          *)

\* Pack places one widget after the other.
LEMMA PackUnfolds ==
  ASSUME NEW l, Len(l) \in Nat, NEW c
  PROVE  \E packed :
           /\ Pack(l, c) = packed[Len(l)]
           /\ packed[0] = <<>>
           /\ \A n \in 1 .. Len(l) : packed[n] = Place(packed[n - 1], l[n], c)
<1> DEFINE Step(g, n) == IF n = 0 THEN <<>> ELSE Place(g[n - 1], l[n], c)
           P == {k \in Nat : \E g : g = [n \in 0 .. k |-> Step(g, n)]}
           all == CHOOSE g : g = [n \in 0 .. Len(l) |-> Step(g, n)]
<1>1. 0 \in P
  <2>1. [n \in 0 .. 0 |-> <<>>] = [n \in 0 .. 0 |-> Step([m \in 0 .. 0 |-> <<>>], n)]
    OBVIOUS
  <2>2. QED
    BY <2>1
<1>2. ASSUME NEW k \in Nat, k \in P PROVE k + 1 \in P
  <2>1. PICK g : g = [n \in 0 .. k |-> Step(g, n)]
    BY <1>2
  <2> DEFINE h == [n \in 0 .. k + 1 |->
                     IF n <= k THEN g[n] ELSE Place(g[k], l[k + 1], c)]
  <2> HIDE DEF Step
  <2>2. ASSUME NEW n \in 0 .. k + 1 PROVE h[n] = Step(h, n)
    <3>1. CASE n <= k
      <4>1. h[n] = g[n] /\ g[n] = Step(g, n)
        BY <2>1, <3>1
      <4>2. n # 0 => g[n - 1] = h[n - 1]
        BY <3>1
      <4>3. QED
        BY <4>1, <4>2 DEF Step
    <3>2. CASE n = k + 1
      <4>1. h[n - 1] = g[k] /\ h[n] = Place(g[k], l[k + 1], c)
        BY <3>2
      <4>2. QED
        BY <3>2, <4>1 DEF Step
    <3>3. QED
      BY <3>1, <3>2
  <2>3. h = [n \in 0 .. k + 1 |-> Step(h, n)]
    BY <2>2
  <2>4. \E g1 : g1 = [n \in 0 .. k + 1 |-> Step(g1, n)]
    <3> HIDE DEF h
    <3>1. QED
      BY <2>3
  <2>5. QED
    BY <2>4
<1>3. \E g : g = [n \in 0 .. Len(l) |-> Step(g, n)]
  BY <1>1, <1>2, Induction
<1>4. all = [n \in 0 .. Len(l) |-> Step(all, n)]
  BY <1>3
<1>5. Pack(l, c) = all[Len(l)]
  BY DEF Pack
<1>6. /\ all[0] = <<>>
      /\ \A n \in 1 .. Len(l) : all[n] = Place(all[n - 1], l[n], c)
  <2> HIDE DEF all
  <2>1. \A n \in 0 .. Len(l) : all[n] = Step(all, n)
    BY <1>4
  <2>2. QED
    BY <2>1
<1>7. QED
  BY <1>5, <1>6

\* What the engine returns for a widget.
Position == [id : Id, row : Nat, col : Nat, cols : Nat, rows : Nat]

\* Positions of which no two share a cell and none leaves the columns.
Sound(ps, c) ==
  /\ ps \in Seq(Position)
  /\ \A i, j \in 1 .. Len(ps) : i # j => Cells(ps[i]) \cap Cells(ps[j]) = {}
  /\ \A i \in 1 .. Len(ps) : ps[i].col + ps[i].cols <= c

\* No position reaches row b.
Above(ps, b) == \A i \in 1 .. Len(ps) : ps[i].row + ps[i].rows <= b

\* p is a place for w among the others.
Fits(ps, p, w, c) ==
  /\ p \in Position /\ p.id = w.id /\ p.rows = w.rows
  /\ p.col + p.cols <= c
  /\ AllCellsFree(ps, p)

\* Place leaves a list as it is or adds a place for the widget; above a row there is one
\* no lower than that row.
LEMMA PlaceOne ==
  ASSUME NEW ps, NEW c \in Columns, Sound(ps, c), NEW w \in Widget
  PROVE  /\ Place(ps, w, c) = ps \/ \E p : Fits(ps, p, w, c) /\ Place(ps, w, c) = Append(ps, p)
         /\ \A b \in 0 .. GridRows - 1 : Above(ps, b) =>
              \E p : Fits(ps, p, w, c) /\ Place(ps, w, c) = Append(ps, p) /\ p.row <= b
<1> DEFINE span == GetEffectiveColumnSpan(w, c)
           At(r, k) == [id |-> w.id, row |-> r, col |-> k, cols |-> span, rows |-> w.rows]
           free == {s \in (0 .. GridRows - 1) \X (0 .. c - span) : AllCellsFree(ps, At(s[1], s[2]))}
           Rank(s) == s[1] * c + s[2]
           first == CHOOSE s \in free : \A t \in free : s[1] * c + s[2] <= t[1] * c + t[2]
           p0 == At(first[1], first[2])
<1>1. /\ c \in {2, 3, 4, 5} /\ span \in 1 .. c /\ GridRows \in Nat
      /\ w.id \in Id /\ w.rows \in Nat \ {0}
  BY BoundAssumption DEF GetEffectiveColumnSpan, Widget
<1>2. Place(ps, w, c) = IF free = {} THEN ps ELSE Append(ps, p0)
  BY DEF Place
<1>3. \A s \in free : /\ s[1] \in 0 .. GridRows - 1 /\ s[2] \in 0 .. c - span /\ Rank(s) \in Nat
                      /\ AllCellsFree(ps, At(s[1], s[2]))
  <2> HIDE DEF span, At
  <2>1. \A s \in free : /\ s[1] \in 0 .. GridRows - 1 /\ s[2] \in 0 .. c - span
                        /\ AllCellsFree(ps, At(s[1], s[2]))
    OBVIOUS
  <2>2. QED
    BY <1>1, <2>1
<1>4. ASSUME free # {} PROVE first \in free /\ \A t \in free : Rank(first) <= Rank(t)
  <2> HIDE DEF free
  <2>1. {Rank(s) : s \in free} \subseteq Nat /\ {Rank(s) : s \in free} # {}
    BY <1>3, <1>4
  <2>2. PICK r \in {Rank(s) : s \in free} : \A y \in {Rank(s) : s \in free} : r <= y
    BY <2>1, Least
  <2>3. PICK m \in free : \A t \in free : Rank(m) <= Rank(t)
    BY <2>2
  <2>4. QED
    BY <2>3
<1>5. ASSUME free # {} PROVE Fits(ps, p0, w, c) /\ p0.row = first[1]
  <2>1. /\ first[1] \in 0 .. GridRows - 1 /\ first[2] \in 0 .. c - span
        /\ AllCellsFree(ps, p0)
    BY <1>3, <1>4, <1>5
  <2> HIDE DEF first, span
  <2>2. p0 \in Position
    BY <1>1, <2>1 DEF Position
  <2>3. first[2] + span <= c
    BY <1>1, <2>1
  <2>4. QED
    BY <2>1, <2>2, <2>3 DEF Fits
<1>6. ASSUME NEW b \in 0 .. GridRows - 1, Above(ps, b) PROVE free # {} /\ first[1] <= b
  <2>1. AllCellsFree(ps, At(b, 0))
    <3>1. ASSUME NEW i \in DOMAIN ps PROVE Cells(At(b, 0)) \cap Cells(ps[i]) = {}
      <4>1. i \in 1 .. Len(ps) /\ ps[i] \in Position
        BY LenProperties, ElementOfSeq DEF Sound
      <4>2. /\ ps[i].row \in Nat /\ ps[i].rows \in Nat /\ b \in Nat
            /\ ps[i].row + ps[i].rows <= b
        BY <1>6, <4>1 DEF Above, Position
      <4>3. \A x \in Cells(ps[i]) : x[1] \in Int /\ x[1] < b
        BY <4>2 DEF Cells
      <4>4. \A x \in Cells(At(b, 0)) : x[1] >= b
        BY <4>2 DEF Cells
      <4>5. QED
        BY <4>2, <4>3, <4>4
    <3>2. QED
      BY <3>1 DEF AllCellsFree
  <2>2. <<b, 0>> \in free
    <3>1. 0 \in 0 .. c - span
      BY <1>1
    <3>2. QED
      BY <2>1, <3>1
  <2>3. first \in free /\ Rank(first) <= b * c
    <3>1. Rank(<<b, 0>>) = b * c
      <4>1. <<b, 0>>[1] = b /\ <<b, 0>>[2] = 0 /\ b * c \in Int
        BY <1>1
      <4>2. QED
        BY <4>1
    <3> HIDE DEF Rank, free, first
    <3>2. QED
      BY <1>4, <2>2, <3>1
  <2>4. first[1] \in Nat /\ first[2] \in Nat
    BY <1>3, <2>3
  <2> HIDE DEF first, free
  <2>5. first[1] * c <= b * c
    BY <1>1, <2>3, <2>4
  <2>6. first[1] <= b
    BY <1>1, <2>4, <2>5
  <2>7. QED
    BY <2>2, <2>6
<1>7. QED
  <2>1. Place(ps, w, c) = ps \/ \E p : Fits(ps, p, w, c) /\ Place(ps, w, c) = Append(ps, p)
    BY <1>2, <1>5
  <2>2. ASSUME NEW b \in 0 .. GridRows - 1, Above(ps, b)
        PROVE  \E p : Fits(ps, p, w, c) /\ Place(ps, w, c) = Append(ps, p) /\ p.row <= b
    BY <1>2, <1>5, <1>6, <2>2
  <2>3. QED
    BY <2>1, <2>2

\* A list of widgets packed is a sound layout, and if it is not too long every one is in it,
\* in the order of the list.
LEMMA PackOne ==
  ASSUME NEW l \in Seq(Widget), NEW c \in Columns
  PROVE  /\ Sound(Pack(l, c), c)
         /\ Len(l) <= MaxWidgets + 1 =>
              /\ Len(Pack(l, c)) = Len(l)
              /\ \A i \in 1 .. Len(l) : Pack(l, c)[i].id = l[i].id
<1>1. Len(l) \in Nat /\ MaxWidgets \in Nat /\ MaxRowSpan \in Nat /\ MaxRowSpan >= 2
  BY BoundAssumption, LenProperties
<1>2. PICK packed :
        /\ Pack(l, c) = packed[Len(l)]
        /\ packed[0] = <<>>
        /\ \A n \in 1 .. Len(l) : packed[n] = Place(packed[n - 1], l[n], c)
  BY <1>1, PackUnfolds
<1> DEFINE Whole(n) == /\ Len(packed[n]) = n
                       /\ \A i \in 1 .. n : packed[n][i].id = l[i].id
                       /\ Above(packed[n], n * MaxRowSpan)
           P == {n \in Nat : n <= Len(l) =>
                   Sound(packed[n], c) /\ (Len(l) <= MaxWidgets + 1 => Whole(n))}
<1>3. 0 \in P
  <2>1. packed[0] \in Seq(Position) /\ Len(packed[0]) = 0
    BY <1>2, EmptySeq
  <2>2. QED
    BY <2>1 DEF Sound, Above
<1>4. ASSUME NEW n \in Nat, n \in P PROVE n + 1 \in P
  <2> SUFFICES ASSUME n + 1 <= Len(l)
               PROVE  Sound(packed[n + 1], c) /\ (Len(l) <= MaxWidgets + 1 => Whole(n + 1))
    OBVIOUS
  <2> DEFINE ps == packed[n]
             w == l[n + 1]
  <2>1. /\ packed[n + 1] = Place(ps, w, c) /\ w \in Widget
        /\ Sound(ps, c) /\ (Len(l) <= MaxWidgets + 1 => Whole(n))
    BY <1>1, <1>2, <1>4, ElementOfSeq
  <2> HIDE DEF ps, w
  <2>2. Len(ps) \in Nat /\ ps \in Seq(Position)
    BY <2>1, LenProperties DEF Sound
  <2>3. ASSUME NEW p, Fits(ps, p, w, c)
        PROVE  /\ Append(ps, p) \in Seq(Position) /\ Len(Append(ps, p)) = Len(ps) + 1
               /\ \A i \in 1 .. Len(ps) : Append(ps, p)[i] = ps[i]
               /\ Append(ps, p)[Len(ps) + 1] = p
    BY <2>2, <2>3, AppendProperties DEF Fits
  <2>4. ASSUME NEW p, Fits(ps, p, w, c) PROVE Sound(Append(ps, p), c)
    <3>1. \A i \in 1 .. Len(ps) : Cells(p) \cap Cells(ps[i]) = {}
      BY <2>2, <2>4, LenProperties DEF Fits, AllCellsFree
    <3>2. p.col + p.cols <= c
      BY <2>4 DEF Fits
    <3>3. \A i \in 1 .. Len(ps) + 1 : i \in 1 .. Len(ps) \/ i = Len(ps) + 1
      BY <2>2
    <3>4. \A i, j \in 1 .. Len(ps) + 1 :
            i # j => Cells(Append(ps, p)[i]) \cap Cells(Append(ps, p)[j]) = {}
      <4> SUFFICES ASSUME NEW i \in 1 .. Len(ps) + 1, NEW j \in 1 .. Len(ps) + 1, i # j
                   PROVE  Cells(Append(ps, p)[i]) \cap Cells(Append(ps, p)[j]) = {}
        OBVIOUS
      <4>1. CASE i \in 1 .. Len(ps) /\ j \in 1 .. Len(ps)
        <5>1. Append(ps, p)[i] = ps[i] /\ Append(ps, p)[j] = ps[j]
          BY <2>3, <2>4, <4>1
        <5>2. Cells(ps[i]) \cap Cells(ps[j]) = {}
          BY <2>1, <4>1 DEF Sound
        <5>3. QED
          BY <5>1, <5>2
      <4>2. CASE i \in 1 .. Len(ps) /\ j = Len(ps) + 1
        BY <2>3, <2>4, <3>1, <4>2
      <4>3. CASE i = Len(ps) + 1 /\ j \in 1 .. Len(ps)
        BY <2>3, <2>4, <3>1, <4>3
      <4>4. QED
        BY <3>3, <4>1, <4>2, <4>3
    <3>5. \A i \in 1 .. Len(ps) + 1 : Append(ps, p)[i].col + Append(ps, p)[i].cols <= c
      BY <2>1, <2>3, <2>4, <3>2, <3>3 DEF Sound
    <3>6. QED
      BY <2>3, <2>4, <3>4, <3>5 DEF Sound
  <2>5. Sound(packed[n + 1], c)
    <3>1. Place(ps, w, c) = ps \/ \E p : Fits(ps, p, w, c) /\ Place(ps, w, c) = Append(ps, p)
      BY <2>1, PlaceOne
    <3>2. QED
      BY <2>1, <2>4, <3>1
  <2>6. ASSUME Len(l) <= MaxWidgets + 1 PROVE Whole(n + 1)
    <3>1. n * MaxRowSpan \in 0 .. GridRows - 1
      <4>1. n + 1 <= MaxWidgets + 1 /\ GridRows \in Nat
            /\ GridRows >= (MaxWidgets + 1) * MaxRowSpan
        BY <1>1, <2>6, BoundAssumption
      <4>2. (n + 1) * MaxRowSpan <= (MaxWidgets + 1) * MaxRowSpan
        BY <1>1, <4>1
      <4>3. (n + 1) * MaxRowSpan = n * MaxRowSpan + MaxRowSpan /\ n * MaxRowSpan \in Nat
        BY <1>1
      <4>4. QED
        BY <1>1, <4>1, <4>2, <4>3
    <3>2. Len(ps) = n /\ (\A i \in 1 .. n : ps[i].id = l[i].id) /\ Above(ps, n * MaxRowSpan)
      BY <2>1, <2>6 DEF ps
    <3>3. PICK p : Fits(ps, p, w, c) /\ packed[n + 1] = Append(ps, p) /\ p.row <= n * MaxRowSpan
      BY <2>1, <3>1, <3>2, PlaceOne
    <3>4. /\ p.row \in Nat /\ p.rows \in 1 .. MaxRowSpan /\ p.id = w.id
      BY <2>1, <3>3 DEF Fits, Position, Widget
    <3>5. (n + 1) * MaxRowSpan = n * MaxRowSpan + MaxRowSpan /\ n * MaxRowSpan \in Nat
      BY <1>1
    <3>6. p.row + p.rows <= (n + 1) * MaxRowSpan
      BY <1>1, <3>3, <3>4, <3>5
    <3>7. \A i \in 1 .. n : ps[i].row + ps[i].rows <= (n + 1) * MaxRowSpan
      <4>1. ASSUME NEW i \in 1 .. n PROVE ps[i].row \in Nat /\ ps[i].rows \in Nat
        <5>1. ps[i] \in Position
          BY <2>2, <3>2, ElementOfSeq
        <5>2. QED
          BY <5>1 DEF Position
      <4>2. \A i \in 1 .. n : ps[i].row + ps[i].rows <= n * MaxRowSpan
        BY <3>2 DEF Above
      <4>3. QED
        BY <1>1, <3>5, <4>1, <4>2
    <3>8. \A i \in 1 .. n + 1 : i \in 1 .. n \/ i = n + 1
      OBVIOUS
    <3>9. Len(packed[n + 1]) = n + 1
      BY <2>3, <3>2, <3>3
    <3>10. Above(packed[n + 1], (n + 1) * MaxRowSpan)
      BY <2>3, <3>2, <3>3, <3>6, <3>7, <3>8, <3>9 DEF Above
    <3>11. \A i \in 1 .. n + 1 : packed[n + 1][i].id = l[i].id
      BY <2>3, <3>2, <3>3, <3>4, <3>8 DEF w
    <3>12. QED
      BY <3>9, <3>10, <3>11
  <2>7. QED
    BY <2>5, <2>6
<1>5. Len(l) \in P
  BY <1>1, <1>3, <1>4, Induction
<1>6. QED
  BY <1>1, <1>2, <1>5
-----------------------------------------------------------------------------
(* Lists of widgets and of their ids.                                      *)

\* Ids of a list.
LEMMA IdsOf ==
  ASSUME NEW l \in Seq(Widget)
  PROVE  /\ Ids(l) \in Seq(Id) /\ Len(Ids(l)) = Len(l)
         /\ \A i \in 1 .. Len(l) : Ids(l)[i] = l[i].id
<1>1. Len(l) \in Nat /\ DOMAIN l = 1 .. Len(l)
  BY LenProperties
<1>2. \A i \in 1 .. Len(l) : l[i].id \in Id
  <2>1. \A i \in 1 .. Len(l) : l[i] \in Widget
    BY ElementOfSeq
  <2>2. QED
    BY <2>1 DEF Widget
<1>3. Ids(l) = [i \in 1 .. Len(l) |-> l[i].id]
  BY <1>1 DEF Ids
<1>4. Ids(l) \in Seq(Id)
  BY <1>1, <1>2, <1>3, SeqDef
<1>5. QED
  BY <1>1, <1>3, <1>4, LenProperties

\* Where an id is in a list, if it is.
LEMMA IndexIn ==
  ASSUME NEW l \in Seq(Widget), NEW id
  PROVE  /\ IndexOf(l, id) \in -1 .. Len(l) - 1
         /\ IndexOf(l, id) # -1 => l[IndexOf(l, id) + 1].id = id
         /\ IndexOf(l, id) = -1 => \A i \in 1 .. Len(l) : l[i].id # id
<1> DEFINE I == {i \in 1 .. Len(l) : l[i].id = id}
<1>1. IndexOf(l, id) = (IF I # {} THEN Min(I) ELSE 0) - 1
  BY DEF IndexOf, SelectInSeq
<1>2. Len(l) \in Nat
  BY LenProperties
<1>3. I # {} => Min(I) \in I
  <2>1. I \subseteq Int /\ 1 \in Int /\ \A x \in I : 1 <= x
    BY <1>2
  <2> HIDE DEF I
  <2>2. QED
    BY <2>1, MinIn
<1>4. QED
  BY <1>1, <1>2, <1>3

\* Nothing is at 0.
LEMMA RemoveNone ==
  ASSUME NEW S, NEW l \in Seq(S)
  PROVE  RemoveAt(l, 0) = l
<1>1. Len(l) \in Nat
  BY LenProperties
<1>2. RemoveAt(l, 0) = SubSeq(l, 1, -1) \o SubSeq(l, 1, Len(l))
  BY DEF RemoveAt
<1>3. SubSeq(l, 1, -1) = <<>>
  BY SubSeqEmpty
<1>4. SubSeq(l, 1, Len(l)) = l
  BY SubSeqFull
<1>5. QED
  BY <1>2, <1>3, <1>4, ConcatEmptySeq

\* A list without the element at k.
LEMMA RemoveAtIs ==
  ASSUME NEW S, NEW l \in Seq(S), NEW k \in 1 .. Len(l)
  PROVE  /\ RemoveAt(l, k) \in Seq(S) /\ Len(RemoveAt(l, k)) = Len(l) - 1
         /\ \A i \in 1 .. Len(l) - 1 : RemoveAt(l, k)[i] = l[IF i < k THEN i ELSE i + 1]
<1> DEFINE a == SubSeq(l, 1, k - 1)
           z == SubSeq(l, k + 1, Len(l))
<1>1. Len(l) \in Nat /\ \A i \in 1 .. Len(l) : l[i] \in S
  BY LenProperties, ElementOfSeq
<1>2. a \in Seq(S) /\ Len(a) = k - 1 /\ \A i \in 1 .. k - 1 : a[i] = l[i]
  <2>1. \A i \in 1 .. k - 1 : l[i] \in S
    BY <1>1
  <2>2. 1 \in Int /\ k - 1 \in Int
    OBVIOUS
  <2>3. /\ a \in Seq(S)
        /\ Len(a) = IF 1 <= k - 1 THEN (k - 1) - 1 + 1 ELSE 0
        /\ \A i \in 1 .. (k - 1) - 1 + 1 : a[i] = l[1 + i - 1]
    BY <2>1, <2>2, SubSeqProperties
  <2> HIDE DEF a
  <2>4. \A i \in 1 .. k - 1 : i \in 1 .. (k - 1) - 1 + 1 /\ 1 + i - 1 = i
    BY <1>1
  <2>5. QED
    BY <1>1, <2>3, <2>4
<1>3. /\ z \in Seq(S) /\ Len(z) = Len(l) - k
      /\ \A i \in 1 .. Len(l) - k : z[i] = l[k + i]
  <2>1. \A i \in k + 1 .. Len(l) : l[i] \in S
    BY <1>1
  <2>2. k + 1 \in Int /\ Len(l) \in Int
    BY <1>1
  <2>3. /\ z \in Seq(S)
        /\ Len(z) = IF k + 1 <= Len(l) THEN Len(l) - (k + 1) + 1 ELSE 0
        /\ \A i \in 1 .. Len(l) - (k + 1) + 1 : z[i] = l[(k + 1) + i - 1]
    BY <2>1, <2>2, SubSeqProperties
  <2> HIDE DEF z
  <2>4. \A i \in 1 .. Len(l) - k : i \in 1 .. Len(l) - (k + 1) + 1 /\ (k + 1) + i - 1 = k + i
    BY <1>1
  <2>5. QED
    BY <1>1, <2>3, <2>4
<1>4. RemoveAt(l, k) = a \o z
  BY DEF RemoveAt
<1> HIDE DEF a, z
<1>5. /\ a \o z \in Seq(S) /\ Len(a \o z) = Len(a) + Len(z)
      /\ \A i \in 1 .. Len(a) + Len(z) : (a \o z)[i] = IF i <= Len(a) THEN a[i] ELSE z[i - Len(a)]
  BY <1>2, <1>3, ConcatProperties
<1>6. Len(a) + Len(z) = Len(l) - 1
  BY <1>1, <1>2, <1>3
<1>7. ASSUME NEW i \in 1 .. Len(l) - 1
      PROVE  (a \o z)[i] = l[IF i < k THEN i ELSE i + 1]
  <2>1. CASE i < k
    <3>1. i \in 1 .. k - 1 /\ i \in 1 .. Len(a) + Len(z) /\ i <= Len(a)
      BY <1>1, <1>2, <1>6, <2>1
    <3>2. QED
      BY <1>2, <1>5, <2>1, <3>1
  <2>2. CASE ~(i < k)
    <3>1. /\ i - (k - 1) \in 1 .. Len(l) - k /\ k + (i - (k - 1)) = i + 1
          /\ i \in 1 .. Len(a) + Len(z) /\ ~(i <= Len(a)) /\ i - Len(a) = i - (k - 1)
      BY <1>1, <1>2, <1>6, <2>2
    <3>2. (a \o z)[i] = z[i - (k - 1)]
      BY <1>5, <3>1
    <3>3. z[i - (k - 1)] = l[i + 1]
      BY <1>3, <3>1
    <3>4. QED
      BY <2>2, <3>2, <3>3
  <2>3. QED
    BY <2>1, <2>2
<1>8. QED
  BY <1>4, <1>5, <1>6, <1>7

\* A list with an element put in, and where.
LEMMA InsertedIs ==
  ASSUME NEW S, NEW l \in Seq(S), NEW w \in S, NEW i \in Int
  PROVE  /\ Inserted(l, w, i) \in Seq(S) /\ Len(Inserted(l, w, i)) = Len(l) + 1
         /\ \A k \in 0 .. Len(l) : k = MaxOf(0, MinOf(i, Len(l))) =>
              \A j \in 1 .. Len(l) + 1 : Inserted(l, w, i)[j] =
                IF j <= k THEN l[j] ELSE IF j = k + 1 THEN w ELSE l[j - 1]
<1> DEFINE k == MaxOf(0, MinOf(i, Len(l)))
           a == SubSeq(l, 1, k)
           z == SubSeq(l, k + 1, Len(l))
<1>1. Len(l) \in Nat /\ \A j \in 1 .. Len(l) : l[j] \in S
  BY LenProperties, ElementOfSeq
<1>2. k \in 0 .. Len(l)
  BY <1>1 DEF MaxOf, MinOf
<1>3. Inserted(l, w, i) = a \o <<w>> \o z
  <2>1. (k + 1) - 1 = k
    BY <1>2
  <2>2. Inserted(l, w, i) = SubSeq(l, 1, (k + 1) - 1) \o <<w>> \o SubSeq(l, k + 1, Len(l))
    BY DEF Inserted, InsertAt
  <2> HIDE DEF k
  <2>3. QED
    BY <2>1, <2>2
<1> HIDE DEF k
<1>4. a \in Seq(S) /\ Len(a) = k /\ \A j \in 1 .. k : a[j] = l[j]
  <2>1. 1 \in Int /\ k \in Int /\ \A j \in 1 .. k : l[j] \in S
    BY <1>1, <1>2
  <2>2. /\ a \in Seq(S) /\ Len(a) = IF 1 <= k THEN k - 1 + 1 ELSE 0
        /\ \A j \in 1 .. k - 1 + 1 : a[j] = l[1 + j - 1]
    BY <2>1, SubSeqProperties
  <2> HIDE DEF a
  <2>3. \A j \in 1 .. k : j \in 1 .. k - 1 + 1 /\ 1 + j - 1 = j
    BY <1>2
  <2>4. QED
    BY <1>1, <1>2, <2>2, <2>3
<1>5. /\ z \in Seq(S) /\ Len(z) = Len(l) - k
      /\ \A j \in 1 .. Len(l) - k : z[j] = l[k + j]
  <2>1. k + 1 \in Int /\ Len(l) \in Int /\ \A j \in k + 1 .. Len(l) : l[j] \in S
    BY <1>1, <1>2
  <2>2. /\ z \in Seq(S)
        /\ Len(z) = IF k + 1 <= Len(l) THEN Len(l) - (k + 1) + 1 ELSE 0
        /\ \A j \in 1 .. Len(l) - (k + 1) + 1 : z[j] = l[(k + 1) + j - 1]
    BY <2>1, SubSeqProperties
  <2> HIDE DEF z
  <2>3. \A j \in 1 .. Len(l) - k : j \in 1 .. Len(l) - (k + 1) + 1 /\ (k + 1) + j - 1 = k + j
    BY <1>1, <1>2
  <2>4. QED
    BY <1>1, <1>2, <2>2, <2>3
<1> HIDE DEF a, z
<1>6. /\ a \o <<w>> = Append(a, w) /\ a \o <<w>> \in Seq(S) /\ Len(a \o <<w>>) = k + 1
      /\ \A j \in 1 .. k : (a \o <<w>>)[j] = a[j]
      /\ (a \o <<w>>)[k + 1] = w
  BY <1>2, <1>4, AppendProperties, AppendIsConcat
<1> DEFINE b == a \o <<w>>
<1> HIDE DEF b
<1>7. /\ b \o z \in Seq(S) /\ Len(b \o z) = k + 1 + Len(z)
      /\ \A j \in 1 .. k + 1 + Len(z) : (b \o z)[j] = IF j <= k + 1 THEN b[j] ELSE z[j - (k + 1)]
  <2>1. b \in Seq(S) /\ Len(b) = k + 1
    BY <1>6 DEF b
  <2>2. /\ b \o z \in Seq(S) /\ Len(b \o z) = Len(b) + Len(z)
        /\ \A j \in 1 .. Len(b) + Len(z) : (b \o z)[j] = IF j <= Len(b) THEN b[j] ELSE z[j - Len(b)]
    BY <1>5, <2>1, ConcatProperties
  <2>3. QED
    BY <2>1, <2>2
<1>8. ASSUME NEW j \in 1 .. Len(l) + 1
      PROVE  (b \o z)[j] = IF j <= k THEN l[j] ELSE IF j = k + 1 THEN w ELSE l[j - 1]
  <2>1. j \in 1 .. k + 1 + Len(z)
    BY <1>1, <1>2, <1>5
  <2>2. CASE j <= k
    <3>1. j \in 1 .. k /\ j <= k + 1
      BY <1>1, <1>2, <2>2
    <3>2. b[j] = a[j] /\ a[j] = l[j]
      BY <1>4, <1>6, <3>1 DEF b
    <3>3. QED
      BY <1>7, <2>1, <2>2, <3>1, <3>2
  <2>3. CASE j = k + 1
    <3>1. b[j] = w /\ ~(j <= k) /\ j <= k + 1
      BY <1>2, <1>6, <2>3 DEF b
    <3>2. QED
      BY <1>7, <2>1, <2>3, <3>1
  <2>4. CASE j > k + 1
    <3>1. j - (k + 1) \in 1 .. Len(l) - k /\ k + (j - (k + 1)) = j - 1
      BY <1>1, <1>2, <2>4
    <3>2. (b \o z)[j] = z[j - (k + 1)]
      BY <1>2, <1>7, <2>1, <2>4
    <3>3. QED
      BY <1>2, <1>5, <2>4, <3>1, <3>2
  <2>5. QED
    <3>1. j <= k \/ j = k + 1 \/ j > k + 1
      BY <1>1, <1>2
    <3>2. QED
      BY <2>2, <2>3, <2>4, <3>1
<1>9. QED
  <2>1. Inserted(l, w, i) = b \o z /\ k + 1 + Len(z) = Len(l) + 1
    BY <1>1, <1>2, <1>3, <1>5 DEF b
  <2>2. QED
    BY <1>7, <1>8, <2>1 DEF k

\* What Without takes of the n-th widget.
Kept(l, n, id) == IF l[n].id = id THEN <<>> ELSE <<l[n]>>

\* Without goes through the list once.
LEMMA WithoutUnfolds ==
  ASSUME NEW l, Len(l) \in Nat, NEW id
  PROVE  \E others :
           /\ Without(l, id) = others[Len(l)]
           /\ others[0] = <<>>
           /\ \A n \in 1 .. Len(l) :
                others[n] = others[n - 1] \o Kept(l, n, id)
<1> DEFINE Step(g, n) == IF n = 0 THEN <<>>
                         ELSE g[n - 1] \o Kept(l, n, id)
           P == {k \in Nat : \E g : g = [n \in 0 .. k |-> Step(g, n)]}
           all == CHOOSE g : g = [n \in 0 .. Len(l) |-> Step(g, n)]
<1>1. 0 \in P
  <2>1. [n \in 0 .. 0 |-> <<>>] = [n \in 0 .. 0 |-> Step([m \in 0 .. 0 |-> <<>>], n)]
    OBVIOUS
  <2>2. QED
    BY <2>1
<1>2. ASSUME NEW k \in Nat, k \in P PROVE k + 1 \in P
  <2>1. PICK g : g = [n \in 0 .. k |-> Step(g, n)]
    BY <1>2
  <2> DEFINE h == [n \in 0 .. k + 1 |-> IF n <= k THEN g[n] ELSE g[k] \o Kept(l, k + 1, id)]
  <2> HIDE DEF Step
  <2>2. ASSUME NEW n \in 0 .. k + 1 PROVE h[n] = Step(h, n)
    <3>1. CASE n <= k
      <4>1. h[n] = g[n] /\ g[n] = Step(g, n)
        BY <2>1, <3>1
      <4>2. n # 0 => g[n - 1] = h[n - 1]
        BY <3>1
      <4>3. QED
        BY <4>1, <4>2 DEF Step
    <3>2. CASE n = k + 1
      <4>1. n - 1 = k /\ k \in 0 .. k + 1 /\ k <= k /\ ~(n <= k) /\ n # 0
        BY <3>2
      <4>2. h[k] = g[k]
        BY <4>1
      <4>3. h[n] = g[k] \o Kept(l, k + 1, id)
        BY <4>1
      <4>4. QED
        BY <3>2, <4>1, <4>2, <4>3 DEF Step
    <3>3. n <= k \/ n = k + 1
      OBVIOUS
    <3>4. QED
      BY <3>1, <3>2, <3>3
  <2>3. h = [n \in 0 .. k + 1 |-> Step(h, n)]
    BY <2>2
  <2>4. \E g1 : g1 = [n \in 0 .. k + 1 |-> Step(g1, n)]
    <3> HIDE DEF h
    <3>1. QED
      BY <2>3
  <2>5. QED
    BY <2>4
<1>3. \E g : g = [n \in 0 .. Len(l) |-> Step(g, n)]
  BY <1>1, <1>2, Induction
<1>4. all = [n \in 0 .. Len(l) |-> Step(all, n)]
  BY <1>3
<1>5. Without(l, id) = all[Len(l)]
  BY DEF Without, Kept
<1>6. /\ all[0] = <<>>
      /\ \A n \in 1 .. Len(l) : all[n] = all[n - 1] \o Kept(l, n, id)
  <2> HIDE DEF all
  <2>1. \A n \in 0 .. Len(l) : all[n] = Step(all, n)
    BY <1>4
  <2>2. ASSUME NEW n \in 1 .. Len(l)
        PROVE  all[n] = all[n - 1] \o Kept(l, n, id)
    <3>1. all[n] = Step(all, n) /\ n # 0
      BY <2>1
    <3>2. QED
      BY <3>1
  <2>3. all[0] = <<>>
    BY <1>4, <2>1
  <2>4. QED
    BY <2>2, <2>3
<1>7. QED
  BY <1>5, <1>6

\* What is left without an id is a list no longer than before; where the id is at one
\* place k only, or at none, k = 0, it is the list without k.
LEMMA WithoutIs ==
  ASSUME NEW l \in Seq(Widget), NEW id
  PROVE  /\ Without(l, id) \in Seq(Widget) /\ Len(Without(l, id)) <= Len(l)
         /\ \A k \in 0 .. Len(l) :
              (\A i \in 1 .. Len(l) : l[i].id = id <=> i = k) => Without(l, id) = RemoveAt(l, k)
<1>1. Len(l) \in Nat /\ \A i \in 1 .. Len(l) : l[i] \in Widget
  BY LenProperties, ElementOfSeq
<1>2. PICK others :
        /\ Without(l, id) = others[Len(l)]
        /\ others[0] = <<>>
        /\ \A n \in 1 .. Len(l) :
             others[n] = others[n - 1] \o Kept(l, n, id)
  BY <1>1, WithoutUnfolds
<1>3. <<>> \in Seq(Widget) /\ Len(<<>>) = 0
  BY EmptySeq
<1>4. ASSUME NEW n \in Nat, n + 1 <= Len(l), others[n] \in Seq(Widget)
      PROVE  IF l[n + 1].id = id THEN others[n + 1] = others[n]
             ELSE /\ others[n + 1] \in Seq(Widget) /\ Len(others[n + 1]) = Len(others[n]) + 1
                  /\ \A i \in 1 .. Len(others[n]) : others[n + 1][i] = others[n][i]
                  /\ others[n + 1][Len(others[n]) + 1] = l[n + 1]
  <2>1. /\ n + 1 \in 1 .. Len(l) /\ l[n + 1] \in Widget
        /\ others[n + 1] = others[n] \o Kept(l, n + 1, id)
    <3>1. n + 1 \in 1 .. Len(l) /\ (n + 1) - 1 = n
      BY <1>1, <1>4
    <3>2. QED
      BY <1>1, <1>2, <3>1
  <2>2. CASE l[n + 1].id = id
    BY <1>4, <2>1, <2>2, ConcatEmptySeq DEF Kept
  <2>3. CASE l[n + 1].id # id
    <3>1. others[n + 1] = Append(others[n], l[n + 1])
      BY <1>4, <2>1, <2>3, AppendIsConcat DEF Kept
    <3>2. /\ Append(others[n], l[n + 1]) \in Seq(Widget)
          /\ Len(Append(others[n], l[n + 1])) = Len(others[n]) + 1
          /\ \A i \in 1 .. Len(others[n]) : Append(others[n], l[n + 1])[i] = others[n][i]
          /\ Append(others[n], l[n + 1])[Len(others[n]) + 1] = l[n + 1]
      BY <1>4, <2>1, AppendProperties
    <3>3. QED
      BY <2>3, <3>1, <3>2
  <2>4. QED
    BY <2>2, <2>3
<1> DEFINE P == {n \in Nat : n <= Len(l) => others[n] \in Seq(Widget) /\ Len(others[n]) <= n}
<1>5. 0 \in P
  <2>1. others[0] \in Seq(Widget) /\ Len(others[0]) = 0
    BY <1>2, <1>3
  <2>2. QED
    BY <2>1
<1>6. ASSUME NEW n \in Nat, n \in P PROVE n + 1 \in P
  <2> SUFFICES ASSUME n + 1 <= Len(l) PROVE others[n + 1] \in Seq(Widget) /\ Len(others[n + 1]) <= n + 1
    OBVIOUS
  <2>1. others[n] \in Seq(Widget) /\ Len(others[n]) <= n /\ Len(others[n]) \in Nat
    BY <1>1, <1>6, LenProperties
  <2>2. QED
    BY <1>4, <2>1
<1>7. Nat \subseteq P
  BY <1>5, <1>6, Induction
<1>8. \A n \in 0 .. Len(l) : others[n] \in Seq(Widget) /\ Len(others[n]) <= n
  BY <1>1, <1>7
<1> HIDE DEF P
<1>9. ASSUME NEW k \in 0 .. Len(l), \A i \in 1 .. Len(l) : l[i].id = id <=> i = k
      PROVE  Without(l, id) = RemoveAt(l, k)
  <2> DEFINE Size(n) == IF k = 0 \/ n < k THEN n ELSE n - 1
             From(i) == IF k = 0 \/ i < k THEN i ELSE i + 1
             Q == {n \in Nat : n <= Len(l) =>
                     /\ Len(others[n]) = Size(n)
                     /\ \A i \in 1 .. Size(n) : others[n][i] = l[From(i)]}
  <2>1. 0 \in Q
    BY <1>2, <1>3
  <2>2. ASSUME NEW n \in Nat, n \in Q PROVE n + 1 \in Q
    <3> SUFFICES ASSUME n + 1 <= Len(l)
                 PROVE  /\ Len(others[n + 1]) = Size(n + 1)
                        /\ \A i \in 1 .. Size(n + 1) : others[n + 1][i] = l[From(i)]
      OBVIOUS
    <3>1. /\ Len(others[n]) = Size(n) /\ \A i \in 1 .. Size(n) : others[n][i] = l[From(i)]
          /\ others[n] \in Seq(Widget) /\ n + 1 \in 1 .. Len(l)
      BY <1>1, <1>8, <2>2
    <3> HIDE DEF From
    <3>2. CASE n + 1 = k
      <4>1. l[n + 1].id = id /\ Size(n + 1) = Size(n)
        BY <1>9, <3>1, <3>2
      <4>2. others[n + 1] = others[n]
        BY <1>4, <3>1, <4>1
      <4>3. QED
        BY <3>1, <4>1, <4>2
    <3>3. CASE n + 1 # k
      <4>1. l[n + 1].id # id /\ Size(n + 1) = Size(n) + 1 /\ Size(n) \in Nat
        BY <1>9, <3>1, <3>3
      <4>2. From(Size(n) + 1) = n + 1
        BY <3>3 DEF From
      <4> HIDE DEF Size
      <4>3. /\ Len(others[n + 1]) = Size(n) + 1
            /\ \A i \in 1 .. Size(n) : others[n + 1][i] = others[n][i]
            /\ others[n + 1][Size(n) + 1] = l[n + 1]
        BY <1>4, <3>1, <4>1
      <4>4. ASSUME NEW i \in 1 .. Size(n + 1) PROVE others[n + 1][i] = l[From(i)]
        <5>1. i \in 1 .. Size(n) \/ i = Size(n) + 1
          BY <4>1
        <5>2. QED
          BY <3>1, <4>2, <4>3, <5>1
      <4>5. QED
        BY <4>1, <4>3, <4>4
    <3>4. QED
      BY <3>2, <3>3
  <2>3. Nat \subseteq Q
    BY <2>1, <2>2, Induction
  <2>4. /\ Len(others[Len(l)]) = Size(Len(l))
        /\ \A i \in 1 .. Size(Len(l)) : others[Len(l)][i] = l[From(i)]
    BY <1>1, <2>3
  <2>5. /\ RemoveAt(l, k) \in Seq(Widget) /\ Len(RemoveAt(l, k)) = Size(Len(l))
        /\ \A i \in 1 .. Size(Len(l)) : RemoveAt(l, k)[i] = l[From(i)]
    <3>1. CASE k = 0
      BY <1>1, <3>1, RemoveNone
    <3>2. CASE k # 0
      <4>1. k \in 1 .. Len(l) /\ Size(Len(l)) = Len(l) - 1
        BY <1>1, <3>2
      <4>2. /\ RemoveAt(l, k) \in Seq(Widget) /\ Len(RemoveAt(l, k)) = Len(l) - 1
            /\ \A i \in 1 .. Len(l) - 1 : RemoveAt(l, k)[i] = l[IF i < k THEN i ELSE i + 1]
        BY <4>1, RemoveAtIs
      <4>3. QED
        BY <3>2, <4>1, <4>2
    <3>3. QED
      BY <3>1, <3>2
  <2>6. others[Len(l)] \in Seq(Widget)
    BY <1>1, <1>8
  <2> HIDE DEF Size, From, Q
  <2>7. others[Len(l)] = RemoveAt(l, k)
    BY <2>4, <2>5, <2>6, SeqEqual
  <2>8. QED
    BY <1>2, <2>7
<1>10. QED
  BY <1>1, <1>2, <1>8, <1>9

\* A widget goes back where it was taken out of a list of distinct ids.
LEMMA PutBack ==
  ASSUME NEW l \in Seq(Widget), IsInjective(Ids(l)), NEW k \in 1 .. Len(l)
  PROVE  Inserted(Without(l, l[k].id), l[k], k - 1) = l
<1> DEFINE r == RemoveAt(l, k)
           b == Inserted(r, l[k], k - 1)
<1>1. /\ Len(l) \in Nat /\ l[k] \in Widget
      /\ r \in Seq(Widget) /\ Len(r) = Len(l) - 1
      /\ \A i \in 1 .. Len(l) - 1 : r[i] = l[IF i < k THEN i ELSE i + 1]
  BY LenProperties, ElementOfSeq, RemoveAtIs
<1>2. \A i \in 1 .. Len(l) : l[i].id = l[k].id <=> i = k
  <2>1. /\ \A i \in 1 .. Len(l) : Ids(l)[i] = l[i].id
        /\ DOMAIN Ids(l) = 1 .. Len(l)
    BY IdsOf, LenProperties
  <2>2. QED
    BY <2>1 DEF IsInjective
<1>3. Without(l, l[k].id) = r
  BY <1>1, <1>2, WithoutIs
<1> HIDE DEF r
<1>4. MaxOf(0, MinOf(k - 1, Len(r))) = k - 1 /\ k - 1 \in 0 .. Len(r) /\ k - 1 \in Int
  BY <1>1 DEF MaxOf, MinOf
<1>5. /\ b \in Seq(Widget) /\ Len(b) = Len(r) + 1
      /\ \A j \in 1 .. Len(r) + 1 : b[j] = IF j <= k - 1 THEN r[j]
                                           ELSE IF j = (k - 1) + 1 THEN l[k] ELSE r[j - 1]
  <2> DEFINE w == l[k]
             i == k - 1
  <2>1. r \in Seq(Widget) /\ w \in Widget /\ i \in Int /\ i \in 0 .. Len(r)
        /\ i = MaxOf(0, MinOf(i, Len(r)))
    BY <1>1, <1>4
  <2> HIDE DEF w, i
  <2>2. /\ Inserted(r, w, i) \in Seq(Widget) /\ Len(Inserted(r, w, i)) = Len(r) + 1
        /\ \A j \in 1 .. Len(r) + 1 : Inserted(r, w, i)[j] =
             IF j <= i THEN r[j] ELSE IF j = i + 1 THEN w ELSE r[j - 1]
    BY <2>1, InsertedIs
  <2>3. QED
    BY <2>2 DEF w, i
<1> HIDE DEF b
<1>6. ASSUME NEW j \in 1 .. Len(l) PROVE b[j] = l[j]
  <2>1. j \in 1 .. Len(r) + 1
    BY <1>1
  <2>2. CASE j < k
    <3>1. j <= k - 1 /\ j \in 1 .. Len(l) - 1
      BY <1>1, <2>2
    <3>2. b[j] = r[j] /\ r[j] = l[j]
      BY <1>1, <1>5, <2>1, <2>2, <3>1
    <3>3. QED
      BY <3>2
  <2>3. CASE j = k
    BY <1>1, <1>5, <2>1, <2>3
  <2>4. CASE j > k
    <3>1. b[j] = r[j - 1]
      BY <1>1, <1>5, <2>1, <2>4
    <3>2. j - 1 \in 1 .. Len(l) - 1 /\ ~(j - 1 < k) /\ (j - 1) + 1 = j
      BY <1>1, <2>4
    <3>3. QED
      BY <1>1, <3>1, <3>2
  <2>5. QED
    BY <1>1, <2>2, <2>3, <2>4
<1>7. Len(b) = Len(l)
  BY <1>1, <1>5
<1>8. b = l
  BY <1>5, <1>6, <1>7, SeqEqual
<1>9. QED
  BY <1>3, <1>8 DEF b

\* A list without the element at k, or at none.
LEMMA Removed ==
  ASSUME NEW S, NEW l \in Seq(S), NEW k \in 0 .. Len(l)
  PROVE  RemoveAt(l, k) \in Seq(S) /\ Len(RemoveAt(l, k)) <= Len(l)
<1>1. Len(l) \in Nat
  BY LenProperties
<1>2. CASE k = 0
  BY <1>1, <1>2, RemoveNone
<1>3. CASE k # 0
  <2>1. k \in 1 .. Len(l)
    BY <1>1, <1>3
  <2>2. RemoveAt(l, k) \in Seq(S) /\ Len(RemoveAt(l, k)) = Len(l) - 1
    BY <2>1, RemoveAtIs
  <2>3. QED
    BY <1>1, <2>2
<1>4. QED
  BY <1>2, <1>3

\* The ids of what is left.
LEMMA RemovedIds ==
  ASSUME NEW l \in Seq(Widget), NEW k \in 0 .. Len(l)
  PROVE  Ids(RemoveAt(l, k)) = RemoveAt(Ids(l), k)
<1>1. /\ Len(l) \in Nat /\ Ids(l) \in Seq(Id) /\ Len(Ids(l)) = Len(l)
      /\ \A i \in 1 .. Len(l) : Ids(l)[i] = l[i].id
  BY LenProperties, IdsOf
<1>2. CASE k = 0
  BY <1>1, <1>2, RemoveNone
<1>3. CASE k # 0
  <2> DEFINE r == RemoveAt(l, k)
             s == RemoveAt(Ids(l), k)
  <2>1. k \in 1 .. Len(l)
    BY <1>1, <1>3
  <2>2. /\ r \in Seq(Widget) /\ Len(r) = Len(l) - 1
        /\ \A i \in 1 .. Len(l) - 1 : r[i] = l[IF i < k THEN i ELSE i + 1]
    BY <2>1, RemoveAtIs
  <2>3. /\ s \in Seq(Id) /\ Len(s) = Len(l) - 1
        /\ \A i \in 1 .. Len(l) - 1 : s[i] = Ids(l)[IF i < k THEN i ELSE i + 1]
    BY <1>1, <2>1, RemoveAtIs
  <2> HIDE DEF r, s
  <2>4. /\ Ids(r) \in Seq(Id) /\ Len(Ids(r)) = Len(l) - 1
        /\ \A i \in 1 .. Len(l) - 1 : Ids(r)[i] = r[i].id
    BY <2>2, IdsOf
  <2>5. ASSUME NEW i \in 1 .. Len(l) - 1 PROVE Ids(r)[i] = s[i]
    <3>1. i \in 1 .. Len(l) /\ i + 1 \in 1 .. Len(l)
      BY <1>1
    <3>2. QED
      BY <1>1, <2>2, <2>3, <2>4, <3>1
  <2>6. Ids(r) = s
    BY <2>3, <2>4, <2>5, SeqEqual
  <2>7. QED
    BY <2>6 DEF r, s
<1>4. QED
  BY <1>2, <1>3


\* Taking out the first widget with an id takes it out of the ids at the same place.
LEMMA FirstRemoved ==
  ASSUME NEW l \in Seq(Widget), NEW id
  PROVE  /\ RemoveFirstMatch(l, LAMBDA w : w.id = id) = RemoveAt(l, IndexOf(l, id) + 1)
         /\ RemoveFirst(Ids(l), id) = RemoveAt(Ids(l), IndexOf(l, id) + 1)
<1> DEFINE I == {i \in 1 .. Len(l) : l[i].id = id}
           J == {i \in 1 .. Len(Ids(l)) : Ids(l)[i] = id}
<1>1. /\ Len(l) \in Nat /\ Ids(l) \in Seq(Id) /\ Len(Ids(l)) = Len(l)
      /\ \A i \in 1 .. Len(l) : Ids(l)[i] = l[i].id
  BY LenProperties, IdsOf
<1>2. I = J
  BY <1>1
<1>3. IndexOf(l, id) + 1 = IF I # {} THEN Min(I) ELSE 0
  <2>1. IndexOf(l, id) = (IF I # {} THEN Min(I) ELSE 0) - 1
    BY DEF IndexOf, SelectInSeq
  <2>2. I # {} => Min(I) \in I
    <3>1. I \subseteq Int /\ 1 \in Int /\ \A x \in I : 1 <= x
      BY <1>1
    <3> HIDE DEF I
    <3>2. QED
      BY <3>1, MinIn
  <2>3. QED
    BY <1>1, <2>1, <2>2
<1>4. RemoveFirstMatch(l, LAMBDA w : w.id = id) = IF I # {} THEN RemoveAt(l, Min(I)) ELSE l
  BY DEF RemoveFirstMatch, SelectInSeq
<1>5. RemoveFirst(Ids(l), id) = IF J # {} THEN RemoveAt(Ids(l), Min(J)) ELSE Ids(l)
  BY DEF RemoveFirst, SelectInSeq
<1> HIDE DEF I, J
<1>6. RemoveAt(l, 0) = l /\ RemoveAt(Ids(l), 0) = Ids(l)
  BY <1>1, RemoveNone
<1>7. QED
  BY <1>2, <1>3, <1>4, <1>5, <1>6

\* Ids without one of them.
LEMMA FirstIdRemoved ==
  ASSUME NEW ids \in Seq(Id), NEW id
  PROVE  RemoveFirst(ids, id) \in Seq(Id) /\ Len(RemoveFirst(ids, id)) <= Len(ids)
<1> DEFINE J == {i \in 1 .. Len(ids) : ids[i] = id}
<1>1. Len(ids) \in Nat
  BY LenProperties
<1>2. RemoveFirst(ids, id) = IF J # {} THEN RemoveAt(ids, Min(J)) ELSE ids
  BY DEF RemoveFirst, SelectInSeq
<1>3. J \subseteq 0 .. Len(ids) /\ J \subseteq Int /\ 1 \in Int /\ \A x \in J : 1 <= x
  BY <1>1
<1> HIDE DEF J
<1>4. J # {} => Min(J) \in 0 .. Len(ids)
  BY <1>3, MinIn
<1>5. QED
  BY <1>1, <1>2, <1>4, Removed

\* The rows of each id in a list.
Spans == {f \in [Id -> 0 .. MaxRowSpan] : \A id \in Id : f[id] <= 1 \/ id \in AlwaysFillRow}

\* The rows the service keeps of a list: none or one, or more of one that fills the row.
LEMMA RowsOfType ==
  ASSUME NEW l \in Seq(Widget)
  PROVE  RowsOf(l) \in Spans
<1>1. /\ Len(l) \in Nat /\ Ids(l) \in Seq(Id) /\ Len(Ids(l)) = Len(l)
      /\ DOMAIN Ids(l) = 1 .. Len(l)
      /\ \A i \in 1 .. Len(l) : Ids(l)[i] = l[i].id /\ l[i] \in Widget
  BY LenProperties, IdsOf, ElementOfSeq
<1>2. MaxRowSpan \in Nat /\ MaxRowSpan >= 2
  BY BoundAssumption
<1>3. ASSUME NEW id \in Id
      PROVE  /\ RowsOf(l)[id] \in 0 .. MaxRowSpan
             /\ RowsOf(l)[id] <= 1 \/ id \in AlwaysFillRow
  <2> DEFINE I == {i \in 1 .. Len(l) : l[i].id = id}
  <2>1. RowsOf(l)[id] = IF id \in ToSet(Ids(l)) THEN l[IF I # {} THEN Max(I) ELSE 0].rows ELSE 0
    BY DEF RowsOf, SelectLastInSeq
  <2>2. CASE id \in ToSet(Ids(l))
    <3>1. I # {} /\ I \subseteq Int /\ Len(l) \in Int /\ \A x \in I : x <= Len(l)
      BY <1>1, <2>2 DEF ToSet
    <3>2. Max(I) \in I
      <4> HIDE DEF I
      <4>1. QED
        BY <3>1, MaxIn
    <3>3. l[Max(I)] \in Widget /\ l[Max(I)].id = id
      BY <1>1, <3>2
    <3>4. RowsOf(l)[id] = l[Max(I)].rows
      BY <2>1, <2>2, <3>1
    <3> HIDE DEF I
    <3>5. QED
      BY <1>2, <3>3, <3>4 DEF Widget
  <2>3. CASE id \notin ToSet(Ids(l))
    BY <1>2, <2>1, <2>3
  <2>4. QED
    BY <2>2, <2>3
<1>4. RowsOf(l) \in [Id -> 0 .. MaxRowSpan]
  <2>1. \E f : RowsOf(l) = [id \in Id |-> f[id]]
    <3>1. RowsOf(l) = [id \in Id |-> RowsOf(l)[id]]
      BY DEF RowsOf
    <3>2. QED
      BY <3>1
  <2>2. QED
    BY <1>3, <2>1
<1>5. QED
  BY <1>3, <1>4 DEF Spans

\* Widgets made for ids with their rows.
LEMMA MadeType ==
  ASSUME NEW ids \in Seq(Id), NEW spans \in Spans
  PROVE  LET made == [i \in DOMAIN ids |-> [id |-> ids[i], rows |-> MaxOf(1, spans[ids[i]])]]
         IN  made \in Seq(Widget) /\ Len(made) = Len(ids) /\ Ids(made) = ids
<1> DEFINE made == [i \in DOMAIN ids |-> [id |-> ids[i], rows |-> MaxOf(1, spans[ids[i]])]]
<1>1. /\ Len(ids) \in Nat /\ DOMAIN ids = 1 .. Len(ids)
      /\ \A i \in 1 .. Len(ids) : ids[i] \in Id
  BY LenProperties, ElementOfSeq
<1>2. \A id \in Id : [id |-> id, rows |-> MaxOf(1, spans[id])] \in Widget
  BY BoundAssumption DEF Spans, MaxOf, Widget
<1>3. made \in [1 .. Len(ids) -> Widget]
  BY <1>1, <1>2
<1>4. made \in Seq(Widget)
  BY <1>1, <1>3, SeqDef
<1>5. Len(made) = Len(ids)
  BY <1>1, <1>3, <1>4, LenProperties
<1>6. \A i \in 1 .. Len(ids) : made[i].id = ids[i]
  BY <1>1
<1> HIDE DEF made
<1>7. Ids(made) \in Seq(Id) /\ Len(Ids(made)) = Len(ids)
      /\ \A i \in 1 .. Len(ids) : Ids(made)[i] = ids[i]
  BY <1>4, <1>5, <1>6, IdsOf
<1>8. Ids(made) = ids
  BY <1>7, SeqEqual
<1>9. QED
  BY <1>4, <1>5, <1>8 DEF made

\* The layout that is saved has the ids of the service, in their order.
LEMMA LayoutOfIs ==
  ASSUME NEW ids \in Seq(Id), NEW spans \in Spans, NEW away, NEW cols
  PROVE  LET layout == LayoutOf(ids, spans, away, cols)
         IN  /\ layout = [widgets |-> layout.widgets, hidden |-> away, columns |-> cols]
             /\ layout.widgets \in Seq(Widget) /\ Len(layout.widgets) = Len(ids)
             /\ Ids(layout.widgets) = ids
BY MadeType DEF LayoutOf

\* A fresh page has the widgets of the service, if there are any.
LEMMA BuiltFromIs ==
  ASSUME NEW ids \in Seq(Id), NEW spans \in Spans, Len(ids) <= MaxWidgets
  PROVE  /\ BuiltFrom(ids, spans) \in Seq(Widget) /\ Len(BuiltFrom(ids, spans)) <= MaxWidgets
         /\ ids # <<>> => Ids(BuiltFrom(ids, spans)) = ids
<1>1. CASE ids # <<>>
  BY <1>1, MadeType DEF BuiltFrom
<1>2. CASE ids = <<>>
  <2> DEFINE made == [i \in DOMAIN DefaultOrder |->
                        [id |-> DefaultOrder[i], rows |-> DefaultRows(DefaultOrder[i])]]
  <2>1. /\ Len(DefaultOrder) \in Nat /\ DOMAIN DefaultOrder = 1 .. Len(DefaultOrder)
        /\ \A i \in 1 .. Len(DefaultOrder) : DefaultOrder[i] \in Id
    BY WidgetAssumption, LenProperties, ElementOfSeq
  <2>2. \A id \in Id : [id |-> id, rows |-> DefaultRows(id)] \in Widget
    BY BoundAssumption DEF DefaultRows, Widget
  <2>3. made \in [1 .. Len(DefaultOrder) -> Widget]
    BY <2>1, <2>2
  <2>4. made \in Seq(Widget)
    BY <2>1, <2>3, SeqDef
  <2>5. Len(made) = Len(DefaultOrder)
    BY <2>1, <2>3, <2>4, LenProperties
  <2>6. BuiltFrom(ids, spans) = made
    BY <1>2 DEF BuiltFrom
  <2>7. QED
    BY <1>2, <2>4, <2>5, <2>6, BoundAssumption
<1>3. QED
  BY <1>1, <1>2
-----------------------------------------------------------------------------
(* The drag.                                                               *)

\* A list of widgets with one more has a place for it.
LEMMA PlaceOf ==
  ASSUME NEW l \in Seq(Widget), Len(l) <= MaxWidgets + 1, NEW c \in Columns,
         NEW k \in 1 .. Len(l)
  PROVE  PositionOf(Pack(l, c), l[k].id) \in Position
<1> DEFINE ps == Pack(l, c)
           id == l[k].id
           I == {i \in 1 .. Len(ps) : ps[i].id = id}
<1>1. Len(l) \in Nat
  BY LenProperties
<1>2. ps \in Seq(Position) /\ Len(ps) = Len(l) /\ ps[k].id = id
  BY PackOne DEF Sound
<1> HIDE DEF ps, id
<1>3. I # {} /\ I \subseteq Int /\ 1 \in Int /\ \A x \in I : 1 <= x
  BY <1>1, <1>2
<1>4. PositionOf(ps, id) = ps[IF I # {} THEN Min(I) ELSE 0]
  BY DEF PositionOf, SelectInSeq
<1>5. Min(I) \in 1 .. Len(ps)
  <2>1. Min(I) \in I
    <3> HIDE DEF I
    <3>1. QED
      BY <1>3, MinIn
  <2>2. QED
    BY <2>1
<1>6. ps[Min(I)] \in Position
  BY <1>2, <1>5, ElementOfSeq
<1>7. QED
  BY <1>3, <1>4, <1>6 DEF ps, id

\* Every index at which a widget may be tried has a place for it.
LEMMA CandidateType ==
  ASSUME NEW l \in Seq(Widget), Len(l) <= MaxWidgets, NEW w \in Widget, NEW c \in Columns,
         NEW cand \in Candidates(l, w, c)
  PROVE  cand.index \in 0 .. Len(l) /\ cand.at \in Position
<1>1. PICK i \in 0 .. Len(l) :
        cand = [index |-> i, at |-> PositionOf(PackWithInserted(l, w, i, c), w.id)]
  BY DEF Candidates
<1> DEFINE b == Inserted(l, w, i)
<1>2. Len(l) \in Nat /\ MaxWidgets \in Nat
  BY LenProperties, BoundAssumption
<1>3. i \in Int /\ i = MaxOf(0, MinOf(i, Len(l)))
  BY <1>2 DEF MaxOf, MinOf
<1>4. /\ b \in Seq(Widget) /\ Len(b) = Len(l) + 1
      /\ \A j \in 1 .. Len(l) + 1 : b[j] =
           IF j <= i THEN l[j] ELSE IF j = i + 1 THEN w ELSE l[j - 1]
  BY <1>3, InsertedIs
<1> HIDE DEF b
<1>5. i + 1 \in 1 .. Len(b) /\ b[i + 1] = w /\ Len(b) <= MaxWidgets + 1
  BY <1>2, <1>4
<1>6. PositionOf(Pack(b, c), w.id) \in Position
  BY <1>4, <1>5, PlaceOf
<1>7. QED
  BY <1>1, <1>6 DEF PackWithInserted, b

\* The index that is chosen is one.
LEMMA IndexType ==
  ASSUME NEW l \in Seq(Widget), Len(l) <= MaxWidgets, NEW w \in Widget, NEW c \in Columns,
         NEW centre \in Centres(c, MaxWidgets), NEW origin \in Position,
         NEW index \in 0 .. MaxWidgets
  PROVE  ComputeInsertionIndex(Candidates(l, w, c), centre, origin, index) \in 0 .. MaxWidgets
<1> DEFINE cands == Candidates(l, w, c)
           Score(x) == Distance(CentreRow(x.at), centre.row) + Distance(CentreCol(x.at), centre.col)
                         - (IF DragDirection(origin, centre, x.at) THEN 20 ELSE 0)
                         + Distance(x.index, index)
           ranks == {50 * Score(x) + x.index : x \in cands}
<1>1. Len(l) \in Nat /\ MaxWidgets \in Nat
  BY LenProperties, BoundAssumption
<1>2. centre.row \in Int /\ centre.col \in Int
  BY BoundAssumption DEF Centres
<1>3. ASSUME NEW x \in cands
      PROVE  x.index \in 0 .. Len(l) /\ Score(x) \in Int /\ Score(x) >= -20
  <2>1. x.index \in 0 .. Len(l) /\ x.at \in Position
    BY CandidateType
  <2>2. CentreRow(x.at) \in Int /\ CentreCol(x.at) \in Int
    <3>1. x.at.row \in Nat /\ x.at.col \in Nat /\ x.at.rows \in Nat /\ x.at.cols \in Nat
      BY <2>1 DEF Position
    <3>2. \A a, b \in Nat : 100 * a + 50 * b \in Int
      OBVIOUS
    <3>3. /\ CentreRow(x.at) = 100 * x.at.row + 50 * x.at.rows
          /\ CentreCol(x.at) = 100 * x.at.col + 50 * x.at.cols
      BY DEF CentreRow, CentreCol
    <3>4. QED
      BY <3>1, <3>2, <3>3
  <2>3. \A a, b \in Int : Distance(a, b) \in Nat
    BY DEF Distance
  <2>4. /\ Distance(CentreRow(x.at), centre.row) \in Nat
        /\ Distance(CentreCol(x.at), centre.col) \in Nat
        /\ Distance(x.index, index) \in Nat
    <3>1. x.index \in Int /\ index \in Int
      BY <1>1, <2>1
    <3>2. QED
      BY <1>2, <2>2, <2>3, <3>1
  <2>5. (IF DragDirection(origin, centre, x.at) THEN 20 ELSE 0) \in {0, 20}
    OBVIOUS
  <2>6. QED
    BY <2>1, <2>4, <2>5
<1>4. ranks # {}
  <2>1. 0 \in 0 .. Len(l)
    BY <1>1
  <2>2. cands # {}
    BY <2>1 DEF Candidates
  <2>3. QED
    BY <2>2
<1>5. ranks \subseteq Int /\ \A r \in ranks : -1000 <= r
  <2> SUFFICES ASSUME NEW r \in ranks PROVE r \in Int /\ -1000 <= r
    OBVIOUS
  <2>1. PICK x \in cands : r = 50 * Score(x) + x.index
    OBVIOUS
  <2>2. x.index \in Nat /\ Score(x) \in Int /\ Score(x) >= -20
    BY <1>1, <1>3
  <2> HIDE DEF Score, cands
  <2>3. QED
    BY <2>1, <2>2
<1>6. Min(ranks) \in ranks
  <2> DEFINE low == -1000
  <2>1. ranks \subseteq Int /\ ranks # {} /\ low \in Int /\ \A r \in ranks : low <= r
    BY <1>4, <1>5
  <2> HIDE DEF ranks, low
  <2>2. QED
    BY <2>1, MinIn
<1>7. Min(ranks) % 50 \in 0 .. MaxWidgets
  <2>1. PICK x \in cands : Min(ranks) = 50 * Score(x) + x.index
    BY <1>6
  <2>2. x.index \in 0 .. Len(l) /\ Score(x) \in Int
    BY <1>3
  <2> HIDE DEF Score, cands, ranks
  <2>3. (50 * Score(x) + x.index) % 50 \in 0 .. x.index
    BY <1>1, <2>2
  <2>4. QED
    BY <1>1, <2>1, <2>2, <2>3
<1>8. ComputeInsertionIndex(cands, centre, origin, index) \in {0, index, Min(ranks) % 50}
  BY DEF ComputeInsertionIndex
<1>9. QED
  BY <1>1, <1>7, <1>8
-----------------------------------------------------------------------------
(* The inductive invariant.                                                *)

\* Layouts that fit on the page, and saves of them.
Layout ==
  {x \in [widgets : Seq(Widget), hidden : SUBSET Id, columns : Columns] :
     Len(x.widgets) <= MaxWidgets}
Save == [layout : Layout, then : {"nothing", "offer", "refresh"}]

\* The variables, by component.
GridTypes ==
  /\ list \in Seq(Widget) /\ Len(list) <= MaxWidgets
  /\ contained \subseteq Id
  /\ hostCols \in Columns

ServiceTypes ==
  /\ order \in Seq(Id) /\ Len(order) <= MaxWidgets
  /\ rows \in Spans
  /\ hidden \subseteq Id
  /\ columns \in Columns

StoreTypes ==
  /\ saving \in Seq(Save) /\ Len(saving) <= MaxSaves
  /\ stored \in Layout /\ stored.columns \in {3, 4}

RestTypes ==
  /\ offered \subseteq Id
  /\ relayout \in BOOLEAN /\ differs \in BOOLEAN
  /\ faults \in 0 .. MaxFaults /\ gestures \in 0 .. MaxGestures

\* What a drag has of its widget.
DragTypes ==
  /\ DOMAIN drag = {"mode", "widget", "stale", "index", "at", "origin", "disturbed"}
  /\ drag.mode \in {"idle", "pending", "drag", "resize"}
  /\ drag.stale \in BOOLEAN /\ drag.disturbed \in BOOLEAN
  /\ drag.mode # "idle" =>
       drag.widget \in Widget /\ drag.index \in 0 .. MaxWidgets /\ drag.origin \in Position
  /\ drag.mode = "drag" => drag.at \in 0 .. MaxWidgets
  /\ drag.mode = "resize" => drag.widget.id \in AlwaysFillRow

\* The layout on the page is sound, and without a preview it is that of the list.
ShownInv ==
  /\ Sound(shown, hostCols)
  /\ drag.mode \in {"idle", "pending"} => shown = Pack(list, hostCols)

\* The last save on the way has what the service has now.
StoredInv ==
  IF saving = <<>> THEN StoredIsCurrent
  ELSE LET last == saving[Len(saving)].layout
       IN  Ids(last.widgets) = order /\ last.hidden = hidden /\ last.columns = columns

\* A press that nothing came between knows where its widget is in the list, and a drag
\* shows where it would drop it.
PreviewInv ==
  ~drag.stale /\ ~drag.disturbed =>
    /\ drag.mode = "pending" =>
         drag.index + 1 \in 1 .. Len(list) /\ list[drag.index + 1] = drag.widget
    /\ drag.mode = "drag" /\ IsInjective(Ids(list)) =>
         shown = PackWithInserted(Remaining, drag.widget, drag.at, hostCols)

Types == GridTypes /\ ServiceTypes /\ StoreTypes /\ RestTypes /\ DragTypes

IInv == Types /\ ShownInv /\ GridMirrorsService /\ StoredInv /\ PreviewInv
-----------------------------------------------------------------------------
(* What the parts of the steps do.                                         *)

\* A page that is built shows its list, and the list is that of the service.
LEMMA SetupIs ==
  ASSUME NEW ids \in Seq(Id), Len(ids) <= MaxWidgets, NEW spans \in Spans, NEW cols \in Columns,
         SetupWidgets(ids, spans, cols)
  PROVE  /\ GridTypes'
         /\ Sound(shown', hostCols') /\ shown' = Pack(list', hostCols')
         /\ ids # <<>> => Ids(list') = ids
<1> DEFINE built == BuiltFrom(ids, spans)
<1>1. /\ built \in Seq(Widget) /\ Len(built) <= MaxWidgets
      /\ ids # <<>> => Ids(built) = ids
  BY BuiltFromIs
<1>2. list' = built /\ contained' = ToSet(Ids(built)) /\ hostCols' = cols /\ shown' = Pack(built, cols)
  BY DEF SetupWidgets
<1> HIDE DEF built
<1>3. ToSet(Ids(built)) \subseteq Id
  BY <1>1, IdsOf, LenProperties, ElementOfSeq DEF ToSet
<1>4. Sound(Pack(built, cols), cols)
  BY <1>1, PackOne
<1>5. QED
  BY <1>1, <1>2, <1>3, <1>4 DEF GridTypes

\* A save goes behind the others with what the service has then.
LEMMA SaveIs ==
  ASSUME StoreTypes, ServiceTypes', NEW then \in {"nothing", "offer", "refresh"},
         SaveLayoutAsync(then)
  PROVE  /\ saving' \in Seq(Save) /\ Len(saving') <= MaxSaves /\ saving' # <<>>
         /\ Len(saving') = Len(saving) + 1
         /\ \A i \in 1 .. Len(saving) : saving'[i] = saving[i]
         /\ saving'[Len(saving')].then = then
         /\ StoredInv'
<1> DEFINE layout == LayoutOf(order', rows', hidden', columns')
           save == [layout |-> layout, then |-> then]
<1>1. /\ layout = [widgets |-> layout.widgets, hidden |-> hidden', columns |-> columns']
      /\ layout.widgets \in Seq(Widget) /\ Len(layout.widgets) = Len(order')
      /\ Ids(layout.widgets) = order'
  BY LayoutOfIs DEF ServiceTypes
<1> HIDE DEF layout
<1>2. layout \in Layout
  <2>1. layout.widgets \in Seq(Widget) /\ hidden' \in SUBSET Id /\ columns' \in Columns
    BY <1>1 DEF ServiceTypes
  <2>2. [widgets |-> layout.widgets, hidden |-> hidden', columns |-> columns']
          \in [widgets : Seq(Widget), hidden : SUBSET Id, columns : Columns]
    BY <2>1
  <2>3. Len(layout.widgets) <= MaxWidgets
    BY <1>1 DEF ServiceTypes
  <2>4. QED
    BY <1>1, <2>2, <2>3 DEF Layout
<1>3. save \in Save
  BY <1>2 DEF Save
<1>4. saving' = Append(saving, save) /\ Len(saving) < MaxSaves
  BY DEF SaveLayoutAsync, layout
<1>5. saving \in Seq(Save) /\ Len(saving) \in Nat
  BY LenProperties DEF StoreTypes
<1>6. /\ saving' \in Seq(Save) /\ Len(saving') = Len(saving) + 1
      /\ \A i \in 1 .. Len(saving) : saving'[i] = saving[i]
      /\ saving'[Len(saving) + 1] = save
  <2> HIDE DEF save
  <2>1. QED
    BY <1>3, <1>4, <1>5, AppendProperties
<1>7. saving' # <<>>
  BY <1>5, <1>6, EmptySeq
<1>8. saving'[Len(saving')] = save
  BY <1>6
<1>9. StoredInv'
  <2>1. save.layout.hidden = hidden' /\ save.layout.columns = columns' /\ save.layout.widgets = layout.widgets
    BY <1>1
  <2> HIDE DEF save
  <2>2. QED
    BY <1>1, <1>7, <1>8, <2>1 DEF StoredInv
<1>10. QED
  BY <1>4, <1>5, <1>6, <1>7, <1>8, <1>9, SaveAssumption DEF StoreTypes

\* A save that does not refresh the page leaves the refreshes on the way.
LEMMA SameRefreshes ==
  ASSUME StoreTypes, Len(saving') = Len(saving) + 1, 
         \A i \in 1 .. Len(saving) : saving'[i] = saving[i], saving' \in Seq(Save),
         \A i \in DOMAIN saving' : saving'[i].then # "refresh"
  PROVE  \A i \in DOMAIN saving : saving[i].then # "refresh"
<1>1. DOMAIN saving = 1 .. Len(saving) /\ Len(saving) \in Nat
      /\ DOMAIN saving' = 1 .. Len(saving')
  BY LenProperties DEF StoreTypes
<1>2. \A i \in 1 .. Len(saving) : i \in 1 .. Len(saving')
  BY <1>1
<1>3. QED
  BY <1>1, <1>2

\* Laying the list out again.
LEMMA AgainIs ==
  ASSUME GridTypes, DragTypes, NEW cols \in Columns, LayoutAgain(cols)
  PROVE  /\ GridTypes' /\ ShownInv' /\ DragTypes' /\ PreviewInv'
         /\ list' = list
<1>1. /\ list' = list /\ contained' = contained /\ hostCols' = cols /\ shown' = Pack(list, cols)
      /\ drag' = IF drag.mode = "idle" THEN drag ELSE Disturbed
  BY DEF LayoutAgain
<1>2. GridTypes'
  BY <1>1 DEF GridTypes
<1>3. Sound(Pack(list, cols), cols)
  BY PackOne DEF GridTypes
<1>4. ShownInv'
  BY <1>1, <1>3 DEF ShownInv
<1>5. DragTypes'
  BY <1>1 DEF DragTypes, Disturbed
<1>6. PreviewInv'
  BY <1>1 DEF PreviewInv, DragTypes, Disturbed
<1>7. QED
  BY <1>1, <1>2, <1>4, <1>5, <1>6

\* A drag that a relayout, a refresh or the end of its widget came between.
LEMMA DisturbedIs ==
  ASSUME DragTypes, NEW stale
  PROVE  LET d == [Disturbed EXCEPT !.stale = stale]
         IN  /\ DOMAIN d = DOMAIN drag
             /\ d.mode = drag.mode /\ d.widget = drag.widget /\ d.stale = stale
             /\ d.index = drag.index /\ d.at = drag.at /\ d.origin = drag.origin
             /\ d.disturbed = TRUE
BY DEF DragTypes, Disturbed

\* Nothing of a drag is left when it is idle.
LEMMA IdleIs ==
  ASSUME drag' = Idle
  PROVE  DragTypes' /\ PreviewInv' /\ drag'.mode = "idle"
BY DEF Idle, DragTypes, PreviewInv

\* Nothing changes for the types and the drag while these are left alone.
LEMMA GridSame ==
  ASSUME GridTypes, DragTypes, ShownInv, PreviewInv, UNCHANGED <<grid, drag>>
  PROVE  GridTypes' /\ DragTypes' /\ ShownInv' /\ PreviewInv'
<1>1. /\ list' = list /\ contained' = contained /\ shown' = shown /\ hostCols' = hostCols
      /\ drag' = drag
  BY DEF grid
<1>2. GridTypes' /\ ShownInv'
  BY <1>1 DEF GridTypes, ShownInv
<1>3. DragTypes'
  BY <1>1 DEF DragTypes
<1>4. PreviewInv'
  BY <1>1 DEF PreviewInv, Remaining
<1>5. QED
  BY <1>2, <1>3, <1>4

\* The service and the saves left alone.
LEMMA ServiceSame ==
  ASSUME ServiceTypes, UNCHANGED service
  PROVE  /\ ServiceTypes' /\ order' = order /\ rows' = rows /\ hidden' = hidden
         /\ columns' = columns
BY DEF ServiceTypes, service

\* The saves and what is stored, left alone with the service.
LEMMA StoreSame ==
  ASSUME StoreTypes, StoredInv, UNCHANGED <<service, saving, stored, differs>>
  PROVE  StoreTypes' /\ StoredInv'
<1>1. /\ saving' = saving /\ stored' = stored /\ differs' = differs
      /\ order' = order /\ hidden' = hidden /\ columns' = columns
  BY DEF service
<1>2. StoreTypes'
  BY <1>1 DEF StoreTypes
<1>3. StoredInv'
  BY <1>1 DEF StoredInv, StoredIsCurrent
<1>4. QED
  BY <1>2, <1>3
-----------------------------------------------------------------------------
(* The steps.                                                              *)

\* A press, which knows its widget's place.
LEMMA PressKeeps ==
  ASSUME IInv, Press
  PROVE  IInv'
<1> USE DEF IInv, Types
<1>1. PICK id \in ToSet(Ids(list)), mode \in {"pending", "resize"} :
        /\ Pressed(mode, list[IndexOf(list, id) + 1])
        /\ mode = "resize" => id \in AlwaysFillRow
  BY DEF Press
<1> DEFINE k == IndexOf(list, id) + 1
           w == list[k]
<1>2. k \in 1 .. Len(list) /\ w.id = id /\ w \in Widget /\ Len(list) \in Nat
  <2>1. /\ Len(list) \in Nat /\ DOMAIN Ids(list) = 1 .. Len(list)
        /\ \A i \in 1 .. Len(list) : Ids(list)[i] = list[i].id
    BY IdsOf, LenProperties DEF GridTypes
  <2>2. \E i \in 1 .. Len(list) : list[i].id = id
    BY <2>1 DEF ToSet
  <2>3. /\ IndexOf(list, id) \in -1 .. Len(list) - 1
        /\ IndexOf(list, id) # -1 => list[IndexOf(list, id) + 1].id = id
        /\ IndexOf(list, id) = -1 => \A i \in 1 .. Len(list) : list[i].id # id
    BY IndexIn DEF GridTypes
  <2>4. IndexOf(list, id) # -1
    BY <2>2, <2>3
  <2>5. k \in 1 .. Len(list) /\ w.id = id
    BY <2>1, <2>3, <2>4
  <2>6. QED
    BY <2>1, <2>5, ElementOfSeq DEF GridTypes
<1>3. PositionOf(Pack(list, hostCols), w.id) \in Position
  BY <1>2, PlaceOf, BoundAssumption DEF GridTypes
<1>4. /\ drag.mode = "idle"
      /\ drag' = [Idle EXCEPT !.mode = mode, !.widget = w, !.index = IndexOf(list, w.id),
                              !.origin = PositionOf(Pack(list, hostCols), w.id)]
      /\ UNCHANGED <<grid, service, offered, relayout, saving, stored, differs, faults>>
      /\ Gesture
  BY <1>1 DEF Pressed
<1>5. /\ UNCHANGED <<list, contained, shown, hostCols>>
      /\ UNCHANGED <<service, offered, relayout, saving, stored, differs, faults>>
  BY <1>4 DEF grid
<1>6. /\ drag'.mode = mode /\ drag'.widget = w /\ drag'.index = k - 1 /\ drag'.stale = FALSE
      /\ drag'.disturbed = FALSE /\ drag'.origin = PositionOf(Pack(list, hostCols), w.id)
      /\ DOMAIN drag' = {"mode", "widget", "stale", "index", "at", "origin", "disturbed"}
  <2>1. IndexOf(list, w.id) = k - 1
    <3>1. IndexOf(list, id) \in Int /\ w.id = id
      BY <1>2, IndexIn DEF GridTypes
    <3>2. IndexOf(list, id) = (IndexOf(list, id) + 1) - 1
      BY <3>1
    <3> HIDE DEF w
    <3>3. QED
      BY <3>1, <3>2
  <2> HIDE DEF k, w
  <2>2. QED
    BY <1>4, <2>1 DEF Idle
<1> HIDE DEF k, w
<1>7. GridTypes'
  BY <1>5 DEF GridTypes
<1>8. DragTypes'
  <2>1. drag'.index \in 0 .. MaxWidgets
    BY <1>2, <1>6, BoundAssumption DEF GridTypes
  <2>2. mode = "resize" => drag'.widget.id \in AlwaysFillRow
    BY <1>1, <1>2, <1>6
  <2>3. QED
    BY <1>2, <1>3, <1>6, <2>1, <2>2 DEF DragTypes
<1>9. ShownInv'
  BY <1>4, <1>5 DEF ShownInv
<1>10. PreviewInv'
  <2>1. drag'.index + 1 = k
    BY <1>2, <1>6
  <2>2. QED
    BY <1>2, <1>5, <1>6, <2>1 DEF PreviewInv, w
<1>11. ServiceTypes' /\ StoreTypes' /\ StoredInv'
  BY <1>5, ServiceSame, StoreSame
<1>12. GridMirrorsService'
  BY <1>5 DEF GridMirrorsService, service
<1>13. RestTypes'
  <2>1. gestures' \in 0 .. MaxGestures
    BY <1>4, SaveAssumption DEF RestTypes, Gesture
  <2>2. QED
    BY <1>5, <2>1 DEF RestTypes
<1>14. QED
  BY <1>7, <1>8, <1>9, <1>10, <1>11, <1>12, <1>13

\* The first moves of a drag, and the later ones.
LEMMA DragMoveKeeps ==
  ASSUME IInv, DragMove
  PROVE  IInv'
<1> USE DEF IInv, Types
<1> DEFINE current == CurrentInsertionIndex
<1>1. PICK at \in NewIndices :
        /\ DragTo(at, current)
        /\ drag' = [drag EXCEPT !.mode = "drag", !.at = at,
                                !.disturbed = @ /\ at = current]
  BY Zenon DEF DragMove
<1>2. /\ drag.mode \in {"pending", "drag"}
      /\ UNCHANGED <<list, contained, hostCols>> /\ UNCHANGED <<service, saving, stored, differs>>
      /\ UNCHANGED <<offered, relayout, faults, gestures>>
  BY DEF DragMove
<1>3. /\ drag.widget \in Widget /\ drag.index \in 0 .. MaxWidgets /\ drag.origin \in Position
      /\ list \in Seq(Widget) /\ Len(list) <= MaxWidgets /\ hostCols \in Columns
  BY <1>2 DEF DragTypes, GridTypes
<1>4. Remaining \in Seq(Widget) /\ Len(Remaining) <= MaxWidgets
  <2>1. Remaining \in Seq(Widget) /\ Len(Remaining) <= Len(list)
    BY <1>3, WithoutIs DEF Remaining
  <2>2. Len(list) \in Nat /\ Len(Remaining) \in Nat /\ MaxWidgets \in Nat
    BY <1>3, <2>1, LenProperties, BoundAssumption
  <2>3. QED
    BY <1>3, <2>1, <2>2
<1>5. at \in 0 .. MaxWidgets
  <2>1. PICK centre \in Centres(hostCols, MaxWidgets) :
          at = ComputeInsertionIndex(Candidates(Remaining, drag.widget, hostCols), centre,
                                     drag.origin, drag.index)
    BY <1>1 DEF NewIndices
  <2>2. QED
    BY <1>3, <1>4, <2>1, IndexType
<1>6. /\ drag'.mode = "drag" /\ drag'.widget = drag.widget /\ drag'.stale = drag.stale
      /\ drag'.index = drag.index /\ drag'.at = at /\ drag'.origin = drag.origin
      /\ drag'.disturbed = (drag.disturbed /\ at = current)
      /\ DOMAIN drag' = DOMAIN drag
  <2> DEFINE both == drag.disturbed /\ at = current
  <2>1. drag' = [drag EXCEPT !.mode = "drag", !.at = at, !.disturbed = both]
    BY <1>1
  <2> HIDE DEF both
  <2>2. /\ drag'.mode = "drag" /\ drag'.widget = drag.widget /\ drag'.stale = drag.stale
        /\ drag'.index = drag.index /\ drag'.at = at /\ drag'.origin = drag.origin
        /\ drag'.disturbed = both /\ DOMAIN drag' = DOMAIN drag
    BY <2>1 DEF DragTypes
  <2>3. QED
    BY <2>2 DEF both
<1> DEFINE preview == PackWithInserted(Remaining, drag.widget, at, hostCols)
<1>7. shown' = IF at # current THEN preview ELSE shown
  BY <1>1 DEF DragTo
<1>8. Sound(preview, hostCols)
  <2>1. at \in Int
    BY <1>5, BoundAssumption
  <2>2. Inserted(Remaining, drag.widget, at) \in Seq(Widget)
    BY <1>3, <1>4, <2>1, InsertedIs
  <2>3. QED
    BY <1>3, <2>2, PackOne DEF PackWithInserted
<1>9. DragTypes'
  <2>1. drag.stale \in BOOLEAN /\ drag.disturbed \in BOOLEAN
    BY DEF DragTypes
  <2>2. drag'.disturbed \in BOOLEAN
    BY <1>6, <2>1
  <2>3. QED
    BY <1>3, <1>5, <1>6, <2>1, <2>2 DEF DragTypes
<1>10. GridTypes'
  BY <1>2 DEF GridTypes
<1>11. ShownInv'
  <2>1. Sound(shown', hostCols')
    BY <1>2, <1>7, <1>8 DEF ShownInv
  <2>2. drag'.mode = "drag"
    BY <1>6
  <2>3. QED
    BY <2>1, <2>2 DEF ShownInv
<1>12. PreviewInv'
  <2> SUFFICES ASSUME ~drag'.stale, ~drag'.disturbed, IsInjective(Ids(list'))
               PROVE  shown' = PackWithInserted(Remaining', drag'.widget, drag'.at, hostCols')
    BY <1>6 DEF PreviewInv
  <2>1. PackWithInserted(Remaining', drag'.widget, drag'.at, hostCols') = preview
    BY <1>2, <1>6 DEF Remaining
  <2>2. CASE at # current
    BY <1>7, <2>1, <2>2
  <2>3. CASE at = current
    <3>1. ~drag.stale /\ ~drag.disturbed /\ shown' = shown
      <4>1. drag.disturbed \in BOOLEAN /\ drag'.stale = drag.stale
            /\ drag'.disturbed = (drag.disturbed /\ at = current)
        BY <1>6 DEF DragTypes
      <4> HIDE DEF current
      <4>2. ~(drag.disturbed /\ at = current)
        BY <4>1
      <4>3. ~drag.disturbed
        BY <2>3, <4>2
      <4>4. ~drag.stale
        BY <4>1
      <4>5. QED
        BY <1>7, <2>3, <4>3, <4>4
    <3>2. CASE drag.mode = "drag"
      <4>1. current = drag.at
        BY <3>2 DEF CurrentInsertionIndex
      <4>2. QED
        BY <4>1, <1>2, <2>1, <2>3, <3>1, <3>2 DEF PreviewInv
    <3>3. CASE drag.mode = "pending"
      <4>1. at = drag.index /\ shown = Pack(list, hostCols)
        BY <2>3, <3>3 DEF ShownInv, CurrentInsertionIndex
      <4>2. drag.index + 1 \in 1 .. Len(list) /\ list[drag.index + 1] = drag.widget
        BY <3>1, <3>3 DEF PreviewInv
      <4>3. Inserted(Without(list, list[drag.index + 1].id), list[drag.index + 1],
                     (drag.index + 1) - 1) = list
        BY <1>2, <1>3, <4>2, PutBack
      <4>4. (drag.index + 1) - 1 = at
        BY <1>5, <4>1, BoundAssumption
      <4>5. Inserted(Remaining, drag.widget, at) = list
        BY <4>2, <4>3, <4>4 DEF Remaining
      <4>6. QED
        BY <2>1, <3>1, <4>1, <4>5 DEF PackWithInserted
    <3>4. QED
      BY <1>2, <3>2, <3>3
  <2>4. QED
    BY <2>2, <2>3
<1>13. ServiceTypes' /\ StoreTypes' /\ StoredInv'
  BY <1>2, ServiceSame, StoreSame
<1>14. GridMirrorsService'
  BY <1>2 DEF GridMirrorsService, service
<1>15. RestTypes'
  BY <1>2 DEF RestTypes
<1>16. QED
  BY <1>9, <1>10, <1>11, <1>12, <1>13, <1>14, <1>15

\* A widget of a list made taller.
LEMMA Replaced ==
  ASSUME NEW l \in Seq(Widget), NEW k \in 0 .. Len(l), NEW w \in Widget, k # 0 => l[k].id = w.id
  PROVE  /\ [l EXCEPT ![k] = w] \in Seq(Widget) /\ Len([l EXCEPT ![k] = w]) = Len(l)
         /\ Ids([l EXCEPT ![k] = w]) = Ids(l)
<1> DEFINE r == [l EXCEPT ![k] = w]
<1>1. /\ Len(l) \in Nat /\ DOMAIN l = 1 .. Len(l) /\ \A i \in 1 .. Len(l) : l[i] \in Widget
      /\ l = [i \in 1 .. Len(l) |-> l[i]]
  BY LenProperties, ElementOfSeq
<1>2. r = [i \in 1 .. Len(l) |-> IF i = k THEN w ELSE l[i]]
  BY <1>1
<1>3. \A i \in 1 .. Len(l) : (IF i = k THEN w ELSE l[i]) \in Widget
  BY <1>1
<1>4. r \in [1 .. Len(l) -> Widget]
  BY <1>2, <1>3
<1>5. r \in Seq(Widget) /\ Len(r) = Len(l) /\ DOMAIN r = 1 .. Len(l)
  BY <1>1, <1>2, <1>4, SeqDef, LenProperties
<1>6. \A i \in 1 .. Len(l) : r[i].id = l[i].id
  BY <1>1, <1>2
<1>7. Ids(r) = Ids(l)
  BY <1>1, <1>5, <1>6 DEF Ids
<1>8. QED
  BY <1>5, <1>7

\* The edge of a widget that is resized moves.
LEMMA ResizeMoveKeeps ==
  ASSUME IInv, ResizeMove
  PROVE  IInv'
<1> USE DEF IInv, Types
<1>1. PICK r \in 1 .. MaxRowSpan \ {drag.widget.rows} :
        LET resized == [drag.widget EXCEPT !.rows = r]
        IN  /\ drag' = [drag EXCEPT !.widget = resized]
            /\ list' = IF drag.stale THEN list
                       ELSE [list EXCEPT ![IndexOf(list, resized.id) + 1] = resized]
            /\ shown' = PackWithInserted(Remaining, resized, drag.index, hostCols)
  BY Zenon DEF ResizeMove
<1>2. /\ drag.mode = "resize" /\ UNCHANGED <<contained, hostCols>>
      /\ UNCHANGED <<service, saving, stored, differs>>
      /\ UNCHANGED <<offered, relayout, faults, gestures>>
  BY DEF ResizeMove
<1>3. /\ drag.widget \in Widget /\ drag.index \in 0 .. MaxWidgets /\ drag.origin \in Position
      /\ drag.widget.id \in AlwaysFillRow
      /\ list \in Seq(Widget) /\ Len(list) <= MaxWidgets /\ hostCols \in Columns
  BY <1>2 DEF DragTypes, GridTypes
<1> DEFINE resized == [drag.widget EXCEPT !.rows = r]
           k == IndexOf(list, drag.widget.id) + 1
<1>4. resized \in Widget /\ resized.id = drag.widget.id
  BY <1>3 DEF Widget
<1>5. /\ drag' = [drag EXCEPT !.widget = resized]
      /\ list' = IF drag.stale THEN list ELSE [list EXCEPT ![k] = resized]
      /\ shown' = PackWithInserted(Remaining, resized, drag.index, hostCols)
  <2>1. /\ drag' = [drag EXCEPT !.widget = resized]
        /\ list' = IF drag.stale THEN list
                   ELSE [list EXCEPT ![IndexOf(list, resized.id) + 1] = resized]
        /\ shown' = PackWithInserted(Remaining, resized, drag.index, hostCols)
    BY <1>1
  <2> HIDE DEF resized
  <2>2. QED
    BY <1>4, <2>1
<1> HIDE DEF resized
<1>6. /\ Len(list) \in Nat /\ k \in 0 .. Len(list) /\ k # 0 => list[k].id = resized.id
  BY <1>3, <1>4, IndexIn, LenProperties
<1> HIDE DEF k
<1>7. list' \in Seq(Widget) /\ Len(list') = Len(list) /\ Ids(list') = Ids(list)
  BY <1>3, <1>4, <1>5, <1>6, Replaced
<1>8. GridTypes'
  BY <1>2, <1>3, <1>7 DEF GridTypes
<1>9. /\ drag'.mode = "resize" /\ drag'.widget = resized /\ drag'.stale = drag.stale
      /\ drag'.index = drag.index /\ drag'.origin = drag.origin
      /\ drag'.disturbed = drag.disturbed /\ DOMAIN drag' = DOMAIN drag
  BY <1>2, <1>5 DEF DragTypes
<1>10. DragTypes'
  BY <1>2, <1>3, <1>4, <1>9 DEF DragTypes
<1>11. ShownInv'
  <2>1. Remaining \in Seq(Widget)
    BY <1>3, WithoutIs DEF Remaining
  <2>2. drag.index \in Int
    BY <1>3, BoundAssumption
  <2>3. Inserted(Remaining, resized, drag.index) \in Seq(Widget)
    BY <1>4, <2>1, <2>2, InsertedIs
  <2>4. Sound(shown', hostCols')
    BY <1>2, <1>3, <1>5, <2>3, PackOne DEF PackWithInserted
  <2>5. QED
    BY <1>9, <2>4 DEF ShownInv
<1>12. PreviewInv'
  BY <1>9 DEF PreviewInv
<1>13. ServiceTypes' /\ StoreTypes' /\ StoredInv'
  BY <1>2, ServiceSame, StoreSame
<1>14. GridMirrorsService'
  BY <1>2, <1>7 DEF GridMirrorsService, service
<1>15. RestTypes'
  BY <1>2 DEF RestTypes
<1>16. QED
  BY <1>8, <1>10, <1>11, <1>12, <1>13, <1>14, <1>15

\* Where a dragged widget is dropped.
LEMMA DroppedIs ==
  ASSUME GridTypes, DragTypes, drag.mode = "drag"
  PROVE  /\ Dropped \in Seq(Widget)
         /\ ~drag.stale /\ IsInjective(Ids(list)) =>
              Dropped = Inserted(Remaining, drag.widget, drag.at)
<1>1. /\ drag.widget \in Widget /\ drag.at \in Int
      /\ list \in Seq(Widget) /\ Len(list) \in Nat
  BY BoundAssumption, LenProperties DEF DragTypes, GridTypes
<1> DEFINE k == IndexOf(list, drag.widget.id) + 1
           rest == IF drag.stale THEN list ELSE RemoveAt(list, k)
<1>2. /\ k \in 0 .. Len(list)
      /\ k # 0 => list[k].id = drag.widget.id
      /\ k = 0 => \A i \in 1 .. Len(list) : list[i].id # drag.widget.id
  BY <1>1, IndexIn
<1>3. Dropped = Inserted(rest, drag.widget, drag.at)
  BY DEF Dropped
<1> HIDE DEF k
<1>4. rest \in Seq(Widget)
  BY <1>1, <1>2, Removed
<1>5. ASSUME ~drag.stale, IsInjective(Ids(list))
      PROVE  rest = Remaining
  <2>1. \A i \in 1 .. Len(list) : list[i].id = drag.widget.id <=> i = k
    <3>1. DOMAIN Ids(list) = 1 .. Len(list) /\ \A i \in 1 .. Len(list) : Ids(list)[i] = list[i].id
      BY <1>1, IdsOf, LenProperties
    <3>2. CASE k = 0
      BY <1>1, <1>2, <3>2
    <3>3. CASE k # 0
      <4>1. k \in 1 .. Len(list)
        BY <1>1, <1>2, <3>3
      <4>2. QED
        BY <1>2, <1>5, <3>1, <3>3, <4>1 DEF IsInjective
    <3>4. QED
      BY <3>2, <3>3
  <2>2. Without(list, drag.widget.id) = RemoveAt(list, k)
    BY <1>1, <1>2, <2>1, WithoutIs
  <2>3. QED
    BY <1>5, <2>2 DEF Remaining
<1> HIDE DEF rest
<1>6. QED
  BY <1>1, <1>3, <1>4, <1>5, InsertedIs

\* The page lays out what was let go, and saves it.
LEMMA ReleasedKeeps ==
  ASSUME IInv, NEW l \in Seq(Widget), Len(l) <= MaxWidgets, Released(l), drag' = Idle,
         UNCHANGED <<offered, relayout, stored, differs, faults, gestures>>
  PROVE  IInv'
<1> USE DEF IInv, Types
<1>1. /\ list' = l /\ shown' = Pack(l, hostCols) /\ contained' = contained /\ hostCols' = hostCols
      /\ order' = Ids(l) /\ rows' = RowsOf(l) /\ hidden' = hidden /\ columns' = columns
      /\ SaveLayoutAsync("nothing")
  BY DEF Released, OnLayoutChanged
<1>2. Ids(l) \in Seq(Id) /\ Len(Ids(l)) <= MaxWidgets /\ RowsOf(l) \in Spans
  BY IdsOf, RowsOfType
<1>3. ServiceTypes'
  BY <1>1, <1>2 DEF ServiceTypes
<1>4. saving' \in Seq(Save) /\ Len(saving') <= MaxSaves /\ StoredInv'
  BY <1>1, <1>3, SaveIs
<1>5. StoreTypes'
  BY <1>4 DEF StoreTypes
<1>6. GridTypes' /\ RestTypes'
  BY <1>1 DEF GridTypes, RestTypes
<1>7. Sound(Pack(l, hostCols), hostCols)
  BY PackOne DEF GridTypes
<1>8. ShownInv'
  BY <1>1, <1>7 DEF ShownInv
<1>9. DragTypes' /\ PreviewInv'
  BY IdleIs
<1>10. GridMirrorsService'
  BY <1>1 DEF GridMirrorsService
<1>11. QED
  BY <1>3, <1>4, <1>5, <1>6, <1>8, <1>9, <1>10

\* The press, the drag or the resize ends.
LEMMA ReleaseKeeps ==
  ASSUME IInv, Release
  PROVE  IInv'
<1>1. drag' = Idle /\ UNCHANGED <<offered, relayout, stored, differs, faults, gestures>>
  BY DEF Release
<1>2. CASE drag.mode = "pending" /\ UNCHANGED <<grid, service, saving>>
  <2> USE DEF IInv, Types
  <2>1. /\ list' = list /\ contained' = contained /\ shown' = shown /\ hostCols' = hostCols
        /\ UNCHANGED <<service, saving>>
    BY <1>2 DEF grid
  <2>2. GridTypes' /\ RestTypes'
    BY <1>1, <2>1 DEF GridTypes, RestTypes
  <2>3. DragTypes' /\ PreviewInv' /\ drag'.mode = "idle"
    BY <1>1, IdleIs
  <2>4. ShownInv'
    BY <1>2, <2>1, <2>3 DEF ShownInv
  <2>5. ServiceTypes' /\ StoreTypes' /\ StoredInv'
    BY <1>1, <2>1, ServiceSame, StoreSame
  <2>6. GridMirrorsService'
    BY <2>1 DEF GridMirrorsService, service
  <2>7. QED
    BY <2>2, <2>3, <2>4, <2>5, <2>6
<1>3. CASE drag.mode = "drag" /\ Len(Dropped) <= MaxWidgets /\ Released(Dropped)
  <2>1. GridTypes /\ DragTypes
    BY DEF IInv, Types
  <2>2. Dropped \in Seq(Widget)
    BY <1>3, <2>1, DroppedIs
  <2>3. QED
    BY <1>1, <1>3, <2>2, ReleasedKeeps
<1>4. CASE drag.mode = "resize" /\ Released(list)
  <2>1. list \in Seq(Widget) /\ Len(list) <= MaxWidgets
    BY DEF IInv, Types, GridTypes
  <2>2. QED
    BY <1>1, <1>4, <2>1, ReleasedKeeps
<1>5. QED
  BY <1>2, <1>3, <1>4 DEF Release

\* What the backend stores of a save is the save, but for columns it does not take.
LEMMA AppliedIs ==
  ASSUME NEW old \in Layout, old.columns \in {3, 4}, NEW layout \in Layout
  PROVE  LET new == Applied(old, layout)
         IN  /\ new \in Layout /\ new.columns \in {3, 4}
             /\ new.widgets = layout.widgets /\ new.hidden = layout.hidden
             /\ layout.columns \in {3, 4} => new.columns = layout.columns
<1> DEFINE cols == IF layout.columns \in {3, 4} THEN layout.columns ELSE old.columns
           new == [layout EXCEPT !.columns = cols]
<1>1. Applied(old, layout) = new
  BY DEF Applied
<1>2. cols \in Columns /\ cols \in {3, 4} /\ (layout.columns \in {3, 4} => cols = layout.columns)
  BY DEF Layout
<1> HIDE DEF cols
<1>3. /\ layout \in [widgets : Seq(Widget), hidden : SUBSET Id, columns : Columns]
      /\ Len(layout.widgets) <= MaxWidgets
  BY DEF Layout
<1>4. new \in [widgets : Seq(Widget), hidden : SUBSET Id, columns : Columns]
      /\ new.widgets = layout.widgets /\ new.hidden = layout.hidden /\ new.columns = cols
  BY <1>2, <1>3
<1>5. new \in Layout
  BY <1>3, <1>4 DEF Layout
<1> HIDE DEF new
<1>6. QED
  BY <1>1, <1>2, <1>4, <1>5

\* The saves that are left when the first has ended.
LEMMA Shorter ==
  ASSUME NEW S, NEW s \in Seq(S), s # <<>>
  PROVE  /\ Head(s) \in S /\ Head(s) = s[1] /\ Tail(s) \in Seq(S) /\ Len(Tail(s)) = Len(s) - 1
         /\ \A i \in 1 .. Len(s) - 1 : Tail(s)[i] = s[i + 1]
         /\ Len(s) >= 1 /\ (Tail(s) = <<>> <=> Len(s) = 1)
<1>1. Len(s) \in Nat /\ Len(s) # 0
  BY LenProperties, EmptySeq
<1>2. /\ Tail(s) \in Seq(S) /\ Len(Tail(s)) = Len(s) - 1
      /\ \A i \in 1 .. Len(Tail(s)) : Tail(s)[i] = s[i + 1]
      /\ Head(s) \in S /\ Head(s) = s[1]
  BY HeadTailProperties
<1>3. Tail(s) = <<>> <=> Len(Tail(s)) = 0
  BY <1>2, EmptySeq
<1>4. QED
  BY <1>1, <1>2, <1>3

\* A drag that something came between, or none.
LEMMA WipedIs ==
  ASSUME DragTypes, NEW stale \in BOOLEAN,
         drag' = IF drag.mode = "idle" THEN drag ELSE [Disturbed EXCEPT !.stale = stale]
  PROVE  DragTypes' /\ PreviewInv'
<1>1. CASE drag.mode = "idle"
  <2>1. drag' = drag
    BY <1>1
  <2>2. QED
    BY <1>1, <2>1 DEF DragTypes, PreviewInv
<1>2. CASE drag.mode # "idle"
  <2> DEFINE d == [Disturbed EXCEPT !.stale = stale]
  <2>1. drag' = d
    BY <1>2
  <2>2. /\ DOMAIN d = DOMAIN drag
        /\ d.mode = drag.mode /\ d.widget = drag.widget /\ d.stale = stale
        /\ d.index = drag.index /\ d.at = drag.at /\ d.origin = drag.origin
        /\ d.disturbed = TRUE
    BY DisturbedIs
  <2> HIDE DEF d
  <2>3. DragTypes'
    BY <2>1, <2>2 DEF DragTypes
  <2>4. PreviewInv'
    BY <2>1, <2>2 DEF PreviewInv
  <2>5. QED
    BY <2>3, <2>4
<1>3. QED
  BY <1>1, <1>2

\* A save ends, and what waited for it goes on.
LEMMA SaveEndsKeeps ==
  ASSUME IInv, SaveEnds
  PROVE  IInv'
<1> USE DEF IInv, Types
<1>1. /\ saving # <<>> /\ saving' = Tail(saving)
      /\ \/ stored' = Applied(stored, Head(saving).layout) /\ differs' = FALSE
         \/ faults < MaxFaults /\ UNCHANGED stored /\ differs' = TRUE
      /\ faults' = IF differs' THEN faults + 1 ELSE faults
      /\ offered' = IF Head(saving).then = "nothing" THEN offered ELSE hidden
      /\ UNCHANGED <<service, relayout, gestures>>
  BY DEF SaveEnds
<1>2. IF Head(saving).then = "refresh"
      THEN /\ SetupWidgets(order, rows, columns)
           /\ drag' = IF drag.mode = "idle" THEN drag ELSE [Disturbed EXCEPT !.stale = TRUE]
      ELSE UNCHANGED <<grid, drag>>
  BY Zenon DEF SaveEnds
<1>3. /\ saving \in Seq(Save) /\ Len(saving) \in Nat /\ Len(saving) >= 1 /\ Head(saving) = saving[1]
      /\ saving' \in Seq(Save) /\ Len(saving') = Len(saving) - 1
      /\ \A i \in 1 .. Len(saving) - 1 : saving'[i] = saving[i + 1]
      /\ saving' = <<>> <=> Len(saving) = 1
      /\ Head(saving).layout \in Layout
  <2>1. saving \in Seq(Save)
    BY DEF StoreTypes
  <2>2. Head(saving) \in Save
    BY <1>1, <2>1, Shorter
  <2>3. QED
    BY <1>1, <2>1, <2>2, Shorter, LenProperties DEF Save
<1>4. order' = order /\ hidden' = hidden /\ columns' = columns /\ ServiceTypes'
  BY <1>1, ServiceSame
<1>5. StoreTypes'
  <2>1. stored' \in Layout /\ stored'.columns \in {3, 4}
    BY <1>1, <1>3, AppliedIs DEF StoreTypes
  <2>2. Len(saving') <= MaxSaves
    BY <1>3, SaveAssumption DEF StoreTypes
  <2>3. QED
    BY <1>3, <2>1, <2>2 DEF StoreTypes
<1>6. StoredInv'
  <2> DEFINE last == saving[Len(saving)].layout
  <2>1. Ids(last.widgets) = order /\ last.hidden = hidden /\ last.columns = columns
    BY <1>1 DEF StoredInv
  <2>2. CASE Len(saving) = 1
    <3>1. ASSUME ~differs'
          PROVE  /\ Ids(stored'.widgets) = order' /\ stored'.hidden = hidden'
                 /\ columns' \in {3, 4} => stored'.columns = columns'
      <4>1. stored' = Applied(stored, last)
        BY <1>1, <1>3, <2>2, <3>1
      <4>2. /\ stored'.widgets = last.widgets /\ stored'.hidden = last.hidden
            /\ last.columns \in {3, 4} => stored'.columns = last.columns
        BY <1>3, <2>2, <4>1, AppliedIs DEF StoreTypes
      <4>3. QED
        BY <1>4, <2>1, <4>2
    <3>2. saving' = <<>>
      BY <1>3, <2>2
    <3>3. QED
      BY <3>1, <3>2 DEF StoredInv, StoredIsCurrent
  <2>3. CASE Len(saving) # 1
    <3>1. saving' # <<>> /\ Len(saving') \in 1 .. Len(saving) - 1
          /\ Len(saving') + 1 = Len(saving)
      BY <1>3, <2>3
    <3>2. saving'[Len(saving')] = saving[Len(saving)]
      BY <1>3, <3>1
    <3>3. QED
      BY <1>4, <2>1, <3>1, <3>2 DEF StoredInv
  <2>4. QED
    BY <2>2, <2>3
<1>7. RestTypes'
  <2>1. offered' \subseteq Id
    BY <1>1 DEF RestTypes, ServiceTypes
  <2>2. differs' \in BOOLEAN /\ faults' \in 0 .. MaxFaults
    <3>1. faults \in 0 .. MaxFaults /\ MaxFaults \in Nat
      BY SaveAssumption DEF RestTypes
    <3>2. CASE differs' = FALSE
      <4>1. faults' = faults
        BY <1>1, <3>2
      <4>2. QED
        BY <3>1, <3>2, <4>1
    <3>3. CASE differs' = TRUE
      <4>1. faults' = faults + 1 /\ faults < MaxFaults
        BY <1>1, <3>3
      <4>2. QED
        BY <3>1, <3>3, <4>1
    <3>4. QED
      BY <1>1, <3>2, <3>3
  <2>3. QED
    BY <1>1, <2>1, <2>2 DEF RestTypes
<1>8. CASE Head(saving).then = "refresh"
  <2>1. SetupWidgets(order, rows, columns)
        /\ drag' = IF drag.mode = "idle" THEN drag ELSE [Disturbed EXCEPT !.stale = TRUE]
    BY <1>2, <1>8
  <2>2. /\ GridTypes' /\ Sound(shown', hostCols') /\ shown' = Pack(list', hostCols')
        /\ order # <<>> => Ids(list') = order
    BY <2>1, SetupIs DEF ServiceTypes
  <2>3. DragTypes' /\ PreviewInv'
    BY <2>1, WipedIs
  <2>4. ShownInv'
    BY <2>2 DEF ShownInv
  <2>5. GridMirrorsService'
    BY <1>4, <2>2 DEF GridMirrorsService
  <2>6. QED
    BY <1>4, <1>5, <1>6, <1>7, <2>2, <2>3, <2>4, <2>5
<1>9. CASE Head(saving).then # "refresh"
  <2>1. UNCHANGED <<grid, drag>>
    BY <1>2, <1>9
  <2>2. GridTypes' /\ DragTypes' /\ ShownInv' /\ PreviewInv'
    BY <2>1, GridSame
  <2>3. GridMirrorsService'
    <3> SUFFICES ASSUME order' # <<>>, \A i \in DOMAIN saving' : saving'[i].then # "refresh"
                 PROVE  Ids(list') = order'
      BY DEF GridMirrorsService
    <3>1. DOMAIN saving = 1 .. Len(saving) /\ DOMAIN saving' = 1 .. Len(saving) - 1
      BY <1>3, LenProperties
    <3>2. \A i \in DOMAIN saving : saving[i].then # "refresh"
      <4> SUFFICES ASSUME NEW i \in 1 .. Len(saving)
                   PROVE  saving[i].then # "refresh"
        BY <3>1
      <4>1. CASE i = 1
        BY <1>3, <1>9, <4>1
      <4>2. CASE i # 1
        <5>1. i - 1 \in 1 .. Len(saving) - 1 /\ (i - 1) + 1 = i
          BY <1>3, <4>2
        <5>2. saving'[i - 1] = saving[i]
          BY <1>3, <5>1
        <5>3. QED
          BY <3>1, <5>1, <5>2
      <4>3. QED
        BY <4>1, <4>2
    <3>3. list' = list
      BY <2>1 DEF grid
    <3>4. QED
      BY <1>4, <3>2, <3>3 DEF GridMirrorsService
  <2>4. QED
    BY <1>4, <1>5, <1>6, <1>7, <2>2, <2>3
<1>10. QED
  BY <1>8, <1>9

\* The rows of one id set to none or one.
LEMMA SpansWith ==
  ASSUME NEW spans \in Spans, NEW id \in Id, NEW r \in {0, 1}
  PROVE  [spans EXCEPT ![id] = r] \in Spans
BY BoundAssumption DEF Spans

\* The user closes a widget.
LEMMA CloseKeeps ==
  ASSUME IInv, OnWidgetCloseClicked
  PROVE  IInv'
<1> USE DEF IInv, Types
<1>1. PICK id \in contained :
        /\ Gesture
        /\ RemoveWidget(id)
        /\ HideWidget(id)
        /\ SaveLayoutAsync("offer")
        /\ drag' = IF drag.mode = "idle" THEN drag
                   ELSE [Disturbed EXCEPT !.stale = @ \/ drag.widget.id = id]
        /\ UNCHANGED <<offered, relayout, stored, differs, faults>>
  BY Zenon DEF OnWidgetCloseClicked
<1> DEFINE l == RemoveAt(list, IndexOf(list, id) + 1)
<1>2. /\ id \in Id /\ list \in Seq(Widget) /\ Len(list) \in Nat /\ Len(list) <= MaxWidgets
      /\ MaxWidgets \in Nat
  BY BoundAssumption, LenProperties DEF GridTypes
<1>3. RemoveFirstMatch(list, LAMBDA w : w.id = id) = l
      /\ RemoveFirst(Ids(list), id) = RemoveAt(Ids(list), IndexOf(list, id) + 1)
  BY <1>2, FirstRemoved
<1>4. list' = l /\ contained' = contained \ {id} /\ shown' = Pack(l, hostCols)
      /\ hostCols' = hostCols
  <2>1. /\ list' = RemoveFirstMatch(list, LAMBDA w : w.id = id)
        /\ contained' = contained \ {id}
        /\ shown' = Pack(RemoveFirstMatch(list, LAMBDA w : w.id = id), hostCols)
        /\ hostCols' = hostCols
    BY <1>1 DEF RemoveWidget
  <2> HIDE DEF l
  <2>2. QED
    BY <1>3, <2>1
<1>5. IndexOf(list, id) + 1 \in 0 .. Len(list)
  BY <1>2, IndexIn
<1>6. l \in Seq(Widget) /\ Len(l) <= MaxWidgets
  <2>1. l \in Seq(Widget) /\ Len(l) <= Len(list)
    BY <1>2, <1>5, Removed
  <2> HIDE DEF l
  <2>2. QED
    BY <1>2, <2>1, LenProperties
<1>7. Ids(l) = RemoveFirst(Ids(list), id)
  BY <1>2, <1>3, <1>5, RemovedIds
<1> HIDE DEF l
<1>8. /\ order' = RemoveFirst(order, id) /\ rows' = [rows EXCEPT ![id] = 0]
      /\ hidden' = hidden \cup {id} /\ columns' = columns
  BY <1>1 DEF HideWidget
<1>9. order \in Seq(Id) /\ order' \in Seq(Id) /\ Len(order') <= Len(order)
      /\ Len(order) \in Nat /\ Len(order') \in Nat /\ Len(order) <= MaxWidgets
  <2>1. order \in Seq(Id) /\ Len(order) <= MaxWidgets
    BY DEF ServiceTypes
  <2>2. QED
    BY <1>8, <2>1, FirstIdRemoved, LenProperties
<1>10. ServiceTypes'
  <2>1. rows' \in Spans
    BY <1>2, <1>8, SpansWith DEF ServiceTypes
  <2>2. QED
    BY <1>2, <1>8, <1>9, <2>1 DEF ServiceTypes
<1>11. /\ saving' \in Seq(Save) /\ Len(saving') <= MaxSaves /\ Len(saving') = Len(saving) + 1
       /\ \A i \in 1 .. Len(saving) : saving'[i] = saving[i]
       /\ StoredInv'
  BY <1>1, <1>10, SaveIs
<1>12. StoreTypes'
  BY <1>1, <1>11 DEF StoreTypes
<1>13. GridTypes'
  BY <1>2, <1>4, <1>6 DEF GridTypes
<1>14. RestTypes'
  <2>1. gestures' \in 0 .. MaxGestures
    BY <1>1, SaveAssumption DEF RestTypes, Gesture
  <2>2. QED
    BY <1>1, <2>1 DEF RestTypes
<1>15. ShownInv'
  <2>1. Sound(Pack(l, hostCols), hostCols)
    BY <1>6, PackOne DEF GridTypes
  <2>2. QED
    BY <1>4, <2>1 DEF ShownInv
<1>16. DragTypes' /\ PreviewInv'
  <2> DEFINE stale == Disturbed.stale \/ drag.widget.id = id
  <2>1. drag' = IF drag.mode = "idle" THEN drag ELSE [Disturbed EXCEPT !.stale = stale]
    BY <1>1, Zenon
  <2>2. stale \in BOOLEAN
    OBVIOUS
  <2> HIDE DEF stale
  <2>3. QED
    BY <2>1, <2>2, WipedIs
<1>17. GridMirrorsService'
  <2> SUFFICES ASSUME order' # <<>>, \A i \in DOMAIN saving' : saving'[i].then # "refresh"
               PROVE  Ids(list') = order'
    BY DEF GridMirrorsService
  <2>1. order # <<>>
    <3>1. Len(order') # 0
      BY <1>9, EmptySeq
    <3>2. Len(order) # 0
      BY <1>9, <3>1
    <3>3. QED
      BY <3>2, EmptySeq
  <2>2. \A i \in DOMAIN saving : saving[i].then # "refresh"
    BY <1>11, SameRefreshes
  <2>3. Ids(list) = order
    BY <2>1, <2>2 DEF GridMirrorsService
  <2>4. QED
    BY <1>4, <1>7, <1>8, <2>3
<1>18. QED
  BY <1>10, <1>11, <1>12, <1>13, <1>14, <1>15, <1>16, <1>17

\* The user adds a hidden widget.
LEMMA AddKeeps ==
  ASSUME IInv, OnAddWidgetClick
  PROVE  IInv'
<1> USE DEF IInv, Types
<1>1. PICK id \in offered :
        /\ Gesture
        /\ Len(order) < MaxWidgets
        /\ ShowWidget(id)
        /\ SaveLayoutAsync("refresh")
        /\ UNCHANGED <<grid, drag, offered, relayout, stored, differs, faults>>
  BY DEF OnAddWidgetClick
<1>2. id \in Id /\ MaxWidgets \in Nat /\ order \in Seq(Id) /\ Len(order) \in Nat
  BY BoundAssumption, LenProperties DEF RestTypes, ServiceTypes
<1>3. /\ hidden' = hidden \ {id} /\ columns' = columns
      /\ \/ order' = order /\ rows' = rows
         \/ order' = Append(order, id) /\ rows' = [rows EXCEPT ![id] = 1]
  BY <1>1 DEF ShowWidget
<1>4. order' \in Seq(Id) /\ Len(order') <= MaxWidgets
  <2>1. CASE order' = order
    BY <1>1, <1>2, <2>1
  <2>2. CASE order' = Append(order, id)
    <3>1. order' \in Seq(Id) /\ Len(order') = Len(order) + 1
      BY <1>2, <2>2, AppendProperties
    <3>2. QED
      BY <1>1, <1>2, <3>1
  <2>3. QED
    BY <1>3, <2>1, <2>2
<1>5. ServiceTypes'
  <2>1. rows' \in Spans
    BY <1>2, <1>3, SpansWith DEF ServiceTypes
  <2>2. QED
    BY <1>3, <1>4, <2>1 DEF ServiceTypes
<1>6. /\ saving' \in Seq(Save) /\ Len(saving') <= MaxSaves /\ Len(saving') = Len(saving) + 1
      /\ saving' # <<>> /\ saving'[Len(saving')].then = "refresh"
      /\ StoredInv'
  BY <1>1, <1>5, SaveIs
<1>7. StoreTypes'
  BY <1>1, <1>6 DEF StoreTypes
<1>8. GridTypes' /\ DragTypes' /\ ShownInv' /\ PreviewInv'
  BY <1>1, GridSame
<1>9. RestTypes'
  <2>1. gestures' \in 0 .. MaxGestures
    BY <1>1, SaveAssumption DEF RestTypes, Gesture
  <2>2. QED
    BY <1>1, <2>1 DEF RestTypes
<1>10. GridMirrorsService'
  <2>1. Len(saving') \in DOMAIN saving'
    BY <1>6, LenProperties, EmptySeq
  <2>2. QED
    BY <1>6, <2>1 DEF GridMirrorsService
<1>11. QED
  BY <1>5, <1>6, <1>7, <1>8, <1>9, <1>10

\* The user chooses a number of columns.
LEMMA SetColumnsKeeps ==
  ASSUME IInv, SetColumns
  PROVE  IInv'
<1> USE DEF IInv, Types
<1>1. PICK c \in Columns \ {columns} :
        /\ Gesture
        /\ ChangeColumns(c)
        /\ SaveLayoutAsync("nothing")
        /\ UNCHANGED <<grid, drag, offered, stored, differs, faults>>
  BY DEF SetColumns
<1>2. columns' = c /\ UNCHANGED <<order, rows, hidden>> /\ relayout' \in BOOLEAN
  BY <1>1 DEF ChangeColumns
<1>3. ServiceTypes'
  BY <1>2 DEF ServiceTypes
<1>4. /\ saving' \in Seq(Save) /\ Len(saving') <= MaxSaves /\ Len(saving') = Len(saving) + 1
      /\ \A i \in 1 .. Len(saving) : saving'[i] = saving[i]
      /\ StoredInv'
  BY <1>1, <1>3, SaveIs
<1>5. StoreTypes'
  BY <1>1, <1>4 DEF StoreTypes
<1>6. GridTypes' /\ DragTypes' /\ ShownInv' /\ PreviewInv'
  BY <1>1, GridSame
<1>7. RestTypes'
  <2>1. gestures' \in 0 .. MaxGestures
    BY <1>1, SaveAssumption DEF RestTypes, Gesture
  <2>2. QED
    BY <1>1, <1>2, <2>1 DEF RestTypes
<1>8. GridMirrorsService'
  <2> SUFFICES ASSUME order' # <<>>, \A i \in DOMAIN saving' : saving'[i].then # "refresh"
               PROVE  Ids(list') = order'
    BY DEF GridMirrorsService
  <2>1. \A i \in DOMAIN saving : saving[i].then # "refresh"
    BY <1>4, SameRefreshes
  <2>2. list' = list
    BY <1>1 DEF grid
  <2>3. QED
    BY <1>2, <2>1, <2>2 DEF GridMirrorsService
<1>9. QED
  BY <1>3, <1>4, <1>5, <1>6, <1>7, <1>8

\* The editor window shows what is hidden.
LEMMA EditorKeeps ==
  ASSUME IInv, ShowEditorWindow
  PROVE  IInv'
<1> USE DEF IInv, Types
<1>1. /\ offered' = hidden /\ UNCHANGED <<grid, drag>>
      /\ UNCHANGED <<service, saving, stored, differs>>
      /\ UNCHANGED <<relayout, faults, gestures>>
  BY DEF ShowEditorWindow
<1>2. GridTypes' /\ DragTypes' /\ ShownInv' /\ PreviewInv'
  BY <1>1, GridSame
<1>3. ServiceTypes' /\ StoreTypes' /\ StoredInv'
  BY <1>1, ServiceSame, StoreSame
<1>4. RestTypes'
  BY <1>1 DEF RestTypes, ServiceTypes
<1>5. GridMirrorsService'
  BY <1>1 DEF GridMirrorsService, grid, service
<1>6. QED
  BY <1>2, <1>3, <1>4, <1>5

\* The list is laid out again, for other columns or another size of the window.
LEMMA AgainKeeps ==
  ASSUME IInv, OnWidgetServiceChanged \/ OnSizeChanged
  PROVE  IInv'
<1> USE DEF IInv, Types
<1>1. PICK cols \in {columns, hostCols} : LayoutAgain(cols)
  BY DEF OnWidgetServiceChanged, OnSizeChanged
<1>2. /\ UNCHANGED <<service, saving, stored, differs>>
      /\ UNCHANGED <<offered, faults, gestures>>
      /\ relayout' \in BOOLEAN
  BY DEF OnWidgetServiceChanged, OnSizeChanged, RestTypes
<1>3. cols \in Columns
  BY DEF ServiceTypes, GridTypes
<1>4. GridTypes' /\ ShownInv' /\ DragTypes' /\ PreviewInv' /\ list' = list
  BY <1>1, <1>3, AgainIs
<1>5. ServiceTypes' /\ StoreTypes' /\ StoredInv'
  BY <1>2, ServiceSame, StoreSame
<1>6. RestTypes'
  BY <1>2 DEF RestTypes
<1>7. GridMirrorsService'
  BY <1>2, <1>4 DEF GridMirrorsService, service
<1>8. QED
  BY <1>4, <1>5, <1>6, <1>7

\* The page is built anew.
LEMMA NavigateKeeps ==
  ASSUME IInv, NavigateHome
  PROVE  IInv'
<1> USE DEF IInv, Types
<1>1. /\ SetupWidgets(order, rows, columns) /\ drag' = Idle
      /\ UNCHANGED <<service, saving, stored, differs>>
      /\ UNCHANGED <<offered, relayout, faults, gestures>>
  BY DEF NavigateHome
<1>2. /\ GridTypes' /\ Sound(shown', hostCols') /\ shown' = Pack(list', hostCols')
      /\ order # <<>> => Ids(list') = order
  BY <1>1, SetupIs DEF ServiceTypes
<1>3. DragTypes' /\ PreviewInv'
  BY <1>1, IdleIs
<1>4. ShownInv'
  BY <1>2 DEF ShownInv
<1>5. ServiceTypes' /\ StoreTypes' /\ StoredInv' /\ order' = order
  BY <1>1, ServiceSame, StoreSame
<1>6. RestTypes'
  BY <1>1 DEF RestTypes
<1>7. GridMirrorsService'
  BY <1>2, <1>5 DEF GridMirrorsService
<1>8. QED
  BY <1>2, <1>3, <1>4, <1>5, <1>6, <1>7

\* The layouts the backend may start with, and what stands for one that is not loaded.
LEMMA FirstLayouts ==
  {FirstRun, EverythingShown, NotLoaded} \subseteq Layout
<1>1. {2, 3} \subseteq Columns /\ MaxWidgets \in Nat /\ Len(DefaultOrder) <= MaxWidgets /\ MaxRowSpan >= 2
      /\ MaxRowSpan \in Nat /\ Len(DefaultOrder) \in Nat
  BY BoundAssumption, WidgetAssumption, LenProperties
<1>2. FirstRun \in Layout /\ NotLoaded \in Layout
  <2>1. <<>> \in Seq(Widget) /\ Len(<<>>) = 0
    BY EmptySeq
  <2>2. \A c \in {2, 3} : [widgets |-> <<>>, hidden |-> {}, columns |-> c]
          \in [widgets : Seq(Widget), hidden : SUBSET Id, columns : Columns]
    BY <1>1, <2>1
  <2>3. QED
    BY <1>1, <2>1, <2>2 DEF Layout, FirstRun, NotLoaded
<1>3. EverythingShown \in Layout
  <2> DEFINE w(i) == [id |-> DefaultOrder[i], rows |-> DefaultRows(DefaultOrder[i])]
             all == [i \in DOMAIN DefaultOrder |-> w(i)]
  <2>1. DOMAIN DefaultOrder = 1 .. Len(DefaultOrder)
    BY WidgetAssumption, LenProperties
  <2>2. ASSUME NEW i \in 1 .. Len(DefaultOrder)
        PROVE  w(i) \in Widget
    <3>1. DefaultOrder[i] \in Id
      BY <2>2, WidgetAssumption, ElementOfSeq
    <3>2. QED
      BY <1>1, <3>1 DEF Widget, DefaultRows
  <2> HIDE DEF w
  <2>3. all \in [1 .. Len(DefaultOrder) -> Widget]
    BY <2>1, <2>2
  <2>4. all \in Seq(Widget) /\ Len(all) = Len(DefaultOrder)
    BY <1>1, <2>3, SeqDef, LenProperties
  <2>5. EverythingShown = [widgets |-> all, hidden |-> {}, columns |-> 3]
    BY DEF EverythingShown, w
  <2> HIDE DEF all
  <2>6. [widgets |-> all, hidden |-> {}, columns |-> 3]
          \in [widgets : Seq(Widget), hidden : SUBSET Id, columns : Columns]
        /\ [widgets |-> all, hidden |-> {}, columns |-> 3].widgets = all
    BY <1>1, <2>4
  <2>7. QED
    BY <1>1, <2>4, <2>5, <2>6 DEF Layout
<1>4. QED
  BY <1>2, <1>3

\* The frontend starts from what the backend has stored, or from nothing.
LEMMA RestartKeeps ==
  ASSUME IInv, Restart
  PROVE  IInv'
<1> USE DEF IInv, Types
<1>1. PICK found \in {stored, NotLoaded} :
        Loaded(found) /\ offered' = found.hidden /\ differs' = (found # stored)
  BY DEF Restart
<1> DEFINE ids == Ids(found.widgets)
           spans == RowsOf(found.widgets)
<1>2. /\ differs' \in BOOLEAN /\ (differs' => faults < MaxFaults)
      /\ faults' = IF differs' THEN faults + 1 ELSE faults
      /\ drag' = Idle /\ saving' = <<>> /\ relayout' = FALSE /\ UNCHANGED <<stored, gestures>>
  BY <1>1 DEF Restart
<1>3. /\ order' = ids /\ rows' = spans /\ hidden' = found.hidden /\ columns' = found.columns
      /\ SetupWidgets(ids, spans, found.columns)
  BY <1>1 DEF Loaded
<1>4. found \in Layout
  BY FirstLayouts DEF StoreTypes
<1>5. /\ found.widgets \in Seq(Widget) /\ Len(found.widgets) <= MaxWidgets
      /\ found.hidden \subseteq Id /\ found.columns \in Columns
  BY <1>4 DEF Layout
<1>6. ids \in Seq(Id) /\ Len(ids) <= MaxWidgets /\ spans \in Spans
  BY <1>5, IdsOf, RowsOfType
<1>7. ServiceTypes'
  BY <1>3, <1>5, <1>6 DEF ServiceTypes
<1>8. /\ GridTypes' /\ Sound(shown', hostCols') /\ shown' = Pack(list', hostCols')
      /\ ids # <<>> => Ids(list') = ids
  BY <1>3, <1>5, <1>6, SetupIs
<1>9. DragTypes' /\ PreviewInv'
  BY <1>2, IdleIs
<1>10. ShownInv'
  BY <1>8 DEF ShownInv
<1>11. StoreTypes'
  <2>1. <<>> \in Seq(Save) /\ Len(<<>>) = 0
    BY EmptySeq
  <2>2. QED
    BY <1>2, <2>1, SaveAssumption DEF StoreTypes
<1>12. StoredInv'
  <2>1. ~differs' => found = stored' /\ Ids(stored'.widgets) = order' /\ stored'.hidden = hidden'
                     /\ stored'.columns = columns'
    BY <1>1, <1>2, <1>3
  <2>2. QED
    BY <1>2, <2>1 DEF StoredInv, StoredIsCurrent
<1>13. RestTypes'
  <2>1. offered' \subseteq Id
    BY <1>1, <1>5
  <2>2. faults' \in 0 .. MaxFaults
    <3>1. faults \in 0 .. MaxFaults /\ MaxFaults \in Nat
      BY SaveAssumption DEF RestTypes
    <3>2. QED
      BY <1>2, <3>1
  <2>3. QED
    BY <1>2, <2>1, <2>2 DEF RestTypes
<1>14. GridMirrorsService'
  BY <1>3, <1>8 DEF GridMirrorsService
<1>15. QED
  BY <1>7, <1>8, <1>9, <1>10, <1>11, <1>12, <1>13, <1>14

\* The page the program starts with.
LEMMA InitHolds ==
  ASSUME Init
  PROVE  IInv
<1> USE DEF IInv, Types
<1>1. /\ stored \in {FirstRun, EverythingShown} /\ order = Ids(stored.widgets)
      /\ rows = RowsOf(stored.widgets) /\ hidden = {} /\ offered = {} /\ columns = 3
      /\ list = BuiltFrom(order, rows) /\ contained = Id /\ hostCols = 3 /\ shown = Pack(list, 3)
      /\ drag = Idle /\ relayout = FALSE /\ saving = <<>> /\ differs = FALSE /\ faults = 0
      /\ gestures = 0
  BY DEF Init
<1>2. stored \in Layout
  BY <1>1, FirstLayouts
<1>3. stored.columns = 3 /\ stored.hidden = {}
  <2>1. CASE stored = FirstRun
    BY <2>1 DEF FirstRun
  <2>2. CASE stored = EverythingShown
    BY <2>2 DEF EverythingShown
  <2>3. QED
    BY <1>1, <2>1, <2>2
<1>4. stored.widgets \in Seq(Widget) /\ Len(stored.widgets) <= MaxWidgets
  BY <1>2 DEF Layout
<1>5. order \in Seq(Id) /\ Len(order) <= MaxWidgets /\ rows \in Spans
  BY <1>1, <1>4, IdsOf, RowsOfType
<1>6. ServiceTypes
  BY <1>1, <1>5, BoundAssumption DEF ServiceTypes
<1>7. list \in Seq(Widget) /\ Len(list) <= MaxWidgets /\ (order # <<>> => Ids(list) = order)
  BY <1>1, <1>5, BuiltFromIs
<1>8. GridTypes
  BY <1>1, <1>7, BoundAssumption DEF GridTypes
<1>9. StoreTypes
  <2>1. <<>> \in Seq(Save) /\ Len(<<>>) = 0
    BY EmptySeq
  <2>2. QED
    BY <1>1, <1>2, <1>3, <2>1, SaveAssumption DEF StoreTypes
<1>10. StoredInv
  BY <1>1, <1>3 DEF StoredInv, StoredIsCurrent
<1>11. RestTypes
  <2>1. 0 \in 0 .. MaxFaults /\ 0 \in 0 .. MaxGestures
    BY SaveAssumption
  <2>2. QED
    BY <1>1, <2>1, Zenon DEF RestTypes
<1>12. DragTypes /\ PreviewInv
  BY <1>1 DEF Idle, DragTypes, PreviewInv
<1>13. ShownInv
  <2>1. Sound(Pack(list, 3), 3)
    BY <1>7, BoundAssumption, PackOne
  <2>2. QED
    BY <1>1, <2>1 DEF ShownInv
<1>14. GridMirrorsService
  BY <1>7 DEF GridMirrorsService
<1>15. QED
  BY <1>6, <1>8, <1>9, <1>10, <1>11, <1>12, <1>13, <1>14

\* Nothing happens.
LEMMA StutterKeeps ==
  ASSUME IInv, UNCHANGED vars
  PROVE  IInv'
<1> USE DEF IInv, Types
<1>1. /\ UNCHANGED <<grid, drag>> /\ UNCHANGED <<service, saving, stored, differs>>
      /\ UNCHANGED <<offered, relayout, faults, gestures>>
  BY DEF vars
<1>2. GridTypes' /\ DragTypes' /\ ShownInv' /\ PreviewInv'
  BY <1>1, GridSame
<1>3. ServiceTypes' /\ StoreTypes' /\ StoredInv'
  BY <1>1, ServiceSame, StoreSame
<1>4. RestTypes' /\ GridMirrorsService'
  BY <1>1 DEF RestTypes, GridMirrorsService, grid, service
<1>5. QED
  BY <1>2, <1>3, <1>4
-----------------------------------------------------------------------------
(* The theorems.                                                           *)

\* The inductive invariant holds of every state of the page, whatever the widgets, the
\* columns and the bounds.
THEOREM Invariance == Spec => []IInv
<1>1. Init => IInv
  BY InitHolds
<1>2. IInv /\ [Next]_vars => IInv'
  <2> SUFFICES ASSUME IInv, [Next]_vars
               PROVE  IInv'
    OBVIOUS
  <2>1. CASE SaveEnds
    BY <2>1, SaveEndsKeeps
  <2>2. CASE Press
    BY <2>2, PressKeeps
  <2>3. CASE DragMove
    BY <2>3, DragMoveKeeps
  <2>4. CASE ResizeMove
    BY <2>4, ResizeMoveKeeps
  <2>5. CASE Release
    BY <2>5, ReleaseKeeps
  <2>6. CASE OnWidgetCloseClicked
    BY <2>6, CloseKeeps
  <2>7. CASE OnAddWidgetClick
    BY <2>7, AddKeeps
  <2>8. CASE ShowEditorWindow
    BY <2>8, EditorKeeps
  <2>9. CASE SetColumns
    BY <2>9, SetColumnsKeeps
  <2>10. CASE OnWidgetServiceChanged \/ OnSizeChanged
    BY <2>10, AgainKeeps
  <2>11. CASE NavigateHome
    BY <2>11, NavigateKeeps
  <2>12. CASE Restart
    BY <2>12, RestartKeeps
  <2>13. CASE UNCHANGED vars
    BY <2>13, StutterKeeps
  <2>14. QED
    BY <2>1, <2>2, <2>3, <2>4, <2>5, <2>6, <2>7, <2>8, <2>9, <2>10, <2>11, <2>12, <2>13 DEF Next
<1>3. QED
  BY <1>1, <1>2, PTL DEF Spec

\* Every variable of the page, of the widget service and of the saves keeps its type.
THEOREM TypeCorrect == Spec => []TypeOK
<1>1. IInv => TypeOK
  <2> SUFFICES ASSUME IInv
               PROVE  TypeOK
    OBVIOUS
  <2>1. GridTypes /\ ServiceTypes /\ StoreTypes /\ RestTypes /\ DragTypes
    BY DEF IInv, Types
  <2>2. ToSet(list) \subseteq Widget
    BY <2>1, LenProperties, ElementOfSeq DEF GridTypes, ToSet
  <2>3. ToSet(order) \subseteq Id /\ \A i \in DOMAIN order : rows[order[i]] \in 0 .. MaxRowSpan
    <3>1. order \in Seq(Id) /\ rows \in [Id -> 0 .. MaxRowSpan]
      BY <2>1 DEF ServiceTypes, Spans
    <3>2. \A i \in DOMAIN order : order[i] \in Id
      BY <3>1, LenProperties, ElementOfSeq
    <3>3. QED
      BY <3>1, <3>2 DEF ToSet
  <2>4. stored.columns \in Columns \cap {3, 4}
    BY <2>1 DEF StoreTypes, Layout
  <2>5. QED
    BY <2>1, <2>2, <2>3, <2>4 DEF GridTypes, ServiceTypes, StoreTypes, RestTypes, DragTypes, TypeOK
<1>2. QED
  BY <1>1, Invariance, PTL

\* What the page shows is always a layout: no two widgets on one cell, none beyond the
\* columns, and, without a preview, every widget of the list where the packing of the list
\* has it (GridLayoutEngine.Pack and every caller of ApplyPositions).
THEOREM LayoutSound == Spec => []LayoutIsSound
<1>1. IInv => LayoutIsSound
  <2> SUFFICES ASSUME IInv
               PROVE  LayoutIsSound
    OBVIOUS
  <2>1. /\ Sound(shown, hostCols) /\ list \in Seq(Widget) /\ Len(list) <= MaxWidgets
        /\ hostCols \in Columns /\ Len(list) \in Nat /\ MaxWidgets \in Nat
        /\ drag.mode \in {"idle", "pending"} => shown = Pack(list, hostCols)
    BY LenProperties, BoundAssumption DEF IInv, Types, ShownInv, GridTypes
  <2>2. ASSUME shown = Pack(list, hostCols)
        PROVE  Ids(shown) = Ids(list)
    <3>1. /\ Len(shown) = Len(list) /\ \A i \in 1 .. Len(list) : shown[i].id = list[i].id
          /\ shown \in Seq(Position)
      BY <2>1, <2>2, PackOne DEF Sound
    <3>2. DOMAIN shown = 1 .. Len(list) /\ DOMAIN list = 1 .. Len(list)
      BY <2>1, <3>1, LenProperties
    <3>3. QED
      BY <3>1, <3>2 DEF Ids
  <2>3. \A i, j \in DOMAIN shown :
          /\ i # j => Cells(shown[i]) \cap Cells(shown[j]) = {}
          /\ shown[i].col + shown[i].cols <= hostCols
    BY <2>1, LenProperties DEF Sound
  <2>4. QED
    BY <2>1, <2>2, <2>3 DEF LayoutIsSound
<1>2. QED
  BY <1>1, Invariance, PTL

\* The page and the widget service agree on the visible widgets and their order whenever no
\* refresh is due (OnLayoutChanged, HideWidget, SetupWidgets).
THEOREM GridMirrors == Spec => []GridMirrorsService
<1>1. IInv => GridMirrorsService
  BY DEF IInv
<1>2. QED
  BY <1>1, Invariance, PTL

\* When the layout was loaded, the last save has reached the backend and none is on the way,
\* the backend holds the layout of the service (SaveLayoutAsync against handle_set_config;
\* LoadConfigAsync).
THEOREM StoredCurrent == Spec => []StoredIsCurrent
<1>1. IInv => StoredIsCurrent
  BY DEF IInv, StoredInv, StoredIsCurrent
<1>2. QED
  BY <1>1, Invariance, PTL

\* A drop that nothing disturbed leaves the page as the preview showed it (OnPointerReleased
\* against HandleDragMove).
THEOREM DropPreview == Spec => DropIsPreview
<1>1. IInv /\ [Next]_vars =>
        [(/\ drag.mode = "drag" /\ drag'.mode = "idle" /\ Len(saving') > Len(saving)
          /\ ~drag.stale /\ ~drag.disturbed /\ IsInjective(Ids(list))) => shown' = shown]_vars
  <2> SUFFICES ASSUME IInv, Next, drag.mode = "drag", drag'.mode = "idle",
                      Len(saving') > Len(saving), ~drag.stale, ~drag.disturbed,
                      IsInjective(Ids(list))
               PROVE  shown' = shown
    OBVIOUS
  <2>1. saving \in Seq(Save) /\ Len(saving) \in Nat
    BY LenProperties DEF IInv, Types, StoreTypes
  <2>2. CASE Release
    <3>1. Released(Dropped)
      BY <2>2 DEF Release
    <3>2. Dropped = Inserted(Remaining, drag.widget, drag.at)
      BY DroppedIs DEF IInv, Types
    <3>3. shown = PackWithInserted(Remaining, drag.widget, drag.at, hostCols)
      BY DEF IInv, PreviewInv
    <3>4. QED
      BY <3>1, <3>2, <3>3 DEF Released, PackWithInserted
  <2>3. CASE SaveEnds
    <3>1. saving # <<>> /\ saving' = Tail(saving)
      BY <2>3 DEF SaveEnds
    <3>2. Len(saving') = Len(saving) - 1
      BY <2>1, <3>1, Shorter
    <3>3. QED
      BY <2>1, <3>2
  <2>4. CASE Restart
    <3>1. Len(saving') = 0
      BY <2>4 DEF Restart
    <3>2. QED
      BY <2>1, <3>1
  <2>5. CASE Press \/ DragMove \/ ResizeMove \/ ShowEditorWindow \/ OnWidgetServiceChanged
             \/ OnSizeChanged \/ NavigateHome
    <3>1. saving' = saving
      BY <2>5 DEF Press, Pressed, DragMove, ResizeMove, ShowEditorWindow,
                  OnWidgetServiceChanged, OnSizeChanged, NavigateHome
    <3>2. QED
      BY <2>1, <3>1
  <2>6. CASE OnWidgetCloseClicked \/ OnAddWidgetClick \/ SetColumns
    <3>1. drag'.mode = drag.mode
      <4>1. CASE OnWidgetCloseClicked
        <5>1. PICK id \in contained :
                drag' = IF drag.mode = "idle" THEN drag
                        ELSE [Disturbed EXCEPT !.stale = @ \/ drag.widget.id = id]
          BY <4>1, Zenon DEF OnWidgetCloseClicked
        <5> DEFINE stale == Disturbed.stale \/ drag.widget.id = id
        <5>2. drag' = IF drag.mode = "idle" THEN drag ELSE [Disturbed EXCEPT !.stale = stale]
          BY <5>1, Zenon
        <5> HIDE DEF stale
        <5>3. QED
          BY <5>2, DisturbedIs DEF IInv, Types
      <4>2. CASE OnAddWidgetClick \/ SetColumns
        BY <4>2 DEF OnAddWidgetClick, SetColumns
      <4>3. QED
        BY <2>6, <4>1, <4>2
    <3>2. QED
      BY <3>1
  <2>7. QED
    BY <2>2, <2>3, <2>4, <2>5, <2>6 DEF Next
<1>2. QED
  BY <1>1, Invariance, PTL DEF Spec, DropIsPreview
=============================================================================
