----------------------------- MODULE WorldProofs -----------------------------
(* What World promises of its index, its stamp and its histories, and that   *)
(* it implements Timeline: undo and redo, which apply differences, show      *)
(* exactly the pictures that were there before; then, of the canvas that     *)
(* draws in the world, its modes and its drags.  Proved for any shapes, any  *)
(* histories, any moves and quarter turns, and any order of the mouse, the   *)
(* keys, the Painter panel, scripts and menus.                               *)
EXTENDS Canvas, SequenceTheorems, FiniteSetTheorems, WellFoundedInduction, TLAPS

-----------------------------------------------------------------------------
(* The inductive invariant. *)

\* The box keeps its right angles to the axes, so that a refit finds its frame.
Level(v) == v[1] = 0 \/ v[2] = 0
Upright(obb) == Level(Minus(obb[2], obb[1])) /\ Level(Minus(obb[1], obb[4]))

Shapely(s) == /\ s.points # <<>>
              /\ BoundBox(s.obb) = BoundBox(s.points)
              /\ Upright(s.obb)

\* The shapes that are live after a record, when those in A were before it.
Leads(rec, A, B) ==
    \/ rec.op = "create" /\ rec.id \notin A /\ B = A \cup {rec.id} /\ rec.type # "dead"
    \/ rec.op = "remove" /\ rec.id \in A /\ B = A \ {rec.id} /\ rec.type # "dead"
    \/ rec.op \notin {"create", "remove"} /\ rec.id \in A /\ B = A

\* The two histories are one line of records, with the cursor after the last
\* record of the undo stack.  Undo and redo move the cursor.
Total == Len(undoStack) + Len(redoStack)
At(k) == IF k <= Len(undoStack) THEN undoStack[k] ELSE redoStack[Total + 1 - k]

\* M are the live shapes at the cursor and there are such at every place of the
\* line: each record finds its shape as it needs it.
OnLine(D, M) == \E L \in [0 .. Total -> SUBSET D] :
                    /\ \A k \in 1 .. Total : Leads(At(k), L[k - 1], L[k])
                    /\ L[Len(undoStack)] = M

\* The record that is still open comes after the cursor.
Reached(M) == IF HasOpen THEN Leads(open, M, Live) ELSE Live = M

Lived == \E M \in SUBSET DOMAIN registry : OnLine(DOMAIN registry, M) /\ Reached(M)

Indexed == /\ index = {Entry(id, registry[id]) : id \in Live}
           /\ nshape = Cardinality(Live)

SceneInv == /\ registry \in Seq(Shapes) /\ bare \in BOOLEAN /\ stamp \in 0 .. 1
            /\ \A id \in DOMAIN registry : Shapely(registry[id])
            /\ Indexed

Histories == undoStack \in Seq(Records) /\ redoStack \in Seq(Records)

HistoryInv == /\ Histories
              /\ inOperation \in BOOLEAN /\ open \in Records
              /\ ~ inOperation => ~ HasOpen
              /\ Lived

IInv == SceneInv /\ HistoryInv

-----------------------------------------------------------------------------
(* The bounding box of a list of points. *)

\* A finite list of numbers has a largest one.
LEMMA Largest ==
    ASSUME NEW n \in Nat \ {0}, NEW f \in [1 .. n -> Int]
    PROVE  \E m \in 1 .. n : \A j \in 1 .. n : f[j] <= f[m]
<1> DEFINE Has(k) == \E m \in 1 .. k : \A j \in 1 .. k : f[j] <= f[m]
           Bad == {k \in 1 .. n : ~ Has(k)}
<1>1. CASE Bad = {}
  <2>1. n \in 1 .. n
    OBVIOUS
  <2> QED
    BY <1>1, <2>1
<1>2. CASE Bad # {}
  <2>1. Bad \subseteq Nat
    OBVIOUS
  <2>2. \E k \in Bad : \A i \in Bad : ~ (<<i, k>> \in OpToRel(<, Nat))
    <3> HIDE DEF Bad
    <3> QED
      BY <1>2, <2>1, NatLessThanWellFounded, WFMin
  <2>3. PICK k \in Bad : \A i \in Bad : ~ (i < k)
    BY <2>1, <2>2 DEF OpToRel
  <2>4. k \in 1 .. n /\ ~ Has(k)
    BY <2>3
  <2>5. k # 1
    <3>1. f[1] \in Int
      OBVIOUS
    <3>2. Has(1)
      BY <3>1
    <3> QED
      BY <2>4, <3>2
  <2>6. k - 1 \in 1 .. n /\ k - 1 < k
    BY <2>4, <2>5
  <2>7. Has(k - 1)
    BY <2>3, <2>6
  <2>8. PICK m \in 1 .. k - 1 : \A j \in 1 .. k - 1 : f[j] <= f[m]
    BY <2>7
  <2>9. f[m] \in Int /\ f[k] \in Int /\ m \in 1 .. k /\ k \in 1 .. k
    BY <2>4, <2>8
  <2>10. \A j \in 1 .. k : j \in 1 .. k - 1 \/ j = k
    BY <2>4
  <2>11. \A j \in 1 .. k : f[j] \in Int
    BY <2>4
  <2>12. CASE f[k] <= f[m]
    <3>1. \A j \in 1 .. k : f[j] <= f[m]
      BY <2>8, <2>10, <2>12
    <3> QED
      BY <2>4, <2>9, <3>1
  <2>13. CASE ~ (f[k] <= f[m])
    <3>1. \A j \in 1 .. k : f[j] <= f[k]
      BY <2>8, <2>9, <2>10, <2>11, <2>13
    <3> QED
      BY <2>4, <2>9, <3>1
  <2> QED
    BY <2>12, <2>13
<1> QED
  BY <1>1, <1>2

\* The largest and the smallest coordinate of a list of points are coordinates
\* of some of its points and bound those of all.
LEMMA Extremes ==
    ASSUME NEW P \in Seq(Places), P # <<>>, NEW i \in {1, 2}
    PROVE  LET S == Along(P, i)
           IN  /\ S \subseteq Int
               /\ Max(S) \in S /\ \A y \in S : y <= Max(S)
               /\ Min(S) \in S /\ \A y \in S : Min(S) <= y
<1> DEFINE n == Len(P)
           S == Along(P, i)
           f == [k \in 1 .. n |-> P[k][i]]
           g == [k \in 1 .. n |-> - P[k][i]]
<1>1. n \in Nat \ {0} /\ DOMAIN P = 1 .. n
  BY LenProperties
<1>2. \A k \in 1 .. n : P[k] \in Places
  BY ElementOfSeq
<1>3. \A k \in 1 .. n : P[k][i] \in Int
  BY <1>2 DEF Places
<1>4. S = {P[k][i] : k \in 1 .. n}
  BY <1>1 DEF Along, Range
<1>5. f \in [1 .. n -> Int] /\ g \in [1 .. n -> Int]
  BY <1>3
<1>6. PICK a \in 1 .. n : \A k \in 1 .. n : f[k] <= f[a]
  BY <1>1, <1>5, Largest
<1>7. PICK b \in 1 .. n : \A k \in 1 .. n : g[k] <= g[b]
  <2> HIDE DEF g, n
  <2> QED
    BY <1>1, <1>5, Largest
<1>8. P[a][i] \in S /\ \A y \in S : P[a][i] >= y
  BY <1>3, <1>4, <1>6
<1>9. P[b][i] \in S /\ \A y \in S : P[b][i] <= y
  <2>1. \A k \in 1 .. n : P[b][i] <= P[k][i]
    <3> TAKE k \in 1 .. n
    <3>1. - P[k][i] <= - P[b][i]
      BY <1>7
    <3> QED
      BY <1>3, <3>1
  <2> QED
    BY <1>4, <2>1
<1>10. S \subseteq Int
  BY <1>3, <1>4
<1> HIDE DEF S
<1> QED
  BY <1>8, <1>9, <1>10 DEF Max, Min, S

\* A bound that is reached is the largest, or the smallest, of the set.
LEMMA MaxIs ==
    ASSUME NEW S \in SUBSET Int, NEW m \in S, \A y \in S : y <= m
    PROVE  Max(S) = m
<1>1. m \in Int /\ \A y \in S : y \in Int /\ m >= y
  OBVIOUS
<1>2. Max(S) \in S /\ \A y \in S : Max(S) >= y
  BY <1>1 DEF Max
<1>3. Max(S) \in Int /\ Max(S) >= m /\ m >= Max(S)
  BY <1>1, <1>2
<1> QED
  BY <1>1, <1>3

\* As MaxIs, for the smallest.
LEMMA MinIs ==
    ASSUME NEW S \in SUBSET Int, NEW m \in S, \A y \in S : m <= y
    PROVE  Min(S) = m
<1>1. m \in Int /\ \A y \in S : y \in Int /\ m <= y
  OBVIOUS
<1>2. Min(S) \in S /\ \A y \in S : Min(S) <= y
  BY <1>1 DEF Min
<1>3. Min(S) \in Int /\ Min(S) <= m /\ m <= Min(S)
  BY <1>1, <1>2
<1> QED
  BY <1>1, <1>3

\* Coordinate j of the points R is coordinate i of the points P, moved by a, or
\* mirrored.
Shifts(R, j, a, P, i) == \A k \in 1 .. Len(P) : R[k][j] = a + P[k][i]
Mirrors(R, j, a, P, i) == \A k \in 1 .. Len(P) : R[k][j] = a - P[k][i]

\* Points that all move by the same amount take their extremes along.
LEMMA Moved ==
    ASSUME NEW P \in Seq(Places), P # <<>>, NEW R \in Seq(Places), Len(R) = Len(P),
           NEW i \in {1, 2}, NEW j \in {1, 2}, NEW a \in Int,
           Shifts(R, j, a, P, i)
    PROVE  /\ Min(Along(R, j)) = a + Min(Along(P, i))
           /\ Max(Along(R, j)) = a + Max(Along(P, i))
<1> DEFINE S == Along(P, i)
           T == Along(R, j)
<1>1. /\ S \subseteq Int
      /\ Max(S) \in S /\ \A y \in S : y <= Max(S)
      /\ Min(S) \in S /\ \A y \in S : Min(S) <= y
  BY Extremes
<1>2. DOMAIN P = 1 .. Len(P) /\ DOMAIN R = 1 .. Len(P)
  BY LenProperties
<1>3. S = {P[k][i] : k \in 1 .. Len(P)} /\ T = {R[k][j] : k \in 1 .. Len(P)}
  BY <1>2 DEF Along, Range
<1>4. T = {a + y : y \in S}
  BY <1>3 DEF Shifts
<1> HIDE DEF S, T
<1>5. a + Min(S) \in T /\ a + Max(S) \in T
  BY <1>1, <1>4
<1>6. /\ Min(S) \in Int /\ Max(S) \in Int
      /\ \A y \in S : y \in Int /\ Min(S) <= y /\ y <= Max(S)
  BY <1>1
<1>7. \A y \in S : a + y \in Int /\ a + Min(S) <= a + y /\ a + y <= a + Max(S)
  BY <1>6
<1>8. T \subseteq Int /\ \A z \in T : a + Min(S) <= z /\ z <= a + Max(S)
  BY <1>4, <1>7
<1>9. Min(T) = a + Min(S)
  BY <1>5, <1>8, MinIs
<1>10. Max(T) = a + Max(S)
  BY <1>5, <1>8, MaxIs
<1> QED
  BY <1>9, <1>10 DEF S, T

\* Points that are mirrored swap their extremes.
LEMMA Mirrored ==
    ASSUME NEW P \in Seq(Places), P # <<>>, NEW R \in Seq(Places), Len(R) = Len(P),
           NEW i \in {1, 2}, NEW j \in {1, 2}, NEW a \in Int,
           Mirrors(R, j, a, P, i)
    PROVE  /\ Min(Along(R, j)) = a - Max(Along(P, i))
           /\ Max(Along(R, j)) = a - Min(Along(P, i))
<1> DEFINE S == Along(P, i)
           T == Along(R, j)
<1>1. /\ S \subseteq Int
      /\ Max(S) \in S /\ \A y \in S : y <= Max(S)
      /\ Min(S) \in S /\ \A y \in S : Min(S) <= y
  BY Extremes
<1>2. DOMAIN P = 1 .. Len(P) /\ DOMAIN R = 1 .. Len(P)
  BY LenProperties
<1>3. S = {P[k][i] : k \in 1 .. Len(P)} /\ T = {R[k][j] : k \in 1 .. Len(P)}
  BY <1>2 DEF Along, Range
<1>4. T = {a - y : y \in S}
  BY <1>3 DEF Mirrors
<1> HIDE DEF S, T
<1>5. a - Min(S) \in T /\ a - Max(S) \in T
  BY <1>1, <1>4
<1>6. /\ Min(S) \in Int /\ Max(S) \in Int
      /\ \A y \in S : y \in Int /\ Min(S) <= y /\ y <= Max(S)
  BY <1>1
<1>7. \A y \in S : a - y \in Int /\ a - Max(S) <= a - y /\ a - y <= a - Min(S)
  BY <1>6
<1>8. T \subseteq Int /\ \A z \in T : a - Max(S) <= z /\ z <= a - Min(S)
  BY <1>4, <1>7
<1>9. Min(T) = a - Max(S)
  BY <1>5, <1>8, MinIs
<1>10. Max(T) = a - Min(S)
  BY <1>5, <1>8, MaxIs
<1> QED
  BY <1>9, <1>10 DEF S, T


-----------------------------------------------------------------------------
(* What moves and turns do to a bounding box. *)

\* What each quarter turn does.
LEMMA TurnedBy ==
    ASSUME NEW n \in Int, NEW c \in Places
    PROVE  /\ n % 4 = 0 => \A p \in Places : Turned(p, n, c) = <<0 + p[1], 0 + p[2]>>
           /\ n % 4 = 1 => \A p \in Places : Turned(p, n, c) = <<(c[1] + c[2]) - p[2], (c[2] - c[1]) + p[1]>>
           /\ n % 4 = 2 => \A p \in Places : Turned(p, n, c) = <<(c[1] + c[1]) - p[1], (c[2] + c[2]) - p[2]>>
           /\ n % 4 = 3 => \A p \in Places : Turned(p, n, c) = <<(c[1] - c[2]) + p[2], (c[2] + c[1]) - p[1]>>
<1>2. c[1] \in Int /\ c[2] \in Int
  BY DEF Places
<1>3. \A p \in Places : p[1] \in Int /\ p[2] \in Int
  BY DEF Places
<1>4. CASE n % 4 = 0
  <2>1. \A p \in Places : Turned(p, n, c) = Plus(c, Minus(p, c))
    BY <1>4 DEF Turned
  <2>2. \A p \in Places : Turned(p, n, c) = <<0 + p[1], 0 + p[2]>>
    BY <1>2, <1>3, <2>1 DEF Plus, Minus
  <2> QED
    BY <1>4, <2>2
<1>5. CASE n % 4 = 1
  <2>1. \A p \in Places : Turned(p, n, c) = Plus(c, QuarterTurn(Minus(p, c)))
    BY <1>5 DEF Turned
  <2>2. \A p \in Places : Turned(p, n, c) = <<(c[1] + c[2]) - p[2], (c[2] - c[1]) + p[1]>>
    BY <1>2, <1>3, <2>1 DEF Plus, Minus, QuarterTurn
  <2> QED
    BY <1>5, <2>2
<1>6. CASE n % 4 = 2
  <2>1. \A p \in Places : Turned(p, n, c) = Plus(c, Negated(Minus(p, c)))
    BY <1>6 DEF Turned
  <2>2. \A p \in Places : Turned(p, n, c) = <<(c[1] + c[1]) - p[1], (c[2] + c[2]) - p[2]>>
    BY <1>2, <1>3, <2>1 DEF Plus, Minus, Negated
  <2> QED
    BY <1>6, <2>2
<1>7. CASE n % 4 = 3
  <2>1. \A p \in Places : Turned(p, n, c) = Plus(c, Negated(QuarterTurn(Minus(p, c))))
    BY <1>7 DEF Turned
  <2>2. \A p \in Places : Turned(p, n, c) = <<(c[1] - c[2]) + p[2], (c[2] + c[1]) - p[1]>>
    BY <1>2, <1>3, <2>1 DEF Plus, Minus, QuarterTurn, Negated
  <2> QED
    BY <1>7, <2>2
<1> QED
  BY <1>4, <1>5, <1>6, <1>7

\* A quarter turn sends each coordinate to a coordinate, moved or mirrored.
LEMMA TurnedIs ==
    ASSUME NEW n \in Int, NEW c \in Places
    PROVE  \/ \A p \in Places : Turned(p, n, c) = <<0 + p[1], 0 + p[2]>>
           \/ \A p \in Places : Turned(p, n, c) = <<(c[1] + c[2]) - p[2], (c[2] - c[1]) + p[1]>>
           \/ \A p \in Places : Turned(p, n, c) = <<(c[1] + c[1]) - p[1], (c[2] + c[2]) - p[2]>>
           \/ \A p \in Places : Turned(p, n, c) = <<(c[1] - c[2]) + p[2], (c[2] + c[1]) - p[1]>>
<1>1. n % 4 \in 0 .. 3
  OBVIOUS
<1> QED
  BY <1>1, TurnedBy

\* A turned place is a place, and turning it back restores it.
LEMMA TurnedBack ==
    ASSUME NEW n \in Int, NEW c \in Places, NEW p \in Places
    PROVE  /\ Turned(p, n, c) \in Places
           /\ Turned(Turned(p, n, c), - n, c) = p
           /\ Turned(Turned(p, - n, c), n, c) = p
<1>1. /\ c[1] \in Int /\ c[2] \in Int
      /\ \A q \in Places : q[1] \in Int /\ q[2] \in Int /\ q = <<q[1], q[2]>>
  BY DEF Places
<1>2. n % 4 \in 0 .. 3 /\ (- n) % 4 = (4 - (n % 4)) % 4 /\ - n \in Int
  OBVIOUS
<1>3. ASSUME NEW a \in Int, NEW q \in Places PROVE Turned(q, a, c) \in Places
  <2>1. \/ Turned(q, a, c) = <<0 + q[1], 0 + q[2]>>
        \/ Turned(q, a, c) = <<(c[1] + c[2]) - q[2], (c[2] - c[1]) + q[1]>>
        \/ Turned(q, a, c) = <<(c[1] + c[1]) - q[1], (c[2] + c[2]) - q[2]>>
        \/ Turned(q, a, c) = <<(c[1] - c[2]) + q[2], (c[2] + c[1]) - q[1]>>
    BY TurnedIs
  <2> QED
    BY <1>1, <2>1 DEF Places
<1>4. ASSUME NEW a \in Int, NEW b \in Int, a % 4 \in 0 .. 3, b % 4 = (4 - (a % 4)) % 4
      PROVE  Turned(Turned(p, a, c), b, c) = p
  <2> DEFINE q == Turned(p, a, c)
  <2>1. q \in Places
    BY <1>3
  <2>2. p = <<p[1], p[2]>> /\ p[1] \in Int /\ p[2] \in Int
    BY <1>1
  <2> HIDE DEF q
  <2>3. CASE a % 4 = 0
    <3>1. b % 4 = 0
      BY <1>4, <2>3
    <3>2. q = <<0 + p[1], 0 + p[2]>>
      BY <2>3, TurnedBy DEF q
    <3>3. Turned(q, b, c) = <<0 + q[1], 0 + q[2]>>
      BY <2>1, <3>1, TurnedBy
    <3>4. q[1] = p[1] /\ q[2] = p[2]
      BY <2>2, <3>2
    <3> QED
      BY <2>2, <3>3, <3>4 DEF q
  <2>4. CASE a % 4 = 1
    <3>1. b % 4 = 3
      BY <1>4, <2>4
    <3>2. /\ q = <<(c[1] + c[2]) - p[2], (c[2] - c[1]) + p[1]>>
          /\ Turned(q, b, c) = <<(c[1] - c[2]) + q[2], (c[2] + c[1]) - q[1]>>
      BY <2>1, <2>4, <3>1, TurnedBy DEF q
    <3> QED
      BY <1>1, <2>2, <3>2 DEF q
  <2>5. CASE a % 4 = 2
    <3>1. b % 4 = 2
      BY <1>4, <2>5
    <3>2. /\ q = <<(c[1] + c[1]) - p[1], (c[2] + c[2]) - p[2]>>
          /\ Turned(q, b, c) = <<(c[1] + c[1]) - q[1], (c[2] + c[2]) - q[2]>>
      BY <2>1, <2>5, <3>1, TurnedBy DEF q
    <3> QED
      BY <1>1, <2>2, <3>2 DEF q
  <2>6. CASE a % 4 = 3
    <3>1. b % 4 = 1
      BY <1>4, <2>6
    <3>2. /\ q = <<(c[1] - c[2]) + p[2], (c[2] + c[1]) - p[1]>>
          /\ Turned(q, b, c) = <<(c[1] + c[2]) - q[2], (c[2] - c[1]) + q[1]>>
      BY <2>1, <2>6, <3>1, TurnedBy DEF q
    <3> QED
      BY <1>1, <2>2, <3>2 DEF q
  <2> QED
    BY <1>4, <2>3, <2>4, <2>5, <2>6
<1>5. (- n) % 4 \in 0 .. 3 /\ n % 4 = (4 - ((- n) % 4)) % 4
  BY <1>2
<1> QED
  BY <1>2, <1>3, <1>4, <1>5

\* Two lists with the same extremes along i keep them along j, when they move
\* or are mirrored in the same way.
LEMMA SameExtremes ==
    ASSUME NEW P \in Seq(Places), P # <<>>, NEW Q \in Seq(Places), Q # <<>>,
           NEW R \in Seq(Places), NEW T \in Seq(Places),
           Len(R) = Len(P), Len(T) = Len(Q),
           NEW i \in {1, 2}, NEW j \in {1, 2}, NEW a \in Int,
           Min(Along(P, i)) = Min(Along(Q, i)), Max(Along(P, i)) = Max(Along(Q, i)),
           \/ Shifts(R, j, a, P, i) /\ Shifts(T, j, a, Q, i)
           \/ Mirrors(R, j, a, P, i) /\ Mirrors(T, j, a, Q, i)
    PROVE  Min(Along(R, j)) = Min(Along(T, j)) /\ Max(Along(R, j)) = Max(Along(T, j))
<1>1. CASE Shifts(R, j, a, P, i) /\ Shifts(T, j, a, Q, i)
  <2>1. /\ Min(Along(R, j)) = a + Min(Along(P, i))
        /\ Max(Along(R, j)) = a + Max(Along(P, i))
    BY <1>1, Moved
  <2>2. /\ Min(Along(T, j)) = a + Min(Along(Q, i))
        /\ Max(Along(T, j)) = a + Max(Along(Q, i))
    BY <1>1, Moved
  <2> QED
    BY <2>1, <2>2
<1>2. CASE Mirrors(R, j, a, P, i) /\ Mirrors(T, j, a, Q, i)
  <2>1. /\ Min(Along(R, j)) = a - Max(Along(P, i))
        /\ Max(Along(R, j)) = a - Min(Along(P, i))
    BY <1>2, Mirrored
  <2>2. /\ Min(Along(T, j)) = a - Max(Along(Q, i))
        /\ Max(Along(T, j)) = a - Min(Along(Q, i))
    BY <1>2, Mirrored
  <2> QED
    BY <2>1, <2>2
<1> QED
  BY <1>1, <1>2

\* R is the list P, turned or moved as a whole.
TurnOf(R, P, n, c) == /\ R \in Seq(Places) /\ Len(R) = Len(P)
                      /\ \A k \in 1 .. Len(P) : R[k] = Turned(P[k], n, c)
MoveOf(R, P, d) == /\ R \in Seq(Places) /\ Len(R) = Len(P)
                   /\ \A k \in 1 .. Len(P) : R[k] = Plus(P[k], d)

\* Turning depends only on the bounding box when it is the box that counts.
LEMMA TurnedBound ==
    ASSUME NEW P \in Seq(Places), P # <<>>, NEW Q \in Seq(Places), Q # <<>>,
           BoundBox(P) = BoundBox(Q), NEW n \in Int, NEW c \in Places,
           NEW R, TurnOf(R, P, n, c), NEW T, TurnOf(T, Q, n, c)
    PROVE  BoundBox(R) = BoundBox(T)
<1>0. /\ R \in Seq(Places) /\ Len(R) = Len(P)
      /\ \A k \in 1 .. Len(P) : R[k] = Turned(P[k], n, c)
      /\ T \in Seq(Places) /\ Len(T) = Len(Q)
      /\ \A k \in 1 .. Len(Q) : T[k] = Turned(Q[k], n, c)
  BY DEF TurnOf
<1> DEFINE Same(i) == /\ Min(Along(P, i)) = Min(Along(Q, i))
                      /\ Max(Along(P, i)) = Max(Along(Q, i))
           Alike(j) == /\ Min(Along(R, j)) = Min(Along(T, j))
                       /\ Max(Along(R, j)) = Max(Along(T, j))
<1>1. Same(1) /\ Same(2)
  BY DEF BoundBox
<1>2. /\ \A k \in 1 .. Len(P) : P[k] \in Places
      /\ \A k \in 1 .. Len(Q) : Q[k] \in Places
  BY ElementOfSeq
<1>3. c[1] \in Int /\ c[2] \in Int
  BY DEF Places
<1>4. ASSUME NEW i \in {1, 2}, NEW j \in {1, 2}, NEW a \in Int, Same(i),
             \/ Shifts(R, j, a, P, i) /\ Shifts(T, j, a, Q, i)
             \/ Mirrors(R, j, a, P, i) /\ Mirrors(T, j, a, Q, i)
      PROVE  Alike(j)
  BY <1>0, <1>4, SameExtremes
<1>5. Alike(1) /\ Alike(2)
  <2> HIDE DEF Same, Alike
  <2>1. CASE \A p \in Places : Turned(p, n, c) = <<0 + p[1], 0 + p[2]>>
    <3>1. \A k \in 1 .. Len(P) : R[k][1] = 0 + P[k][1] /\ R[k][2] = 0 + P[k][2]
      BY <1>0, <1>2, <2>1
    <3>2. \A k \in 1 .. Len(Q) : T[k][1] = 0 + Q[k][1] /\ T[k][2] = 0 + Q[k][2]
      BY <1>0, <1>2, <2>1
    <3>3. 0 \in Int /\ 0 \in Int
      BY <1>3
    <3>4. Alike(1)
      BY <1>1, <1>4, <3>1, <3>2, <3>3 DEF Shifts, Mirrors
    <3>5. Alike(2)
      BY <1>1, <1>4, <3>1, <3>2, <3>3 DEF Shifts, Mirrors
    <3> QED
      BY <3>4, <3>5
  <2>2. CASE \A p \in Places : Turned(p, n, c) = <<(c[1] + c[2]) - p[2], (c[2] - c[1]) + p[1]>>
    <3>1. \A k \in 1 .. Len(P) : R[k][1] = (c[1] + c[2]) - P[k][2] /\ R[k][2] = (c[2] - c[1]) + P[k][1]
      BY <1>0, <1>2, <2>2
    <3>2. \A k \in 1 .. Len(Q) : T[k][1] = (c[1] + c[2]) - Q[k][2] /\ T[k][2] = (c[2] - c[1]) + Q[k][1]
      BY <1>0, <1>2, <2>2
    <3>3. c[1] + c[2] \in Int /\ c[2] - c[1] \in Int
      BY <1>3
    <3>4. Alike(1)
      BY <1>1, <1>4, <3>1, <3>2, <3>3 DEF Shifts, Mirrors
    <3>5. Alike(2)
      BY <1>1, <1>4, <3>1, <3>2, <3>3 DEF Shifts, Mirrors
    <3> QED
      BY <3>4, <3>5
  <2>3. CASE \A p \in Places : Turned(p, n, c) = <<(c[1] + c[1]) - p[1], (c[2] + c[2]) - p[2]>>
    <3>1. \A k \in 1 .. Len(P) : R[k][1] = (c[1] + c[1]) - P[k][1] /\ R[k][2] = (c[2] + c[2]) - P[k][2]
      BY <1>0, <1>2, <2>3
    <3>2. \A k \in 1 .. Len(Q) : T[k][1] = (c[1] + c[1]) - Q[k][1] /\ T[k][2] = (c[2] + c[2]) - Q[k][2]
      BY <1>0, <1>2, <2>3
    <3>3. c[1] + c[1] \in Int /\ c[2] + c[2] \in Int
      BY <1>3
    <3>4. Alike(1)
      BY <1>1, <1>4, <3>1, <3>2, <3>3 DEF Shifts, Mirrors
    <3>5. Alike(2)
      BY <1>1, <1>4, <3>1, <3>2, <3>3 DEF Shifts, Mirrors
    <3> QED
      BY <3>4, <3>5
  <2>4. CASE \A p \in Places : Turned(p, n, c) = <<(c[1] - c[2]) + p[2], (c[2] + c[1]) - p[1]>>
    <3>1. \A k \in 1 .. Len(P) : R[k][1] = (c[1] - c[2]) + P[k][2] /\ R[k][2] = (c[2] + c[1]) - P[k][1]
      BY <1>0, <1>2, <2>4
    <3>2. \A k \in 1 .. Len(Q) : T[k][1] = (c[1] - c[2]) + Q[k][2] /\ T[k][2] = (c[2] + c[1]) - Q[k][1]
      BY <1>0, <1>2, <2>4
    <3>3. c[1] - c[2] \in Int /\ c[2] + c[1] \in Int
      BY <1>3
    <3>4. Alike(1)
      BY <1>1, <1>4, <3>1, <3>2, <3>3 DEF Shifts, Mirrors
    <3>5. Alike(2)
      BY <1>1, <1>4, <3>1, <3>2, <3>3 DEF Shifts, Mirrors
    <3> QED
      BY <3>4, <3>5
  <2> QED
    BY <2>1, <2>2, <2>3, <2>4, TurnedIs
<1> QED
  BY <1>5 DEF BoundBox

\* The same of a move.
LEMMA MovedBound ==
    ASSUME NEW P \in Seq(Places), P # <<>>, NEW Q \in Seq(Places), Q # <<>>,
           BoundBox(P) = BoundBox(Q), NEW d \in Places,
           NEW R, MoveOf(R, P, d), NEW T, MoveOf(T, Q, d)
    PROVE  BoundBox(R) = BoundBox(T)
<1>0. /\ R \in Seq(Places) /\ Len(R) = Len(P)
      /\ \A k \in 1 .. Len(P) : R[k] = Plus(P[k], d)
      /\ T \in Seq(Places) /\ Len(T) = Len(Q)
      /\ \A k \in 1 .. Len(Q) : T[k] = Plus(Q[k], d)
  BY DEF MoveOf
<1>1. /\ \A k \in 1 .. Len(P) : P[k][1] \in Int /\ P[k][2] \in Int
      /\ \A k \in 1 .. Len(Q) : Q[k][1] \in Int /\ Q[k][2] \in Int
  <2>1. /\ \A k \in 1 .. Len(P) : P[k] \in Places
        /\ \A k \in 1 .. Len(Q) : Q[k] \in Places
    BY ElementOfSeq
  <2> QED
    BY <2>1 DEF Places
<1>2. d[1] \in Int /\ d[2] \in Int
  BY DEF Places
<1>3. \A i \in {1, 2} : /\ Min(Along(P, i)) = Min(Along(Q, i))
                        /\ Max(Along(P, i)) = Max(Along(Q, i))
  <2>1. Min(Along(P, 1)) = Min(Along(Q, 1)) /\ Max(Along(P, 1)) = Max(Along(Q, 1))
    BY DEF BoundBox
  <2>2. Min(Along(P, 2)) = Min(Along(Q, 2)) /\ Max(Along(P, 2)) = Max(Along(Q, 2))
    BY DEF BoundBox
  <2> QED
    BY <2>1, <2>2
<1>4. /\ \A k \in 1 .. Len(P) : R[k][1] = d[1] + P[k][1] /\ R[k][2] = d[2] + P[k][2]
      /\ \A k \in 1 .. Len(Q) : T[k][1] = d[1] + Q[k][1] /\ T[k][2] = d[2] + Q[k][2]
  <2>1. \A p : p[1] \in Int /\ p[2] \in Int => Plus(p, d)[1] = d[1] + p[1] /\ Plus(p, d)[2] = d[2] + p[2]
    BY <1>2 DEF Plus
  <2>2. ASSUME NEW k \in 1 .. Len(P) PROVE R[k][1] = d[1] + P[k][1] /\ R[k][2] = d[2] + P[k][2]
    BY <1>0, <1>1, <2>1
  <2>3. ASSUME NEW k \in 1 .. Len(Q) PROVE T[k][1] = d[1] + Q[k][1] /\ T[k][2] = d[2] + Q[k][2]
    BY <1>0, <1>1, <2>1
  <2> QED
    BY <2>2, <2>3
<1>5. ASSUME NEW i \in {1, 2}
      PROVE  Min(Along(R, i)) = Min(Along(T, i)) /\ Max(Along(R, i)) = Max(Along(T, i))
  <2>1. d[i] \in Int
    BY <1>2
  <2>2. Shifts(R, i, d[i], P, i) /\ Shifts(T, i, d[i], Q, i)
    BY <1>0, <1>4 DEF Shifts
  <2> QED
    BY <1>0, <1>3, <2>1, <2>2, SameExtremes
<1> QED
  BY <1>5 DEF BoundBox


-----------------------------------------------------------------------------
(* Boxes and their frames. *)

\* A function on 1 .. n is a list of length n.
LEMMA FunctionIsList ==
    ASSUME NEW S, NEW n \in Nat, NEW f \in [1 .. n -> S]
    PROVE  f \in Seq(S) /\ Len(f) = n
  OBVIOUS

Rectangles == {b \in [lo : Places, hi : Places] : b.lo[1] <= b.hi[1] /\ b.lo[2] <= b.hi[2]}

\* The bounding box of a list of points is a rectangle.
LEMMA BoundBoxType ==
    ASSUME NEW P \in Seq(Places), P # <<>>
    PROVE  BoundBox(P) \in Rectangles
<1> DEFINE l1 == Min(Along(P, 1))
           l2 == Min(Along(P, 2))
           h1 == Max(Along(P, 1))
           h2 == Max(Along(P, 2))
<1>1. l1 \in Int /\ h1 \in Int /\ l1 <= h1
  <2>1. /\ Along(P, 1) \subseteq Int /\ h1 \in Along(P, 1) /\ l1 \in Along(P, 1)
        /\ \A y \in Along(P, 1) : y <= h1
    BY Extremes
  <2> QED
    BY <2>1
<1>2. l2 \in Int /\ h2 \in Int /\ l2 <= h2
  <2>1. /\ Along(P, 2) \subseteq Int /\ h2 \in Along(P, 2) /\ l2 \in Along(P, 2)
        /\ \A y \in Along(P, 2) : y <= h2
    BY Extremes
  <2> QED
    BY <2>1
<1>3. BoundBox(P) = [lo |-> <<l1, l2>>, hi |-> <<h1, h2>>]
  BY DEF BoundBox
<1> HIDE DEF l1, l2, h1, h2
<1> QED
  BY <1>1, <1>2, <1>3 DEF Rectangles, Places

\* The corners of a rectangle have it as their bounding box.
LEMMA CornersBound ==
    ASSUME NEW b \in Rectangles
    PROVE  /\ Corners(b) \in Seq(Places) /\ Len(Corners(b)) = 4
           /\ Corners(b) # <<>>
           /\ BoundBox(Corners(b)) = b
           /\ Upright(Corners(b))
<1> DEFINE C == Corners(b)
<1>1. /\ b.lo[1] \in Int /\ b.lo[2] \in Int /\ b.hi[1] \in Int /\ b.hi[2] \in Int
      /\ b.lo[1] <= b.hi[1] /\ b.lo[2] <= b.hi[2]
      /\ b.lo = <<b.lo[1], b.lo[2]>> /\ b.hi = <<b.hi[1], b.hi[2]>>
      /\ b = [lo |-> b.lo, hi |-> b.hi]
      /\ b.lo \in Places /\ b.hi \in Places
  BY DEF Rectangles, Places
<1>2. C = <<<<b.lo[1], b.hi[2]>>, b.hi, <<b.hi[1], b.lo[2]>>, b.lo>>
  BY DEF Corners
<1>3. C \in [1 .. 4 -> Places] /\ C \in Seq(Places) /\ Len(C) = 4 /\ DOMAIN C = 1 .. 4
  <2>1. <<b.lo[1], b.hi[2]>> \in Places /\ <<b.hi[1], b.lo[2]>> \in Places
    BY <1>1 DEF Places
  <2> HIDE DEF C
  <2> QED
    BY <1>1, <1>2, <2>1
<1> HIDE DEF C
<1>4. C # <<>>
  <2>1. C \in Seq(Places) /\ Len(C) # 0
    BY <1>3
  <2> QED
    BY <2>1
<1>5. Range(C) = {<<b.lo[1], b.hi[2]>>, b.hi, <<b.hi[1], b.lo[2]>>, b.lo}
  <2>1. 1 .. 4 = {1, 2, 3, 4}
    OBVIOUS
  <2>2. Range(C) = {C[1], C[2], C[3], C[4]}
    BY <1>3, <2>1 DEF Range
  <2> QED
    BY <1>2, <2>2
<1>6. Along(C, 1) = {b.lo[1], b.hi[1]} /\ Along(C, 2) = {b.lo[2], b.hi[2]}
  BY <1>5 DEF Along
<1>7. /\ Min({b.lo[1], b.hi[1]}) = b.lo[1] /\ Max({b.lo[1], b.hi[1]}) = b.hi[1]
      /\ Min({b.lo[2], b.hi[2]}) = b.lo[2] /\ Max({b.lo[2], b.hi[2]}) = b.hi[2]
  BY <1>1, MaxIs, MinIs
<1>8. BoundBox(C) = b
  BY <1>1, <1>6, <1>7 DEF BoundBox
<1>9. Upright(C)
  BY <1>1, <1>2 DEF Upright, Level, Minus
<1> QED
  BY <1>3, <1>4, <1>8, <1>9 DEF C

\* A list of turned points.
LEMMA TurnedList ==
    ASSUME NEW P \in Seq(Places), P # <<>>, NEW n \in Int, NEW c \in Places
    PROVE  LET R == [k \in DOMAIN P |-> Turned(P[k], n, c)]
           IN  TurnOf(R, P, n, c) /\ R # <<>>
<1> DEFINE R == [k \in DOMAIN P |-> Turned(P[k], n, c)]
<1>1. Len(P) \in Nat /\ Len(P) # 0 /\ DOMAIN P = 1 .. Len(P)
  BY LenProperties
<1>2. \A k \in 1 .. Len(P) : P[k] \in Places
  BY ElementOfSeq
<1>3. \A k \in 1 .. Len(P) : Turned(P[k], n, c) \in Places
  BY <1>2, TurnedBack
<1>4. R \in [1 .. Len(P) -> Places] /\ \A k \in 1 .. Len(P) : R[k] = Turned(P[k], n, c)
  BY <1>1, <1>3
<1> HIDE DEF R
<1>5. R \in Seq(Places) /\ Len(R) = Len(P)
  BY <1>1, <1>4, FunctionIsList
<1> QED
  BY <1>1, <1>4, <1>5 DEF R, TurnOf

\* A list of moved points.
LEMMA MovedList ==
    ASSUME NEW P \in Seq(Places), P # <<>>, NEW d \in Places
    PROVE  LET R == [k \in DOMAIN P |-> Plus(P[k], d)]
           IN  MoveOf(R, P, d) /\ R # <<>>
<1> DEFINE R == [k \in DOMAIN P |-> Plus(P[k], d)]
<1>1. Len(P) \in Nat /\ Len(P) # 0 /\ DOMAIN P = 1 .. Len(P)
  BY LenProperties
<1>2. \A k \in 1 .. Len(P) : P[k] \in Places
  BY ElementOfSeq
<1>3. \A k \in 1 .. Len(P) : Plus(P[k], d) \in Places
  BY <1>2 DEF Plus, Places
<1>4. R \in [1 .. Len(P) -> Places] /\ \A k \in 1 .. Len(P) : R[k] = Plus(P[k], d)
  BY <1>1, <1>3
<1> HIDE DEF R
<1>5. R \in Seq(Places) /\ Len(R) = Len(P)
  BY <1>1, <1>4, FunctionIsList
<1> QED
  BY <1>1, <1>4, <1>5 DEF R, MoveOf

\* A turn keeps a level side level.
LEMMA TurnedLevel ==
    ASSUME NEW a \in Places, NEW b \in Places, Level(Minus(a, b)),
           NEW n \in Int, NEW c \in Places
    PROVE  Level(Minus(Turned(a, n, c), Turned(b, n, c)))
<1>1. /\ a[1] \in Int /\ a[2] \in Int /\ b[1] \in Int /\ b[2] \in Int
      /\ c[1] \in Int /\ c[2] \in Int
  BY DEF Places
<1>2. a[1] = b[1] \/ a[2] = b[2]
  BY <1>1 DEF Level, Minus
<1>3. \/ Turned(a, n, c)[1] = Turned(b, n, c)[1]
      \/ Turned(a, n, c)[2] = Turned(b, n, c)[2]
  <2> DEFINE S == Turned(a, n, c)
             T == Turned(b, n, c)
  <2>1. \/ S = <<0 + a[1], 0 + a[2]>> /\ T = <<0 + b[1], 0 + b[2]>>
        \/ /\ S = <<(c[1] + c[2]) - a[2], (c[2] - c[1]) + a[1]>>
           /\ T = <<(c[1] + c[2]) - b[2], (c[2] - c[1]) + b[1]>>
        \/ /\ S = <<(c[1] + c[1]) - a[1], (c[2] + c[2]) - a[2]>>
           /\ T = <<(c[1] + c[1]) - b[1], (c[2] + c[2]) - b[2]>>
        \/ /\ S = <<(c[1] - c[2]) + a[2], (c[2] + c[1]) - a[1]>>
           /\ T = <<(c[1] - c[2]) + b[2], (c[2] + c[1]) - b[1]>>
    BY TurnedIs
  <2> HIDE DEF S, T
  <2> QED
    BY <1>2, <2>1 DEF S, T
<1>4. /\ Turned(a, n, c)[1] \in Int /\ Turned(a, n, c)[2] \in Int
      /\ Turned(b, n, c)[1] \in Int /\ Turned(b, n, c)[2] \in Int
  <2>1. Turned(a, n, c) \in Places /\ Turned(b, n, c) \in Places
    BY TurnedBack
  <2> QED
    BY <2>1 DEF Places
<1> QED
  BY <1>3, <1>4 DEF Level, Minus

\* The frame of an upright box is one of the four quarter turns.
LEMMA FrameFound ==
    ASSUME NEW obb \in Boxes, Upright(obb)
    PROVE  QuarterTurns(Axis(obb)) \in 0 .. 3
<1> DEFINE U == {<<1, 0>>, <<0, 1>>, <<-1, 0>>, <<0, -1>>}
           w == Minus(obb[2], obb[1])
           h == Minus(obb[1], obb[4])
<1>1. /\ obb[1] \in Places /\ obb[2] \in Places /\ obb[4] \in Places
  BY DEF Boxes
<1>2. w \in Places /\ h \in Places
  BY <1>1 DEF Minus, Places
<1>3. Level(w) /\ Level(h)
  BY DEF Upright
<1> HIDE DEF w, h
<1>4. ASSUME NEW v \in Places, Level(v), v # <<0, 0>>
      PROVE  Unit(v) \in U
  <2>1. v[1] \in Int /\ v[2] \in Int /\ v = <<v[1], v[2]>>
    BY DEF Places
  <2>2. (v[1] = 0 /\ v[2] # 0) \/ (v[1] # 0 /\ v[2] = 0)
    BY <1>4, <2>1 DEF Level
  <2>3. CASE v[1] = 0 /\ v[2] # 0
    <3>1. Sign(v[1]) = 0 /\ Sign(v[2]) \in {1, -1}
      BY <2>1, <2>3 DEF Sign
    <3> QED
      BY <3>1 DEF Unit
  <2>4. CASE v[1] # 0 /\ v[2] = 0
    <3>1. Sign(v[2]) = 0 /\ Sign(v[1]) \in {1, -1}
      BY <2>1, <2>4 DEF Sign
    <3> QED
      BY <3>1 DEF Unit
  <2> QED
    BY <2>2, <2>3, <2>4
<1>5. Axis(obb) \in U
  <2>1. CASE w # <<0, 0>>
    <3>1. Axis(obb) = Unit(w)
      BY <2>1 DEF Axis, w
    <3> QED
      BY <1>2, <1>3, <1>4, <2>1, <3>1
  <2>2. CASE w = <<0, 0>> /\ h # <<0, 0>>
    <3>1. Axis(obb) = Unit(<<h[2], -h[1]>>)
      BY <2>2 DEF Axis, w, h
    <3>2. h[1] \in Int /\ h[2] \in Int /\ h = <<h[1], h[2]>>
      BY <1>2 DEF Places
    <3>3. /\ <<h[2], -h[1]>> \in Places /\ <<h[2], -h[1]>> # <<0, 0>>
          /\ Level(<<h[2], -h[1]>>)
      BY <1>3, <2>2, <3>2 DEF Level, Places
    <3> QED
      BY <1>4, <3>1, <3>3
  <2>3. CASE w = <<0, 0>> /\ h = <<0, 0>>
    <3>1. Axis(obb) = <<1, 0>>
      BY <2>3 DEF Axis, w, h
    <3> QED
      BY <3>1
  <2> QED
    BY <2>1, <2>2, <2>3
<1>6. ASSUME NEW a \in U
      PROVE  \E n \in 0 .. 3 : Turned(<<1, 0>>, n, <<0, 0>>) = a
  <2>1. Turned(<<1, 0>>, 0, <<0, 0>>) = <<1, 0>>
    BY DEF Turned, Plus, Minus
  <2>2. Turned(<<1, 0>>, 1, <<0, 0>>) = <<0, 1>>
    BY DEF Turned, Plus, Minus, QuarterTurn
  <2>3. Turned(<<1, 0>>, 2, <<0, 0>>) = <<-1, 0>>
    BY DEF Turned, Plus, Minus, Negated
  <2>4. Turned(<<1, 0>>, 3, <<0, 0>>) = <<0, -1>>
    BY DEF Turned, Plus, Minus, Negated, QuarterTurn
  <2> QED
    BY <2>1, <2>2, <2>3, <2>4
<1> HIDE DEF U
<1> QED
  BY <1>5, <1>6 DEF QuarterTurns

\* A refitted box is tight around the points and upright again.
LEMMA RefitFits ==
    ASSUME NEW P \in Seq(Places), P # <<>>, NEW obb \in Boxes, Upright(obb)
    PROVE  /\ Refit(P, obb) \in Boxes
           /\ BoundBox(Refit(P, obb)) = BoundBox(P)
           /\ Upright(Refit(P, obb))
<1> DEFINE n == QuarterTurns(Axis(obb))
           F == [i \in DOMAIN P |-> Turned(P[i], -n, <<0, 0>>)]
           B == BoundBox(F)
           C == Corners(B)
           R == [i \in 1 .. 4 |-> Turned(C[i], n, <<0, 0>>)]
<1>1. n \in Int /\ -n \in Int
  BY FrameFound
<1>2. <<0, 0>> \in Places
  BY DEF Places
<1> HIDE DEF n
<1>3. /\ F \in Seq(Places) /\ Len(F) = Len(P) /\ F # <<>>
      /\ \A k \in 1 .. Len(P) : F[k] = Turned(P[k], -n, <<0, 0>>)
  BY <1>1, <1>2, TurnedList DEF TurnOf
<1> HIDE DEF F
<1>4. B \in Rectangles
  BY <1>3, BoundBoxType
<1>5. /\ C \in Seq(Places) /\ Len(C) = 4 /\ C # <<>>
      /\ BoundBox(C) = B
      /\ Upright(C)
  <2> HIDE DEF B
  <2> QED
    BY <1>4, CornersBound
<1> HIDE DEF C
<1>6. DOMAIN C = 1 .. 4 /\ \A k \in 1 .. 4 : C[k] \in Places
  <2>1. DOMAIN C = 1 .. Len(C)
    BY <1>5, LenProperties
  <2>2. \A k \in 1 .. Len(C) : C[k] \in Places
    BY <1>5, ElementOfSeq
  <2> QED
    BY <1>5, <2>1, <2>2
<1>7. TurnOf(R, C, n, <<0, 0>>)
  <2>1. R = [k \in DOMAIN C |-> Turned(C[k], n, <<0, 0>>)]
    BY <1>6
  <2> HIDE DEF R
  <2> QED
    BY <1>1, <1>2, <1>5, <2>1, TurnedList
<1>8. R \in Boxes
  <2>1. \A k \in 1 .. 4 : Turned(C[k], n, <<0, 0>>) \in Places
    BY <1>1, <1>2, <1>6, TurnedBack
  <2> QED
    BY <2>1 DEF Boxes
<1>9. Upright(R)
  <2>1. /\ R[1] = Turned(C[1], n, <<0, 0>>) /\ R[2] = Turned(C[2], n, <<0, 0>>)
        /\ R[4] = Turned(C[4], n, <<0, 0>>)
    OBVIOUS
  <2>2. Level(Minus(C[2], C[1])) /\ Level(Minus(C[1], C[4]))
    BY <1>5 DEF Upright
  <2>3. C[1] \in Places /\ C[2] \in Places /\ C[4] \in Places
    BY <1>6
  <2> HIDE DEF R
  <2> QED
    BY <1>1, <1>2, <2>1, <2>2, <2>3, TurnedLevel DEF Upright
<1>10. TurnOf(P, F, n, <<0, 0>>)
  <2>1. \A k \in 1 .. Len(P) : P[k] \in Places
    BY ElementOfSeq
  <2> QED
    BY <1>1, <1>2, <1>3, <2>1, TurnedBack DEF TurnOf
<1>11. BoundBox(R) = BoundBox(P)
  <2>1. BoundBox(C) = BoundBox(F)
    BY <1>5
  <2> HIDE DEF R, B
  <2> QED
    BY <1>1, <1>2, <1>3, <1>5, <1>7, <1>10, <2>1, TurnedBound
<1>12. Refit(P, obb) = R
  BY DEF Refit, R, C, B, F, n
<1> HIDE DEF R
<1> QED
  BY <1>8, <1>9, <1>11, <1>12


-----------------------------------------------------------------------------
(* What an edit does to its shape. *)

\* A point is listed a natural number of times.
LEMMA TimesType ==
    ASSUME NEW refs \in Seq(Nat), NEW i
    PROVE  Times(refs, i) \in Nat
<1> DEFINE S == {k \in DOMAIN refs : refs[k] = i}
<1>1. DOMAIN refs = 1 .. Len(refs) /\ Len(refs) \in Nat
  BY LenProperties
<1>2. IsFiniteSet(1 .. Len(refs))
  BY <1>1, FS_Interval
<1>3. S \subseteq 1 .. Len(refs)
  BY <1>1
<1> HIDE DEF S
<1>4. IsFiniteSet(S)
  BY <1>2, <1>3, FS_Subset
<1>5. Cardinality(S) \in Nat
  BY <1>4, FS_CardinalityType
<1> QED
  BY <1>5 DEF Times, S

\* Moving single points keeps a list of points one.
LEMMA PointsMoved ==
    ASSUME NEW P \in Seq(Places), P # <<>>, NEW rec \in Records, rec.op = "movePoints"
    PROVE  NewPoints(P, rec) \in Seq(Places) /\ NewPoints(P, rec) # <<>>
<1> DEFINE t(i) == Times(rec.refs, i)
           R == [i \in DOMAIN P |-> Plus(P[i], <<t(i) * rec.d[1], t(i) * rec.d[2]>>)]
<1>1. Len(P) \in Nat /\ Len(P) # 0 /\ DOMAIN P = 1 .. Len(P)
  BY LenProperties
<1>2. \A i \in 1 .. Len(P) : P[i] \in Places
  BY ElementOfSeq
<1>3. rec.d[1] \in Int /\ rec.d[2] \in Int /\ rec.refs \in Seq(Nat)
  BY DEF Records, Places
<1>4. \A i : t(i) \in Nat
  BY <1>3, TimesType
<1>5. NewPoints(P, rec) = R
  BY DEF NewPoints
<1>6. ASSUME NEW i \in 1 .. Len(P)
      PROVE  Plus(P[i], <<t(i) * rec.d[1], t(i) * rec.d[2]>>) \in Places
  <2> HIDE DEF t
  <2>1. t(i) * rec.d[1] \in Int /\ t(i) * rec.d[2] \in Int
    BY <1>3, <1>4
  <2>2. P[i][1] \in Int /\ P[i][2] \in Int
    BY <1>2 DEF Places
  <2> QED
    BY <2>1, <2>2 DEF Plus, Places
<1>7. R \in [1 .. Len(P) -> Places]
  BY <1>1, <1>6
<1> HIDE DEF R
<1>8. R \in Seq(Places) /\ Len(R) = Len(P)
  BY <1>1, <1>7, FunctionIsList
<1> QED
  BY <1>1, <1>5, <1>8

\* A box is a list of four corners.
LEMMA BoxIsList ==
    ASSUME NEW obb \in Boxes
    PROVE  obb \in Seq(Places) /\ Len(obb) = 4 /\ obb # <<>> /\ DOMAIN obb = 1 .. 4
<1>1. obb \in [1 .. 4 -> Places]
  BY DEF Boxes
<1>2. obb \in Seq(Places) /\ Len(obb) = 4
  BY <1>1, FunctionIsList
<1>3. obb \in Seq(Places) /\ Len(obb) # 0
  BY <1>2
<1> QED
  BY <1>1, <1>2, <1>3

\* Whatever is done to a shape, its box stays tight around it and upright.
LEMMA EditedFits ==
    ASSUME NEW s \in Shapes, Shapely(s), NEW rec \in Records
    PROVE  Edited(s, rec) \in Shapes /\ Shapely(Edited(s, rec))
<1> DEFINE e == Edited(s, rec)
           P == NewPoints(s.points, rec)
           b == NewBox(s, rec)
<1>1. /\ s.points \in Seq(Places) /\ s.points # <<>> /\ s.obb \in Boxes
      /\ s.type \in Types \cup {"dead"}
      /\ BoundBox(s.obb) = BoundBox(s.points) /\ Upright(s.obb)
  BY DEF Shapes, Shapely
<1>2. /\ rec.d \in Places /\ rec.angle \in Int /\ rec.c \in Places
      /\ rec.type \in Types \cup {"dead"}
      /\ rec.op \in {"create", "remove", "translate", "rotate", "movePoints"}
  BY DEF Records
<1>3. NewType(s.type, rec) \in Types \cup {"dead"}
  BY <1>1, <1>2 DEF NewType
<1>4. /\ s.obb \in Seq(Places) /\ Len(s.obb) = 4 /\ s.obb # <<>> /\ DOMAIN s.obb = 1 .. 4
      /\ s.obb[1] \in Places /\ s.obb[2] \in Places /\ s.obb[4] \in Places
      /\ \A i \in 1 .. 4 : s.obb[i] \in Places
  BY <1>1, BoxIsList DEF Boxes
<1>5. /\ P \in Seq(Places) /\ P # <<>>
      /\ b \in Boxes
      /\ BoundBox(b) = BoundBox(P)
      /\ Upright(b)
  <2>1. CASE rec.op \in {"create", "remove"}
    <3>1. P = s.points /\ b = s.obb
      BY <2>1 DEF NewPoints, NewBox
    <3> QED
      BY <1>1, <3>1
  <2>2. CASE rec.op = "translate"
    <3>1. P = [i \in DOMAIN s.points |-> Plus(s.points[i], rec.d)]
      BY <2>2 DEF NewPoints
    <3>2. b = [i \in DOMAIN s.obb |-> Plus(s.obb[i], rec.d)]
      BY <1>4, <2>2 DEF NewBox
    <3>3. MoveOf(P, s.points, rec.d) /\ P # <<>>
      <4> HIDE DEF P
      <4> QED
        BY <1>1, <1>2, <3>1, MovedList
    <3>4. MoveOf(b, s.obb, rec.d) /\ b # <<>>
      <4> HIDE DEF b
      <4> QED
        BY <1>2, <1>4, <3>2, MovedList
    <3> HIDE DEF P, b
    <3>5. BoundBox(b) = BoundBox(P)
      BY <1>1, <1>2, <1>4, <3>3, <3>4, MovedBound
    <3>6. \A i \in 1 .. 4 : b[i] = Plus(s.obb[i], rec.d) /\ b[i] \in Places
      <4>1. \A i \in 1 .. 4 : Plus(s.obb[i], rec.d) \in Places
        <5> TAKE i \in 1 .. 4
        <5>1. /\ s.obb[i][1] \in Int /\ s.obb[i][2] \in Int
              /\ rec.d[1] \in Int /\ rec.d[2] \in Int
          BY <1>2, <1>4 DEF Places
        <5> QED
          BY <5>1 DEF Plus, Places
      <4> QED
        BY <1>4, <3>2, <4>1
    <3>7. b \in Boxes
      BY <1>4, <3>2, <3>6 DEF Boxes
    <3>8. Upright(b)
      <4>1. \A i, j \in {1, 2, 4} : Minus(b[i], b[j]) = Minus(s.obb[i], s.obb[j])
        <5> TAKE i, j \in {1, 2, 4}
        <5>1. b[i] = Plus(s.obb[i], rec.d) /\ b[j] = Plus(s.obb[j], rec.d)
          BY <3>6
        <5>2. /\ s.obb[i][1] \in Int /\ s.obb[i][2] \in Int
              /\ s.obb[j][1] \in Int /\ s.obb[j][2] \in Int
              /\ rec.d[1] \in Int /\ rec.d[2] \in Int
          BY <1>2, <1>4 DEF Places
        <5> QED
          BY <5>1, <5>2 DEF Minus, Plus
      <4> QED
        BY <1>1, <4>1 DEF Upright
    <3> QED
      BY <3>3, <3>5, <3>7, <3>8 DEF MoveOf
  <2>3. CASE rec.op = "rotate"
    <3>1. P = [i \in DOMAIN s.points |-> Turned(s.points[i], rec.angle, rec.c)]
      BY <2>3 DEF NewPoints
    <3>2. b = [i \in DOMAIN s.obb |-> Turned(s.obb[i], rec.angle, rec.c)]
      BY <1>4, <2>3 DEF NewBox
    <3>3. TurnOf(P, s.points, rec.angle, rec.c) /\ P # <<>>
      <4> HIDE DEF P
      <4> QED
        BY <1>1, <1>2, <3>1, TurnedList
    <3>4. TurnOf(b, s.obb, rec.angle, rec.c) /\ b # <<>>
      <4> HIDE DEF b
      <4> QED
        BY <1>2, <1>4, <3>2, TurnedList
    <3> HIDE DEF P, b
    <3>5. BoundBox(b) = BoundBox(P)
      BY <1>1, <1>2, <1>4, <3>3, <3>4, TurnedBound
    <3>6. \A i \in 1 .. 4 : b[i] = Turned(s.obb[i], rec.angle, rec.c) /\ b[i] \in Places
      <4>1. \A i \in 1 .. 4 : Turned(s.obb[i], rec.angle, rec.c) \in Places
        BY <1>2, <1>4, TurnedBack
      <4> QED
        BY <1>4, <3>2, <4>1
    <3>7. b \in Boxes
      BY <1>4, <3>2, <3>6 DEF Boxes
    <3>8. Upright(b)
      <4>1. /\ b[1] = Turned(s.obb[1], rec.angle, rec.c)
            /\ b[2] = Turned(s.obb[2], rec.angle, rec.c)
            /\ b[4] = Turned(s.obb[4], rec.angle, rec.c)
        BY <3>6
      <4>2. Level(Minus(s.obb[2], s.obb[1])) /\ Level(Minus(s.obb[1], s.obb[4]))
        BY <1>1 DEF Upright
      <4> QED
        BY <1>2, <1>4, <4>1, <4>2, TurnedLevel DEF Upright
    <3> QED
      BY <3>3, <3>5, <3>7, <3>8 DEF TurnOf
  <2>4. CASE rec.op = "movePoints"
    <3>1. P \in Seq(Places) /\ P # <<>>
      BY <1>1, <2>4, PointsMoved
    <3>2. b = Refit(P, s.obb)
      BY <2>4 DEF NewBox
    <3> HIDE DEF P, b
    <3> QED
      BY <1>1, <3>1, <3>2, RefitFits
  <2> QED
    BY <1>2, <2>1, <2>2, <2>3, <2>4
<1>6. e = [type |-> NewType(s.type, rec), points |-> P, obb |-> b]
  BY DEF Edited
<1> HIDE DEF e, P, b
<1>7. e \in Shapes /\ e.points = P /\ e.obb = b
  BY <1>3, <1>5, <1>6 DEF Shapes
<1> QED
  BY <1>5, <1>7 DEF Shapely, e

\* The inverse of a record is a record, and leads back.
LEMMA InvertedLeads ==
    ASSUME NEW rec \in Records
    PROVE  /\ Inverted(rec) \in Records
           /\ Inverted(rec).id = rec.id
           /\ \A A, B : Leads(rec, A, B) => Leads(Inverted(rec), B, A)
<1> DEFINE inv == Inverted(rec)
<1>1. /\ rec.op \in {"create", "remove", "translate", "rotate", "movePoints"}
      /\ rec.id \in Nat /\ rec.type \in Types \cup {"dead"} /\ rec.d \in Places
      /\ rec.angle \in Int /\ rec.c \in Places /\ rec.refs \in Seq(Nat)
  BY DEF Records
<1>2. Negated(rec.d) \in Places /\ -rec.angle \in Int
  BY <1>1 DEF Negated, Minus, Places
<1>3. /\ InverseOp(rec.op) \in {"create", "remove", "translate", "rotate", "movePoints"}
      /\ rec.op = "create" => InverseOp(rec.op) = "remove"
      /\ rec.op = "remove" => InverseOp(rec.op) = "create"
      /\ rec.op \notin {"create", "remove"} => InverseOp(rec.op) = rec.op
  BY <1>1 DEF InverseOp
<1>4. inv \in Records /\ inv.id = rec.id /\ inv.type = rec.type /\ inv.op = InverseOp(rec.op)
  BY <1>1, <1>2, <1>3 DEF Inverted, Records
<1>5. ASSUME NEW A, NEW B, Leads(rec, A, B)
      PROVE  Leads(inv, B, A)
  <2> HIDE DEF inv
  <2>1. CASE rec.op = "create"
    <3>1. rec.id \notin A /\ B = A \cup {rec.id} /\ rec.type # "dead"
      BY <1>5, <2>1 DEF Leads
    <3>2. rec.id \in B /\ A = B \ {rec.id}
      BY <3>1
    <3> QED
      BY <1>3, <1>4, <2>1, <3>1, <3>2 DEF Leads
  <2>2. CASE rec.op = "remove"
    <3>1. rec.id \in A /\ B = A \ {rec.id} /\ rec.type # "dead"
      BY <1>5, <2>2 DEF Leads
    <3>2. rec.id \notin B /\ A = B \cup {rec.id}
      BY <3>1
    <3> QED
      BY <1>3, <1>4, <2>2, <3>1, <3>2 DEF Leads
  <2>3. CASE rec.op \notin {"create", "remove"}
    <3>1. rec.id \in A /\ B = A
      BY <1>5, <2>3 DEF Leads
    <3> QED
      BY <1>3, <1>4, <2>3, <3>1 DEF Leads
  <2> QED
    BY <2>1, <2>2, <2>3
<1> QED
  BY <1>4, <1>5


-----------------------------------------------------------------------------
(* What a record does to the canvas. *)

\* The shapes of a registry that are live.
Living(reg) == {id \in DOMAIN reg : reg[id].type # "dead"}

\* Live is what Living says of the registry.
LEMMA LiveIs == Live = Living(registry)
  BY DEF Live, IsLive, Living

\* A list of live shapes is finite.
LEMMA LivingFinite ==
    ASSUME NEW reg \in Seq(Shapes)
    PROVE  IsFiniteSet(Living(reg)) /\ Living(reg) \subseteq Nat \ {0}
<1>1. Len(reg) \in Nat /\ DOMAIN reg = 1 .. Len(reg)
  BY LenProperties
<1>2. Living(reg) \subseteq 1 .. Len(reg)
  BY <1>1 DEF Living
<1>3. IsFiniteSet(1 .. Len(reg))
  BY <1>1, FS_Interval
<1> QED
  BY <1>1, <1>2, <1>3, FS_Subset

\* A record that finds its shape as it needs it leaves the canvas in order: the
\* index and the count follow the live shapes, and the boxes still fit.
LEMMA ApplyKeeps ==
    ASSUME registry \in Seq(Shapes), \A id \in DOMAIN registry : Shapely(registry[id]),
           Indexed, stamp \in 0 .. 1, bare \in BOOLEAN,
           NEW rec \in Records, rec.id \in DOMAIN registry,
           NEW B, Leads(rec, Live, B), Apply(rec)
    PROVE  /\ registry' \in Seq(Shapes) /\ DOMAIN registry' = DOMAIN registry
           /\ \A id \in DOMAIN registry' : Shapely(registry'[id])
           /\ Live' = B
           /\ Indexed'
           /\ stamp' = 1 - stamp /\ bare' \in BOOLEAN
<1> DEFINE i == rec.id
           old == registry[i]
           new == Edited(old, rec)
<1>1. Len(registry) \in Nat /\ DOMAIN registry = 1 .. Len(registry) /\ i \in 1 .. Len(registry)
  BY LenProperties
<1>2. old \in Shapes /\ Shapely(old)
  BY <1>1, ElementOfSeq
<1>3. new \in Shapes /\ Shapely(new)
  <2> HIDE DEF old
  <2> QED
    BY <1>2, EditedFits
<1>4. registry' = [registry EXCEPT ![i] = new]
  BY DEF Apply
<1> HIDE DEF new
<1>5. registry' \in Seq(Shapes) /\ Len(registry') = Len(registry)
      /\ \A k \in 1 .. Len(registry) : registry'[k] = IF k = i THEN new ELSE registry[k]
  BY <1>1, <1>3, <1>4, ExceptSeq
<1>6. DOMAIN registry' = DOMAIN registry
  BY <1>4
<1>7. \A id \in DOMAIN registry' : Shapely(registry'[id])
  BY <1>1, <1>3, <1>5, <1>6
<1>8. new.type = NewType(old.type, rec)
  BY DEF new, Edited
<1>9. i \in Live <=> old.type # "dead"
  BY DEF Live, IsLive
<1>10. i \in Live' <=> new.type # "dead"
  BY <1>1, <1>5, <1>6 DEF Live, IsLive
<1>11. \A k : k # i => (k \in Live' <=> k \in Live)
  BY <1>1, <1>5, <1>6 DEF Live, IsLive
<1>12. IsFiniteSet(Live) /\ Cardinality(Live) \in Nat
  BY LivingFinite, LiveIs, FS_CardinalityType
<1>13. \A k \in Live : k # i => k \in DOMAIN registry /\ registry'[k] = registry[k]
  BY <1>1, <1>5, LiveIs DEF Living
<1>14. stamp' = 1 - stamp /\ bare' \in BOOLEAN
  BY DEF Apply, Marked
<1>15. index = {Entry(id, registry[id]) : id \in Live} /\ nshape = Cardinality(Live)
  BY DEF Indexed
<1>16. \A k, s : Entry(k, s).id = k
  BY DEF Entry
<1>17. i \in Live' => registry'[i] = new
  BY <1>1, <1>5
<1>18. CASE rec.op = "create"
  <2>1. i \notin Live /\ B = Live \cup {i} /\ rec.type # "dead"
    BY <1>18 DEF Leads
  <2>2. i \in Live'
    BY <1>8, <1>10, <1>18, <2>1 DEF NewType
  <2>3. Live' = B
    BY <1>11, <2>1, <2>2
  <2>4. index' = index \cup {Entry(i, new)}
    BY <1>18 DEF Apply, Unindexed, new
  <2>5. nshape' = nshape + 1
    BY <1>18 DEF Apply
  <2>6. Cardinality(Live \cup {i}) = Cardinality(Live) + 1
    BY <1>12, <2>1, FS_AddElement
  <2>7. index' = {Entry(id, registry'[id]) : id \in B}
    <3>1. index = {Entry(id, registry'[id]) : id \in Live}
      BY <1>13, <1>15, <2>1
    <3>2. registry'[i] = new
      BY <1>17, <2>2
    <3> QED
      BY <2>1, <2>4, <3>1, <3>2
  <2> QED
    BY <1>5, <1>6, <1>7, <1>14, <1>15, <2>1, <2>3, <2>5, <2>6, <2>7 DEF Indexed
<1>19. CASE rec.op = "remove"
  <2>1. i \in Live /\ B = Live \ {i}
    BY <1>19 DEF Leads
  <2>2. i \notin Live'
    BY <1>8, <1>10, <1>19 DEF NewType
  <2>3. Live' = B
    BY <1>11, <2>1, <2>2
  <2>4. index' = index \ {Entry(i, old)}
    BY <1>19 DEF Apply, Unindexed
  <2>5. nshape' = nshape - 1
    BY <1>19 DEF Apply
  <2>6. Cardinality(Live \ {i}) = Cardinality(Live) - 1
    BY <1>12, <2>1, FS_RemoveElement
  <2>7. index' = {Entry(id, registry'[id]) : id \in B}
    BY <1>13, <1>15, <1>16, <2>1, <2>4
  <2> QED
    BY <1>5, <1>6, <1>7, <1>14, <1>15, <2>1, <2>3, <2>5, <2>6, <2>7 DEF Indexed
<1>20. CASE rec.op \notin {"create", "remove"}
  <2>1. i \in Live /\ B = Live
    BY <1>20 DEF Leads
  <2>2. i \in Live'
    <3>1. rec.op # "create" /\ rec.op # "remove"
      BY <1>20
    <3>2. NewType(old.type, rec) = old.type
      BY <3>1 DEF NewType
    <3> QED
      BY <1>8, <1>9, <1>10, <2>1, <3>2
  <2>3. Live' = B
    <3>1. \A k : k \in Live' <=> k \in Live
      BY <1>11, <2>1, <2>2
    <3> QED
      BY <2>1, <3>1
  <2>4. index' = (index \ {Entry(i, old)}) \cup {Entry(i, new)}
    BY <1>20 DEF Apply, Unindexed, new
  <2>5. nshape' = nshape
    BY <1>20 DEF Apply
  <2>7. index' = {Entry(id, registry'[id]) : id \in B}
    BY <1>13, <1>15, <1>16, <1>17, <2>1, <2>2, <2>4
  <2> QED
    BY <1>5, <1>6, <1>7, <1>14, <1>15, <2>1, <2>3, <2>5, <2>7 DEF Indexed
<1> QED
  BY <1>18, <1>19, <1>20


-----------------------------------------------------------------------------
(* What the histories keep. *)

\* A line about some shapes is one about more of them.
LEMMA OnLineWider ==
    ASSUME NEW D, NEW E, D \subseteq E, NEW M, OnLine(D, M)
    PROVE  OnLine(E, M)
<1>1. PICK L \in [0 .. Total -> SUBSET D] :
          /\ \A k \in 1 .. Total : Leads(At(k), L[k - 1], L[k])
          /\ L[Len(undoStack)] = M
  BY DEF OnLine
<1>2. L \in [0 .. Total -> SUBSET E]
  OBVIOUS
<1> QED
  BY <1>1, <1>2 DEF OnLine

\* A line is about the histories alone.
LEMMA OnLineKept ==
    ASSUME NEW D, NEW M, OnLine(D, M), UNCHANGED <<undoStack, redoStack>>
    PROVE  OnLine(D, M)'
<1>1. Total' = Total /\ \A k : At(k)' = At(k)
  BY DEF Total, At
<1> QED
  BY <1>1 DEF OnLine

\* The place of a record on the line.
LEMMA LineLengths ==
    ASSUME Histories
    PROVE  /\ Len(undoStack) \in Nat /\ Len(redoStack) \in Nat /\ Total \in Nat
           /\ Total = Len(undoStack) + Len(redoStack)
           /\ \A k \in 1 .. Len(undoStack) : At(k) = undoStack[k] /\ At(k) \in Records
  BY ElementOfSeq, LenProperties DEF Histories, Total, At

\* To commit a record that does something is to forget what was undone and to
\* go on from the cursor.
LEMMA CommitMoves ==
    ASSUME Histories, NEW rec \in Records, CommitRecord(rec), ~ IsNoop(rec)
    PROVE  /\ Histories'
           /\ Len(undoStack') = Len(undoStack) + 1 /\ Total' = Len(undoStack) + 1
           /\ Len(redoStack') = 0
           /\ \A k \in 1 .. Len(undoStack) : At(k)' = At(k)
           /\ \A k : k = Len(undoStack) + 1 => At(k)' = rec
<1> DEFINE u == Len(undoStack)
<1>1. undoStack' = Append(undoStack, rec) /\ redoStack' = <<>>
  BY DEF CommitRecord, Committed
<1>2. u \in Nat /\ Total \in Nat /\ u <= Total
  BY LineLengths
<1>3. /\ undoStack' \in Seq(Records) /\ Len(undoStack') = u + 1
      /\ \A k \in 1 .. u : undoStack'[k] = undoStack[k]
      /\ undoStack'[u + 1] = rec
  BY <1>1, AppendProperties DEF Histories
<1>4. redoStack' \in Seq(Records) /\ Len(redoStack') = 0
  BY <1>1
<1>5. Total' = u + 1
  BY <1>2, <1>3, <1>4 DEF Total
<1> HIDE DEF u
<1>6. \A k \in 1 .. u : At(k)' = At(k)
  <2> TAKE k \in 1 .. u
  <2>1. k <= u /\ k <= u + 1
    BY <1>2
  <2> QED
    BY <1>2, <1>3, <2>1 DEF At, u
<1>7. ASSUME NEW k, k = u + 1 PROVE At(k)' = rec
  BY <1>2, <1>3, <1>7 DEF At
<1> QED
  BY <1>3, <1>4, <1>5, <1>6, <1>7 DEF Histories, u

\* A record that does nothing is not committed.
LEMMA CommitSkips ==
    ASSUME NEW rec, CommitRecord(rec), IsNoop(rec)
    PROVE  UNCHANGED <<undoStack, redoStack>>
  BY DEF CommitRecord, Committed

\* The line after a record is committed.
LEMMA OnLineCommit ==
    ASSUME Histories, NEW D, NEW M, NEW N \in SUBSET D, OnLine(D, M),
           NEW rec \in Records, Leads(rec, M, N), CommitRecord(rec)
    PROVE  OnLine(D, N)' /\ Histories'
<1>1. CASE IsNoop(rec)
  <2>1. UNCHANGED <<undoStack, redoStack>>
    BY <1>1, CommitSkips
  <2>2. M = N
    BY <1>1 DEF IsNoop, Leads
  <2> QED
    BY <2>1, <2>2, OnLineKept DEF Histories
<1>2. CASE ~ IsNoop(rec)
  <2> DEFINE u == Len(undoStack)
  <2>1. u \in Nat /\ Total \in Nat /\ u <= Total
    BY LineLengths
  <2>2. /\ Histories'
        /\ Len(undoStack') = u + 1 /\ Total' = u + 1
        /\ \A k \in 1 .. u : At(k)' = At(k)
        /\ \A k : k = u + 1 => At(k)' = rec
    BY <1>2, CommitMoves
  <2>3. PICK L \in [0 .. Total -> SUBSET D] :
            /\ \A k \in 1 .. Total : Leads(At(k), L[k - 1], L[k])
            /\ L[u] = M
    BY DEF OnLine
  <2> DEFINE K == [k \in 0 .. u + 1 |-> IF k <= u THEN L[k] ELSE N]
  <2> HIDE DEF u
  <2>4. K \in [0 .. Total' -> SUBSET D]
    <3>1. \A k \in 0 .. u + 1 : k <= u => k \in 0 .. Total
      BY <2>1
    <3>2. \A k \in 0 .. u + 1 : (IF k <= u THEN L[k] ELSE N) \in SUBSET D
      BY <3>1
    <3> QED
      BY <2>2, <3>2
  <2>5. K[u + 1] = N /\ \A k \in 0 .. u : K[k] = L[k]
    BY <2>1
  <2> HIDE DEF K
  <2>6. ASSUME NEW k \in 1 .. u + 1
        PROVE  Leads(At(k)', K[k - 1], K[k])
    <3>1. CASE k = u + 1
      <4>1. K[k] = N /\ K[k - 1] = M
        BY <2>1, <2>3, <2>5, <3>1
      <4> QED
        BY <2>2, <3>1, <4>1
    <3>2. CASE k # u + 1
      <4>1. k \in 1 .. u /\ k \in 1 .. Total /\ k - 1 \in 0 .. u /\ k \in 0 .. u
        BY <2>1, <3>2
      <4>2. K[k] = L[k] /\ K[k - 1] = L[k - 1]
        BY <2>5, <4>1
      <4> QED
        BY <2>2, <2>3, <4>1, <4>2
    <3> QED
      BY <3>1, <3>2
  <2> QED
    BY <2>2, <2>4, <2>5, <2>6 DEF OnLine
<1> QED
  BY <1>1, <1>2

\* A list without its last element.
LEMMA FrontIs ==
    ASSUME NEW S, NEW s \in Seq(S), s # <<>>
    PROVE  /\ Front(s) \in Seq(S) /\ Len(s) \in Nat /\ Len(s) # 0
           /\ Len(Front(s)) = Len(s) - 1
           /\ \A k \in 1 .. Len(s) - 1 : Front(s)[k] = s[k]
           /\ Last(s) = s[Len(s)] /\ Last(s) \in S
<1> DEFINE u == Len(s)
<1>1. u \in Nat /\ u # 0 /\ \A k \in 1 .. u : s[k] \in S
  BY LenProperties, ElementOfSeq
<1>2. Last(s) = s[u] /\ Last(s) \in S
  BY <1>1 DEF Last
<1>3. Front(s) = SubSeq(s, 1, u - 1)
  BY DEF Front
<1>4. \A k \in 1 .. u - 1 : s[k] \in S
  BY <1>1
<1>5. u - 1 \in Int /\ (u - 1) - 1 + 1 = u - 1 /\ \A k \in 1 .. u - 1 : 1 + k - 1 = k
  BY <1>1
<1> HIDE DEF u
<1>6. /\ SubSeq(s, 1, u - 1) \in Seq(S)
      /\ Len(SubSeq(s, 1, u - 1)) = IF 1 <= u - 1 THEN (u - 1) - 1 + 1 ELSE 0
      /\ \A k \in 1 .. (u - 1) - 1 + 1 : SubSeq(s, 1, u - 1)[k] = s[1 + k - 1]
  BY <1>4, <1>5, SubSeqProperties
<1>7. Len(SubSeq(s, 1, u - 1)) = u - 1
  BY <1>1, <1>6
<1> QED
  BY <1>1, <1>2, <1>3, <1>5, <1>6, <1>7 DEF u

\* Undo moves the cursor back over the last record.
LEMMA UndoMoves ==
    ASSUME Histories, undoStack # <<>>,
           undoStack' = Front(undoStack), redoStack' = Append(redoStack, Last(undoStack))
    PROVE  /\ Histories' /\ Last(undoStack) \in Records
           /\ Len(undoStack) \in 1 .. Total /\ Len(undoStack') = Len(undoStack) - 1
           /\ Total' = Total
           /\ \A k \in 1 .. Total : At(k)' = At(k)
           /\ At(Len(undoStack)) = Last(undoStack)
<1> DEFINE u == Len(undoStack)
           r == Len(redoStack)
<1>1. u \in Nat /\ r \in Nat /\ u # 0 /\ Total = u + r
  BY LineLengths DEF Histories
<1>2. u \in 1 .. u /\ Last(undoStack) = undoStack[u] /\ undoStack[u] \in Records
  BY <1>1, LineLengths DEF Last
<1>3. /\ undoStack' \in Seq(Records) /\ Len(undoStack') = u - 1
      /\ \A k \in 1 .. u - 1 : undoStack'[k] = undoStack[k]
  BY FrontIs DEF Histories
<1>4. /\ redoStack' \in Seq(Records) /\ Len(redoStack') = r + 1
      /\ \A k \in 1 .. r : redoStack'[k] = redoStack[k]
      /\ redoStack'[r + 1] = undoStack[u]
  BY <1>2, AppendProperties DEF Histories
<1>5. Total' = Total
  BY <1>1, <1>3, <1>4 DEF Total
<1> HIDE DEF u, r
<1>7. \A k \in 1 .. Total : At(k)' = At(k)
  <2> TAKE k \in 1 .. Total
  <2>1. CASE k \in 1 .. u - 1
    BY <1>1, <1>3, <2>1 DEF At, u
  <2>2. CASE k = u
    <3>1. At(k) = undoStack[u]
      BY <1>1, <2>2 DEF At, u
    <3>2. At(k)' = redoStack'[Total' + 1 - k]
      <4>1. ~ (k <= Len(undoStack'))
        BY <1>1, <1>3, <2>2
      <4> QED
        BY <4>1 DEF At
    <3>3. Total' + 1 - k = r + 1
      BY <1>1, <1>5, <2>2
    <3> QED
      BY <1>4, <3>1, <3>2, <3>3
  <2>3. CASE k > u
    <3>1. At(k) = redoStack[Total + 1 - k]
      BY <1>1, <2>3 DEF At, u
    <3>2. At(k)' = redoStack'[Total' + 1 - k]
      <4>1. ~ (k <= Len(undoStack'))
        BY <1>1, <1>3, <2>3
      <4> QED
        BY <4>1 DEF At
    <3>3. Total' + 1 - k = Total + 1 - k /\ Total + 1 - k \in 1 .. r
      BY <1>1, <1>5, <2>3
    <3> QED
      BY <1>4, <3>1, <3>2, <3>3
  <2> QED
    BY <1>1, <2>1, <2>2, <2>3
<1>8. u \in 1 .. Total
  BY <1>1
<1>9. At(u) = undoStack[u]
  BY <1>1 DEF At, u
<1> QED
  BY <1>2, <1>3, <1>4, <1>5, <1>7, <1>8, <1>9 DEF Histories, u

\* The line after an undo.
LEMMA OnLineUndo ==
    ASSUME Histories, NEW D, NEW M, OnLine(D, M), undoStack # <<>>,
           undoStack' = Front(undoStack), redoStack' = Append(redoStack, Last(undoStack))
    PROVE  /\ Histories'
           /\ Last(undoStack) \in Records
           /\ \E N \in SUBSET D : OnLine(D, N)' /\ Leads(Last(undoStack), N, M)
<1> DEFINE u == Len(undoStack)
<1>1. /\ Histories' /\ Last(undoStack) \in Records
      /\ u \in 1 .. Total /\ Len(undoStack') = u - 1
      /\ Total' = Total
      /\ \A k \in 1 .. Total : At(k)' = At(k)
      /\ At(u) = Last(undoStack)
  BY UndoMoves
<1>2. PICK L \in [0 .. Total -> SUBSET D] :
          /\ \A k \in 1 .. Total : Leads(At(k), L[k - 1], L[k])
          /\ L[u] = M
  BY DEF OnLine
<1>3. Total \in Nat
  BY LineLengths
<1> HIDE DEF u
<1>4. u - 1 \in 0 .. Total
  BY <1>1, <1>3
<1> PICK N \in SUBSET D : N = L[u - 1]
  BY <1>4
<1>5. OnLine(D, N)'
  BY <1>1, <1>2 DEF OnLine
<1>6. Leads(Last(undoStack), N, M)
  BY <1>1, <1>2
<1> QED
  BY <1>1, <1>5, <1>6

\* Redo moves it forward again.
LEMMA RedoMoves ==
    ASSUME Histories, redoStack # <<>>,
           redoStack' = Front(redoStack), undoStack' = Append(undoStack, Last(redoStack))
    PROVE  /\ Histories' /\ Last(redoStack) \in Records
           /\ Len(undoStack) + 1 \in 1 .. Total /\ Len(undoStack') = Len(undoStack) + 1
           /\ Total' = Total
           /\ \A k \in 1 .. Total : At(k)' = At(k)
           /\ At(Len(undoStack) + 1) = Last(redoStack)
<1> DEFINE u == Len(undoStack)
           r == Len(redoStack)
<1>1. u \in Nat /\ r \in Nat /\ r # 0 /\ Total = u + r
  BY LineLengths DEF Histories
<1>2. Last(redoStack) = redoStack[r] /\ redoStack[r] \in Records
  BY FrontIs DEF Histories
<1>3. /\ redoStack' \in Seq(Records) /\ Len(redoStack') = r - 1
      /\ \A k \in 1 .. r - 1 : redoStack'[k] = redoStack[k]
  BY FrontIs DEF Histories
<1>4. /\ undoStack' \in Seq(Records) /\ Len(undoStack') = u + 1
      /\ \A k \in 1 .. u : undoStack'[k] = undoStack[k]
      /\ undoStack'[u + 1] = redoStack[r]
  BY <1>2, AppendProperties DEF Histories
<1>5. Total' = Total
  BY <1>1, <1>3, <1>4 DEF Total
<1> HIDE DEF u, r
<1>7. \A k \in 1 .. Total : At(k)' = At(k)
  <2> TAKE k \in 1 .. Total
  <2>1. CASE k \in 1 .. u
    BY <1>1, <1>4, <2>1 DEF At, u
  <2>2. CASE k = u + 1
    <3>1. At(k) = redoStack[Total + 1 - k]
      BY <1>1, <2>2 DEF At, u
    <3>2. At(k)' = undoStack'[u + 1]
      BY <1>1, <1>4, <2>2 DEF At
    <3>3. Total + 1 - k = r
      BY <1>1, <2>2
    <3> QED
      BY <1>4, <3>1, <3>2, <3>3
  <2>3. CASE k > u + 1
    <3>1. At(k) = redoStack[Total + 1 - k]
      BY <1>1, <2>3 DEF At, u
    <3>2. At(k)' = redoStack'[Total' + 1 - k]
      BY <1>1, <1>4, <2>3 DEF At
    <3>3. Total' + 1 - k = Total + 1 - k /\ Total + 1 - k \in 1 .. r - 1
      BY <1>1, <1>5, <2>3
    <3> QED
      BY <1>3, <3>1, <3>2, <3>3
  <2> QED
    BY <1>1, <2>1, <2>2, <2>3
<1>8. u + 1 \in 1 .. Total
  BY <1>1
<1>9. At(u + 1) = redoStack[r]
  <2>1. At(u + 1) = redoStack[Total + 1 - (u + 1)]
    BY <1>1 DEF At, u
  <2>2. Total + 1 - (u + 1) = r
    BY <1>1
  <2> QED
    BY <2>1, <2>2
<1> QED
  BY <1>2, <1>3, <1>4, <1>5, <1>7, <1>8, <1>9 DEF Histories, u

\* The line after a redo.
LEMMA OnLineRedo ==
    ASSUME Histories, NEW D, NEW M, OnLine(D, M), redoStack # <<>>,
           redoStack' = Front(redoStack), undoStack' = Append(undoStack, Last(redoStack))
    PROVE  /\ Histories'
           /\ Last(redoStack) \in Records
           /\ \E N \in SUBSET D : OnLine(D, N)' /\ Leads(Last(redoStack), M, N)
<1> DEFINE u == Len(undoStack)
<1>1. /\ Histories' /\ Last(redoStack) \in Records
      /\ u + 1 \in 1 .. Total /\ Len(undoStack') = u + 1
      /\ Total' = Total
      /\ \A k \in 1 .. Total : At(k)' = At(k)
      /\ At(u + 1) = Last(redoStack)
  BY RedoMoves
<1>2. PICK L \in [0 .. Total -> SUBSET D] :
          /\ \A k \in 1 .. Total : Leads(At(k), L[k - 1], L[k])
          /\ L[u] = M
  BY DEF OnLine
<1>3. Total \in Nat /\ u \in Nat
  BY LineLengths
<1> HIDE DEF u
<1>4. u + 1 \in 0 .. Total /\ (u + 1) - 1 = u
  BY <1>1, <1>3
<1> PICK N \in SUBSET D : N = L[u + 1]
  BY <1>4
<1>5. OnLine(D, N)'
  BY <1>1, <1>2 DEF OnLine
<1>6. Leads(Last(redoStack), M, N)
  BY <1>1, <1>2, <1>4
<1> QED
  BY <1>1, <1>5, <1>6

-----------------------------------------------------------------------------
(* What the operations keep. *)

\* A record of a shape is not the mark of no record.
LEMMA IsRecord ==
    ASSUME NEW rec, rec.id # 0
    PROVE  rec # NoRecord
  BY DEF NoRecord

\* Live shapes have a place in the registry.
LEMMA LivePlaces == Live \subseteq DOMAIN registry
  BY DEF Live

\* As LivePlaces, after a step.
LEMMA LivePlacesNext == Live' \subseteq DOMAIN registry'
  BY DEF Live

\* An open record that is merged with one of the same gesture still leads from
\* the cursor to the canvas: a shape is neither made nor removed twice.
LEMMA MergedLeads ==
    ASSUME open \in Records, NEW rec \in Records, SameGesture(rec),
           NEW M, NEW N, NEW O, Leads(open, M, N), Leads(rec, N, O)
    PROVE  /\ Merged(rec) \in Records
           /\ Leads(Merged(rec), M, O)
           /\ Merged(rec) # NoRecord
<1> DEFINE m == Merged(rec)
<1>1. open.id = rec.id /\ open.op = rec.op
  BY DEF SameGesture
<1>2. /\ open.op \in {"create", "remove", "translate", "rotate", "movePoints"}
      /\ open.id \in Nat /\ open.type \in Types \cup {"dead"} /\ open.d \in Places
      /\ open.angle \in Int /\ open.c \in Places /\ open.refs \in Seq(Nat)
      /\ rec.d \in Places /\ rec.angle \in Int
  BY DEF Records
<1>3. Plus(open.d, rec.d) \in Places /\ open.angle + rec.angle \in Int
  BY <1>2 DEF Plus, Places
<1>4. m = [open EXCEPT !.d = Plus(open.d, rec.d), !.angle = open.angle + rec.angle]
  BY DEF Merged
<1> HIDE DEF m
<1>5. m \in Records /\ m.id = open.id /\ m.op = open.op
  BY <1>2, <1>3, <1>4 DEF Records
<1>6. open.op # "create" /\ open.op # "remove"
  <2>1. open.op = "create" => open.id \in N /\ open.id \notin N
    BY <1>1 DEF Leads
  <2>2. open.op = "remove" => open.id \in N /\ open.id \notin N
    BY <1>1 DEF Leads
  <2> QED
    BY <2>1, <2>2
<1>7. open.id \in M /\ N = M /\ O = N
  BY <1>1, <1>6 DEF Leads
<1>8. Leads(m, M, O)
  BY <1>5, <1>6, <1>7 DEF Leads
<1>9. m # NoRecord
  BY <1>5, <1>6 DEF NoRecord
<1> QED
  BY <1>5, <1>8, <1>9 DEF m

\* Recording keeps the histories in order, whether the record is committed at
\* once, merged into the open one, or opened after the open one is committed.
LEMMA RecordKeeps ==
    ASSUME HistoryInv, NEW rec \in Records, rec.id # 0, RecordOp(rec),
           DOMAIN registry \subseteq DOMAIN registry', Leads(rec, Live, Live')
    PROVE  HistoryInv'
<1> PICK A : A = Live
  OBVIOUS
<1> PICK B : B = Live'
  OBVIOUS
<1> PICK E : E = DOMAIN registry'
  OBVIOUS
<1>1. /\ Histories /\ inOperation \in BOOLEAN /\ open \in Records
      /\ ~ inOperation => ~ HasOpen
  BY DEF HistoryInv
<1>2. PICK M \in SUBSET E : OnLine(E, M) /\ Reached(M)
  BY OnLineWider DEF HistoryInv, Lived
<1>3. A \subseteq E /\ B \subseteq E
  BY LivePlaces, LivePlacesNext
<1>4. Leads(rec, A, B)
  OBVIOUS
<1>5. rec # NoRecord
  BY IsRecord
<1>6. CASE ~ inOperation /\ CommitRecord(rec) /\ UNCHANGED <<inOperation, open>>
  <2>1. ~ HasOpen /\ M = A
    BY <1>1, <1>2, <1>6 DEF Reached
  <2>2. OnLine(E, B)' /\ Histories'
    BY <1>1, <1>2, <1>3, <1>4, <1>6, <2>1, OnLineCommit
  <2>3. HasOpen' = HasOpen
    BY <1>6 DEF HasOpen
  <2> QED
    BY <1>1, <1>3, <1>6, <2>1, <2>2, <2>3 DEF HistoryInv, Lived, Reached
<1>7. CASE /\ inOperation /\ HasOpen /\ SameGesture(rec)
           /\ open' = Merged(rec)
           /\ UNCHANGED <<undoStack, redoStack, inOperation>>
  <2>1. Leads(open, M, A)
    BY <1>2, <1>7 DEF Reached
  <2>2. Merged(rec) \in Records /\ Leads(Merged(rec), M, B) /\ Merged(rec) # NoRecord
    BY <1>1, <1>4, <1>7, <2>1, MergedLeads
  <2>3. OnLine(E, M)' /\ Histories'
    BY <1>1, <1>2, <1>7, OnLineKept DEF Histories
  <2>4. open' \in Records /\ HasOpen' /\ Leads(open', M, B)
    BY <1>7, <2>2 DEF HasOpen
  <2> QED
    BY <1>1, <1>7, <2>3, <2>4 DEF HistoryInv, Lived, Reached
<1>8. CASE /\ inOperation
           /\ IF HasOpen THEN CommitRecord(open) ELSE UNCHANGED <<undoStack, redoStack>>
           /\ open' = rec
           /\ UNCHANGED inOperation
  <2>1. OnLine(E, A)' /\ Histories'
    <3>1. CASE HasOpen
      <4>1. Leads(open, M, A)
        BY <1>2, <3>1 DEF Reached
      <4> QED
        BY <1>1, <1>2, <1>3, <1>8, <3>1, <4>1, OnLineCommit
    <3>2. CASE ~ HasOpen
      <4>1. M = A
        BY <1>2, <3>2 DEF Reached
      <4> QED
        BY <1>1, <1>2, <1>8, <3>2, <4>1, OnLineKept DEF Histories
    <3> QED
      BY <3>1, <3>2
  <2>2. open' \in Records /\ HasOpen' /\ Leads(open', A, B)
    BY <1>4, <1>5, <1>8 DEF HasOpen
  <2> QED
    BY <1>1, <1>3, <1>8, <2>1, <2>2 DEF HistoryInv, Lived, Reached
<1> QED
  BY <1>6, <1>7, <1>8 DEF RecordOp

\* To finish a gesture commits the open record, if there is one.
LEMMA FinishKeeps ==
    ASSUME HistoryInv, FinishOpen, open' = NoRecord, inOperation' \in BOOLEAN,
           NoRecord \in Records, UNCHANGED registry
    PROVE  HistoryInv'
<1> PICK A : A = Live
  OBVIOUS
<1> PICK D : D = DOMAIN registry
  OBVIOUS
<1>1. /\ Histories /\ inOperation \in BOOLEAN /\ open \in Records
      /\ ~ inOperation => ~ HasOpen
  BY DEF HistoryInv
<1>2. PICK M \in SUBSET D : OnLine(D, M) /\ Reached(M)
  BY DEF HistoryInv, Lived
<1>3. A \subseteq D
  BY LivePlaces
<1>4. OnLine(D, A)' /\ Histories'
  <2>1. CASE inOperation /\ HasOpen
    <3>1. Leads(open, M, A) /\ CommitRecord(open)
      BY <1>2, <2>1 DEF Reached, FinishOpen
    <3> QED
      BY <1>1, <1>2, <1>3, <3>1, OnLineCommit
  <2>2. CASE ~ (inOperation /\ HasOpen)
    <3>1. M = A /\ UNCHANGED <<undoStack, redoStack>>
      BY <1>1, <1>2, <2>2 DEF Reached, FinishOpen
    <3> QED
      BY <1>1, <1>2, <3>1, OnLineKept DEF Histories
  <2> QED
    BY <2>1, <2>2
<1>5. ~ HasOpen'
  BY DEF HasOpen
<1>6. A = Live' /\ D = DOMAIN registry'
  BY DEF Live, IsLive
<1> QED
  BY <1>3, <1>4, <1>5, <1>6 DEF HistoryInv, Lived, Reached

\* No record is a record.
LEMMA NoRecordType == NoRecord \in Records
<1>1. <<0, 0>> \in Places /\ <<>> \in Seq(Nat)
  <2>1. <<>> \in Seq(Nat)
    OBVIOUS
  <2> QED
    BY <2>1 DEF Places
<1> QED
  BY <1>1 DEF NoRecord, Records


-----------------------------------------------------------------------------
(* The operations, one by one. *)

\* A new shape starts in order.
LEMMA SeededFits ==
    ASSUME NEW f \in Forms
    PROVE  /\ Seeded(f) \in Shapes /\ Shapely(Seeded(f))
           /\ Seeded(f).type = f.type /\ f.type # "dead" /\ f.type \in Types
<1> DEFINE s == Seeded(f)
           C == Corners(BoundBox(f.points))
<1>1. /\ f.points \in Seq(Places) /\ f.points # <<>> /\ f.type # "dead" /\ f.type \in Types
  BY FormsAssumption DEF Places, Types
<1>2. /\ C \in Seq(Places) /\ Len(C) = 4
      /\ BoundBox(C) = BoundBox(f.points) /\ Upright(C)
  BY <1>1, BoundBoxType, CornersBound
<1>3. s = [type |-> f.type, points |-> f.points, obb |-> C]
  BY DEF Seeded
<1> HIDE DEF C, s
<1>4. C \in Boxes
  BY <1>2, LenProperties DEF Boxes
<1> QED
  BY <1>1, <1>2, <1>3, <1>4 DEF Shapes, Shapely, s

\* add_triangle, ..., add_path.
LEMMA AddShapeKeeps ==
    ASSUME IInv, NEW f \in Forms, AddShape(f)
    PROVE  IInv' /\ stamp' = 1 - stamp
<1> DEFINE n == Len(registry) + 1
           s == Seeded(f)
           rec == [NoRecord EXCEPT !.op = "create", !.id = n, !.type = f.type]
<1>1. /\ registry \in Seq(Shapes) /\ bare \in BOOLEAN /\ stamp \in 0 .. 1
      /\ \A id \in DOMAIN registry : Shapely(registry[id])
      /\ index = {Entry(id, registry[id]) : id \in Live} /\ nshape = Cardinality(Live)
      /\ HistoryInv
  BY DEF IInv, SceneInv, Indexed
<1>2. s \in Shapes /\ Shapely(s) /\ s.type # "dead" /\ f.type \in Types /\ f.type # "dead"
  BY SeededFits
<1>3. /\ registry' = Append(registry, s) /\ nshape' = nshape + 1
      /\ index' = index \cup {Entry(n, s)} /\ RecordOp(rec)
      /\ stamp' = 1 - stamp /\ bare' = bare
  BY DEF AddShape, RegisterShape
<1> HIDE DEF s
<1>4. Len(registry) \in Nat /\ n \in Nat /\ n # 0 /\ DOMAIN registry = 1 .. Len(registry)
  BY <1>1, LenProperties
<1>5. /\ registry' \in Seq(Shapes) /\ Len(registry') = n
      /\ \A k \in 1 .. Len(registry) : registry'[k] = registry[k]
      /\ registry'[n] = s
  BY <1>1, <1>2, <1>3, AppendProperties
<1>6. DOMAIN registry' = 1 .. n
  BY <1>5, LenProperties
<1>7. rec \in Records /\ rec.id = n /\ rec.op = "create" /\ rec.type = f.type
  <2>1. NoRecord \in Records
    BY NoRecordType
  <2> QED
    BY <1>2, <1>4, <2>1 DEF Records
<1> HIDE DEF n, rec
<1>8. \A k \in 1 .. n : k \in 1 .. Len(registry) \/ k = n
  BY <1>4 DEF n
<1>9. \A k \in 1 .. Len(registry) : k \in 1 .. n /\ k # n
  BY <1>4 DEF n
<1>10. \A id \in DOMAIN registry' : Shapely(registry'[id])
  BY <1>1, <1>2, <1>4, <1>5, <1>6, <1>8
<1>11. n \in 1 .. n /\ n \notin Live
  BY <1>4, <1>9 DEF Live
<1>12. Live' = Live \cup {n}
  <2>1. \A k : k \in Live' <=> k \in Live \cup {n}
    <3> TAKE k
    <3>1. k \in Live' <=> k \in 1 .. n /\ registry'[k].type # "dead"
      BY <1>6 DEF Live, IsLive
    <3>2. k \in Live <=> k \in 1 .. Len(registry) /\ registry[k].type # "dead"
      BY <1>4 DEF Live, IsLive
    <3>3. CASE k = n
      BY <1>2, <1>5, <1>11, <3>1, <3>3
    <3>4. CASE k # n
      BY <1>5, <1>8, <1>9, <3>1, <3>2, <3>4
    <3> QED
      BY <3>3, <3>4
  <2> QED
    BY <2>1
<1>13. Indexed'
  <2>1. index' = {Entry(id, registry'[id]) : id \in Live'}
    <3>1. \A k \in Live : registry'[k] = registry[k]
      BY <1>4, <1>5 DEF Live
    <3>2. index = {Entry(id, registry'[id]) : id \in Live}
      BY <1>1, <3>1
    <3> QED
      BY <1>3, <1>5, <1>12, <3>2
  <2>2. nshape' = Cardinality(Live')
    <3>1. IsFiniteSet(Live)
      BY <1>1, LiveIs, LivingFinite
    <3>2. Cardinality(Live \cup {n}) = Cardinality(Live) + 1
      BY <1>11, <3>1, FS_AddElement
    <3> QED
      BY <1>1, <1>3, <1>12, <3>2
  <2> QED
    BY <2>1, <2>2 DEF Indexed
<1>14. HistoryInv'
  <2>1. Leads(rec, Live, Live')
    BY <1>2, <1>7, <1>11, <1>12 DEF Leads
  <2>2. DOMAIN registry \subseteq DOMAIN registry'
    BY <1>4, <1>6, <1>9
  <2> QED
    BY <1>1, <1>3, <1>4, <1>7, <2>1, <2>2, RecordKeeps
<1>15. stamp' \in 0 .. 1
  BY <1>1, <1>3
<1> QED
  BY <1>1, <1>3, <1>5, <1>10, <1>13, <1>14, <1>15 DEF IInv, SceneInv

\* The edits of a live shape.
LEMMA EditKeeps ==
    ASSUME IInv, NEW rec \in Records, NEW B, Leads(rec, Live, B), Edit(rec)
    PROVE  IInv' /\ stamp' = 1 - stamp
<1>1. /\ registry \in Seq(Shapes) /\ bare \in BOOLEAN /\ stamp \in 0 .. 1
      /\ \A id \in DOMAIN registry : Shapely(registry[id])
      /\ Indexed /\ HistoryInv
  BY DEF IInv, SceneInv
<1>2. IsLive(rec.id) /\ Apply(rec) /\ RecordOp(rec)
  BY DEF Edit
<1>3. rec.id \in DOMAIN registry /\ rec.id # 0
  <2>1. rec.id \in DOMAIN registry
    BY <1>2 DEF IsLive
  <2>2. DOMAIN registry = 1 .. Len(registry)
    BY <1>1, LenProperties
  <2> QED
    BY <2>1, <2>2
<1>4. /\ registry' \in Seq(Shapes) /\ DOMAIN registry' = DOMAIN registry
      /\ \A id \in DOMAIN registry' : Shapely(registry'[id])
      /\ Live' = B
      /\ Indexed'
      /\ stamp' = 1 - stamp /\ bare' \in BOOLEAN
  BY <1>1, <1>2, <1>3, ApplyKeeps
<1>5. HistoryInv'
  BY <1>1, <1>2, <1>3, <1>4, RecordKeeps
<1>6. stamp' \in 0 .. 1
  BY <1>1, <1>4
<1> QED
  BY <1>4, <1>5, <1>6 DEF IInv, SceneInv

\* The moves edit a live shape with a record of theirs.
LEMMA MoveIsEdit ==
    ASSUME IInv, NEW id \in DOMAIN registry,
           \/ \E d \in Steps : TranslateShape(id, d)
           \/ \E angle \in Turns, c \in Pivots : RotateShape(id, angle, c)
           \/ \E refs \in Refs, d \in Steps : MoveShapePoints(id, refs, d)
    PROVE  \E rec \in Records : /\ rec.id = id /\ rec.op \in {"translate", "rotate", "movePoints"}
                                /\ Edit(rec)
<1>1. id \in Nat
  <2>1. DOMAIN registry = 1 .. Len(registry)
    BY LenProperties DEF IInv, SceneInv
  <2> QED
    BY <2>1
<1>2. CASE \E d \in Steps : TranslateShape(id, d)
  <2> PICK d \in Steps : TranslateShape(id, d)
    BY <1>2
  <2> DEFINE rec == [NoRecord EXCEPT !.op = "translate", !.id = id, !.d = d]
  <2>1. rec \in Records /\ rec.id = id /\ rec.op = "translate"
    BY <1>1, NoRecordType, StepsAssumption DEF Records, Places
  <2>2. Edit(rec)
    BY DEF TranslateShape
  <2> HIDE DEF rec
  <2> QED
    BY <2>1, <2>2
<1>3. CASE \E angle \in Turns, c \in Pivots : RotateShape(id, angle, c)
  <2> PICK angle \in Turns, c \in Pivots : RotateShape(id, angle, c)
    BY <1>3
  <2> DEFINE rec == [NoRecord EXCEPT !.op = "rotate", !.id = id, !.angle = angle, !.c = c]
  <2>1. rec \in Records /\ rec.id = id /\ rec.op = "rotate"
    BY <1>1, NoRecordType, StepsAssumption DEF Records, Places
  <2>2. Edit(rec)
    BY DEF RotateShape
  <2> HIDE DEF rec
  <2> QED
    BY <2>1, <2>2
<1>4. CASE \E refs \in Refs, d \in Steps : MoveShapePoints(id, refs, d)
  <2> PICK refs \in Refs, d \in Steps : MoveShapePoints(id, refs, d)
    BY <1>4
  <2> DEFINE rec == [NoRecord EXCEPT !.op = "movePoints", !.id = id, !.d = d, !.refs = refs]
  <2>1. rec \in Records /\ rec.id = id /\ rec.op = "movePoints"
    BY <1>1, NoRecordType, StepsAssumption, RefsAssumption DEF Records, Places
  <2>2. Edit(rec)
    BY DEF MoveShapePoints
  <2> HIDE DEF rec
  <2> QED
    BY <2>1, <2>2
<1> QED
  BY <1>2, <1>3, <1>4

\* translate_shape, rotate_shape and move_shape_points.
LEMMA MoveKeeps ==
    ASSUME IInv, NEW id \in DOMAIN registry,
           \/ \E d \in Steps : TranslateShape(id, d)
           \/ \E angle \in Turns, c \in Pivots : RotateShape(id, angle, c)
           \/ \E refs \in Refs, d \in Steps : MoveShapePoints(id, refs, d)
    PROVE  IInv' /\ stamp' = 1 - stamp
<1>1. PICK rec \in Records : /\ rec.id = id /\ rec.op \in {"translate", "rotate", "movePoints"}
                             /\ Edit(rec)
  BY MoveIsEdit
<1>2. id \in Live
  BY <1>1 DEF Edit, Live, IsLive
<1>3. Leads(rec, Live, Live)
  BY <1>1, <1>2 DEF Leads
<1> QED
  BY <1>1, <1>3, EditKeeps

\* A removal edits a live shape with a record that keeps its type.
LEMMA RemoveIsEdit ==
    ASSUME IInv, NEW id \in DOMAIN registry, RemoveShape(id)
    PROVE  \E rec \in Records : /\ rec.id = id /\ rec.op = "remove" /\ rec.type = registry[id].type
                                /\ Edit(rec)
<1> DEFINE rec == [NoRecord EXCEPT !.op = "remove", !.id = id, !.type = registry[id].type]
<1>1. /\ DOMAIN registry = 1 .. Len(registry)
      /\ registry[id] \in Shapes
  BY LenProperties, ElementOfSeq DEF IInv, SceneInv
<1>2. rec \in Records /\ rec.id = id /\ rec.op = "remove" /\ rec.type = registry[id].type
  <2>1. id \in Nat /\ registry[id].type \in Types \cup {"dead"}
    BY <1>1 DEF Shapes
  <2> QED
    BY <2>1, NoRecordType DEF Records
<1>3. Edit(rec)
  BY DEF RemoveShape
<1> HIDE DEF rec
<1> QED
  BY <1>2, <1>3

\* remove_shape.
LEMMA RemoveKeeps ==
    ASSUME IInv, NEW id \in DOMAIN registry, RemoveShape(id)
    PROVE  IInv' /\ stamp' = 1 - stamp
<1>1. PICK rec \in Records : /\ rec.id = id /\ rec.op = "remove" /\ rec.type = registry[id].type
                             /\ Edit(rec)
  BY RemoveIsEdit
<1>2. id \in Live /\ rec.type # "dead"
  BY <1>1 DEF Edit, Live, IsLive
<1> PICK B : B = Live \ {id}
  OBVIOUS
<1>3. Leads(rec, Live, B)
  BY <1>1, <1>2 DEF Leads
<1> QED
  BY <1>1, <1>3, EditKeeps

\* undo.
LEMMA UndoKeeps ==
    ASSUME IInv, Undo
    PROVE  IInv' /\ stamp' = 1 - stamp
<1> PICK D : D = DOMAIN registry
  OBVIOUS
<1> PICK A : A = Live
  OBVIOUS
<1> PICK r : r = Last(undoStack)
  OBVIOUS
<1>1. /\ registry \in Seq(Shapes) /\ bare \in BOOLEAN /\ stamp \in 0 .. 1
      /\ \A id \in DOMAIN registry : Shapely(registry[id])
      /\ Indexed
      /\ Histories /\ inOperation \in BOOLEAN /\ open \in Records
      /\ (~ inOperation => ~ HasOpen)
      /\ Lived
  BY DEF IInv, SceneInv, HistoryInv
<1>2. /\ ~ inOperation /\ undoStack # <<>> /\ Apply(Inverted(r))
      /\ undoStack' = Front(undoStack) /\ redoStack' = Append(redoStack, Last(undoStack))
      /\ UNCHANGED <<inOperation, open>>
  BY DEF Undo
<1>3. OnLine(D, A)
  BY <1>1, <1>2 DEF Lived, Reached
<1>4. /\ Histories' /\ r \in Records
      /\ \E N \in SUBSET D : OnLine(D, N)' /\ Leads(r, N, A)
  BY <1>1, <1>2, <1>3, OnLineUndo
<1>5. PICK N \in SUBSET D : OnLine(D, N)' /\ Leads(r, N, A)
  BY <1>4
<1>6. Inverted(r) \in Records /\ Leads(Inverted(r), Live, N) /\ Inverted(r).id = r.id
  BY <1>4, <1>5, InvertedLeads
<1>7. r.id \in DOMAIN registry
  BY <1>5, LivePlaces DEF Leads
<1>8. /\ registry' \in Seq(Shapes) /\ DOMAIN registry' = DOMAIN registry
      /\ \A id \in DOMAIN registry' : Shapely(registry'[id])
      /\ Live' = N
      /\ Indexed'
      /\ stamp' = 1 - stamp /\ bare' \in BOOLEAN
  BY <1>1, <1>2, <1>6, <1>7, ApplyKeeps
<1>9. ~ HasOpen'
  BY <1>1, <1>2 DEF HasOpen
<1>10. HistoryInv'
  BY <1>1, <1>2, <1>4, <1>5, <1>8, <1>9 DEF HistoryInv, Lived, Reached
<1>11. stamp' \in 0 .. 1
  BY <1>1, <1>8
<1> QED
  BY <1>8, <1>10, <1>11 DEF IInv, SceneInv

\* redo.
LEMMA RedoKeeps ==
    ASSUME IInv, Redo
    PROVE  IInv' /\ stamp' = 1 - stamp
<1> PICK D : D = DOMAIN registry
  OBVIOUS
<1> PICK A : A = Live
  OBVIOUS
<1> PICK r : r = Last(redoStack)
  OBVIOUS
<1>1. /\ registry \in Seq(Shapes) /\ bare \in BOOLEAN /\ stamp \in 0 .. 1
      /\ \A id \in DOMAIN registry : Shapely(registry[id])
      /\ Indexed
      /\ Histories /\ inOperation \in BOOLEAN /\ open \in Records
      /\ (~ inOperation => ~ HasOpen)
      /\ Lived
  BY DEF IInv, SceneInv, HistoryInv
<1>2. /\ ~ inOperation /\ redoStack # <<>> /\ Apply(r)
      /\ redoStack' = Front(redoStack) /\ undoStack' = Append(undoStack, Last(redoStack))
      /\ UNCHANGED <<inOperation, open>>
  BY DEF Redo
<1>3. OnLine(D, A)
  BY <1>1, <1>2 DEF Lived, Reached
<1>4. /\ Histories' /\ r \in Records
      /\ \E N \in SUBSET D : OnLine(D, N)' /\ Leads(r, A, N)
  BY <1>1, <1>2, <1>3, OnLineRedo
<1>5. PICK N \in SUBSET D : OnLine(D, N)' /\ Leads(r, A, N)
  BY <1>4
<1>7. r.id \in DOMAIN registry
  BY <1>5, LivePlaces DEF Leads
<1>8. /\ registry' \in Seq(Shapes) /\ DOMAIN registry' = DOMAIN registry
      /\ \A id \in DOMAIN registry' : Shapely(registry'[id])
      /\ Live' = N
      /\ Indexed'
      /\ stamp' = 1 - stamp /\ bare' \in BOOLEAN
  BY <1>1, <1>2, <1>4, <1>5, <1>7, ApplyKeeps
<1>9. ~ HasOpen'
  BY <1>1, <1>2 DEF HasOpen
<1>10. HistoryInv'
  BY <1>1, <1>2, <1>4, <1>5, <1>8, <1>9 DEF HistoryInv, Lived, Reached
<1>11. stamp' \in 0 .. 1
  BY <1>1, <1>8
<1> QED
  BY <1>8, <1>10, <1>11 DEF IInv, SceneInv

\* begin_operation and end_operation.
LEMMA OperationKeeps ==
    ASSUME IInv, BeginOperation \/ EndOperation
    PROVE  IInv' /\ UNCHANGED scene
<1>1. FinishOpen /\ open' = NoRecord /\ inOperation' \in BOOLEAN /\ UNCHANGED scene
  BY DEF BeginOperation, EndOperation
<1>2. HistoryInv'
  <2>1. HistoryInv /\ UNCHANGED registry
    BY <1>1 DEF IInv, scene
  <2> QED
    BY <1>1, <2>1, NoRecordType, FinishKeeps
<1>3. UNCHANGED <<registry, bare, index, nshape, stamp>>
  BY <1>1 DEF scene
<1>4. Live' = Live
  BY <1>3 DEF Live, IsLive
<1>5. SceneInv'
  BY <1>3, <1>4 DEF IInv, SceneInv, Indexed
<1> QED
  BY <1>1, <1>2, <1>5 DEF IInv

\* Empty histories are in order.
LEMMA EmptyLine ==
    ASSUME undoStack' = <<>>, redoStack' = <<>>
    PROVE  Histories' /\ OnLine({}, {})'
<1>1. Len(undoStack') = 0 /\ Len(redoStack') = 0 /\ Histories'
  BY DEF Histories
<1>2. Total' = 0
  BY <1>1 DEF Total
<1> DEFINE L == [k \in 0 .. 0 |-> {}]
<1>3. /\ L \in [0 .. Total' -> SUBSET {}]
      /\ \A k \in 1 .. Total' : Leads(At(k)', L[k - 1], L[k])
      /\ L[Len(undoStack')] = {}
  BY <1>1, <1>2
<1> HIDE DEF L
<1> QED
  BY <1>1, <1>3 DEF OnLine

\* clear.
LEMMA ClearKeeps ==
    ASSUME IInv, Clear
    PROVE  IInv' /\ stamp' = 1 - stamp
<1>1. /\ registry' = <<>> /\ bare' = FALSE /\ index' = {} /\ nshape' = 0
      /\ undoStack' = <<>> /\ redoStack' = <<>>
      /\ inOperation' = FALSE /\ open' = NoRecord /\ stamp' = 1 - stamp
  BY DEF Clear
<1>2. Histories' /\ OnLine({}, {})'
  BY <1>1, EmptyLine
<1>3. DOMAIN registry' = {} /\ Live' = {} /\ ~ HasOpen'
  BY <1>1 DEF Live, HasOpen
<1>4. HistoryInv'
  BY <1>1, <1>2, <1>3, NoRecordType DEF HistoryInv, Lived, Reached
<1>5. Cardinality({}) = 0
  BY FS_EmptySet
<1>6. stamp' \in 0 .. 1
  BY <1>1 DEF IInv, SceneInv
<1>7. registry' \in Seq(Shapes)
  BY <1>1
<1>8. SceneInv'
  BY <1>1, <1>3, <1>5, <1>6, <1>7 DEF SceneInv, Indexed
<1> QED
  BY <1>1, <1>4, <1>8 DEF IInv


-----------------------------------------------------------------------------
(* The theorems. *)

\* The canvas starts in order.
LEMMA InitIInv == Init => IInv
<1> SUFFICES ASSUME Init PROVE IInv
  OBVIOUS
<1>1. /\ registry = <<>> /\ bare = FALSE /\ index = {} /\ nshape = 0 /\ stamp = 0
      /\ undoStack = <<>> /\ redoStack = <<>> /\ inOperation = FALSE /\ open = NoRecord
  BY DEF Init
<1>2. Len(undoStack) = 0 /\ Len(redoStack) = 0 /\ Histories
  BY <1>1 DEF Histories
<1>3. OnLine({}, {})
  <2> DEFINE L == [k \in 0 .. 0 |-> {}]
  <2>1. Total = 0
    BY <1>2 DEF Total
  <2>2. /\ L \in [0 .. Total -> SUBSET {}]
        /\ \A k \in 1 .. Total : Leads(At(k), L[k - 1], L[k])
        /\ L[Len(undoStack)] = {}
    BY <1>2, <2>1
  <2> HIDE DEF L
  <2> QED
    BY <2>2 DEF OnLine
<1>4. DOMAIN registry = {} /\ Live = {} /\ ~ HasOpen
  BY <1>1 DEF Live, HasOpen
<1>5. HistoryInv
  BY <1>1, <1>2, <1>3, <1>4, NoRecordType DEF HistoryInv, Lived, Reached
<1>6. Cardinality({}) = 0
  BY FS_EmptySet
<1>7. registry \in Seq(Shapes)
  BY <1>1
<1>8. SceneInv
  <2>1. Indexed
    BY <1>1, <1>4, <1>6 DEF Indexed
  <2>2. stamp \in 0 .. 1
    BY <1>1
  <2>3. bare \in BOOLEAN
    BY <1>1, Zenon
  <2>4. \A id \in DOMAIN registry : Shapely(registry[id])
    BY <1>4
  <2> QED
    BY <1>7, <2>1, <2>2, <2>3, <2>4 DEF SceneInv
<1> QED
  BY <1>5, <1>8 DEF IInv

\* Every step keeps the canvas in order, and moves the stamp by one or leaves
\* the scene alone.
LEMMA NextIInv ==
    ASSUME IInv, [Next]_vars
    PROVE  IInv' /\ (stamp' = 1 - stamp \/ UNCHANGED scene)
<1>1. CASE \E f \in Forms : AddShape(f)
  BY <1>1, AddShapeKeeps
<1>2. CASE AddBare
  <2>1. /\ bare' = TRUE /\ stamp' = 1 - stamp
        /\ UNCHANGED <<registry, index, nshape, undoStack, redoStack, inOperation, open>>
    BY <1>2 DEF AddBare, history
  <2>2. /\ Live' = Live /\ HasOpen' = HasOpen /\ Total' = Total
        /\ \A k : At(k)' = At(k)
    BY <2>1 DEF Live, IsLive, HasOpen, Total, At
  <2>3. HistoryInv'
    BY <2>1, <2>2 DEF IInv, HistoryInv, Histories, Lived, Reached, OnLine
  <2>4. stamp' \in 0 .. 1
    BY <2>1 DEF IInv, SceneInv
  <2>5. SceneInv'
    BY <2>1, <2>2, <2>4 DEF IInv, SceneInv, Indexed
  <2> QED
    BY <2>1, <2>3, <2>5 DEF IInv
<1>3. CASE \E id \in DOMAIN registry, d \in Steps : TranslateShape(id, d)
  BY <1>3, MoveKeeps
<1>4. CASE \E id \in DOMAIN registry, angle \in Turns, c \in Pivots : RotateShape(id, angle, c)
  BY <1>4, MoveKeeps
<1>5. CASE \E id \in DOMAIN registry, refs \in Refs, d \in Steps : MoveShapePoints(id, refs, d)
  BY <1>5, MoveKeeps
<1>6. CASE \E id \in DOMAIN registry : RemoveShape(id)
  BY <1>6, RemoveKeeps
<1>7. CASE BeginOperation
  BY <1>7, OperationKeeps
<1>8. CASE EndOperation
  BY <1>8, OperationKeeps
<1>9. CASE Undo
  BY <1>9, UndoKeeps
<1>10. CASE Redo
  BY <1>10, RedoKeeps
<1>11. CASE Clear
  BY <1>11, ClearKeeps
<1>12. CASE UNCHANGED vars
  <2>1. UNCHANGED <<registry, bare, index, nshape, stamp, undoStack, redoStack, inOperation, open>>
        /\ UNCHANGED scene
    BY <1>12 DEF vars, scene, history
  <2>2. /\ Live' = Live /\ HasOpen' = HasOpen /\ Total' = Total
        /\ \A k : At(k)' = At(k)
    BY <2>1 DEF Live, IsLive, HasOpen, Total, At
  <2>3. HistoryInv'
    BY <2>1, <2>2 DEF IInv, HistoryInv, Histories, Lived, Reached, OnLine
  <2>4. SceneInv'
    BY <2>1, <2>2 DEF IInv, SceneInv, Indexed
  <2> QED
    BY <2>1, <2>3, <2>4 DEF IInv
<1> QED
  BY <1>1, <1>2, <1>3, <1>4, <1>5, <1>6, <1>7, <1>8, <1>9, <1>10, <1>11, <1>12 DEF Next

\* The invariant holds in every state of every behaviour.
LEMMA SpecIInv == Spec => []IInv
<1>1. IInv /\ [Next]_vars => IInv'
  BY NextIInv
<1> QED
  BY InitIInv, <1>1, PTL DEF Spec

\* The index holds every live shape at the box it has now, and nothing else; the
\* count agrees with it and the oriented boxes are tight, whatever mixture of
\* edits, gestures, undos and redos the canvas has seen.
THEOREM IndexFollows == Spec => []IndexInStep
<1>1. IInv => IndexInStep
  BY DEF IInv, SceneInv, Indexed, Shapely, IndexInStep, BoxFits
<1> QED
  BY SpecIInv, <1>1, PTL

\* A panel that compares stamps is never left with an old picture.
THEOREM ChangesAreStamped == Spec => StampMoves
<1>1. IInv /\ [Next]_vars => [Shown' # Shown => stamp' # stamp]_vars
  <2> SUFFICES ASSUME IInv, [Next]_vars, Shown' # Shown
               PROVE  stamp' # stamp
    OBVIOUS
  <2>1. stamp \in 0 .. 1
    BY DEF IInv, SceneInv
  <2>2. CASE stamp' = 1 - stamp
    BY <2>1, <2>2
  <2>3. CASE UNCHANGED scene
    BY <2>3 DEF scene, Shown, Live, IsLive
  <2> QED
    BY <2>2, <2>3, NextIInv
<1> QED
  BY SpecIInv, <1>1, PTL DEF Spec, StampMoves

\* The invariant types every variable.
LEMMA IsTyped == IInv => TypeOK
<1> SUFFICES ASSUME IInv PROVE TypeOK
  OBVIOUS
<1>1. \A id \in Live : Entry(id, registry[id]) \in [id : Nat, bbox : [lo : Places, hi : Places]]
  <2> TAKE id \in Live
  <2>1. id \in DOMAIN registry /\ DOMAIN registry = 1 .. Len(registry)
    BY LenProperties DEF IInv, SceneInv, Live
  <2>2. registry[id] \in Shapes /\ Shapely(registry[id])
    BY <2>1, ElementOfSeq DEF IInv, SceneInv
  <2>3. BoundBox(registry[id].points) \in Rectangles
    BY <2>2, BoundBoxType DEF Shapes, Shapely
  <2> QED
    BY <2>1, <2>3 DEF Entry, Rectangles
<1>2. index \subseteq [id : Nat, bbox : [lo : Places, hi : Places]]
  BY <1>1 DEF IInv, SceneInv, Indexed
<1>3. nshape \in Nat
  BY LivingFinite, LiveIs, FS_CardinalityType DEF IInv, SceneInv, Indexed
<1> QED
  BY <1>2, <1>3 DEF IInv, SceneInv, HistoryInv, Histories, TypeOK

\* Every variable of the canvas keeps its type.
THEOREM CanvasIsTyped == Spec => []TypeOK
  BY SpecIInv, IsTyped, PTL

-----------------------------------------------------------------------------
(* The film: what the canvas looked like at every place of the line of       *)
(* records that the two histories make up.                                   *)

\* What a picture shows of a shape.  Undoing a record leaves the oriented boxes
\* of a registry alone, which no picture shows.
Tracks == Seq(Places) \ {<<>>}
Bodies == [type : Types \cup {"dead"}, points : Tracks]
Body(s) == [type |-> s.type, points |-> s.points]
Outline(reg) == [id \in DOMAIN reg |-> Body(reg[id])]

\* The record leads from g to h, and its inverse back.
Fit(rec, g, h) == /\ rec.id \in DOMAIN g
                  /\ h = Redone(g, rec)
                  /\ g = Undone(h, rec)

RecordAt(un, re, k) == IF k <= Len(un) THEN un[k] ELSE re[Len(un) + Len(re) + 1 - k]

\* G is the film of a registry with these histories and this open record: every
\* record fits between two of its frames, the open one between the frame at
\* the cursor and the canvas.
Frames(G, D, un, re) ==
    /\ G \in [0 .. Len(un) + Len(re) -> [D -> Bodies]]
    /\ \A k \in 1 .. Len(un) + Len(re) : Fit(RecordAt(un, re, k), G[k - 1], G[k])
Shot(g, h, rec) == IF rec # NoRecord THEN Fit(rec, g, h) ELSE g = h
Film(G, reg, un, re, rec) ==
    Frames(G, DOMAIN reg, un, re) /\ Shot(G[Len(un)], Outline(reg), rec)

Filmed(G) == Film(G, registry, undoStack, redoStack, open)


-----------------------------------------------------------------------------
(* Records and their inverses, on points. *)

Moves == {"translate", "rotate", "movePoints"}

\* The records that move points, point by point.
Shifted(p, rec, i) ==
    CASE rec.op = "translate"  -> Plus(p, rec.d)
      [] rec.op = "rotate"     -> Turned(p, rec.angle, rec.c)
      [] rec.op = "movePoints" -> Plus(p, <<Times(rec.refs, i) * rec.d[1],
                                            Times(rec.refs, i) * rec.d[2]>>)

\* What a record says, part by part.
LEMMA RecordParts ==
    ASSUME NEW rec \in Records
    PROVE  /\ rec.op \in {"create", "remove", "translate", "rotate", "movePoints"}
           /\ rec.d \in Places /\ rec.d[1] \in Int /\ rec.d[2] \in Int
           /\ rec.angle \in Int /\ rec.c \in Places /\ rec.refs \in Seq(Nat)
           /\ rec.type \in Types \cup {"dead"} /\ rec.id \in Nat
           /\ \A i : Times(rec.refs, i) \in Nat
  BY TimesType DEF Records, Places

\* A moved point is a place.
LEMMA ShiftedType ==
    ASSUME NEW p \in Places, NEW rec \in Records, rec.op \in Moves, NEW i
    PROVE  Shifted(p, rec, i) \in Places
<1>1. CASE rec.op = "translate"
  <2>1. Shifted(p, rec, i) = Plus(p, rec.d)
    BY <1>1 DEF Shifted
  <2> QED
    BY <2>1, RecordParts DEF Plus, Places
<1>2. CASE rec.op = "rotate"
  BY <1>2, RecordParts, TurnedBack DEF Shifted
<1>3. CASE rec.op = "movePoints"
  <2> DEFINE n == Times(rec.refs, i)
  <2>1. Shifted(p, rec, i) = Plus(p, <<n * rec.d[1], n * rec.d[2]>>)
    BY <1>3 DEF Shifted
  <2>2. n \in Nat /\ rec.d[1] \in Int /\ rec.d[2] \in Int
    BY RecordParts
  <2> HIDE DEF n
  <2>3. n * rec.d[1] \in Int /\ n * rec.d[2] \in Int
    BY <2>2
  <2> QED
    BY <2>1, <2>3 DEF Plus, Places
<1> QED
  BY <1>1, <1>2, <1>3 DEF Moves

\* The points after a record that moves them; any other leaves them alone.
LEMMA NewPointsIs ==
    ASSUME NEW P \in Tracks, NEW rec \in Records
    PROVE  /\ NewPoints(P, rec) \in Tracks
           /\ DOMAIN NewPoints(P, rec) = DOMAIN P
           /\ rec.op \in Moves =>
                  NewPoints(P, rec) = [i \in DOMAIN P |-> Shifted(P[i], rec, i)]
           /\ rec.op \notin Moves => NewPoints(P, rec) = P
<1> DEFINE R == [i \in DOMAIN P |-> Shifted(P[i], rec, i)]
<1>1. /\ P \in Seq(Places) /\ P # <<>> /\ Len(P) \in Nat /\ Len(P) # 0
      /\ DOMAIN P = 1 .. Len(P) /\ \A i \in 1 .. Len(P) : P[i] \in Places
  <2>1. P \in Seq(Places) /\ P # <<>>
    BY DEF Tracks
  <2> QED
    BY <2>1, LenProperties, ElementOfSeq
<1>2. CASE rec.op \in Moves
  <2>1. NewPoints(P, rec) = R
    BY <1>2 DEF NewPoints, Shifted, Moves
  <2>2. \A i \in 1 .. Len(P) : Shifted(P[i], rec, i) \in Places
    BY <1>1, <1>2, ShiftedType
  <2>3. R \in [1 .. Len(P) -> Places]
    BY <1>1, <2>2
  <2> HIDE DEF R
  <2>4. R \in Seq(Places) /\ Len(R) = Len(P)
    BY <1>1, <2>3, FunctionIsList
  <2>5. R # <<>>
    BY <1>1, <2>4
  <2>6. DOMAIN R = DOMAIN P
    BY <1>1, <2>3
  <2>7. R \in Tracks
    BY <2>4, <2>5 DEF Tracks
  <2> QED
    BY <1>2, <2>1, <2>6, <2>7 DEF R
<1>3. CASE rec.op \notin Moves
  <2>1. NewPoints(P, rec) = P
    BY <1>3 DEF NewPoints, Moves
  <2> QED
    BY <1>3, <2>1
<1> QED
  BY <1>2, <1>3

\* The parts of an inverse.
LEMMA InvertedParts ==
    ASSUME NEW rec \in Records
    PROVE  /\ Inverted(rec) \in Records
           /\ Inverted(rec).op = InverseOp(rec.op) /\ Inverted(rec).id = rec.id
           /\ Inverted(rec).type = rec.type
           /\ Inverted(rec).d = Negated(rec.d) /\ Inverted(rec).angle = -rec.angle
           /\ Inverted(rec).c = rec.c /\ Inverted(rec).refs = rec.refs
           /\ rec.op \in Moves => Inverted(rec).op = rec.op
           /\ rec.op \notin Moves => Inverted(rec).op \notin Moves
<1>1. Inverted(rec) \in Records
  BY InvertedLeads
<1>2. rec = [op |-> rec.op, id |-> rec.id, type |-> rec.type, d |-> rec.d,
             angle |-> rec.angle, c |-> rec.c, refs |-> rec.refs]
  BY DEF Records
<1>3. /\ Inverted(rec).op = InverseOp(rec.op) /\ Inverted(rec).id = rec.id
      /\ Inverted(rec).type = rec.type
      /\ Inverted(rec).d = Negated(rec.d) /\ Inverted(rec).angle = -rec.angle
      /\ Inverted(rec).c = rec.c /\ Inverted(rec).refs = rec.refs
  BY <1>2 DEF Inverted
<1>4. /\ rec.op \in Moves => InverseOp(rec.op) = rec.op
      /\ rec.op \notin Moves => InverseOp(rec.op) \notin Moves
  BY RecordParts DEF InverseOp, Moves
<1> QED
  BY <1>1, <1>3, <1>4

\* The inverse takes a moved point back.
LEMMA ShiftedBack ==
    ASSUME NEW p \in Places, NEW rec \in Records, rec.op \in Moves, NEW i
    PROVE  Shifted(Shifted(p, rec, i), Inverted(rec), i) = p
<1> DEFINE inv == Inverted(rec)
<1>1. /\ inv.op = rec.op /\ inv.d = Negated(rec.d) /\ inv.angle = -rec.angle
      /\ inv.c = rec.c /\ inv.refs = rec.refs
  BY InvertedParts
<1> HIDE DEF inv
<1>2. p[1] \in Int /\ p[2] \in Int /\ p = <<p[1], p[2]>>
  BY DEF Places
<1>3. /\ rec.d[1] \in Int /\ rec.d[2] \in Int /\ rec.angle \in Int /\ rec.c \in Places
      /\ Times(rec.refs, i) \in Nat
  BY RecordParts
<1>4. inv.d = <<- rec.d[1], - rec.d[2]>>
  BY <1>1, <1>3 DEF Negated, Minus
<1>5. CASE rec.op = "translate"
  <2>1. Shifted(p, rec, i) = <<p[1] + rec.d[1], p[2] + rec.d[2]>>
    BY <1>5 DEF Shifted, Plus
  <2>2. \A q : Shifted(q, inv, i) = <<q[1] + (- rec.d[1]), q[2] + (- rec.d[2])>>
    BY <1>1, <1>4, <1>5 DEF Shifted, Plus
  <2> QED
    BY <1>2, <1>3, <2>1, <2>2 DEF inv
<1>6. CASE rec.op = "rotate"
  <2>1. \A q : Shifted(q, rec, i) = Turned(q, rec.angle, rec.c)
    BY <1>6 DEF Shifted
  <2>2. \A q : Shifted(q, inv, i) = Turned(q, - rec.angle, rec.c)
    BY <1>1, <1>6 DEF Shifted
  <2> QED
    BY <1>3, <2>1, <2>2, TurnedBack DEF inv
<1>7. CASE rec.op = "movePoints"
  <2> DEFINE n == Times(rec.refs, i)
  <2>1. Shifted(p, rec, i) = <<p[1] + n * rec.d[1], p[2] + n * rec.d[2]>>
    BY <1>7 DEF Shifted, Plus
  <2>2. \A q : Shifted(q, inv, i) = <<q[1] + n * (- rec.d[1]), q[2] + n * (- rec.d[2])>>
    BY <1>1, <1>4, <1>7 DEF Shifted, Plus
  <2> HIDE DEF n
  <2>3. n \in Nat
    BY <1>3 DEF n
  <2>4. n * (- rec.d[1]) = - (n * rec.d[1]) /\ n * (- rec.d[2]) = - (n * rec.d[2])
    BY <1>3, <2>3
  <2>5. n * rec.d[1] \in Int /\ n * rec.d[2] \in Int
    BY <1>3, <2>3
  <2> QED
    BY <1>2, <2>1, <2>2, <2>4, <2>5 DEF inv
<1> QED
  BY <1>5, <1>6, <1>7 DEF Moves

\* A record that does nothing leaves a point where it is.
LEMMA ShiftedNot ==
    ASSUME NEW p \in Places, NEW rec \in Records, IsNoop(rec), NEW i
    PROVE  rec.op \in Moves /\ Shifted(p, rec, i) = p
<1>1. p[1] \in Int /\ p[2] \in Int /\ p = <<p[1], p[2]>>
  BY DEF Places
<1>2. Times(rec.refs, i) \in Nat /\ rec.c \in Places /\ rec.c[1] \in Int /\ rec.c[2] \in Int
  BY RecordParts DEF Places
<1>3. CASE rec.op = "translate" /\ rec.d = <<0, 0>>
  BY <1>1, <1>3 DEF Shifted, Plus, Moves
<1>4. CASE rec.op = "movePoints" /\ rec.d = <<0, 0>>
  <2> DEFINE n == Times(rec.refs, i)
  <2>1. Shifted(p, rec, i) = <<p[1] + n * 0, p[2] + n * 0>>
    BY <1>4 DEF Shifted, Plus
  <2> HIDE DEF n
  <2>2. n \in Nat
    BY <1>2 DEF n
  <2>3. n * 0 = 0
    BY <2>2
  <2> QED
    BY <1>1, <1>4, <2>1, <2>3 DEF Moves
<1>5. CASE rec.op = "rotate" /\ rec.angle = 0
  <2>1. Shifted(p, rec, i) = Turned(p, 0, rec.c)
    BY <1>5 DEF Shifted
  <2>2. Turned(p, 0, rec.c) = Plus(rec.c, Minus(p, rec.c))
    BY DEF Turned
  <2>3. Plus(rec.c, Minus(p, rec.c)) = p
    BY <1>1, <1>2 DEF Plus, Minus
  <2> QED
    BY <1>5, <2>1, <2>2, <2>3 DEF Moves
<1> QED
  BY <1>3, <1>4, <1>5 DEF IsNoop

\* Quarter turns about the same centre add up.
LEMMA TurnedTwice ==
    ASSUME NEW p \in Places, NEW c \in Places, NEW m \in Int, NEW n \in Int
    PROVE  Turned(Turned(p, m, c), n, c) = Turned(p, m + n, c)
<1>1. p[1] \in Int /\ p[2] \in Int /\ c[1] \in Int /\ c[2] \in Int /\ p = <<p[1], p[2]>>
  BY DEF Places
<1>2. m % 4 \in 0 .. 3 /\ n % 4 \in 0 .. 3 /\ (m + n) % 4 = ((m % 4) + (n % 4)) % 4
  OBVIOUS
<1>3. ASSUME NEW a \in Int, NEW q \in Places
      PROVE  /\ a % 4 = 0 => Turned(q, a, c) = q
             /\ a % 4 = 1 => Turned(q, a, c) = <<c[1] - (q[2] - c[2]), c[2] + (q[1] - c[1])>>
             /\ a % 4 = 2 => Turned(q, a, c) = <<c[1] - (q[1] - c[1]), c[2] - (q[2] - c[2])>>
             /\ a % 4 = 3 => Turned(q, a, c) = <<c[1] + (q[2] - c[2]), c[2] - (q[1] - c[1])>>
  <2>1. q[1] \in Int /\ q[2] \in Int /\ q = <<q[1], q[2]>>
    BY DEF Places
  <2>2. CASE a % 4 = 0
    <3>1. Turned(q, a, c) = Plus(c, Minus(q, c))
      BY <2>2 DEF Turned
    <3> QED
      BY <1>1, <2>1, <2>2, <3>1 DEF Plus, Minus
  <2>3. CASE a % 4 = 1
    <3>1. Turned(q, a, c) = Plus(c, QuarterTurn(Minus(q, c)))
      BY <2>3 DEF Turned
    <3> QED
      BY <1>1, <2>1, <2>3, <3>1 DEF Plus, Minus, QuarterTurn
  <2>4. CASE a % 4 = 2
    <3>1. Turned(q, a, c) = Plus(c, Negated(Minus(q, c)))
      BY <2>4 DEF Turned
    <3> QED
      BY <1>1, <2>1, <2>4, <3>1 DEF Plus, Minus, Negated
  <2>5. CASE a % 4 = 3
    <3>1. Turned(q, a, c) = Plus(c, Negated(QuarterTurn(Minus(q, c))))
      BY <2>5 DEF Turned
    <3> QED
      BY <1>1, <2>1, <2>5, <3>1 DEF Plus, Minus, Negated, QuarterTurn
  <2>6. a % 4 \in 0 .. 3
    OBVIOUS
  <2> QED
    BY <2>2, <2>3, <2>4, <2>5, <2>6
<1>4. Turned(p, m, c) \in Places /\ m + n \in Int
  BY TurnedBack
<1> DEFINE q == Turned(p, m, c)
<1>5. q \in Places /\ q[1] \in Int /\ q[2] \in Int
  BY <1>4 DEF Places
<1>6. CASE m % 4 = 0
  <2>1. q = p
    BY <1>3, <1>6
  <2>2. (m + n) % 4 = n % 4
    BY <1>2, <1>6
  <2>3. Turned(p, n, c) = Turned(p, m + n, c)
    BY <2>2 DEF Turned
  <2> QED
    BY <2>1, <2>3
<1>7. CASE n % 4 = 0
  <2>1. Turned(q, n, c) = q
    BY <1>3, <1>5, <1>7
  <2>2. (m + n) % 4 = m % 4
    BY <1>2, <1>7
  <2>3. Turned(p, m, c) = Turned(p, m + n, c)
    BY <2>2 DEF Turned
  <2> QED
    BY <2>1, <2>3
<1>8. CASE (m + n) % 4 = 0
  <2>1. n % 4 = (- m) % 4
    BY <1>2, <1>8
  <2>2. Turned(q, n, c) = Turned(q, - m, c)
    BY <2>1 DEF Turned
  <2>3. Turned(q, - m, c) = p
    BY TurnedBack
  <2>4. Turned(p, m + n, c) = p
    BY <1>3, <1>4, <1>8
  <2> QED
    BY <2>2, <2>3, <2>4
<1>9. CASE m % 4 = 1 /\ n % 4 = 1
  <2>1. q = <<c[1] - (p[2] - c[2]), c[2] + (p[1] - c[1])>>
    BY <1>3, <1>9
  <2>2. (m + n) % 4 = 2
    BY <1>2, <1>9
  <2> HIDE DEF q
  <2>3. Turned(q, n, c) = <<c[1] - (q[2] - c[2]), c[2] + (q[1] - c[1])>>
    BY <1>3, <1>5, <1>9
  <2>4. Turned(p, m + n, c) = <<c[1] - (p[1] - c[1]), c[2] - (p[2] - c[2])>>
    BY <1>3, <1>4, <2>2
  <2>5. q[1] = c[1] - (p[2] - c[2]) /\ q[2] = c[2] + (p[1] - c[1])
    BY <2>1
  <2>6. Turned(q, n, c) = Turned(p, m + n, c)
    BY <1>1, <2>3, <2>4, <2>5
  <2> QED
    BY <2>6 DEF q
<1>10. CASE m % 4 = 1 /\ n % 4 = 2
  <2>1. q = <<c[1] - (p[2] - c[2]), c[2] + (p[1] - c[1])>>
    BY <1>3, <1>10
  <2>2. (m + n) % 4 = 3
    BY <1>2, <1>10
  <2> HIDE DEF q
  <2>3. Turned(q, n, c) = <<c[1] - (q[1] - c[1]), c[2] - (q[2] - c[2])>>
    BY <1>3, <1>5, <1>10
  <2>4. Turned(p, m + n, c) = <<c[1] + (p[2] - c[2]), c[2] - (p[1] - c[1])>>
    BY <1>3, <1>4, <2>2
  <2>5. q[1] = c[1] - (p[2] - c[2]) /\ q[2] = c[2] + (p[1] - c[1])
    BY <2>1
  <2>6. Turned(q, n, c) = Turned(p, m + n, c)
    BY <1>1, <2>3, <2>4, <2>5
  <2> QED
    BY <2>6 DEF q
<1>11. CASE m % 4 = 2 /\ n % 4 = 1
  <2>1. q = <<c[1] - (p[1] - c[1]), c[2] - (p[2] - c[2])>>
    BY <1>3, <1>11
  <2>2. (m + n) % 4 = 3
    BY <1>2, <1>11
  <2> HIDE DEF q
  <2>3. Turned(q, n, c) = <<c[1] - (q[2] - c[2]), c[2] + (q[1] - c[1])>>
    BY <1>3, <1>5, <1>11
  <2>4. Turned(p, m + n, c) = <<c[1] + (p[2] - c[2]), c[2] - (p[1] - c[1])>>
    BY <1>3, <1>4, <2>2
  <2>5. q[1] = c[1] - (p[1] - c[1]) /\ q[2] = c[2] - (p[2] - c[2])
    BY <2>1
  <2>6. Turned(q, n, c) = Turned(p, m + n, c)
    BY <1>1, <2>3, <2>4, <2>5
  <2> QED
    BY <2>6 DEF q
<1>12. CASE m % 4 = 2 /\ n % 4 = 3
  <2>1. q = <<c[1] - (p[1] - c[1]), c[2] - (p[2] - c[2])>>
    BY <1>3, <1>12
  <2>2. (m + n) % 4 = 1
    BY <1>2, <1>12
  <2> HIDE DEF q
  <2>3. Turned(q, n, c) = <<c[1] + (q[2] - c[2]), c[2] - (q[1] - c[1])>>
    BY <1>3, <1>5, <1>12
  <2>4. Turned(p, m + n, c) = <<c[1] - (p[2] - c[2]), c[2] + (p[1] - c[1])>>
    BY <1>3, <1>4, <2>2
  <2>5. q[1] = c[1] - (p[1] - c[1]) /\ q[2] = c[2] - (p[2] - c[2])
    BY <2>1
  <2>6. Turned(q, n, c) = Turned(p, m + n, c)
    BY <1>1, <2>3, <2>4, <2>5
  <2> QED
    BY <2>6 DEF q
<1>13. CASE m % 4 = 3 /\ n % 4 = 2
  <2>1. q = <<c[1] + (p[2] - c[2]), c[2] - (p[1] - c[1])>>
    BY <1>3, <1>13
  <2>2. (m + n) % 4 = 1
    BY <1>2, <1>13
  <2> HIDE DEF q
  <2>3. Turned(q, n, c) = <<c[1] - (q[1] - c[1]), c[2] - (q[2] - c[2])>>
    BY <1>3, <1>5, <1>13
  <2>4. Turned(p, m + n, c) = <<c[1] - (p[2] - c[2]), c[2] + (p[1] - c[1])>>
    BY <1>3, <1>4, <2>2
  <2>5. q[1] = c[1] + (p[2] - c[2]) /\ q[2] = c[2] - (p[1] - c[1])
    BY <2>1
  <2>6. Turned(q, n, c) = Turned(p, m + n, c)
    BY <1>1, <2>3, <2>4, <2>5
  <2> QED
    BY <2>6 DEF q
<1>14. CASE m % 4 = 3 /\ n % 4 = 3
  <2>1. q = <<c[1] + (p[2] - c[2]), c[2] - (p[1] - c[1])>>
    BY <1>3, <1>14
  <2>2. (m + n) % 4 = 2
    BY <1>2, <1>14
  <2> HIDE DEF q
  <2>3. Turned(q, n, c) = <<c[1] + (q[2] - c[2]), c[2] - (q[1] - c[1])>>
    BY <1>3, <1>5, <1>14
  <2>4. Turned(p, m + n, c) = <<c[1] - (p[1] - c[1]), c[2] - (p[2] - c[2])>>
    BY <1>3, <1>4, <2>2
  <2>5. q[1] = c[1] + (p[2] - c[2]) /\ q[2] = c[2] - (p[1] - c[1])
    BY <2>1
  <2>6. Turned(q, n, c) = Turned(p, m + n, c)
    BY <1>1, <2>3, <2>4, <2>5
  <2> QED
    BY <2>6 DEF q
<1>15. (m % 4 = 1 /\ n % 4 = 3) \/ (m % 4 = 2 /\ n % 4 = 2) \/ (m % 4 = 3 /\ n % 4 = 1)
           => (m + n) % 4 = 0
  BY <1>2
<1> QED
  BY <1>2, <1>6, <1>7, <1>8, <1>9, <1>10, <1>11, <1>12, <1>13, <1>14, <1>15

-----------------------------------------------------------------------------
(* Records and their inverses, on bodies. *)

\* A record changes the body of its shape only.
LEMMA RedoneIs ==
    ASSUME NEW D, NEW g \in [D -> Bodies], NEW rec \in Records, rec.id \in D
    PROVE  LET b == [type |-> NewType(g[rec.id].type, rec),
                     points |-> NewPoints(g[rec.id].points, rec)]
           IN  b \in Bodies /\ Redone(g, rec) = [g EXCEPT ![rec.id] = b]
                   /\ Redone(g, rec) \in [D -> Bodies]
<1> DEFINE P == g[rec.id].points
           t == g[rec.id].type
           Q == NewPoints(P, rec)
           b == [type |-> NewType(t, rec), points |-> Q]
<1>1. /\ g[rec.id] \in Bodies /\ P \in Tracks /\ t \in Types \cup {"dead"}
      /\ g[rec.id] = [type |-> t, points |-> P]
  BY DEF Bodies
<1>2. Q \in Tracks
  BY <1>1, NewPointsIs
<1>3. NewType(t, rec) \in Types \cup {"dead"}
  BY <1>1, RecordParts DEF NewType
<1>4. b \in Bodies
  BY <1>2, <1>3 DEF Bodies
<1>5. Redone(g, rec) = [g EXCEPT ![rec.id] = b]
  <2> HIDE DEF Q
  <2>1. DOMAIN g = D
    OBVIOUS
  <2>2. Redone(g, rec) = [g EXCEPT ![rec.id].points = Q, ![rec.id].type = NewType(t, rec)]
    BY DEF Redone, Q
  <2> QED
    BY <1>1, <2>1, <2>2
<1>6. Redone(g, rec) \in [D -> Bodies]
  <2> HIDE DEF b
  <2> QED
    BY <1>4, <1>5
<1> QED
  BY <1>4, <1>5, <1>6

\* Two frames that differ in one body.
LEMMA Replaced ==
    ASSUME NEW D, NEW g \in [D -> Bodies], NEW i \in D, NEW b
    PROVE  /\ [g EXCEPT ![i] = b][i] = b
           /\ [[g EXCEPT ![i] = b] EXCEPT ![i] = g[i]] = g
           /\ \A c : [[g EXCEPT ![i] = b] EXCEPT ![i] = c] = [g EXCEPT ![i] = c]
  OBVIOUS

\* Moving the points of a body and moving them back.
LEMMA PointsBack ==
    ASSUME NEW P \in Tracks, NEW rec \in Records
    PROVE  NewPoints(NewPoints(P, rec), Inverted(rec)) = P
<1> DEFINE inv == Inverted(rec)
           Q == NewPoints(P, rec)
           R == NewPoints(Q, inv)
<1>1. inv \in Records
  BY InvertedParts
<1>2. Q \in Tracks /\ DOMAIN Q = DOMAIN P
  BY NewPointsIs
<1>3. CASE rec.op \in Moves
  <2>1. inv.op \in Moves
    BY <1>3, InvertedParts
  <2>2. Q = [i \in DOMAIN P |-> Shifted(P[i], rec, i)]
    BY <1>3, NewPointsIs
  <2>3. R = [i \in DOMAIN Q |-> Shifted(Q[i], inv, i)]
    <3> HIDE DEF Q, inv
    <3> QED
      BY <1>1, <1>2, <2>1, NewPointsIs
  <2>4. \A i \in DOMAIN P : Shifted(Shifted(P[i], rec, i), inv, i) = P[i]
    <3>1. \A i \in DOMAIN P : P[i] \in Places
      BY LenProperties, ElementOfSeq DEF Tracks
    <3> QED
      BY <1>3, <3>1, ShiftedBack
  <2>5. P = [i \in DOMAIN P |-> P[i]]
    BY DEF Tracks
  <2> HIDE DEF Q, inv
  <2>6. R = [i \in DOMAIN P |-> P[i]]
    BY <1>2, <2>2, <2>3, <2>4
  <2> QED
    BY <2>5, <2>6 DEF inv, Q
<1>4. CASE rec.op \notin Moves
  <2>1. inv.op \notin Moves
    BY <1>4, InvertedParts
  <2>2. Q = P
    BY <1>4, NewPointsIs
  <2> QED
    BY <1>1, <2>1, <2>2, NewPointsIs
<1> QED
  BY <1>3, <1>4

\* The record finds its shape as it needs it.
Applies(rec, g) == /\ rec.op = "create" => g[rec.id].type = "dead"
                   /\ rec.op = "remove" => g[rec.id].type = rec.type

\* A record that applies to a frame fits between it and what it makes of it.
LEMMA FitForward ==
    ASSUME NEW D, NEW g \in [D -> Bodies], NEW rec \in Records, rec.id \in D,
           Applies(rec, g)
    PROVE  Fit(rec, g, Redone(g, rec)) /\ Redone(g, rec) \in [D -> Bodies]
<1> DEFINE i == rec.id
           inv == Inverted(rec)
           h == Redone(g, rec)
           b == [type |-> NewType(g[i].type, rec), points |-> NewPoints(g[i].points, rec)]
           c == [type |-> NewType(b.type, inv), points |-> NewPoints(b.points, inv)]
<1>1. b \in Bodies /\ h = [g EXCEPT ![i] = b] /\ h \in [D -> Bodies]
  BY RedoneIs
<1>2. inv \in Records /\ inv.id = i /\ inv.type = rec.type /\ inv.op = InverseOp(rec.op)
  BY InvertedParts
<1>3. h[i] = b
  BY <1>1, Replaced
<1>4. Redone(h, inv) = [h EXCEPT ![i] = c]
  <2> HIDE DEF h, inv, b
  <2> QED
    BY ZenonT(60), <1>1, <1>2, <1>3, RedoneIs
<1>5. c = g[i]
  <2>1. g[i] \in Bodies /\ g[i].points \in Tracks
    BY DEF Bodies
  <2>2. b.points = NewPoints(g[i].points, rec) /\ b.type = NewType(g[i].type, rec)
    OBVIOUS
  <2>3. NewPoints(b.points, inv) = g[i].points
    BY <2>1, <2>2, PointsBack
  <2>4. NewType(b.type, inv) = g[i].type
    <3>1. rec.op \in {"create", "remove", "translate", "rotate", "movePoints"}
      BY RecordParts
    <3> HIDE DEF b, inv
    <3> QED
      BY <1>2, <2>2, <3>1 DEF NewType, InverseOp, Applies
  <2> HIDE DEF b, inv
  <2>5. g[i] = [type |-> g[i].type, points |-> g[i].points]
    BY <2>1 DEF Bodies
  <2> QED
    BY <2>3, <2>4, <2>5
<1>6. Redone(h, inv) = g
  <2> HIDE DEF b, c, h, inv
  <2> QED
    BY <1>1, <1>4, <1>5, Replaced
<1>7. i \in DOMAIN g
  OBVIOUS
<1> HIDE DEF h
<1> QED
  BY <1>1, <1>6, <1>7 DEF Fit, Undone, h

\* A record that does nothing leads back to the frame it started from.
LEMMA FitNoop ==
    ASSUME NEW D, NEW g \in [D -> Bodies], NEW rec \in Records, IsNoop(rec),
           NEW h, Fit(rec, g, h)
    PROVE  h = g
<1> DEFINE i == rec.id
           P == g[i].points
           b == [type |-> NewType(g[i].type, rec), points |-> NewPoints(P, rec)]
<1>1. i \in D /\ h = Redone(g, rec)
  BY DEF Fit
<1>2. h = [g EXCEPT ![i] = b]
  BY <1>1, RedoneIs
<1>3. g[i] \in Bodies /\ P \in Tracks /\ g[i] = [type |-> g[i].type, points |-> P]
  BY <1>1 DEF Bodies
<1>4. \A k \in DOMAIN P : P[k] \in Places
  BY <1>3, LenProperties, ElementOfSeq DEF Tracks
<1>5. rec.op \in Moves
  BY DEF IsNoop, Moves
<1>6. NewPoints(P, rec) = P
  <2>1. NewPoints(P, rec) = [k \in DOMAIN P |-> Shifted(P[k], rec, k)]
    BY <1>3, <1>5, NewPointsIs
  <2>2. \A k \in DOMAIN P : Shifted(P[k], rec, k) = P[k]
    BY <1>4, ShiftedNot
  <2>3. P = [k \in DOMAIN P |-> P[k]]
    BY <1>3 DEF Tracks
  <2> HIDE DEF P
  <2> QED
    BY <2>1, <2>2, <2>3
<1>7. NewType(g[i].type, rec) = g[i].type
  BY <1>5 DEF NewType, Moves
<1>8. b = g[i]
  BY <1>3, <1>6, <1>7
<1> HIDE DEF b
<1> QED
  BY <1>1, <1>2, <1>8

\* What two records of one gesture merge into.
Combined(o, rec) == [o EXCEPT !.d = Plus(@, rec.d), !.angle = @ + rec.angle]
Alike(o, rec) == o.id = rec.id /\ o.op = rec.op /\ o.c = rec.c /\ o.refs = rec.refs

\* A merged record is a record of the same kind, for the same shape.
LEMMA CombinedParts ==
    ASSUME NEW o \in Records, NEW rec \in Records
    PROVE  LET m == Combined(o, rec)
           IN  /\ m \in Records
               /\ m.op = o.op /\ m.id = o.id /\ m.type = o.type /\ m.c = o.c /\ m.refs = o.refs
               /\ m.d = <<o.d[1] + rec.d[1], o.d[2] + rec.d[2]>>
               /\ m.angle = o.angle + rec.angle
<1> DEFINE m == Combined(o, rec)
           d == <<o.d[1] + rec.d[1], o.d[2] + rec.d[2]>>
<1>1. m = [op |-> o.op, id |-> o.id, type |-> o.type, d |-> d,
           angle |-> o.angle + rec.angle, c |-> o.c, refs |-> o.refs]
  <2>1. Plus(o.d, rec.d) = d
    BY DEF Plus
  <2> DEFINE a == o.angle + rec.angle
  <2>2. m = [o EXCEPT !.d = d, !.angle = a]
    <3> HIDE DEF d
    <3> QED
      BY <2>1 DEF Combined
  <2>3. d \in Places /\ a \in Int
    BY RecordParts DEF Places
  <2> HIDE DEF d, a, m
  <2>4. m \in Records /\ m.d = d /\ m.angle = a
    BY <2>2, <2>3 DEF Records
  <2>5. /\ m.op = o.op /\ m.id = o.id /\ m.type = o.type /\ m.c = o.c /\ m.refs = o.refs
    BY <2>2, <2>3 DEF Records
  <2>6. m = [op |-> m.op, id |-> m.id, type |-> m.type, d |-> m.d,
             angle |-> m.angle, c |-> m.c, refs |-> m.refs]
    BY <2>4 DEF Records
  <2> QED
    BY <2>4, <2>5, <2>6 DEF a
<1>2. d \in Places /\ o.angle + rec.angle \in Int
  BY RecordParts DEF Places
<1> HIDE DEF d, m
<1>3. m \in Records
  BY <1>1, <1>2 DEF Records
<1> QED
  BY <1>1, <1>3 DEF d, m

\* A point that is moved twice is moved by the sum.
LEMMA ShiftedTwice ==
    ASSUME NEW p \in Places, NEW o \in Records, NEW rec \in Records, o.op \in Moves,
           Alike(o, rec), NEW i
    PROVE  Shifted(Shifted(p, o, i), rec, i) = Shifted(p, Combined(o, rec), i)
<1> DEFINE m == Combined(o, rec)
           e == rec.d
           n == Times(o.refs, i)
<1>1. /\ m.op = o.op /\ m.c = o.c /\ m.refs = o.refs
      /\ m.d = <<o.d[1] + e[1], o.d[2] + e[2]>> /\ m.angle = o.angle + rec.angle
  BY CombinedParts
<1>2. p[1] \in Int /\ p[2] \in Int /\ p = <<p[1], p[2]>>
  BY DEF Places
<1>3. /\ o.d[1] \in Int /\ o.d[2] \in Int /\ e[1] \in Int /\ e[2] \in Int /\ n \in Nat
      /\ o.angle \in Int /\ rec.angle \in Int /\ o.c \in Places
  BY RecordParts
<1>4. rec.op = o.op /\ rec.c = o.c /\ rec.refs = o.refs
  BY DEF Alike
<1> HIDE DEF m, e
<1>5. CASE o.op = "translate"
  <2>1. Shifted(p, o, i) = <<p[1] + o.d[1], p[2] + o.d[2]>>
    BY <1>5 DEF Shifted, Plus
  <2>2. \A q : Shifted(q, rec, i) = <<q[1] + e[1], q[2] + e[2]>>
    BY <1>4, <1>5 DEF Shifted, Plus, e
  <2>3. Shifted(p, m, i) = <<p[1] + (o.d[1] + e[1]), p[2] + (o.d[2] + e[2])>>
    BY <1>1, <1>5 DEF Shifted, Plus
  <2>4. Shifted(Shifted(p, o, i), rec, i) = Shifted(p, m, i)
    BY <1>2, <1>3, <2>1, <2>2, <2>3
  <2> QED
    BY <2>4 DEF m
<1>6. CASE o.op = "rotate"
  <2>1. Shifted(p, o, i) = Turned(p, o.angle, o.c)
    BY <1>6 DEF Shifted
  <2>2. \A q : Shifted(q, rec, i) = Turned(q, rec.angle, o.c)
    BY <1>4, <1>6 DEF Shifted
  <2>3. Shifted(p, m, i) = Turned(p, o.angle + rec.angle, o.c)
    BY <1>1, <1>6 DEF Shifted
  <2>4. Turned(Turned(p, o.angle, o.c), rec.angle, o.c) = Turned(p, o.angle + rec.angle, o.c)
    BY <1>3, TurnedTwice
  <2>5. Shifted(Shifted(p, o, i), rec, i) = Shifted(p, m, i)
    BY <2>1, <2>2, <2>3, <2>4
  <2> QED
    BY <2>5 DEF m
<1>7. CASE o.op = "movePoints"
  <2>1. Shifted(p, o, i) = <<p[1] + n * o.d[1], p[2] + n * o.d[2]>>
    BY <1>7 DEF Shifted, Plus
  <2>2. \A q : Shifted(q, rec, i) = <<q[1] + n * e[1], q[2] + n * e[2]>>
    BY <1>4, <1>7 DEF Shifted, Plus, e
  <2>3. Shifted(p, m, i) = <<p[1] + n * (o.d[1] + e[1]), p[2] + n * (o.d[2] + e[2])>>
    BY <1>1, <1>7 DEF Shifted, Plus
  <2> HIDE DEF n
  <2>4. \A a \in Int, b \in Int : n * (a + b) = n * a + n * b /\ n * a \in Int
    BY <1>3
  <2>5. /\ n * (o.d[1] + e[1]) = n * o.d[1] + n * e[1]
        /\ n * (o.d[2] + e[2]) = n * o.d[2] + n * e[2]
        /\ n * o.d[1] \in Int /\ n * e[1] \in Int /\ n * o.d[2] \in Int /\ n * e[2] \in Int
    BY <1>3, <2>4
  <2>6. Shifted(Shifted(p, o, i), rec, i) = Shifted(p, m, i)
    BY <1>2, <2>1, <2>2, <2>3, <2>5
  <2> QED
    BY <2>6 DEF m
<1> QED
  BY <1>5, <1>6, <1>7 DEF Moves

\* The record of a whole gesture fits where its two parts did, one after the other.
LEMMA FitMerge ==
    ASSUME NEW D, NEW g \in [D -> Bodies], NEW o \in Records, NEW rec \in Records,
           o.op \in Moves, Alike(o, rec), NEW h, Fit(o, g, h)
    PROVE  /\ Combined(o, rec) \in Records /\ Combined(o, rec).op = o.op
           /\ Fit(Combined(o, rec), g, Redone(h, rec))
<1> DEFINE m == Combined(o, rec)
           i == o.id
           P == g[i].points
           t == g[i].type
           Q == NewPoints(P, o)
           b == [type |-> NewType(t, o), points |-> Q]
           c == [type |-> NewType(b.type, rec), points |-> NewPoints(b.points, rec)]
           e == [type |-> NewType(t, m), points |-> NewPoints(P, m)]
<1>1. m \in Records /\ m.op = o.op /\ m.id = i /\ rec.op = o.op /\ rec.id = i
  BY CombinedParts DEF Alike
<1>2. i \in D /\ h = Redone(g, o)
  BY DEF Fit
<1>3. g[i] \in Bodies /\ P \in Tracks
  BY <1>2 DEF Bodies
<1>4. b \in Bodies /\ h = [g EXCEPT ![i] = b] /\ h \in [D -> Bodies]
  BY <1>2, RedoneIs
<1>5. h[i] = b
  BY <1>2, <1>4, Replaced
<1>6. Redone(h, rec) = [h EXCEPT ![i] = c]
  <2> DEFINE x == [type |-> NewType(h[rec.id].type, rec),
                   points |-> NewPoints(h[rec.id].points, rec)]
  <2>1. x = c
    <3> HIDE DEF b
    <3> QED
      BY <1>1, <1>5
  <2>2. Redone(h, rec) = [h EXCEPT ![rec.id] = x]
    <3> HIDE DEF b
    <3> QED
      BY ZenonT(60), <1>1, <1>2, <1>4, RedoneIs
  <2> HIDE DEF x, c
  <2> QED
    BY <1>1, <2>1, <2>2
<1>7. Redone(g, m) = [g EXCEPT ![i] = e]
  <2> HIDE DEF m
  <2> QED
    BY <1>1, <1>2, RedoneIs
<1>8. NewPoints(Q, rec) = NewPoints(P, m)
  <2>1. Q \in Tracks /\ DOMAIN Q = DOMAIN P
        /\ Q = [k \in DOMAIN P |-> Shifted(P[k], o, k)]
    BY <1>3, NewPointsIs
  <2>2. NewPoints(Q, rec) = [k \in DOMAIN Q |-> Shifted(Q[k], rec, k)]
    <3> HIDE DEF Q
    <3> QED
      BY ZenonT(60), <1>1, <2>1, NewPointsIs
  <2>3. NewPoints(P, m) = [k \in DOMAIN P |-> Shifted(P[k], m, k)]
    <3> HIDE DEF m
    <3> QED
      BY SMTT(30), <1>1, <1>3, NewPointsIs
  <2>4. \A k \in DOMAIN P : Shifted(Shifted(P[k], o, k), rec, k) = Shifted(P[k], m, k)
    <3>1. \A k \in DOMAIN P : P[k] \in Places
      BY <1>3, LenProperties, ElementOfSeq DEF Tracks
    <3> QED
      BY <3>1, ShiftedTwice
  <2> HIDE DEF Q, m, P
  <2> QED
    BY <2>1, <2>2, <2>3, <2>4
<1>9. c = e
  <2>1. \A s : NewType(s, o) = s /\ NewType(s, rec) = s /\ NewType(s, m) = s
    <3> HIDE DEF m
    <3> QED
      BY <1>1 DEF NewType, Moves
  <2>2. b.type = t /\ b.points = Q
    BY <2>1
  <2> HIDE DEF b, Q, m, t
  <2> QED
    BY <1>8, <2>1, <2>2
<1>10. Redone(h, rec) = Redone(g, m)
  <2> HIDE DEF c, e, b, m
  <2>1. [[g EXCEPT ![i] = b] EXCEPT ![i] = c] = [g EXCEPT ![i] = c]
    BY <1>2, Replaced
  <2> QED
    BY <1>4, <1>6, <1>7, <1>9, <2>1
<1>11. Fit(m, g, Redone(g, m))
  <2>1. Applies(m, g)
    BY <1>1 DEF Applies, Moves
  <2> HIDE DEF m
  <2> QED
    BY <1>1, <1>2, <2>1, FitForward
<1> QED
  BY <1>1, <1>10, <1>11

-----------------------------------------------------------------------------
(* The film when the histories change. *)

\* The records of the line, by their places.
LEMMA LineParts ==
    ASSUME NEW un \in Seq(Records), NEW re \in Seq(Records)
    PROVE  /\ Len(un) \in Nat /\ Len(re) \in Nat
           /\ \A k \in 1 .. Len(un) : RecordAt(un, re, k) = un[k]
           /\ \A k \in 1 .. Len(un) + Len(re) : RecordAt(un, re, k) \in Records
<1>1. Len(un) \in Nat /\ Len(re) \in Nat
  BY LenProperties
<1>2. \A k \in 1 .. Len(un) : RecordAt(un, re, k) = un[k] /\ un[k] \in Records
  BY <1>1, ElementOfSeq DEF RecordAt
<1>3. ASSUME NEW k \in 1 .. Len(un) + Len(re), ~ (k <= Len(un))
      PROVE  RecordAt(un, re, k) \in Records
  <2>1. Len(un) + Len(re) + 1 - k \in 1 .. Len(re)
    BY <1>1, <1>3
  <2> QED
    BY <1>3, <2>1, ElementOfSeq DEF RecordAt
<1> QED
  BY <1>1, <1>2, <1>3

\* A record that is committed adds its frame; what was undone is forgotten.
LEMMA FramesCommit ==
    ASSUME NEW D, NEW un \in Seq(Records), NEW re \in Seq(Records),
           NEW G, Frames(G, D, un, re),
           NEW rec \in Records, NEW h \in [D -> Bodies], Fit(rec, G[Len(un)], h),
           NEW H, H = [k \in 0 .. Len(un) + 1 |-> IF k <= Len(un) THEN G[k] ELSE h]
    PROVE  Frames(H, D, Append(un, rec), <<>>)
<1> DEFINE u == Len(un)
           un2 == Append(un, rec)
<1>0. H = [k \in 0 .. u + 1 |-> IF k <= u THEN G[k] ELSE h]
  OBVIOUS
<1>1. /\ u \in Nat /\ Len(re) \in Nat
      /\ G \in [0 .. u + Len(re) -> [D -> Bodies]]
      /\ \A k \in 1 .. u : RecordAt(un, re, k) = un[k]
      /\ \A k \in 1 .. u + Len(re) : Fit(RecordAt(un, re, k), G[k - 1], G[k])
  BY LineParts DEF Frames
<1>2. Len(un2) = u + 1 /\ un2[u + 1] = rec /\ \A k \in 1 .. u : un2[k] = un[k]
  BY <1>1, AppendProperties
<1>3. Len(<<>>) = 0
  OBVIOUS
<1> HIDE DEF un2
<1>4. H \in [0 .. u + 1 -> [D -> Bodies]]
  <2> HIDE DEF u
  <2>1. \A k \in 0 .. u + 1 : k <= u => k \in 0 .. u + Len(re)
    BY <1>1
  <2> QED
    BY <1>0, <1>1, <2>1
<1>5. ASSUME NEW k \in 1 .. u + 1
      PROVE  Fit(RecordAt(un2, <<>>, k), H[k - 1], H[k])
  <2>1. RecordAt(un2, <<>>, k) = un2[k]
    BY <1>1, <1>2 DEF RecordAt
  <2>2. CASE k <= u
    <3>1. k \in 1 .. u /\ k \in 1 .. u + Len(re) /\ H[k] = G[k] /\ H[k - 1] = G[k - 1]
      <4> HIDE DEF u
      <4> QED
        BY <1>0, <1>1, <2>2
    <3> QED
      BY <1>1, <1>2, <2>1, <3>1
  <2>3. CASE ~ (k <= u)
    <3>1. k = u + 1 /\ H[k] = h /\ H[k - 1] = G[u]
      <4> HIDE DEF u
      <4> QED
        BY <1>0, <1>1, <2>3
    <3> QED
      BY <1>2, <2>1, <3>1
  <2> QED
    BY <2>2, <2>3
<1>6. Len(un2) + Len(<<>>) = u + 1
  BY <1>1, <1>2, <1>3
<1> HIDE DEF u
<1>7. Frames(H, D, un2, <<>>)
  BY <1>4, <1>5, <1>6 DEF Frames
<1> QED
  BY <1>7 DEF un2, u

\* Undo moves the cursor and leaves the film.
LEMMA FramesUndo ==
    ASSUME NEW D, NEW un \in Seq(Records), NEW re \in Seq(Records), un # <<>>,
           NEW G, Frames(G, D, un, re)
    PROVE  LET u2 == Front(un)
               r2 == Append(re, Last(un))
           IN  /\ u2 \in Seq(Records) /\ r2 \in Seq(Records)
               /\ Len(u2) = Len(un) - 1 /\ Len(r2) = Len(re) + 1 /\ Len(un) \in Nat \ {0}
               /\ Last(un) \in Records
               /\ Frames(G, D, u2, r2)
               /\ Fit(Last(un), G[Len(un) - 1], G[Len(un)])
<1> DEFINE u == Len(un)
           r == Len(re)
           u2 == Front(un)
           r2 == Append(re, Last(un))
<1>1. /\ u \in Nat /\ r \in Nat /\ u # 0
      /\ \A k \in 1 .. u : RecordAt(un, re, k) = un[k]
  BY LineParts, LenProperties
<1>2. Last(un) = un[u] /\ Last(un) \in Records
  BY <1>1, ElementOfSeq DEF Last
<1>3. u2 \in Seq(Records) /\ Len(u2) = u - 1 /\ \A k \in 1 .. u - 1 : u2[k] = un[k]
  BY FrontIs
<1>4. /\ r2 \in Seq(Records) /\ Len(r2) = r + 1 /\ r2[r + 1] = un[u]
      /\ \A k \in 1 .. r : r2[k] = re[k]
  BY <1>1, <1>2, AppendProperties
<1> HIDE DEF u2, r2
<1>5. ASSUME NEW k \in 1 .. u + r
      PROVE  RecordAt(u2, r2, k) = RecordAt(un, re, k)
  <2>1. Len(u2) + Len(r2) + 1 - k = u + r + 1 - k
    BY <1>1, <1>3, <1>4
  <2>2. CASE k <= u - 1
    BY <1>1, <1>3, <2>2 DEF RecordAt
  <2>3. CASE k = u
    BY <1>1, <1>3, <1>4, <2>1, <2>3 DEF RecordAt
  <2>4. CASE k > u
    <3>1. u + r + 1 - k \in 1 .. r /\ ~ (k <= u) /\ ~ (k <= u - 1)
      BY <1>1, <2>4
    <3> HIDE DEF u, r
    <3> QED
      BY <1>3, <1>4, <2>1, <3>1 DEF RecordAt, u, r
  <2> QED
    BY <1>1, <2>2, <2>3, <2>4
<1>6. Len(u2) + Len(r2) = u + r
  BY <1>1, <1>3, <1>4
<1>7. Frames(G, D, u2, r2)
  BY <1>5, <1>6 DEF Frames
<1>8. u \in 1 .. u + r
  BY <1>1
<1>9. Fit(Last(un), G[u - 1], G[u])
  BY <1>1, <1>2, <1>8 DEF Frames
<1> QED
  BY <1>1, <1>2, <1>3, <1>4, <1>7, <1>9 DEF u2, r2

\* Redo moves the cursor and leaves the film.
LEMMA FramesRedo ==
    ASSUME NEW D, NEW un \in Seq(Records), NEW re \in Seq(Records), re # <<>>,
           NEW G, Frames(G, D, un, re)
    PROVE  LET u2 == Append(un, Last(re))
               r2 == Front(re)
           IN  /\ u2 \in Seq(Records) /\ r2 \in Seq(Records)
               /\ Len(u2) = Len(un) + 1 /\ Len(r2) = Len(re) - 1 /\ Len(re) \in Nat \ {0}
               /\ Len(un) \in Nat
               /\ Last(re) \in Records
               /\ Frames(G, D, u2, r2)
               /\ Fit(Last(re), G[Len(un)], G[Len(un) + 1])
<1> DEFINE u == Len(un)
           r == Len(re)
           u2 == Append(un, Last(re))
           r2 == Front(re)
<1>1. /\ u \in Nat /\ r \in Nat /\ r # 0
      /\ \A k \in 1 .. u : RecordAt(un, re, k) = un[k]
  BY LineParts, LenProperties
<1>2. Last(re) = re[r] /\ Last(re) \in Records
  BY <1>1, ElementOfSeq DEF Last
<1>3. r2 \in Seq(Records) /\ Len(r2) = r - 1 /\ \A k \in 1 .. r - 1 : r2[k] = re[k]
  BY FrontIs
<1>4. /\ u2 \in Seq(Records) /\ Len(u2) = u + 1 /\ u2[u + 1] = re[r]
      /\ \A k \in 1 .. u : u2[k] = un[k]
  BY <1>1, <1>2, AppendProperties
<1> HIDE DEF u2, r2
<1>5. ASSUME NEW k \in 1 .. u + r
      PROVE  RecordAt(u2, r2, k) = RecordAt(un, re, k)
  <2>1. Len(u2) + Len(r2) + 1 - k = u + r + 1 - k
    BY <1>1, <1>3, <1>4
  <2>2. CASE k <= u
    BY <1>1, <1>4, <2>2 DEF RecordAt
  <2>3. CASE k = u + 1
    <3>1. u + r + 1 - k = r /\ ~ (k <= u) /\ k <= u + 1
      BY <1>1, <2>3
    <3> HIDE DEF u, r
    <3> QED
      BY <1>4, <2>3, <3>1 DEF RecordAt, u, r
  <2>4. CASE k > u + 1
    <3>1. u + r + 1 - k \in 1 .. r - 1 /\ ~ (k <= u) /\ ~ (k <= u + 1)
      BY <1>1, <2>4
    <3> HIDE DEF u, r
    <3> QED
      BY <1>3, <1>4, <2>1, <3>1 DEF RecordAt, u, r
  <2> QED
    BY <1>1, <2>2, <2>3, <2>4
<1>6. Len(u2) + Len(r2) = u + r
  BY <1>1, <1>3, <1>4
<1>7. Frames(G, D, u2, r2)
  BY <1>5, <1>6 DEF Frames
<1>8. u + 1 \in 1 .. u + r /\ (u + 1) - 1 = u
  BY <1>1
<1>9. Fit(Last(re), G[u], G[u + 1])
  <2>1. RecordAt(u2, r2, u + 1) = re[r]
    BY <1>1, <1>4 DEF RecordAt
  <2>2. RecordAt(un, re, u + 1) = re[r]
    BY <1>5, <1>8, <2>1
  <2> QED
    BY <1>2, <1>8, <2>2 DEF Frames
<1> QED
  BY <1>1, <1>2, <1>3, <1>4, <1>7, <1>9 DEF u2, r2

-----------------------------------------------------------------------------
(* More shapes. *)

\* The frame with room for more shapes, which b shows as they come.
Wider(g, E, b) == [id \in E |-> IF id \in DOMAIN g THEN g[id] ELSE b[id]]

\* A record between two frames fits between the wider ones.
LEMMA FitWider ==
    ASSUME NEW D, NEW E, D \subseteq E, NEW b \in [E -> Bodies],
           NEW g \in [D -> Bodies], NEW h \in [D -> Bodies],
           NEW rec \in Records, Fit(rec, g, h)
    PROVE  Fit(rec, Wider(g, E, b), Wider(h, E, b))
<1>1. \A f \in [D -> Bodies] : Wider(f, E, b) \in [E -> Bodies]
  BY DEF Wider
<1>2. ASSUME NEW f \in [D -> Bodies], NEW q \in Records, q.id \in D
      PROVE  Redone(Wider(f, E, b), q) = Wider(Redone(f, q), E, b)
  <2> DEFINE i == q.id
             w == Wider(f, E, b)
             c == [type |-> NewType(f[i].type, q), points |-> NewPoints(f[i].points, q)]
             e == [type |-> NewType(w[i].type, q), points |-> NewPoints(w[i].points, q)]
  <2>1. i \in D /\ i \in E /\ w \in [E -> Bodies]
    BY <1>1, <1>2
  <2>2. w[i] = f[i]
    BY <2>1 DEF Wider
  <2>3. e = c
    BY <2>2
  <2>4. Redone(f, q) = [f EXCEPT ![i] = c]
    BY <2>1, RedoneIs
  <2>5. Redone(w, q) = [w EXCEPT ![i] = e]
    <3> HIDE DEF w
    <3> QED
      BY <2>1, RedoneIs
  <2>6. [w EXCEPT ![i] = c] = Wider([f EXCEPT ![i] = c], E, b)
    <3> HIDE DEF c
    <3> QED
      BY <2>1 DEF Wider
  <2> HIDE DEF c, e
  <2> QED
    BY <2>3, <2>4, <2>5, <2>6
<1>3. rec.id \in D /\ h = Redone(g, rec) /\ g = Redone(h, Inverted(rec))
  BY DEF Fit, Undone
<1>4. Inverted(rec) \in Records /\ Inverted(rec).id = rec.id
  BY InvertedParts
<1>5. /\ Wider(h, E, b) = Redone(Wider(g, E, b), rec)
      /\ Wider(g, E, b) = Redone(Wider(h, E, b), Inverted(rec))
  BY <1>2, <1>3, <1>4
<1>6. rec.id \in DOMAIN Wider(g, E, b)
  BY <1>3 DEF Wider
<1> QED
  BY <1>5, <1>6 DEF Fit, Undone

\* The film with room for more shapes.
WiderFilm(G, E, b, n) == [k \in 0 .. n |-> Wider(G[k], E, b)]

\* A film stays one when all of its frames get room for more shapes.
LEMMA FramesWider ==
    ASSUME NEW D, NEW E, D \subseteq E, NEW b \in [E -> Bodies],
           NEW un \in Seq(Records), NEW re \in Seq(Records), NEW G, Frames(G, D, un, re)
    PROVE  Frames(WiderFilm(G, E, b, Len(un) + Len(re)), E, un, re)
<1> DEFINE n == Len(un) + Len(re)
           H == WiderFilm(G, E, b, n)
<1>1. /\ n \in Nat /\ G \in [0 .. n -> [D -> Bodies]]
      /\ \A k \in 1 .. n : RecordAt(un, re, k) \in Records
      /\ \A k \in 1 .. n : Fit(RecordAt(un, re, k), G[k - 1], G[k])
  BY LineParts DEF Frames
<1> HIDE DEF n
<1>2. \A k \in 0 .. n : G[k] \in [D -> Bodies] /\ Wider(G[k], E, b) \in [E -> Bodies]
  BY <1>1 DEF Wider
<1>3. H \in [0 .. n -> [E -> Bodies]] /\ \A k \in 0 .. n : H[k] = Wider(G[k], E, b)
  BY <1>2 DEF WiderFilm
<1>4. ASSUME NEW k \in 1 .. n
      PROVE  Fit(RecordAt(un, re, k), H[k - 1], H[k])
  <2>1. k \in 0 .. n /\ k - 1 \in 0 .. n
    BY <1>1
  <2>2. Fit(RecordAt(un, re, k), Wider(G[k - 1], E, b), Wider(G[k], E, b))
    BY <1>1, <1>2, <2>1, FitWider
  <2> QED
    BY <1>3, <2>1, <2>2
<1> HIDE DEF H
<1> QED
  BY <1>3, <1>4 DEF Frames, H, n

-----------------------------------------------------------------------------
(* Shapes and their bodies. *)

\* A canvas whose shapes have points.
Drawn == [type : Types \cup {"dead"}, points : Tracks, obb : Boxes]

\* The bodies of g in the boxes of reg.
Dressed(g, reg) == [id \in DOMAIN reg |-> [type |-> g[id].type, points |-> g[id].points,
                                           obb |-> reg[id].obb]]

\* A canvas is the dress of its outline.
LEMMA DressedIs ==
    ASSUME NEW D, NEW reg \in [D -> Drawn]
    PROVE  Outline(reg) \in [D -> Bodies] /\ reg = Dressed(Outline(reg), reg)
<1>1. ASSUME NEW id \in D
      PROVE  /\ reg[id] = [type |-> reg[id].type, points |-> reg[id].points, obb |-> reg[id].obb]
             /\ Body(reg[id]) \in Bodies
             /\ Body(reg[id]).type = reg[id].type /\ Body(reg[id]).points = reg[id].points
  <2>1. reg[id] \in Drawn
    OBVIOUS
  <2> QED
    BY <2>1 DEF Drawn, Body, Bodies
<1>2. Outline(reg) \in [D -> Bodies] /\ \A id \in D : Outline(reg)[id] = Body(reg[id])
  BY <1>1 DEF Outline
<1>3. Dressed(Outline(reg), reg) = [id \in D |-> reg[id]]
  BY <1>1, <1>2 DEF Dressed
<1> QED
  BY <1>2, <1>3

\* A record does to the dressed canvas what it does to the bodies.
LEMMA DressedRedone ==
    ASSUME NEW D, NEW reg \in [D -> Drawn], NEW g \in [D -> Bodies],
           NEW rec \in Records, rec.id \in D
    PROVE  Redone(Dressed(g, reg), rec) = Dressed(Redone(g, rec), reg)
<1> DEFINE i == rec.id
           P == NewPoints(g[i].points, rec)
           t == NewType(g[i].type, rec)
           w == Dressed(g, reg)
           c == [type |-> t, points |-> P]
           e == [type |-> t, points |-> P, obb |-> reg[i].obb]
<1>1. /\ DOMAIN w = D
      /\ w[i] = [type |-> g[i].type, points |-> g[i].points, obb |-> reg[i].obb]
  BY DEF Dressed
<1>2. Redone(g, rec) = [g EXCEPT ![i] = c]
  BY RedoneIs
<1>3. Redone(w, rec) = [w EXCEPT ![i] = e]
  <2>1. Redone(w, rec) = [w EXCEPT ![i].points = NewPoints(w[i].points, rec),
                                   ![i].type = NewType(w[i].type, rec)]
    BY DEF Redone
  <2>2. w[i].points = g[i].points /\ w[i].type = g[i].type
    BY <1>1
  <2>3. Redone(w, rec) = [w EXCEPT ![i].points = P, ![i].type = t]
    <3> HIDE DEF w
    <3> QED
      BY <2>1, <2>2
  <2>4. [w[i] EXCEPT !.points = P, !.type = t] = e
    <3> DEFINE x == [w[i] EXCEPT !.points = P, !.type = t]
    <3>1. g[i] \in Bodies /\ reg[i] \in Drawn
      OBVIOUS
    <3>2. w[i] \in Drawn
      <4> HIDE DEF w
      <4> QED
        BY <1>1, <3>1 DEF Drawn, Bodies
    <3>3. P \in Tracks /\ t \in Types \cup {"dead"}
      <4>1. c \in Bodies
        BY RedoneIs
      <4> HIDE DEF P, t
      <4>2. c.points = P /\ c.type = t
        OBVIOUS
      <4> HIDE DEF c
      <4> QED
        BY <4>1, <4>2 DEF Bodies
    <3>4. w[i].obb = reg[i].obb
      <4> HIDE DEF w
      <4> QED
        BY <1>1
    <3> HIDE DEF w, P, t
    <3>5. x \in Drawn /\ x.type = t /\ x.points = P /\ x.obb = reg[i].obb
      BY <3>2, <3>3, <3>4 DEF Drawn
    <3> HIDE DEF x
    <3>6. x = [type |-> x.type, points |-> x.points, obb |-> x.obb]
      BY <3>5 DEF Drawn
    <3> QED
      BY <3>5, <3>6 DEF x
  <2>5. w = [id \in D |-> w[id]]
    BY DEF Dressed
  <2> HIDE DEF w, P, t, e
  <2> QED
    BY <1>1, <2>3, <2>4, <2>5
<1>4. [w EXCEPT ![i] = e] = Dressed([g EXCEPT ![i] = c], reg)
  <2> HIDE DEF P, t
  <2> QED
    BY DEF Dressed
<1> HIDE DEF c, e
<1> QED
  BY <1>2, <1>3, <1>4

\* A picture shows the bodies.
LEMMA PictureOfDress ==
    ASSUME NEW D, NEW reg \in [D -> Drawn], NEW g \in [D -> Bodies]
    PROVE  Picture(Dressed(g, reg)) = Picture(g)
<1> DEFINE w == Dressed(g, reg)
<1>1. /\ DOMAIN w = D /\ DOMAIN g = D
      /\ \A id \in D : w[id].type = g[id].type /\ w[id].points = g[id].points
  BY DEF Dressed
<1> HIDE DEF w
<1>2. {i \in DOMAIN w : w[i].type # "dead"} = {i \in DOMAIN g : g[i].type # "dead"}
  BY <1>1
<1>3. Picture(w) = Picture(g)
  BY <1>1, <1>2 DEF Picture
<1> QED
  BY <1>3 DEF w

\* A picture is one of the pictures of the promise.
LEMMA PictureType ==
    ASSUME NEW D \in SUBSET Nat, NEW g \in [D -> Bodies]
    PROVE  Picture(g) \in SUBSET [id : Nat, type : Types, points : Seq(Places)]
<1>1. \A id \in D : g[id] \in Bodies
  OBVIOUS
<1>2. \A id \in D : /\ id \in Nat /\ g[id].type \in Types \cup {"dead"}
                    /\ g[id].points \in Seq(Places)
  BY <1>1 DEF Bodies, Tracks
<1> QED
  BY SMTT(30), <1>2 DEF Picture

\* b has room for the shapes of E, and those that are not in D are dead.
Spare(b, D, E) == /\ D \subseteq E /\ b \in [E -> Bodies]
                  /\ \A id \in E \ D : b[id].type = "dead"

\* A shape that is dead in the room that was made shows nowhere.
LEMMA PictureOfWider ==
    ASSUME NEW D, NEW E, NEW b, Spare(b, D, E), NEW g \in [D -> Bodies]
    PROVE  Picture(Wider(g, E, b)) = Picture(g)
<1> DEFINE w == Wider(g, E, b)
<1>1. /\ DOMAIN w = E /\ DOMAIN g = D
      /\ \A id \in D : w[id] = g[id]
      /\ \A id \in E \ D : w[id].type = "dead"
  BY DEF Wider, Spare
<1> HIDE DEF w
<1>2. {i \in DOMAIN w : w[i].type # "dead"} = {i \in DOMAIN g : g[i].type # "dead"}
  BY <1>1 DEF Spare
<1>3. Picture(w) = Picture(g)
  BY <1>1, <1>2 DEF Picture
<1> QED
  BY <1>3 DEF w

\* The film of a canvas with room for one more shape shows the same pictures.
LEMMA FilmWider ==
    ASSUME NEW D, NEW E, NEW b, Spare(b, D, E),
           NEW un \in Seq(Records), NEW re \in Seq(Records), NEW rec \in Records,
           NEW F, Frames(F, D, un, re), NEW g \in [D -> Bodies], Shot(F[Len(un)], g, rec),
           NEW G, G = WiderFilm(F, E, b, Len(un) + Len(re))
    PROVE  /\ Frames(G, E, un, re) /\ Shot(G[Len(un)], Wider(g, E, b), rec)
           /\ \A j \in 0 .. Len(un) + Len(re) : Picture(G[j]) = Picture(F[j])
           /\ Picture(Wider(g, E, b)) = Picture(g)
<1> PICK u : u = Len(un)
  OBVIOUS
<1> PICK n : n = Len(un) + Len(re)
  OBVIOUS
<1>1. /\ D \subseteq E /\ b \in [E -> Bodies] /\ u \in 0 .. n
      /\ F \in [0 .. n -> [D -> Bodies]]
  BY LenProperties DEF Spare, Frames
<1>2. \A j \in 0 .. n : F[j] \in [D -> Bodies] /\ G[j] = Wider(F[j], E, b)
  BY <1>1 DEF WiderFilm
<1>3. Frames(G, E, un, re)
  BY <1>1, FramesWider
<1>4. Shot(G[u], Wider(g, E, b), rec)
  <2>1. F[u] \in [D -> Bodies] /\ G[u] = Wider(F[u], E, b)
    BY <1>1, <1>2
  <2>2. CASE rec # NoRecord
    <3>1. Fit(rec, F[u], g)
      BY <2>2 DEF Shot
    <3>2. Fit(rec, Wider(F[u], E, b), Wider(g, E, b))
      BY <1>1, <2>1, <3>1, FitWider
    <3> QED
      BY <2>1, <2>2, <3>2 DEF Shot
  <2>3. CASE rec = NoRecord
    BY <2>1, <2>3 DEF Shot
  <2> QED
    BY <2>2, <2>3
<1>5. ASSUME NEW j \in 0 .. n
      PROVE  Picture(G[j]) = Picture(F[j])
  <2>1. F[j] \in [D -> Bodies] /\ G[j] = Wider(F[j], E, b)
    BY <1>2
  <2>2. Picture(Wider(F[j], E, b)) = Picture(F[j])
    BY <2>1, PictureOfWider
  <2> QED
    BY <2>1, <2>2
<1>6. Picture(Wider(g, E, b)) = Picture(g)
  BY PictureOfWider
<1> QED
  BY <1>3, <1>4, <1>5, <1>6

-----------------------------------------------------------------------------
(* What the histories stand for. *)

\* The canvas through a run of records, by its recursion and step by step.
RunsFrom(f, n, s, Q) == f = [k \in 0 .. n |-> IF k = 0 THEN s ELSE Redone(f[k - 1], Q[k])]
Leading(W, n, Q) == /\ W = [k \in 0 .. n |-> W[k]]
                    /\ \A k \in 1 .. n : W[k] = Redone(W[k - 1], Q[k])

\* A run of records from W[0] is what its steps say.
LEMMA RunIs ==
    ASSUME NEW n \in Nat, NEW Q, NEW W, Leading(W, n, Q),
           NEW f, RunsFrom(f, n, W[0], Q)
    PROVE  f = W
<1> DEFINE Bad == {k \in 0 .. n : f[k] # W[k]}
<1>1. /\ \A k \in 0 .. n : f[k] = IF k = 0 THEN W[0] ELSE Redone(f[k - 1], Q[k])
      /\ f = [k \in 0 .. n |-> f[k]]
      /\ W = [k \in 0 .. n |-> W[k]]
      /\ \A k \in 1 .. n : W[k] = Redone(W[k - 1], Q[k])
  BY DEF RunsFrom, Leading
<1>2. Bad = {}
  <2> SUFFICES ASSUME Bad # {}
               PROVE  FALSE
    OBVIOUS
  <2>1. Bad \subseteq Nat
    OBVIOUS
  <2>2. \E k \in Bad : \A i \in Bad : ~ (<<i, k>> \in OpToRel(<, Nat))
    <3> HIDE DEF Bad
    <3> QED
      BY <2>1, NatLessThanWellFounded, WFMin
  <2>3. PICK k \in Bad : \A i \in Bad : ~ (i < k)
    BY <2>1, <2>2 DEF OpToRel
  <2>4. k \in 0 .. n /\ f[k] # W[k]
    BY <2>3
  <2>5. k # 0
    BY <1>1, <2>4
  <2>6. k \in 1 .. n /\ k - 1 \in 0 .. n /\ k - 1 < k
    BY <2>4, <2>5
  <2>7. f[k - 1] = W[k - 1]
    BY <2>3, <2>6
  <2>8. f[k] = Redone(f[k - 1], Q[k])
    BY <1>1, <2>4, <2>5
  <2> QED
    BY <1>1, <2>4, <2>6, <2>7, <2>8
<1>3. \A k \in 0 .. n : f[k] = W[k]
  BY <1>2
<1> QED
  BY <1>1, <1>3

\* The canvases of such runs, dressed from the film.
BackRun(G, reg, u) == [k \in 0 .. u |-> Dressed(G[u - k], reg)]
ForthRun(G, reg, u, r) == [k \in 0 .. r |-> Dressed(G[u + k], reg)]

\* Undoing the whole undo history runs the film back to its first frame.
LEMMA RewoundIs ==
    ASSUME NEW D, NEW reg \in [D -> Drawn], NEW un \in Seq(Records), NEW re \in Seq(Records),
           NEW G, Frames(G, D, un, re)
    PROVE  Rewound(Dressed(G[Len(un)], reg), un) = BackRun(G, reg, Len(un))
<1> DEFINE u == Len(un)
           s == Dressed(G[u], reg)
           Q == [k \in 1 .. u |-> Inverted(un[u + 1 - k])]
           W == [k \in 0 .. u |-> Dressed(G[u - k], reg)]
           Runs(f) == f = [k \in 0 .. u |-> IF k = 0 THEN s ELSE Undone(f[k - 1], un[u + 1 - k])]
<1>1. /\ u \in Nat /\ Len(re) \in Nat
      /\ G \in [0 .. u + Len(re) -> [D -> Bodies]]
      /\ \A k \in 1 .. u : RecordAt(un, re, k) = un[k] /\ un[k] \in Records
      /\ \A k \in 1 .. u + Len(re) : Fit(RecordAt(un, re, k), G[k - 1], G[k])
  BY LineParts, ElementOfSeq DEF Frames
<1>2. Rewound(s, un) = CHOOSE f : Runs(f)
  BY DEF Rewound
<1>3. ASSUME NEW k \in 1 .. u
      PROVE  W[k] = Redone(W[k - 1], Q[k])
  <2> DEFINE j == u + 1 - k
  <2>1. /\ j \in 1 .. u /\ j \in 1 .. u + Len(re) /\ j \in 0 .. u + Len(re)
        /\ j - 1 = u - k /\ j = u - (k - 1) /\ k \in 0 .. u /\ k - 1 \in 0 .. u
        /\ j - 1 \in 0 .. u + Len(re)
    BY <1>1
  <2>2. W[k] = Dressed(G[j - 1], reg) /\ W[k - 1] = Dressed(G[j], reg) /\ Q[k] = Inverted(un[j])
    BY <2>1
  <2> HIDE DEF j, W, Q
  <2>3. Fit(un[j], G[j - 1], G[j]) /\ un[j] \in Records
    BY <1>1, <2>1
  <2>4. G[j] \in [D -> Bodies] /\ G[j - 1] \in [D -> Bodies]
    BY <1>1, <2>1
  <2>5. un[j].id \in D /\ G[j - 1] = Redone(G[j], Inverted(un[j]))
    BY <2>3, <2>4 DEF Fit, Undone
  <2>6. Inverted(un[j]) \in Records /\ Inverted(un[j]).id \in D
    BY <2>3, <2>5, InvertedParts
  <2>7. Redone(Dressed(G[j], reg), Inverted(un[j])) = Dressed(Redone(G[j], Inverted(un[j])), reg)
    BY <2>4, <2>6, DressedRedone
  <2> QED
    BY <2>2, <2>5, <2>7
<1>4. W = [k \in 0 .. u |-> W[k]]
  OBVIOUS
<1>5. W[0] = s
  <2>1. 0 \in 0 .. u /\ u - 0 = u
    BY <1>1
  <2> QED
    BY <2>1
<1>6. \A f : Runs(f) <=> RunsFrom(f, u, W[0], Q)
  <2> TAKE f
  <2>1. \A k \in 1 .. u : Undone(f[k - 1], un[u + 1 - k]) = Redone(f[k - 1], Q[k])
    BY DEF Undone
  <2>2. \A k \in 0 .. u : k # 0 => k \in 1 .. u
    BY <1>1
  <2> HIDE DEF W, Q, s
  <2>3. [k \in 0 .. u |-> IF k = 0 THEN s ELSE Undone(f[k - 1], un[u + 1 - k])]
            = [k \in 0 .. u |-> IF k = 0 THEN W[0] ELSE Redone(f[k - 1], Q[k])]
    BY <1>5, <2>1, <2>2
  <2> QED
    BY <2>3 DEF RunsFrom
<1>7. \A f : Runs(f) => f = W
  <2>1. Leading(W, u, Q)
    <3> HIDE DEF W, Q
    <3> QED
      BY <1>3, <1>4 DEF Leading
  <2> HIDE DEF W, Q, Runs, u
  <2> QED
    BY <1>1, <1>6, <2>1, RunIs
<1>8. Runs(W)
  <2>1. W = [k \in 0 .. u |-> IF k = 0 THEN W[0] ELSE Redone(W[k - 1], Q[k])]
    <3>1. \A k \in 0 .. u : W[k] = IF k = 0 THEN W[0] ELSE Redone(W[k - 1], Q[k])
      <4>1. \A k \in 0 .. u : k # 0 => k \in 1 .. u
        BY <1>1
      <4> HIDE DEF W, Q
      <4> QED
        BY <1>3, <4>1
    <3> HIDE DEF W, Q
    <3> QED
      BY <1>4, <3>1
  <2> HIDE DEF W, Q, Runs
  <2> QED
    BY <1>6, <2>1 DEF RunsFrom
<1> HIDE DEF Runs, W, s, u
<1>9. (CHOOSE f : Runs(f)) = W
  BY <1>7, <1>8
<1> QED
  BY <1>2, <1>9 DEF W, s, u, BackRun

\* Redoing the whole redo history runs it on to its last.
LEMMA ReplayedIs ==
    ASSUME NEW D, NEW reg \in [D -> Drawn], NEW un \in Seq(Records), NEW re \in Seq(Records),
           NEW G, Frames(G, D, un, re)
    PROVE  Replayed(Dressed(G[Len(un)], reg), re) = ForthRun(G, reg, Len(un), Len(re))
<1> DEFINE u == Len(un)
           r == Len(re)
           s == Dressed(G[u], reg)
           Q == [k \in 1 .. r |-> re[r + 1 - k]]
           W == [k \in 0 .. r |-> Dressed(G[u + k], reg)]
           Runs(f) == f = [k \in 0 .. r |-> IF k = 0 THEN s ELSE Redone(f[k - 1], re[r + 1 - k])]
<1>1. /\ u \in Nat /\ r \in Nat
      /\ G \in [0 .. u + r -> [D -> Bodies]]
      /\ \A k \in 1 .. u + r : RecordAt(un, re, k) \in Records
      /\ \A k \in 1 .. u + r : Fit(RecordAt(un, re, k), G[k - 1], G[k])
  BY LineParts DEF Frames
<1>2. Replayed(s, re) = CHOOSE f : Runs(f)
  BY DEF Replayed
<1>3. ASSUME NEW k \in 1 .. r
      PROVE  W[k] = Redone(W[k - 1], Q[k])
  <2> DEFINE j == u + k
             q == re[r + 1 - k]
  <2>1. /\ j \in 1 .. u + r /\ j \in 0 .. u + r /\ ~ (j <= u) /\ u + r + 1 - j = r + 1 - k
        /\ j - 1 = u + (k - 1) /\ k \in 0 .. r /\ k - 1 \in 0 .. r
        /\ j - 1 \in 0 .. u + r
    BY <1>1
  <2>2. W[k] = Dressed(G[j], reg) /\ W[k - 1] = Dressed(G[j - 1], reg) /\ Q[k] = q
    BY <2>1
  <2>3. RecordAt(un, re, j) = q
    <3> HIDE DEF j
    <3> QED
      BY <2>1 DEF RecordAt
  <2> HIDE DEF j, W, Q, q
  <2>4. Fit(q, G[j - 1], G[j]) /\ q \in Records
    BY <1>1, <2>1, <2>3
  <2>5. G[j - 1] \in [D -> Bodies]
    BY <1>1, <2>1
  <2>6. q.id \in D /\ G[j] = Redone(G[j - 1], q)
    BY <2>4, <2>5 DEF Fit
  <2>7. Redone(Dressed(G[j - 1], reg), q) = Dressed(Redone(G[j - 1], q), reg)
    BY <2>4, <2>5, <2>6, DressedRedone
  <2> QED
    BY <2>2, <2>6, <2>7
<1>4. W = [k \in 0 .. r |-> W[k]]
  OBVIOUS
<1>5. W[0] = s
  <2>1. 0 \in 0 .. r /\ u + 0 = u
    BY <1>1
  <2> QED
    BY <2>1
<1>6. \A f : Runs(f) <=> RunsFrom(f, r, W[0], Q)
  <2> TAKE f
  <2>1. \A k \in 1 .. r : re[r + 1 - k] = Q[k]
    OBVIOUS
  <2>2. \A k \in 0 .. r : k # 0 => k \in 1 .. r
    BY <1>1
  <2> HIDE DEF W, Q, s
  <2>3. [k \in 0 .. r |-> IF k = 0 THEN s ELSE Redone(f[k - 1], re[r + 1 - k])]
            = [k \in 0 .. r |-> IF k = 0 THEN W[0] ELSE Redone(f[k - 1], Q[k])]
    BY <1>5, <2>1, <2>2
  <2> QED
    BY <2>3 DEF RunsFrom
<1>7. \A f : Runs(f) => f = W
  <2>1. Leading(W, r, Q)
    <3> HIDE DEF W, Q
    <3> QED
      BY <1>3, <1>4 DEF Leading
  <2> HIDE DEF W, Q, Runs, r
  <2> QED
    BY <1>1, <1>6, <2>1, RunIs
<1>8. Runs(W)
  <2>1. W = [k \in 0 .. r |-> IF k = 0 THEN W[0] ELSE Redone(W[k - 1], Q[k])]
    <3>1. \A k \in 0 .. r : W[k] = IF k = 0 THEN W[0] ELSE Redone(W[k - 1], Q[k])
      <4>1. \A k \in 0 .. r : k # 0 => k \in 1 .. r
        BY <1>1
      <4> HIDE DEF W, Q
      <4> QED
        BY <1>3, <4>1
    <3> HIDE DEF W, Q
    <3> QED
      BY <1>4, <3>1
  <2> HIDE DEF W, Q, Runs
  <2> QED
    BY <1>6, <2>1 DEF RunsFrom
<1> HIDE DEF Runs, W, s, u, r
<1>9. (CHOOSE f : Runs(f)) = W
  BY <1>7, <1>8
<1> QED
  BY <1>2, <1>9 DEF W, s, u, r, ForthRun

\* The pictures of the undo and of the redo history on the film.
PastOf(G, u) == [i \in 1 .. u |-> Picture(G[i - 1])]
FutureOf(G, u, r) == [i \in 1 .. r |-> Picture(G[u + r + 1 - i])]

SettledOf(reg, rec) == IF rec # NoRecord THEN Undone(reg, rec) ELSE reg
PastBy(s, un) == [i \in DOMAIN un |-> Picture(Rewound(s, un)[Len(un) + 1 - i])]
FutureBy(s, re) == [i \in DOMAIN re |-> Picture(Replayed(s, re)[Len(re) + 1 - i])]

Canvases == SUBSET [id : Nat, type : Types, points : Seq(Places)]

OnPaper(reg) == DOMAIN reg \in SUBSET Nat /\ reg \in [DOMAIN reg -> Drawn]

\* What the histories stand for is what the film shows.
LEMMA FilmShows ==
    ASSUME NEW reg, OnPaper(reg),
           NEW un \in Seq(Records), NEW re \in Seq(Records), NEW rec \in Records,
           NEW G, Film(G, reg, un, re, rec)
    PROVE  LET s == SettledOf(reg, rec)
           IN  /\ PastBy(s, un) = PastOf(G, Len(un))
               /\ FutureBy(s, re) = FutureOf(G, Len(un), Len(re))
               /\ Picture(s) = Picture(G[Len(un)])
               /\ Picture(reg) = Picture(Outline(reg))
               /\ Picture(reg) \in Canvases
               /\ \A k \in 0 .. Len(un) + Len(re) : Picture(G[k]) \in Canvases
<1> DEFINE u == Len(un)
           r == Len(re)
           s == SettledOf(reg, rec)
<1> PICK D : D = DOMAIN reg
  OBVIOUS
<1>0. D \in SUBSET Nat /\ reg \in [D -> Drawn]
  BY DEF OnPaper
<1>1. /\ u \in Nat /\ r \in Nat
      /\ Frames(G, D, un, re) /\ Shot(G[u], Outline(reg), rec)
      /\ G \in [0 .. u + r -> [D -> Bodies]]
  BY LineParts DEF Film, Frames
<1>2. /\ Outline(reg) \in [D -> Bodies] /\ reg = Dressed(Outline(reg), reg)
  BY <1>0, DressedIs
<1>3. G[u] \in [D -> Bodies]
  BY <1>1
<1>4. s = Dressed(G[u], reg)
  <2>1. CASE rec = NoRecord
    BY <1>1, <1>2, <2>1 DEF Shot, SettledOf
  <2>2. CASE rec # NoRecord
    <3> DEFINE inv == Inverted(rec)
    <3>1. G[u] = Redone(Outline(reg), inv) /\ rec.id \in D
      BY <1>1, <1>3, <2>2 DEF Shot, Fit, Undone
    <3>2. inv \in Records /\ inv.id \in D
      BY <3>1, InvertedParts
    <3>3. s = Redone(reg, inv)
      BY <2>2 DEF SettledOf, Undone
    <3> HIDE DEF s, inv
    <3>4. Redone(Dressed(Outline(reg), reg), inv) = Dressed(Redone(Outline(reg), inv), reg)
      BY <1>0, <1>2, <3>2, DressedRedone
    <3> QED
      BY <1>2, <3>1, <3>3, <3>4
  <2> QED
    BY <2>1, <2>2
<1> HIDE DEF s
<1>5. \A k \in 0 .. u + r : Picture(Dressed(G[k], reg)) = Picture(G[k])
                            /\ Picture(G[k]) \in Canvases
  <2> TAKE k \in 0 .. u + r
  <2>1. G[k] \in [D -> Bodies]
    BY <1>1
  <2> QED
    BY <1>0, <2>1, PictureOfDress, PictureType DEF Canvases
<1>6. Picture(reg) = Picture(Outline(reg)) /\ Picture(reg) \in Canvases
  <2>1. Picture(Dressed(Outline(reg), reg)) = Picture(Outline(reg))
    BY <1>0, <1>2, PictureOfDress
  <2>2. Picture(Outline(reg)) \in Canvases
    BY <1>0, <1>2, PictureType DEF Canvases
  <2> QED
    BY <1>2, <2>1, <2>2
<1>7. PastBy(s, un) = PastOf(G, u)
  <2>1. Rewound(s, un) = [k \in 0 .. u |-> Dressed(G[u - k], reg)]
    <3>0. Frames(G, D, un, re)
      BY <1>1
    <3>1. Rewound(Dressed(G[u], reg), un) = BackRun(G, reg, u)
      BY <1>0, <3>0, RewoundIs
    <3> QED
      BY <1>4, <3>1 DEF BackRun
  <2>2. ASSUME NEW i \in 1 .. u
        PROVE  Picture(Rewound(s, un)[u + 1 - i]) = Picture(G[i - 1])
    <3>1. u + 1 - i \in 0 .. u /\ u - (u + 1 - i) = i - 1 /\ i - 1 \in 0 .. u + r
      BY <1>1
    <3>2. Rewound(s, un)[u + 1 - i] = Dressed(G[i - 1], reg)
      BY <2>1, <3>1
    <3> QED
      BY <1>5, <3>1, <3>2
  <2>3. DOMAIN un = 1 .. u
    BY LenProperties
  <2> QED
    BY <2>2, <2>3 DEF PastBy, PastOf
<1>8. FutureBy(s, re) = FutureOf(G, u, r)
  <2>1. Replayed(s, re) = [k \in 0 .. r |-> Dressed(G[u + k], reg)]
    <3>0. Frames(G, D, un, re)
      BY <1>1
    <3>1. Replayed(Dressed(G[u], reg), re) = ForthRun(G, reg, u, r)
      BY <1>0, <3>0, ReplayedIs
    <3> QED
      BY <1>4, <3>1 DEF ForthRun
  <2>2. ASSUME NEW i \in 1 .. r
        PROVE  Picture(Replayed(s, re)[r + 1 - i]) = Picture(G[u + r + 1 - i])
    <3>1. /\ r + 1 - i \in 0 .. r /\ u + (r + 1 - i) = u + r + 1 - i
          /\ u + r + 1 - i \in 0 .. u + r
      BY <1>1
    <3>2. Replayed(s, re)[r + 1 - i] = Dressed(G[u + r + 1 - i], reg)
      BY <2>1, <3>1
    <3> QED
      BY <1>5, <3>1, <3>2
  <2>3. DOMAIN re = 1 .. r
    BY LenProperties
  <2> QED
    BY <2>2, <2>3 DEF FutureBy, FutureOf
<1>9. Picture(s) = Picture(G[u])
  <2>1. u \in 0 .. u + r
    BY <1>1
  <2> QED
    BY <1>4, <1>5, <2>1
<1> QED
  BY <1>5, <1>6, <1>7, <1>8, <1>9 DEF s

-----------------------------------------------------------------------------
(* The pictures of the line when it changes. *)

\* t is s with x after it.
Extends(t, s, x) == /\ t = [i \in 1 .. Len(s) + 1 |-> t[i]]
                    /\ \A i \in 1 .. Len(s) : t[i] = s[i]
                    /\ t[Len(s) + 1] = x

\* A list that extends another by one element is Append of it.
LEMMA Appended ==
    ASSUME NEW S, NEW s \in Seq(S), NEW x, NEW t, Extends(t, s, x)
    PROVE  t = Append(s, x)
<1>0. /\ t = [i \in 1 .. Len(s) + 1 |-> t[i]]
      /\ \A i \in 1 .. Len(s) : t[i] = s[i]
      /\ t[Len(s) + 1] = x
  BY DEF Extends
<1>1. /\ Len(s) \in Nat /\ s \in Seq(S \cup {x}) /\ x \in S \cup {x}
  BY LenProperties
<1>2. /\ Append(s, x) \in Seq(S \cup {x}) /\ Len(Append(s, x)) = Len(s) + 1
      /\ Append(s, x)[Len(s) + 1] = x
      /\ \A i \in 1 .. Len(s) : Append(s, x)[i] = s[i]
  BY <1>1, AppendProperties
<1>3. DOMAIN Append(s, x) = 1 .. Len(s) + 1
      /\ Append(s, x) = [i \in 1 .. Len(s) + 1 |-> Append(s, x)[i]]
  BY <1>2, LenProperties
<1>4. \A i \in 1 .. Len(s) + 1 : i \in 1 .. Len(s) \/ i = Len(s) + 1
  BY <1>1
<1> QED
  BY <1>0, <1>2, <1>3, <1>4

\* The line grows at its cursor.
LEMMA PastGrows ==
    ASSUME NEW u \in Nat, NEW G, NEW H,
           \A k \in 0 .. u : Picture(H[k]) = Picture(G[k])
    PROVE  /\ PastOf(H, u) = PastOf(G, u)
           /\ PastOf(H, u + 1) = Append(PastOf(G, u), Picture(G[u]))
           /\ FutureOf(H, u + 1, 0) = <<>>
<1>1. \A i \in 1 .. u + 1 : Picture(H[i - 1]) = Picture(G[i - 1])
  BY Z3
<1>2. PastOf(H, u) = PastOf(G, u)
  BY <1>1 DEF PastOf
<1> DEFINE P == PastOf(G, u)
           Q == PastOf(H, u + 1)
           S == {Picture(G[i]) : i \in 0 .. u}
<1>3. /\ Q = [i \in 1 .. u + 1 |-> Q[i]] /\ \A i \in 1 .. u : Q[i] = P[i]
      /\ Q[u + 1] = Picture(G[u])
  BY <1>1 DEF PastOf
<1>4. P \in [1 .. u -> S]
  <2>1. \A i \in 1 .. u : i - 1 \in 0 .. u
    OBVIOUS
  <2>2. \A i \in 1 .. u : Picture(G[i - 1]) \in S
    BY <2>1
  <2> HIDE DEF S
  <2> QED
    BY <2>2 DEF PastOf
<1>5. P \in Seq(S) /\ Len(P) = u
  BY <1>4, FunctionIsList
<1> HIDE DEF P, Q, S
<1>7. Append(P, Picture(G[u])) = Q
  <2>1. Extends(Q, P, Picture(G[u]))
    BY <1>3, <1>5 DEF Extends
  <2> QED
    BY <1>5, <2>1, Appended
<1>8. FutureOf(H, u + 1, 0) = <<>>
  BY DEF FutureOf
<1> QED
  BY <1>2, <1>7, <1>8 DEF P, Q

\* The cursor moves back over a record.
LEMMA CursorBack ==
    ASSUME NEW u \in Nat \ {0}, NEW r \in Nat, NEW G
    PROVE  /\ PastOf(G, u) # <<>>
           /\ PastOf(G, u - 1) = Front(PastOf(G, u))
           /\ Picture(G[u - 1]) = Last(PastOf(G, u))
           /\ FutureOf(G, u - 1, r + 1) = Append(FutureOf(G, u, r), Picture(G[u]))
<1> DEFINE P == PastOf(G, u)
           F == FutureOf(G, u, r)
           E == FutureOf(G, u - 1, r + 1)
           S == {Picture(G[i]) : i \in 0 .. u + r}
<1>1. P \in [1 .. u -> S] /\ \A i \in 1 .. u : P[i] = Picture(G[i - 1])
  <2>1. \A i \in 1 .. u : i - 1 \in 0 .. u + r
    OBVIOUS
  <2>2. \A i \in 1 .. u : Picture(G[i - 1]) \in S
    BY <2>1
  <2> HIDE DEF S
  <2> QED
    BY <2>2 DEF PastOf
<1>2. F \in [1 .. r -> S] /\ \A i \in 1 .. r : F[i] = Picture(G[u + r + 1 - i])
  <2>1. \A i \in 1 .. r : u + r + 1 - i \in 0 .. u + r
    OBVIOUS
  <2>2. \A i \in 1 .. r : Picture(G[u + r + 1 - i]) \in S
    BY <2>1
  <2> HIDE DEF S
  <2> QED
    BY <2>2 DEF FutureOf
<1>3. P \in Seq(S) /\ Len(P) = u /\ F \in Seq(S) /\ Len(F) = r
  BY <1>1, <1>2, FunctionIsList
<1>4. P # <<>>
  BY <1>3
<1>5. /\ Front(P) \in Seq(S) /\ Len(Front(P)) = u - 1
      /\ \A k \in 1 .. u - 1 : Front(P)[k] = P[k]
      /\ Last(P) = P[u]
  <2> HIDE DEF P, S
  <2> QED
    BY <1>3, <1>4, FrontIs
<1>6. PastOf(G, u - 1) = Front(P)
  <2>1. Front(P) = [i \in 1 .. u - 1 |-> Front(P)[i]]
    <3> HIDE DEF P, S
    <3> QED
      BY <1>5, LenProperties
  <2>2. \A i \in 1 .. u - 1 : Front(P)[i] = Picture(G[i - 1])
    <3> HIDE DEF P, S
    <3> QED
      BY <1>1, <1>5
  <2> HIDE DEF P
  <2> QED
    BY <2>1, <2>2 DEF PastOf
<1>7. Last(P) = Picture(G[u - 1])
  <2> HIDE DEF P, S
  <2> QED
    BY <1>1, <1>5
<1>8. E = Append(F, Picture(G[u]))
  <2>1. E = [i \in 1 .. r + 1 |-> E[i]]
        /\ \A i \in 1 .. r + 1 : E[i] = Picture(G[(u - 1) + (r + 1) + 1 - i])
    BY DEF FutureOf
  <2>2. \A i \in 1 .. r + 1 : (u - 1) + (r + 1) + 1 - i = u + r + 1 - i
    OBVIOUS
  <2>3. \A i \in 1 .. r : E[i] = F[i]
    <3>1. \A i \in 1 .. r : i \in 1 .. r + 1
      OBVIOUS
    <3> HIDE DEF E, F, S
    <3> QED
      BY <1>2, <2>1, <2>2, <3>1
  <2>4. E[r + 1] = Picture(G[u])
    <3>1. u + r + 1 - (r + 1) = u /\ r + 1 \in 1 .. r + 1
      OBVIOUS
    <3> HIDE DEF E
    <3> QED
      BY <2>1, <2>2, <3>1
  <2> HIDE DEF E, F, S
  <2> QED
    <3>1. Extends(E, F, Picture(G[u]))
      BY <1>3, <2>1, <2>3, <2>4 DEF Extends
    <3> QED
      BY <1>3, <3>1, Appended
<1> QED
  BY <1>4, <1>6, <1>7, <1>8 DEF P, F, E

\* The cursor moves on over a record.
LEMMA CursorForth ==
    ASSUME NEW u \in Nat, NEW r \in Nat \ {0}, NEW G
    PROVE  /\ FutureOf(G, u, r) # <<>>
           /\ FutureOf(G, u + 1, r - 1) = Front(FutureOf(G, u, r))
           /\ Picture(G[u + 1]) = Last(FutureOf(G, u, r))
           /\ PastOf(G, u + 1) = Append(PastOf(G, u), Picture(G[u]))
<1> DEFINE F == FutureOf(G, u, r)
           S == {Picture(G[i]) : i \in 0 .. u + r}
<1>1. F \in [1 .. r -> S] /\ \A i \in 1 .. r : F[i] = Picture(G[u + r + 1 - i])
  <2>1. \A i \in 1 .. r : u + r + 1 - i \in 0 .. u + r
    OBVIOUS
  <2>2. \A i \in 1 .. r : Picture(G[u + r + 1 - i]) \in S
    BY <2>1
  <2> HIDE DEF S
  <2> QED
    BY <2>2 DEF FutureOf
<1>2. F \in Seq(S) /\ Len(F) = r
  BY <1>1, FunctionIsList
<1>3. F # <<>>
  BY <1>2
<1>4. /\ Front(F) \in Seq(S) /\ Len(Front(F)) = r - 1
      /\ \A k \in 1 .. r - 1 : Front(F)[k] = F[k]
      /\ Last(F) = F[r]
  <2> HIDE DEF F, S
  <2> QED
    BY <1>2, <1>3, FrontIs
<1>5. FutureOf(G, u + 1, r - 1) = Front(F)
  <2>1. Front(F) = [i \in 1 .. r - 1 |-> Front(F)[i]]
    <3> HIDE DEF F, S
    <3> QED
      BY <1>4, LenProperties
  <2>2. \A i \in 1 .. r - 1 : (u + 1) + (r - 1) + 1 - i = u + r + 1 - i
    OBVIOUS
  <2>3. \A i \in 1 .. r - 1 : Front(F)[i] = Picture(G[(u + 1) + (r - 1) + 1 - i])
    <3> HIDE DEF F, S
    <3> QED
      BY <1>1, <1>4, <2>2
  <2> HIDE DEF F
  <2> QED
    BY <2>1, <2>3 DEF FutureOf
<1>6. Last(F) = Picture(G[u + 1])
  <2>1. u + r + 1 - r = u + 1 /\ r \in 1 .. r
    OBVIOUS
  <2> HIDE DEF F, S
  <2> QED
    BY <1>1, <1>4, <2>1
<1>7. PastOf(G, u + 1) = Append(PastOf(G, u), Picture(G[u]))
  BY PastGrows
<1> QED
  BY <1>3, <1>5, <1>6, <1>7 DEF F

-----------------------------------------------------------------------------
(* The film through the steps. *)

\* The shapes of a canvas in order have points.
LEMMA CanvasDrawn ==
    ASSUME NEW reg \in Seq(Shapes), \A id \in DOMAIN reg : Shapely(reg[id])
    PROVE  OnPaper(reg)
<1>1. DOMAIN reg = 1 .. Len(reg) /\ Len(reg) \in Nat /\ reg = [id \in DOMAIN reg |-> reg[id]]
  BY LenProperties
<1>2. ASSUME NEW id \in DOMAIN reg
      PROVE  reg[id] \in Drawn
  <2>1. reg[id] \in Shapes /\ reg[id].points # <<>>
    BY <1>1, ElementOfSeq DEF Shapely
  <2> QED
    BY <2>1 DEF Shapes, Drawn, Tracks
<1> QED
  BY <1>1, <1>2 DEF OnPaper

\* What the user sees is what the film shows.
Screened(G) ==
    LET u == Len(undoStack)
        r == Len(redoStack)
    IN  /\ Past = PastOf(G, u)
        /\ Future = FutureOf(G, u, r)
        /\ Picture(Settled) = Picture(G[u])
        /\ Picture(registry) = Picture(Outline(registry))
        /\ Picture(registry) \in Canvases

\* The histories show what the film does.
LEMMA ScreenedNow ==
    ASSUME IInv, NEW G, Filmed(G)
    PROVE  Screened(G)
<1>1. /\ undoStack \in Seq(Records) /\ redoStack \in Seq(Records) /\ open \in Records
      /\ OnPaper(registry)
  BY CanvasDrawn DEF IInv, SceneInv, HistoryInv, Histories
<1>2. /\ Settled = SettledOf(registry, open)
      /\ Past = PastBy(Settled, undoStack) /\ Future = FutureBy(Settled, redoStack)
  BY DEF Settled, SettledOf, HasOpen, Past, PastBy, Future, FutureBy
<1>3. Film(G, registry, undoStack, redoStack, open)
  BY DEF Filmed
<1> QED
  BY <1>1, <1>2, <1>3, FilmShows DEF Screened

\* As ScreenedNow, after a step.
LEMMA ScreenedNext ==
    ASSUME IInv', NEW G, Filmed(G)'
    PROVE  Screened(G)'
<1> PICK reg : reg = registry'
  OBVIOUS
<1> PICK un : un = undoStack'
  OBVIOUS
<1> PICK re : re = redoStack'
  OBVIOUS
<1> PICK rec : rec = open'
  OBVIOUS
<1> PICK s : s = SettledOf(reg, rec)
  OBVIOUS
<1>1. /\ un \in Seq(Records) /\ re \in Seq(Records) /\ rec \in Records
      /\ OnPaper(reg)
  BY CanvasDrawn DEF IInv, SceneInv, HistoryInv, Histories
<1>2. Settled' = s /\ Past' = PastBy(s, un) /\ Future' = FutureBy(s, re)
  BY DEF Settled, SettledOf, HasOpen, Past, PastBy, Future, FutureBy
<1>3. Film(G, reg, un, re, rec)
  BY DEF Filmed
<1>4. /\ PastBy(s, un) = PastOf(G, Len(un))
      /\ FutureBy(s, re) = FutureOf(G, Len(un), Len(re))
      /\ Picture(s) = Picture(G[Len(un)])
      /\ Picture(reg) = Picture(Outline(reg))
      /\ Picture(reg) \in Canvases
  BY <1>1, <1>3, FilmShows
<1> QED
  BY <1>2, <1>4 DEF Screened

\* The film after a step that leaves the histories alone, and after one that
\* commits a record that leads to x.
Kept(G, H) == UNCHANGED <<undoStack, redoStack>> /\ H = G
Grown(G, H, x) == /\ Len(undoStack') = Len(undoStack) + 1 /\ redoStack' = <<>>
                  /\ \A j \in 0 .. Len(undoStack) : H[j] = G[j]
                  /\ H[Len(undoStack) + 1] = x

\* A record that leads from the cursor to h is committed.
LEMMA CommitFilm ==
    ASSUME Histories, NEW D, NEW G, Frames(G, D, undoStack, redoStack),
           NEW rec \in Records, NEW h \in [D -> Bodies], Fit(rec, G[Len(undoStack)], h),
           CommitRecord(rec)
    PROVE  \E H : /\ Frames(H, D, undoStack', redoStack')
                  /\ H[Len(undoStack')] = h
                  /\ Kept(G, H) \/ Grown(G, H, h)
<1> PICK u : u = Len(undoStack)
  OBVIOUS
<1>1. undoStack \in Seq(Records) /\ redoStack \in Seq(Records) /\ u \in Nat
  BY LenProperties DEF Histories
<1>2. CASE IsNoop(rec)
  <2>1. UNCHANGED <<undoStack, redoStack>>
    BY <1>2, CommitSkips
  <2>2. G[u] \in [D -> Bodies]
    BY <1>1, LenProperties DEF Frames
  <2>3. h = G[u]
    BY <1>2, <2>2, FitNoop
  <2> QED
    BY <2>1, <2>3 DEF Kept
<1>3. CASE ~ IsNoop(rec)
  <2> DEFINE H == [k \in 0 .. u + 1 |-> IF k <= u THEN G[k] ELSE h]
  <2>1. undoStack' = Append(undoStack, rec) /\ redoStack' = <<>>
    BY <1>3 DEF CommitRecord, Committed
  <2>2. Frames(H, D, undoStack', redoStack')
    <3>1. Frames([k \in 0 .. Len(undoStack) + 1 |-> IF k <= Len(undoStack) THEN G[k] ELSE h],
                 D, Append(undoStack, rec), <<>>)
      BY <1>1, FramesCommit
    <3> QED
      BY <2>1, <3>1
  <2>3. Len(undoStack') = u + 1
    BY <1>1, <2>1, AppendProperties
  <2>4. H[u + 1] = h /\ \A j \in 0 .. u : H[j] = G[j]
    BY <1>1
  <2> HIDE DEF H
  <2> QED
    BY <2>1, <2>2, <2>3, <2>4 DEF Grown
<1> QED
  BY <1>2, <1>3

\* A record of a new step from h to k is made while another may still be open.
LEMMA RecordFilm ==
    ASSUME Histories, open \in Records, ~ inOperation => ~ HasOpen,
           NEW D, NEW G, Frames(G, D, undoStack, redoStack),
           NEW h \in [D -> Bodies], Shot(G[Len(undoStack)], h, open),
           NEW rec \in Records, rec.id # 0, HasOpen /\ SameGesture(rec) => rec.op \in Moves,
           NEW k \in [D -> Bodies], Fit(rec, h, k), RecordOp(rec)
    PROVE  \E H : /\ Frames(H, D, undoStack', redoStack')
                  /\ Shot(H[Len(undoStack')], k, open')
                  /\ \/ Kept(G, H)
                     \/ Grown(G, H, h)
                     \/ Grown(G, H, k) /\ h = G[Len(undoStack)]
<1>1. rec # NoRecord
  BY IsRecord
<1>2. CASE ~ inOperation /\ CommitRecord(rec) /\ UNCHANGED <<inOperation, open>>
  <2>1. open = NoRecord /\ open' = NoRecord /\ h = G[Len(undoStack)]
    BY <1>2 DEF HasOpen, Shot
  <2>2. PICK H : /\ Frames(H, D, undoStack', redoStack')
                 /\ H[Len(undoStack')] = k
                 /\ Kept(G, H) \/ Grown(G, H, k)
    BY <1>2, <2>1, CommitFilm
  <2> QED
    BY <2>1, <2>2 DEF Shot
<1>3. CASE /\ inOperation /\ HasOpen /\ SameGesture(rec)
           /\ open' = Merged(rec)
           /\ UNCHANGED <<undoStack, redoStack, inOperation>>
  <2>1. Fit(open, G[Len(undoStack)], h)
    BY <1>3 DEF HasOpen, Shot
  <2>2. Alike(open, rec) /\ open.op \in Moves /\ open' = Combined(open, rec)
    BY <1>3 DEF SameGesture, Alike, Merged, Combined
  <2>3. G[Len(undoStack)] \in [D -> Bodies]
    BY LenProperties DEF Frames, Histories
  <2>4. k = Redone(h, rec)
    BY DEF Fit
  <2>5. Fit(open', G[Len(undoStack)], k) /\ open'.op \in Moves
    BY <2>1, <2>2, <2>3, <2>4, FitMerge
  <2>6. open' # NoRecord
    BY <2>5 DEF NoRecord, Moves
  <2> QED
    BY <1>3, <2>5, <2>6 DEF Shot, Kept
<1>4. CASE /\ inOperation
           /\ IF HasOpen THEN CommitRecord(open) ELSE UNCHANGED <<undoStack, redoStack>>
           /\ open' = rec
           /\ UNCHANGED inOperation
  <2>1. PICK H : /\ Frames(H, D, undoStack', redoStack')
                 /\ H[Len(undoStack')] = h
                 /\ Kept(G, H) \/ Grown(G, H, h)
    <3>1. CASE HasOpen
      <4>1. Fit(open, G[Len(undoStack)], h) /\ CommitRecord(open)
        BY <1>4, <3>1 DEF HasOpen, Shot
      <4> QED
        BY <4>1, CommitFilm
    <3>2. CASE ~ HasOpen
      <4>1. h = G[Len(undoStack)] /\ UNCHANGED <<undoStack, redoStack>>
        BY <1>4, <3>2 DEF HasOpen, Shot
      <4> QED
        BY <4>1 DEF Kept
    <3> QED
      BY <3>1, <3>2
  <2>2. Shot(H[Len(undoStack')], k, open')
    BY <1>1, <1>4, <2>1 DEF Shot
  <2> QED
    BY <2>1, <2>2
<1> QED
  BY <1>2, <1>3, <1>4 DEF RecordOp

\* A gesture is finished.
LEMMA FinishFilm ==
    ASSUME Histories, open \in Records, ~ inOperation => ~ HasOpen,
           NEW D, NEW G, Frames(G, D, undoStack, redoStack),
           NEW h \in [D -> Bodies], Shot(G[Len(undoStack)], h, open), FinishOpen
    PROVE  \E H : /\ Frames(H, D, undoStack', redoStack')
                  /\ Shot(H[Len(undoStack')], h, NoRecord)
                  /\ Kept(G, H) \/ Grown(G, H, h)
<1>1. CASE HasOpen
  <2>1. Fit(open, G[Len(undoStack)], h) /\ CommitRecord(open)
    BY <1>1 DEF HasOpen, Shot, FinishOpen
  <2> QED
    BY <2>1, CommitFilm DEF Shot
<1>2. CASE ~ HasOpen
  <2>1. h = G[Len(undoStack)] /\ UNCHANGED <<undoStack, redoStack>>
    BY <1>2 DEF HasOpen, Shot, FinishOpen
  <2> QED
    BY <2>1 DEF Kept, Shot
<1> QED
  BY <1>1, <1>2

-----------------------------------------------------------------------------
(* The steps of the film are steps of the promise. *)

\* G shows the same pictures as the film F.
Same(F, G) == \A j \in 0 .. Len(undoStack) + Len(redoStack) : Picture(G[j]) = Picture(F[j])

\* The histories as numbers.
LEMMA LengthsAre ==
    ASSUME Histories
    PROVE  Len(undoStack) \in Nat /\ Len(redoStack) \in Nat
  BY LenProperties DEF Histories

\* The canvas changes and the histories do not: a sketch.
LEMMA SketchShown ==
    ASSUME IInv, IInv', NEW F, Filmed(F), NEW G, Same(F, G), NEW H, Filmed(H)', Kept(G, H)
    PROVE  Promise!Sketch
<1> PICK u : u = Len(undoStack)
  OBVIOUS
<1> PICK r : r = Len(redoStack)
  OBVIOUS
<1>1. u \in Nat /\ r \in Nat
  BY LengthsAre DEF IInv, HistoryInv
<1>2. /\ Past = PastOf(F, u) /\ Future = FutureOf(F, u, r) /\ Picture(Settled) = Picture(F[u])
  BY ScreenedNow DEF Screened
<1>3. Len(undoStack') = u /\ Len(redoStack') = r /\ H = G
  BY DEF Kept
<1>4. /\ Past' = PastOf(G, u) /\ Future' = FutureOf(G, u, r)
      /\ Picture(Settled)' = Picture(G[u]) /\ Picture(registry)' \in Canvases
  BY <1>3, ScreenedNext DEF Screened
<1>5. \A j \in 0 .. u + r : Picture(G[j]) = Picture(F[j])
  BY DEF Same
<1>6. PastOf(G, u) = PastOf(F, u)
  <2>1. \A i \in 1 .. u : i - 1 \in 0 .. u + r
    BY <1>1
  <2> QED
    BY <1>5, <2>1 DEF PastOf
<1>7. FutureOf(G, u, r) = FutureOf(F, u, r)
  <2>1. \A i \in 1 .. r : u + r + 1 - i \in 0 .. u + r
    BY <1>1
  <2> QED
    BY <1>5, <2>1 DEF FutureOf
<1>8. Picture(G[u]) = Picture(F[u])
  BY <1>1, <1>5
<1> QED
  BY <1>2, <1>4, <1>6, <1>7, <1>8 DEF Promise!Sketch, Canvases

\* What a step that commits a record does to the pictures.
LEMMA GrowShown ==
    ASSUME IInv, IInv', NEW F, Filmed(F), NEW G, Same(F, G), NEW H, Filmed(H)',
           NEW x, Grown(G, H, x)
    PROVE  /\ Past' = Append(Past, Picture(Settled))
           /\ Future' = <<>>
           /\ Picture(Settled)' = Picture(x)
           /\ Picture(registry)' \in Canvases
           /\ Picture(Settled) = Picture(G[Len(undoStack)])
<1> PICK u : u = Len(undoStack)
  OBVIOUS
<1>1. u \in Nat /\ Len(redoStack) \in Nat
  BY LengthsAre DEF IInv, HistoryInv
<1>2. Past = PastOf(F, u) /\ Picture(Settled) = Picture(F[u])
  BY ScreenedNow DEF Screened
<1>3. /\ Len(undoStack') = u + 1 /\ redoStack' = <<>> /\ Len(redoStack') = 0
      /\ \A j \in 0 .. u : H[j] = G[j]
      /\ H[u + 1] = x
  BY DEF Grown
<1>4. /\ Past' = PastOf(H, u + 1) /\ Future' = FutureOf(H, u + 1, 0)
      /\ Picture(Settled)' = Picture(x) /\ Picture(registry)' \in Canvases
  BY <1>3, ScreenedNext DEF Screened
<1>5. \A j \in 0 .. u : j \in 0 .. u + Len(redoStack)
  BY <1>1
<1>6. \A j \in 0 .. u : Picture(H[j]) = Picture(F[j]) /\ Picture(G[j]) = Picture(F[j])
  BY <1>3, <1>5 DEF Same
<1>7. /\ PastOf(H, u + 1) = Append(PastOf(F, u), Picture(F[u]))
      /\ FutureOf(H, u + 1, 0) = <<>>
  BY <1>1, <1>6, PastGrows
<1>8. Picture(G[u]) = Picture(F[u])
  BY <1>1, <1>6
<1> QED
  BY <1>2, <1>4, <1>7, <1>8

\* A gesture is finished, or one is followed by another.
LEMMA CommitShown ==
    ASSUME IInv, IInv', NEW F, Filmed(F), NEW G, Same(F, G), NEW H, Filmed(H)',
           NEW x, Grown(G, H, x), Picture(x) = Picture(registry)
    PROVE  Promise!Commit
  BY GrowShown DEF Promise!Commit, Canvases

\* A change outside of a gesture.
LEMMA ChangeShown ==
    ASSUME IInv, IInv', NEW F, Filmed(F), NEW G, Same(F, G), NEW H, Filmed(H)',
           NEW x, Grown(G, H, x), Picture(x) = Picture(registry)',
           Picture(G[Len(undoStack)]) = Picture(registry)
    PROVE  Promise!Change
  BY GrowShown DEF Promise!Change, Canvases

\* A step of a gesture or outside of one, from the bodies h to the bodies k.
LEMMA StepShown ==
    ASSUME IInv, IInv', NEW F, Filmed(F), NEW G, Same(F, G), NEW H, Filmed(H)',
           NEW h, Picture(h) = Picture(registry), NEW k, Picture(k) = Picture(registry)',
           \/ Kept(G, H)
           \/ Grown(G, H, h)
           \/ Grown(G, H, k) /\ h = G[Len(undoStack)]
    PROVE  Promise!Next
<1>1. CASE Kept(G, H)
  BY <1>1, SketchShown DEF Promise!Next
<1>2. CASE Grown(G, H, h)
  BY <1>2, CommitShown DEF Promise!Next
<1>3. CASE Grown(G, H, k) /\ h = G[Len(undoStack)]
  BY <1>3, ChangeShown DEF Promise!Next
<1> QED
  BY <1>1, <1>2, <1>3

-----------------------------------------------------------------------------
(* The operations, one by one. *)

\* The canvas and its outline.
LEMMA CanvasOutline ==
    ASSUME IInv
    PROVE  /\ registry \in [DOMAIN registry -> Drawn] /\ DOMAIN registry = 1 .. Len(registry)
           /\ Len(registry) \in Nat
           /\ Outline(registry) \in [DOMAIN registry -> Bodies]
           /\ Picture(Outline(registry)) = Picture(registry)
<1> PICK D : D = DOMAIN registry
  OBVIOUS
<1>1. registry \in [D -> Drawn]
  BY CanvasDrawn DEF IInv, SceneInv, OnPaper
<1>2. D = 1 .. Len(registry) /\ Len(registry) \in Nat
  BY LenProperties DEF IInv, SceneInv
<1>3. Outline(registry) \in [D -> Bodies] /\ registry = Dressed(Outline(registry), registry)
  BY <1>1, DressedIs
<1>4. Picture(Dressed(Outline(registry), registry)) = Picture(Outline(registry))
  BY <1>1, <1>3, PictureOfDress
<1> QED
  BY <1>1, <1>2, <1>3, <1>4

\* A record that is applied to the canvas does to its outline what it says.
LEMMA ApplyOutline ==
    ASSUME IInv, NEW rec \in Records, rec.id \in DOMAIN registry, Apply(rec)
    PROVE  /\ DOMAIN registry' = DOMAIN registry
           /\ Outline(registry') = Redone(Outline(registry), rec)
<1> DEFINE i == rec.id
           s == registry[i]
           g == Outline(registry)
           b == [type |-> NewType(g[i].type, rec), points |-> NewPoints(g[i].points, rec)]
<1> PICK D : D = DOMAIN registry
  OBVIOUS
<1>1. registry \in [D -> Drawn] /\ g \in [D -> Bodies] /\ i \in D
  BY CanvasOutline
<1>2. registry' = [registry EXCEPT ![i] = Edited(s, rec)]
  BY DEF Apply
<1>3. DOMAIN registry' = D
  BY <1>1, <1>2
<1>4. \A id \in D : g[id] = Body(registry[id])
  BY DEF Outline
<1>5. Body(Edited(s, rec)) = b
  BY <1>1, <1>4 DEF Body, Edited
<1>6. Redone(g, rec) = [g EXCEPT ![i] = b]
  <2> HIDE DEF g
  <2> QED
    BY <1>1, RedoneIs
<1>7. \A id \in D : registry'[id] = IF id = i THEN Edited(s, rec) ELSE registry[id]
  BY <1>1, <1>2
<1>8. Outline(registry') = [id \in D |-> Body(registry'[id])]
  BY <1>3 DEF Outline
<1> HIDE DEF b, g
<1>9. [g EXCEPT ![i] = b] = [id \in D |-> IF id = i THEN b ELSE g[id]]
  BY <1>1
<1>10. \A id \in D : Body(registry'[id]) = IF id = i THEN b ELSE g[id]
  BY <1>4, <1>5, <1>7
<1>11. Outline(registry') = [g EXCEPT ![i] = b]
  BY <1>8, <1>9, <1>10
<1> QED
  BY <1>3, <1>6, <1>11 DEF g

\* The film after an edit.
LEMMA EditFilm ==
    ASSUME IInv, NEW F, Filmed(F), NEW rec \in Records,
           \/ rec.op \in Moves
           \/ rec.op = "remove" /\ rec.type = registry[rec.id].type,
           Edit(rec)
    PROVE  \E H : /\ Filmed(H)'
                  /\ \/ Kept(F, H)
                     \/ Grown(F, H, Outline(registry))
                     \/ /\ Grown(F, H, Outline(registry'))
                        /\ Outline(registry) = F[Len(undoStack)]
<1> PICK D : D = DOMAIN registry
  OBVIOUS
<1>h. PICK h : h = Outline(registry)
  OBVIOUS
<1>k. PICK k : k = Outline(registry')
  OBVIOUS
<1>1. /\ rec.id \in D /\ registry[rec.id].type # "dead" /\ Apply(rec) /\ RecordOp(rec)
  BY DEF Edit, IsLive
<1>2. /\ D = 1 .. Len(registry) /\ Len(registry) \in Nat /\ h \in [D -> Bodies]
  BY <1>h, CanvasOutline
<1>3. D = DOMAIN registry' /\ k = Redone(h, rec)
  BY <1>1, <1>h, <1>k, ApplyOutline
<1>4. h[rec.id].type = registry[rec.id].type
  BY <1>1, <1>h DEF Outline, Body
<1>5. Applies(rec, h)
  BY <1>4 DEF Applies, Moves
<1>6. Fit(rec, h, k) /\ k \in [D -> Bodies]
  BY <1>1, <1>2, <1>3, <1>5, FitForward
<1>7. /\ Frames(F, D, undoStack, redoStack) /\ Shot(F[Len(undoStack)], h, open)
  BY <1>h DEF Filmed, Film
<1>8. HasOpen /\ SameGesture(rec) => rec.op \in Moves
  <2> SUFFICES ASSUME HasOpen, SameGesture(rec), rec.op = "remove"
               PROVE  FALSE
    OBVIOUS
  <2>1. Fit(open, F[Len(undoStack)], h) /\ open \in Records
        /\ open.id = rec.id /\ open.op = "remove"
    BY <1>7 DEF HasOpen, Shot, SameGesture, IInv, HistoryInv
  <2>2. F[Len(undoStack)] \in [D -> Bodies]
    BY <1>7, LenProperties DEF Frames, IInv, HistoryInv, Histories
  <2> DEFINE b == [type |-> NewType(F[Len(undoStack)][open.id].type, open),
                   points |-> NewPoints(F[Len(undoStack)][open.id].points, open)]
  <2>3. h = [F[Len(undoStack)] EXCEPT ![open.id] = b]
    BY <1>1, <2>1, <2>2, RedoneIs DEF Fit
  <2>4. b.type = "dead"
    BY <2>1 DEF NewType
  <2>5. h[rec.id] = b
    <3> HIDE DEF b
    <3> QED
      BY <1>1, <2>1, <2>2, <2>3
  <2> QED
    BY <1>1, <1>4, <2>4, <2>5
<1>9. rec.id # 0
  BY <1>1, <1>2
<1>10. PICK H : /\ Frames(H, D, undoStack', redoStack')
                /\ Shot(H[Len(undoStack')], k, open')
                /\ \/ Kept(F, H)
                   \/ Grown(F, H, h)
                   \/ Grown(F, H, k) /\ h = F[Len(undoStack)]
  BY <1>1, <1>2, <1>6, <1>7, <1>8, <1>9, RecordFilm DEF IInv, HistoryInv
<1>11. Filmed(H)'
  BY <1>3, <1>k, <1>10 DEF Filmed, Film
<1> QED
  BY <1>10, <1>11, <1>h, <1>k

\* The public edits.
LEMMA EditShown ==
    ASSUME IInv, IInv', NEW F, Filmed(F), NEW rec \in Records,
           \/ rec.op \in Moves
           \/ rec.op = "remove" /\ rec.type = registry[rec.id].type,
           Edit(rec)
    PROVE  Promise!Next /\ \E H : Filmed(H)'
<1>h. PICK h : h = Outline(registry)
  OBVIOUS
<1>k. PICK k : k = Outline(registry')
  OBVIOUS
<1>1. PICK H : /\ Filmed(H)'
               /\ \/ Kept(F, H)
                  \/ Grown(F, H, h)
                  \/ Grown(F, H, k) /\ h = F[Len(undoStack)]
  BY <1>h, <1>k, EditFilm
<1>2. Picture(h) = Picture(registry)
  BY <1>h, CanvasOutline
<1>3. Picture(k) = Picture(registry)'
  <2>1. Screened(H)'
    BY <1>1, ScreenedNext
  <2> QED
    BY <1>k, <2>1 DEF Screened
<1>4. Same(F, F)
  BY DEF Same
<1> QED
  BY <1>1, <1>2, <1>3, <1>4, StepShown

\* Redoing the creation of a shape shows it with the points it had.
LEMMA CreatedIs ==
    ASSUME NEW E, NEW h \in [E -> Bodies], NEW rec \in Records, rec.id \in E,
           rec.op = "create"
    PROVE  Redone(h, rec) = [h EXCEPT ![rec.id] = [type |-> rec.type, points |-> h[rec.id].points]]
<1> DEFINE e == [type |-> NewType(h[rec.id].type, rec), points |-> NewPoints(h[rec.id].points, rec)]
<1>1. Redone(h, rec) = [h EXCEPT ![rec.id] = e]
  BY RedoneIs
<1>2. NewType(h[rec.id].type, rec) = rec.type
      /\ NewPoints(h[rec.id].points, rec) = h[rec.id].points
  BY DEF NewType, NewPoints
<1>3. e = [type |-> rec.type, points |-> h[rec.id].points]
  BY <1>2
<1> QED
  BY <1>1, <1>3

\* next is reg with one more shape, s; b has a dead shape with its points there.
Joined(reg, next, s, n, b) ==
    /\ n \notin DOMAIN reg /\ next[n] = s /\ Body(s) \in Bodies
    /\ DOMAIN next = DOMAIN reg \cup {n} /\ \A id \in DOMAIN reg : next[id] = reg[id]
    /\ b \in [DOMAIN next -> Bodies] /\ b[n] = [type |-> "dead", points |-> s.points]
    /\ Outline(reg) \in [DOMAIN reg -> Bodies]

\* The canvas with a new shape, seen from the canvas with room for it.
LEMMA AddOutline ==
    ASSUME NEW reg, NEW next, NEW s, NEW n, NEW b, Joined(reg, next, s, n, b),
           NEW rec \in Records, rec.id = n, rec.op = "create", rec.type = s.type,
           NEW h, h = Wider(Outline(reg), DOMAIN next, b)
    PROVE  /\ h \in [DOMAIN next -> Bodies] /\ h[n].type = "dead"
           /\ Outline(next) = Redone(h, rec)
<1> DEFINE c == Body(s)
<1>1. PICK E : E = DOMAIN next
  OBVIOUS
<1>2. PICK g : g = Outline(reg)
  OBVIOUS
<1>3. /\ h \in [E -> Bodies] /\ n \in E /\ h[n] = b[n]
      /\ \A id \in DOMAIN reg : h[id] = g[id]
  BY <1>1, <1>2 DEF Wider, Joined
<1>4. c = [type |-> rec.type, points |-> h[n].points] /\ h[n].type = "dead"
  BY <1>3 DEF Body, Joined
<1>5. Redone(h, rec) = [h EXCEPT ![n] = c]
  BY <1>3, <1>4, CreatedIs
<1>6. Outline(next) = [id \in E |-> Body(next[id])]
  BY <1>1 DEF Outline
<1>7. \A id \in DOMAIN reg : g[id] = Body(reg[id])
  BY <1>2 DEF Outline
<1> HIDE DEF c
<1>8. [h EXCEPT ![n] = c] = [id \in E |-> IF id = n THEN c ELSE h[id]]
  BY <1>3
<1>9. \A id \in E : Body(next[id]) = IF id = n THEN c ELSE h[id]
  BY <1>1, <1>3, <1>7 DEF c, Joined
<1> QED
  BY <1>1, <1>3, <1>4, <1>5, <1>6, <1>8, <1>9

\* A new shape: it was dead in every earlier picture.
LEMMA AddShown ==
    ASSUME IInv, IInv', NEW F, Filmed(F), NEW f \in Forms, AddShape(f)
    PROVE  Promise!Next /\ \E H : Filmed(H)'
<1> PICK n : n = Len(registry) + 1
  OBVIOUS
<1> PICK u : u = Len(undoStack)
  OBVIOUS
<1> PICK r : r = Len(redoStack)
  OBVIOUS
<1> PICK D : D = DOMAIN registry
  OBVIOUS
<1>E. PICK E : E = 1 .. n
  OBVIOUS
<1>g. PICK g : g = Outline(registry)
  OBVIOUS
<1>k. PICK k : k = Outline(registry')
  OBVIOUS
<1>b. PICK b : b = [id \in E |-> [type |-> "dead", points |-> f.points]]
  OBVIOUS
<1>h. PICK h : h = Wider(g, E, b)
  OBVIOUS
<1>G. PICK G : G = WiderFilm(F, E, b, u + r)
  OBVIOUS
<1>rec. PICK rec : rec = [NoRecord EXCEPT !.op = "create", !.id = n, !.type = f.type]
  OBVIOUS
<1>s. PICK s : s = Seeded(f)
  OBVIOUS
<1>1. /\ D = 1 .. Len(registry) /\ Len(registry) \in Nat /\ g \in [D -> Bodies]
      /\ Picture(g) = Picture(registry) /\ registry \in Seq(Shapes)
  BY <1>g, CanvasOutline DEF IInv, SceneInv
<1>2. n \in Nat /\ n # 0 /\ n \in E /\ n \notin D /\ E = D \cup {n}
  BY <1>E, <1>1
<1>3. /\ f.type \in Types /\ f.points \in Tracks /\ s \in Shapes
      /\ s.type = f.type /\ s.points = f.points /\ Body(s) \in Bodies
  <2>1. /\ s \in Shapes /\ Shapely(s) /\ f.type # "dead" /\ f.type \in Types
        /\ s.type = f.type /\ s.points = f.points
    BY <1>s, SeededFits DEF Seeded
  <2>2. f.points \in Tracks
    BY <2>1 DEF Shapes, Shapely, Tracks
  <2> QED
    BY <2>1, <2>2 DEF Body, Bodies
<1>4. b \in [E -> Bodies] /\ \A id \in E : b[id] = [type |-> "dead", points |-> f.points]
  <2>1. [type |-> "dead", points |-> f.points] \in Bodies
    BY <1>3 DEF Bodies
  <2> QED
    BY <1>b, <2>1
<1>5. registry' = Append(registry, s) /\ RecordOp(rec)
  BY <1>rec, <1>s DEF AddShape, RegisterShape
<1>6. rec \in Records /\ rec.id = n /\ rec.op = "create" /\ rec.type = f.type
  BY <1>rec, <1>2, <1>3, NoRecordType DEF Records
<1>7. /\ DOMAIN registry' = E /\ \A id \in D : registry'[id] = registry[id]
      /\ registry'[n] = s
  <2>1. /\ Len(registry') = Len(registry) + 1
        /\ \A id \in 1 .. Len(registry) : registry'[id] = registry[id]
        /\ registry'[Len(registry) + 1] = s
        /\ registry' \in Seq(Shapes)
    BY <1>1, <1>3, <1>5, AppendProperties
  <2>2. DOMAIN registry' = 1 .. Len(registry')
    BY <2>1, LenProperties
  <2> QED
    BY <1>E, <1>1, <2>1, <2>2
<1>8. h \in [E -> Bodies] /\ h[n].type = "dead" /\ k = Redone(h, rec)
  <2>1. PICK reg : reg = registry
    OBVIOUS
  <2>2. PICK next : next = registry'
    OBVIOUS
  <2>3. Joined(reg, next, s, n, b)
    BY <1>g, <1>1, <1>2, <1>3, <1>4, <1>7, <2>1, <2>2 DEF Joined
  <2>4. rec.type = s.type /\ h = Wider(Outline(reg), DOMAIN next, b)
    BY <1>g, <1>h, <1>3, <1>6, <1>7, <2>1, <2>2
  <2>5. h \in [DOMAIN next -> Bodies] /\ h[n].type = "dead" /\ Outline(next) = Redone(h, rec)
    BY <1>6, <2>3, <2>4, AddOutline
  <2> QED
    BY <1>k, <1>7, <2>2, <2>5
<1>9. Fit(rec, h, k) /\ k \in [E -> Bodies]
  <2>1. Applies(rec, h) /\ rec.id \in E
    BY <1>2, <1>6, <1>8 DEF Applies
  <2> QED
    BY <1>6, <1>8, <2>1, FitForward
<1>10. /\ Frames(F, D, undoStack, redoStack) /\ Shot(F[u], g, open)
       /\ undoStack \in Seq(Records) /\ redoStack \in Seq(Records) /\ open \in Records
       /\ u \in Nat /\ r \in Nat
       /\ F \in [0 .. u + r -> [D -> Bodies]]
  BY <1>g, LengthsAre DEF Filmed, Film, Frames, IInv, HistoryInv, Histories
<1>11. /\ Frames(G, E, undoStack, redoStack) /\ Shot(G[u], h, open)
       /\ \A j \in 0 .. u + r : Picture(G[j]) = Picture(F[j])
       /\ Picture(h) = Picture(g)
  <2>1. Spare(b, D, E)
    BY <1>2, <1>4 DEF Spare
  <2> QED
    <3>1. PICK un, re, o : un = undoStack /\ re = redoStack /\ o = open
      OBVIOUS
    <3>2. /\ un \in Seq(Records) /\ re \in Seq(Records) /\ o \in Records
          /\ Frames(F, D, un, re) /\ Shot(F[Len(un)], g, o) /\ g \in [D -> Bodies]
          /\ G = WiderFilm(F, E, b, Len(un) + Len(re))
      BY <1>G, <1>1, <1>10, <3>1
    <3>3. /\ Frames(G, E, un, re) /\ Shot(G[Len(un)], Wider(g, E, b), o)
          /\ \A j \in 0 .. Len(un) + Len(re) : Picture(G[j]) = Picture(F[j])
          /\ Picture(Wider(g, E, b)) = Picture(g)
      BY <2>1, <3>2, FilmWider
    <3> QED
      BY <1>h, <3>1, <3>3
<1>12. Same(F, G) /\ Picture(h) = Picture(registry)
  BY <1>1, <1>11 DEF Same
<1>13. ~ (HasOpen /\ SameGesture(rec))
  <2>1. F[u] \in [D -> Bodies]
    BY <1>10
  <2>2. HasOpen => open.id \in D
    BY <1>10, <2>1 DEF HasOpen, Shot, Fit
  <2> QED
    BY <1>2, <1>6, <2>2 DEF SameGesture
<1>14. PICK H : /\ Frames(H, E, undoStack', redoStack')
                /\ Shot(H[Len(undoStack')], k, open')
                /\ \/ Kept(G, H)
                   \/ Grown(G, H, h)
                   \/ Grown(G, H, k) /\ h = G[Len(undoStack)]
  <2>1. /\ Histories /\ open \in Records /\ (~ inOperation => ~ HasOpen)
        /\ rec.id # 0 /\ Shot(G[Len(undoStack)], h, open)
        /\ HasOpen /\ SameGesture(rec) => rec.op \in Moves
    BY <1>2, <1>6, <1>10, <1>11, <1>13 DEF IInv, HistoryInv
  <2>2. /\ Frames(G, E, undoStack, redoStack) /\ h \in [E -> Bodies] /\ k \in [E -> Bodies]
        /\ rec \in Records /\ Fit(rec, h, k) /\ RecordOp(rec)
    BY <1>5, <1>6, <1>8, <1>9, <1>11
  <2> QED
    BY <2>1, <2>2, RecordFilm
<1>15. Filmed(H)'
  BY <1>k, <1>7, <1>14 DEF Filmed, Film
<1>16. Picture(k) = Picture(registry)'
  <2>1. Screened(H)'
    BY <1>15, ScreenedNext
  <2> QED
    BY <1>k, <2>1 DEF Screened
<1> QED
  BY <1>12, <1>14, <1>15, <1>16, StepShown

\* Undo and redo walk along the film.
LEMMA UndoShown ==
    ASSUME IInv, IInv', NEW F, Filmed(F), Undo
    PROVE  Promise!Next /\ Filmed(F)'
<1> PICK u : u = Len(undoStack)
  OBVIOUS
<1> PICK r : r = Len(redoStack)
  OBVIOUS
<1> PICK D : D = DOMAIN registry
  OBVIOUS
<1> PICK rec : rec = Last(undoStack)
  OBVIOUS
<1>1. /\ ~ inOperation /\ undoStack # <<>> /\ Apply(Inverted(rec))
      /\ undoStack' = Front(undoStack) /\ redoStack' = Append(redoStack, rec)
      /\ UNCHANGED <<inOperation, open>>
  BY DEF Undo
<1>2. open = NoRecord /\ open' = NoRecord
  BY <1>1 DEF IInv, HistoryInv, HasOpen
<1>3. /\ Frames(F, D, undoStack, redoStack) /\ F[u] = Outline(registry)
      /\ undoStack \in Seq(Records) /\ redoStack \in Seq(Records) /\ r \in Nat
  BY <1>2, LengthsAre DEF Filmed, Film, Shot, IInv, HistoryInv, Histories
<1>4. /\ Len(undoStack') = u - 1 /\ Len(redoStack') = r + 1 /\ u \in Nat \ {0}
      /\ rec \in Records
      /\ Frames(F, D, undoStack', redoStack')
      /\ Fit(rec, F[u - 1], F[u])
  BY <1>1, <1>3, FramesUndo
<1>5. /\ Inverted(rec) \in Records /\ Inverted(rec).id \in D
      /\ F[u - 1] = Redone(F[u], Inverted(rec))
  <2>1. rec.id \in DOMAIN F[u - 1] /\ F[u - 1] = Redone(F[u], Inverted(rec))
    BY <1>4 DEF Fit, Undone
  <2>2. DOMAIN F[u - 1] = D
    <3>1. u - 1 \in 0 .. u + r
      BY <1>3, <1>4
    <3> QED
      BY <3>1 DEF Filmed, Film, Frames
  <2> QED
    BY <1>4, <2>1, <2>2, InvertedParts
<1>6. DOMAIN registry' = D /\ Outline(registry') = F[u - 1]
  BY <1>1, <1>3, <1>5, ApplyOutline
<1>7. Filmed(F)'
  BY <1>2, <1>4, <1>6 DEF Filmed, Film, Shot
<1>8. Screened(F) /\ Screened(F)'
  BY <1>7, ScreenedNow, ScreenedNext
<1>9. /\ Past = PastOf(F, u) /\ Future = FutureOf(F, u, r) /\ Picture(Settled) = Picture(F[u])
      /\ Picture(registry) = Picture(F[u])
  BY <1>3, <1>8 DEF Screened
<1>10. /\ Past' = PastOf(F, u - 1) /\ Future' = FutureOf(F, u - 1, r + 1)
       /\ Picture(Settled)' = Picture(F[u - 1])
       /\ Picture(registry)' = Picture(F[u - 1])
  BY <1>4, <1>6, <1>8 DEF Screened
<1>11. Promise!Undo
  <2>1. /\ PastOf(F, u) # <<>> /\ PastOf(F, u - 1) = Front(PastOf(F, u))
        /\ Picture(F[u - 1]) = Last(PastOf(F, u))
        /\ FutureOf(F, u - 1, r + 1) = Append(FutureOf(F, u, r), Picture(F[u]))
    BY <1>3, <1>4, CursorBack
  <2>2. Promise!Front(Past) = Front(Past) /\ Promise!Last(Past) = Last(Past)
    BY DEF Promise!Front, Promise!Last, Front, Last
  <2> QED
    BY <1>9, <1>10, <2>1, <2>2 DEF Promise!Undo
<1> QED
  BY <1>7, <1>11 DEF Promise!Next

\* As UndoShown, the other way.
LEMMA RedoShown ==
    ASSUME IInv, IInv', NEW F, Filmed(F), Redo
    PROVE  Promise!Next /\ Filmed(F)'
<1> PICK u : u = Len(undoStack)
  OBVIOUS
<1> PICK r : r = Len(redoStack)
  OBVIOUS
<1> PICK D : D = DOMAIN registry
  OBVIOUS
<1> PICK rec : rec = Last(redoStack)
  OBVIOUS
<1>1. /\ ~ inOperation /\ redoStack # <<>> /\ Apply(rec)
      /\ redoStack' = Front(redoStack) /\ undoStack' = Append(undoStack, rec)
      /\ UNCHANGED <<inOperation, open>>
  BY DEF Redo
<1>2. open = NoRecord /\ open' = NoRecord
  BY <1>1 DEF IInv, HistoryInv, HasOpen
<1>3. /\ Frames(F, D, undoStack, redoStack) /\ F[u] = Outline(registry)
      /\ undoStack \in Seq(Records) /\ redoStack \in Seq(Records) /\ r \in Nat /\ u \in Nat
  BY <1>2, LengthsAre DEF Filmed, Film, Shot, IInv, HistoryInv, Histories
<1>4. /\ Len(undoStack') = u + 1 /\ Len(redoStack') = r - 1 /\ r \in Nat \ {0}
      /\ rec \in Records
      /\ Frames(F, D, undoStack', redoStack')
      /\ Fit(rec, F[u], F[u + 1])
  BY <1>1, <1>3, FramesRedo
<1>5. rec.id \in D /\ F[u + 1] = Redone(F[u], rec)
  BY <1>3, <1>4 DEF Fit, Outline
<1>6. DOMAIN registry' = D /\ Outline(registry') = F[u + 1]
  BY <1>1, <1>3, <1>4, <1>5, ApplyOutline
<1>7. Filmed(F)'
  BY <1>2, <1>4, <1>6 DEF Filmed, Film, Shot
<1>8. Screened(F) /\ Screened(F)'
  BY <1>7, ScreenedNow, ScreenedNext
<1>9. /\ Past = PastOf(F, u) /\ Future = FutureOf(F, u, r) /\ Picture(Settled) = Picture(F[u])
      /\ Picture(registry) = Picture(F[u])
  BY <1>3, <1>8 DEF Screened
<1>10. /\ Past' = PastOf(F, u + 1) /\ Future' = FutureOf(F, u + 1, r - 1)
       /\ Picture(Settled)' = Picture(F[u + 1])
       /\ Picture(registry)' = Picture(F[u + 1])
  BY <1>4, <1>6, <1>8 DEF Screened
<1>11. Promise!Redo
  <2>1. /\ FutureOf(F, u, r) # <<>> /\ FutureOf(F, u + 1, r - 1) = Front(FutureOf(F, u, r))
        /\ Picture(F[u + 1]) = Last(FutureOf(F, u, r))
        /\ PastOf(F, u + 1) = Append(PastOf(F, u), Picture(F[u]))
    BY <1>3, <1>4, CursorForth
  <2>2. Promise!Front(Future) = Front(Future) /\ Promise!Last(Future) = Last(Future)
    BY DEF Promise!Front, Promise!Last, Front, Last
  <2> QED
    BY <1>9, <1>10, <2>1, <2>2 DEF Promise!Redo
<1> QED
  BY <1>7, <1>11 DEF Promise!Next

\* A gesture begins or ends: its record, if any, is an undo step now.
LEMMA GestureShown ==
    ASSUME IInv, IInv', NEW F, Filmed(F), FinishOpen, open' = NoRecord, UNCHANGED scene
    PROVE  Promise!Next /\ \E H : Filmed(H)'
<1>1. PICK D : D = DOMAIN registry
  OBVIOUS
<1>2. PICK h : h = Outline(registry)
  OBVIOUS
<1>3. /\ Frames(F, D, undoStack, redoStack) /\ Shot(F[Len(undoStack)], h, open)
      /\ h \in [D -> Bodies] /\ Picture(h) = Picture(registry)
  BY <1>1, <1>2, CanvasOutline DEF Filmed, Film
<1>4. Histories /\ open \in Records /\ (~ inOperation => ~ HasOpen)
  BY DEF IInv, HistoryInv
<1>5. PICK H : /\ Frames(H, D, undoStack', redoStack')
               /\ Shot(H[Len(undoStack')], h, NoRecord)
               /\ Kept(F, H) \/ Grown(F, H, h)
  BY <1>3, <1>4, FinishFilm
<1>6. registry' = registry
  BY DEF scene
<1>7. Filmed(H)'
  BY <1>1, <1>2, <1>5, <1>6 DEF Filmed, Film
<1>8. Picture(h) = Picture(registry)'
  BY <1>3, <1>6
<1>9. Same(F, F)
  BY DEF Same
<1> QED
  BY <1>3, <1>5, <1>7, <1>8, <1>9, StepShown

\* A step that leaves the shapes and the histories alone.
LEMMA BareShown ==
    ASSUME IInv, IInv', NEW F, Filmed(F),
           UNCHANGED <<registry, undoStack, redoStack, open>>
    PROVE  Promise!Next /\ Filmed(F)'
<1>1. Filmed(F)'
  BY DEF Filmed
<1>2. Kept(F, F) /\ Same(F, F)
  BY DEF Kept, Same
<1> QED
  BY <1>1, <1>2, SketchShown DEF Promise!Next

\* The film of the empty canvas.
Blanks == [k \in 0 .. 0 |-> <<>>]

\* The empty canvas has a film, and shows nothing.
LEMMA BlankFilm ==
    /\ Film(Blanks, <<>>, <<>>, <<>>, NoRecord)
    /\ PastOf(Blanks, 0) = <<>> /\ FutureOf(Blanks, 0, 0) = <<>>
    /\ Picture(<<>>) = {} /\ Picture(Blanks[0]) = {}
<1>1. DOMAIN <<>> = {} /\ Outline(<<>>) = <<>>
  BY DEF Outline
<1>2. <<>> \in [{} -> Bodies]
  OBVIOUS
<1>3. Blanks[0] = <<>> /\ Blanks \in [0 .. 0 -> [{} -> Bodies]]
  BY <1>2 DEF Blanks
<1>4. Frames(Blanks, {}, <<>>, <<>>)
  <2>1. Len(<<>>) = 0 /\ 1 .. 0 = {}
    OBVIOUS
  <2> QED
    BY <1>3, <2>1 DEF Frames
<1>5. Film(Blanks, <<>>, <<>>, <<>>, NoRecord)
  BY <1>1, <1>3, <1>4 DEF Film, Shot
<1>6. PastOf(Blanks, 0) = <<>> /\ FutureOf(Blanks, 0, 0) = <<>>
  BY DEF PastOf, FutureOf
<1>7. Picture(<<>>) = {}
  BY <1>1 DEF Picture
<1> QED
  BY <1>3, <1>5, <1>6, <1>7

\* Clearing the canvas forgets every picture.
LEMMA ClearShown ==
    ASSUME IInv', Clear
    PROVE  Promise!Next /\ Filmed(Blanks)'
<1>1. registry' = <<>> /\ undoStack' = <<>> /\ redoStack' = <<>> /\ open' = NoRecord
  BY DEF Clear
<1>2. Filmed(Blanks)'
  BY <1>1, BlankFilm DEF Filmed
<1>3. Len(undoStack') = 0 /\ Len(redoStack') = 0
  BY <1>1
<1>4. Screened(Blanks)'
  BY <1>2, ScreenedNext
<1>5. /\ Past' = <<>> /\ Future' = <<>> /\ Picture(Settled)' = {}
      /\ Picture(registry)' = {}
  BY <1>1, <1>3, <1>4, BlankFilm DEF Screened
<1> QED
  BY <1>2, <1>5 DEF Promise!Next, Promise!Clear

-----------------------------------------------------------------------------
(* The refinement. *)

FInv == IInv /\ \E G : Filmed(G)

\* The empty canvas is the first picture.
LEMMA InitShown == Init => FInv /\ Promise!Init
<1> SUFFICES ASSUME Init PROVE FInv /\ Promise!Init
  OBVIOUS
<1>1. registry = <<>> /\ undoStack = <<>> /\ redoStack = <<>> /\ open = NoRecord
  BY DEF Init
<1>2. Filmed(Blanks)
  BY <1>1, BlankFilm DEF Filmed
<1>3. IInv
  BY InitIInv
<1>4. Screened(Blanks)
  BY <1>2, <1>3, ScreenedNow
<1>5. Len(undoStack) = 0 /\ Len(redoStack) = 0
  BY <1>1
<1>6. Past = <<>> /\ Future = <<>> /\ Picture(Settled) = {} /\ Picture(registry) = {}
  BY <1>1, <1>4, <1>5, BlankFilm DEF Screened
<1> QED
  BY <1>2, <1>3, <1>6 DEF FInv, Promise!Init

\* Every step of the canvas is a step of the promise, or leaves what it speaks
\* of alone; the film goes on.
LEMMA NextShown ==
    ASSUME FInv, [Next]_vars
    PROVE  FInv' /\ [Promise!Next]_(Promise!vars)
<1>1. PICK F : Filmed(F)
  BY DEF FInv
<1>2. IInv /\ IInv'
  BY NextIInv DEF FInv
<1>3. SUFFICES Promise!Next /\ \E H : Filmed(H)'
  BY <1>2 DEF FInv
<1>4. CASE \E f \in Forms : AddShape(f)
  BY <1>1, <1>2, <1>4, AddShown
<1>5. CASE AddBare
  BY <1>1, <1>2, <1>5, BareShown DEF AddBare, history
<1>6. CASE \E id \in DOMAIN registry :
               \/ \E d \in Steps : TranslateShape(id, d)
               \/ \E angle \in Turns, c \in Pivots : RotateShape(id, angle, c)
               \/ \E refs \in Refs, d \in Steps : MoveShapePoints(id, refs, d)
  <2>1. PICK id \in DOMAIN registry :
               \/ \E d \in Steps : TranslateShape(id, d)
               \/ \E angle \in Turns, c \in Pivots : RotateShape(id, angle, c)
               \/ \E refs \in Refs, d \in Steps : MoveShapePoints(id, refs, d)
    BY <1>6
  <2>2. PICK rec \in Records : rec.op \in Moves /\ Edit(rec)
    BY <1>2, <2>1, MoveIsEdit DEF Moves
  <2> QED
    BY <1>1, <1>2, <2>2, EditShown
<1>7. CASE \E id \in DOMAIN registry : RemoveShape(id)
  <2>1. PICK id \in DOMAIN registry : RemoveShape(id)
    BY <1>7
  <2>2. PICK rec \in Records : /\ rec.op = "remove" /\ rec.type = registry[rec.id].type
                               /\ Edit(rec)
    BY <1>2, <2>1, RemoveIsEdit
  <2> QED
    BY <1>1, <1>2, <2>2, EditShown
<1>8. CASE BeginOperation
  BY <1>1, <1>2, <1>8, GestureShown DEF BeginOperation
<1>9. CASE EndOperation
  BY <1>1, <1>2, <1>9, GestureShown DEF EndOperation
<1>10. CASE Undo
  BY <1>1, <1>2, <1>10, UndoShown
<1>11. CASE Redo
  BY <1>1, <1>2, <1>11, RedoShown
<1>12. CASE Clear
  BY <1>2, <1>12, ClearShown
<1>13. CASE UNCHANGED vars
  BY <1>1, <1>2, <1>13, BareShown DEF vars, scene, history
<1> QED
  BY <1>4, <1>5, <1>6, <1>7, <1>8, <1>9, <1>10, <1>11, <1>12, <1>13 DEF Next

\* World implements Timeline: undo and redo, which apply differences and merge
\* the edits of a gesture, show exactly the earlier and the undone pictures.
THEOREM KeepsThePromise == Spec => ImplementsTimeline
<1>1. Init => FInv /\ Promise!Init
  BY InitShown
<1>2. FInv /\ [Next]_vars => FInv' /\ [Promise!Next]_(Promise!vars)
  BY NextShown
<1> QED
  BY <1>1, <1>2, PTL DEF Spec, ImplementsTimeline, Promise!Spec

-----------------------------------------------------------------------------
(* What any call does to the world. *)

\* A design move: what was open is closed and the move is a step of its own.
DesignStep(rec) ==
    /\ rec.op = "translate" /\ IsLive(rec.id) /\ ~IsNoop(rec)
    /\ Apply(rec)
    /\ undoStack' = Append(Closed, rec) /\ redoStack' = <<>>
    /\ inOperation' = FALSE /\ open' = NoRecord

\* An edit of a live shape, by a move or a removal.
EditStep(rec) ==
    /\ \/ rec.op \in Moves
       \/ rec.op = "remove" /\ rec.type = registry[rec.id].type
    /\ Edit(rec)

\* A gesture begins or ends.
FinishStep == FinishOpen /\ open' = NoRecord /\ inOperation' \in BOOLEAN /\ UNCHANGED scene

\* Every step of the canvas does one of these to the world.
KeepingStep == \/ UNCHANGED vars
               \/ FinishStep
               \/ \E f \in Forms : AddShape(f)
               \/ \E rec \in Records : EditStep(rec) \/ DesignStep(rec)
               \/ Undo
               \/ Redo
WorldStep == KeepingStep \/ Clear \/ FreshWorld

\* A line of records that are not those of the world.
LineOf(un, re, D, M) == \E L \in [0 .. Len(un) + Len(re) -> SUBSET D] :
                            /\ \A k \in 1 .. Len(un) + Len(re) :
                                   Leads(RecordAt(un, re, k), L[k - 1], L[k])
                            /\ L[Len(un)] = M

\* The line of the world is one.
LEMMA LineIs ==
    ASSUME NEW D, NEW M
    PROVE  OnLine(D, M) <=> LineOf(undoStack, redoStack, D, M)
<1>1. Total = Len(undoStack) + Len(redoStack)
      /\ \A k : At(k) = RecordAt(undoStack, redoStack, k)
  BY DEF Total, At, RecordAt
<1> QED
  BY <1>1 DEF OnLine, LineOf

\* As LineIs, after a step.
LEMMA LineIsNext ==
    ASSUME NEW D, NEW M
    PROVE  OnLine(D, M)' <=> LineOf(undoStack', redoStack', D, M)
<1>1. Total' = Len(undoStack') + Len(redoStack')
      /\ \A k : At(k)' = RecordAt(undoStack', redoStack', k)
  BY DEF Total, At, RecordAt
<1> QED
  BY <1>1 DEF OnLine, LineOf

\* A committed record goes on from the cursor.
LEMMA LineCommit ==
    ASSUME NEW un \in Seq(Records), NEW re \in Seq(Records), NEW D, NEW M, NEW N \in SUBSET D,
           LineOf(un, re, D, M), NEW rec \in Records, Leads(rec, M, N)
    PROVE  LineOf(Append(un, rec), <<>>, D, N)
<1>u. PICK u : u = Len(un)
  OBVIOUS
<1>v. PICK v : v = Append(un, rec)
  OBVIOUS
<1>1. /\ u \in Nat /\ Len(re) \in Nat
      /\ \A k \in 1 .. u : RecordAt(un, re, k) = un[k]
  BY <1>u, LineParts
<1>2. PICK L \in [0 .. u + Len(re) -> SUBSET D] :
          /\ \A k \in 1 .. u + Len(re) : Leads(RecordAt(un, re, k), L[k - 1], L[k])
          /\ L[u] = M
  BY <1>u DEF LineOf
<1>3. /\ Len(v) = u + 1 /\ v[u + 1] = rec
      /\ \A k \in 1 .. u : v[k] = un[k]
  BY <1>u, <1>v, AppendProperties
<1>K. PICK K : K = [k \in 0 .. u + 1 |-> IF k <= u THEN L[k] ELSE N]
  OBVIOUS
<1>4. K \in [0 .. u + 1 -> SUBSET D]
  <2>1. \A k \in 0 .. u + 1 : k <= u => k \in 0 .. u + Len(re)
    BY <1>1
  <2>2. \A k \in 0 .. u + 1 : (IF k <= u THEN L[k] ELSE N) \in SUBSET D
    BY <1>2, <2>1
  <2> QED
    BY <1>K, <2>2
<1>5. K[u + 1] = N /\ \A k \in 0 .. u : K[k] = L[k]
  BY <1>1, <1>K
<1>6. Len(<<>>) = 0 /\ \A k \in 1 .. u + 1 : RecordAt(v, <<>>, k) = v[k]
  BY <1>1, <1>3 DEF RecordAt
<1>7. ASSUME NEW k \in 1 .. u + 1
      PROVE  Leads(RecordAt(v, <<>>, k), K[k - 1], K[k])
  <2>1. CASE k = u + 1
    <3>1. K[k] = N /\ K[k - 1] = M
      BY <1>1, <1>2, <1>5, <2>1
    <3> QED
      BY <1>3, <1>6, <2>1, <3>1
  <2>2. CASE k # u + 1
    <3>1. k \in 1 .. u /\ k \in 1 .. u + Len(re) /\ k - 1 \in 0 .. u /\ k \in 0 .. u
      BY <1>1, <2>2
    <3>2. K[k] = L[k] /\ K[k - 1] = L[k - 1]
      BY <1>5, <3>1
    <3>3. RecordAt(v, <<>>, k) = RecordAt(un, re, k)
      BY <1>1, <1>3, <1>6, <3>1
    <3> QED
      BY <1>2, <3>1, <3>2, <3>3
  <2> QED
    BY <2>1, <2>2
<1>8. LineOf(v, <<>>, D, N)
  <2>1. Len(v) + Len(<<>>) = u + 1
    BY <1>1, <1>3, <1>6
  <2> QED
    BY <1>3, <1>4, <1>5, <1>7, <2>1 DEF LineOf
<1> QED
  BY <1>v, <1>8

\* With the open compound closed, the line comes to what is live now and the
\* film to what is seen now.
LEMMA ClosedLine ==
    ASSUME FInv, NEW D, D = DOMAIN registry
    PROVE  /\ Closed \in Seq(Records)
           /\ \E re \in Seq(Records) :
                  /\ LineOf(Closed, re, D, Live)
                  /\ \E G : Frames(G, D, Closed, re) /\ G[Len(Closed)] = Outline(registry)
<1>h. PICK h : h = Outline(registry)
  OBVIOUS
<1>A. PICK A : A = Live
  OBVIOUS
<1>1. /\ undoStack \in Seq(Records) /\ redoStack \in Seq(Records) /\ open \in Records
      /\ ~ inOperation => ~ HasOpen
      /\ h \in [D -> Bodies] /\ A \subseteq D
  BY <1>h, <1>A, CanvasOutline, LivePlaces DEF FInv, IInv, HistoryInv, Histories
<1>2. PICK M \in SUBSET D : LineOf(undoStack, redoStack, D, M) /\ Reached(M)
  BY LineIs DEF FInv, IInv, HistoryInv, Lived
<1>3. PICK F : Frames(F, D, undoStack, redoStack) /\ Shot(F[Len(undoStack)], h, open)
  BY <1>h DEF FInv, Filmed, Film
<1>4. CASE HasOpen /\ ~ IsNoop(open)
  <2>1. Closed = Append(undoStack, open)
    BY <1>1, <1>4 DEF Closed, Committed
  <2>2. Leads(open, M, A) /\ Fit(open, F[Len(undoStack)], h)
    BY <1>2, <1>3, <1>4, <1>A DEF Reached, Shot, HasOpen
  <2>3. LineOf(Closed, <<>>, D, A)
    BY <1>1, <1>2, <2>1, <2>2, LineCommit
  <2>H. PICK H : H = [k \in 0 .. Len(undoStack) + 1 |->
                          IF k <= Len(undoStack) THEN F[k] ELSE h]
    OBVIOUS
  <2>4. Frames(H, D, Closed, <<>>)
    BY <1>1, <1>3, <2>1, <2>2, <2>H, FramesCommit
  <2>5. Len(undoStack) \in Nat /\ Len(Closed) = Len(undoStack) + 1
    BY <1>1, <2>1, LenProperties, AppendProperties
  <2>6. H[Len(Closed)] = h
    BY <2>5, <2>H
  <2>7. Closed \in Seq(Records) /\ <<>> \in Seq(Records)
    BY <1>1, <2>1
  <2> QED
    BY <1>A, <1>h, <2>3, <2>4, <2>6, <2>7
<1>5. CASE ~ (HasOpen /\ ~ IsNoop(open))
  <2>1. Closed = undoStack
    BY <1>5 DEF Closed, Committed
  <2>2. M = A /\ F[Len(undoStack)] = h
    <3>1. CASE HasOpen
      <4>1. IsNoop(open) /\ Leads(open, M, A) /\ Fit(open, F[Len(undoStack)], h)
        BY <1>2, <1>3, <1>5, <1>A, <3>1 DEF Reached, Shot, HasOpen
      <4>2. F[Len(undoStack)] \in [D -> Bodies]
        BY <1>1, <1>3, LenProperties DEF Frames
      <4>3. M = A
        BY <4>1 DEF IsNoop, Leads
      <4> QED
        BY <1>1, <4>1, <4>2, <4>3, FitNoop
    <3>2. CASE ~ HasOpen
      BY <1>2, <1>3, <1>A, <3>2 DEF Reached, Shot, HasOpen
    <3> QED
      BY <3>1, <3>2
  <2> QED
    BY <1>1, <1>2, <1>3, <1>A, <1>h, <2>1, <2>2
<1> QED
  BY <1>4, <1>5

\* A design move keeps the world and its film in order.
LEMMA DesignKeeps ==
    ASSUME FInv, NEW rec \in Records, DesignStep(rec)
    PROVE  FInv'
<1>D. PICK D : D = DOMAIN registry
  OBVIOUS
<1>A. PICK A : A = Live
  OBVIOUS
<1>h. PICK h : h = Outline(registry)
  OBVIOUS
<1>k. PICK k : k = Outline(registry')
  OBVIOUS
<1>1. /\ rec.op = "translate" /\ rec.id \in A /\ rec.id \in D /\ Apply(rec)
      /\ undoStack' = Append(Closed, rec) /\ redoStack' = <<>>
      /\ inOperation' = FALSE /\ open' = NoRecord
  BY <1>A, <1>D DEF DesignStep, IsLive, Live
<1>2. Leads(rec, A, A) /\ A \subseteq D
  BY <1>1, <1>A, <1>D, LivePlaces DEF Leads
<1>3. PICK re \in Seq(Records) :
          /\ LineOf(Closed, re, D, A)
          /\ \E G : Frames(G, D, Closed, re) /\ G[Len(Closed)] = h
  BY <1>A, <1>D, <1>h, ClosedLine
<1>4. PICK G : Frames(G, D, Closed, re) /\ G[Len(Closed)] = h
  BY <1>3
<1>5. Closed \in Seq(Records)
  BY ClosedLine
<1>6. /\ registry' \in Seq(Shapes) /\ DOMAIN registry' = D
      /\ \A id \in DOMAIN registry' : Shapely(registry'[id])
      /\ Live' = A
      /\ Indexed'
      /\ stamp' \in 0 .. 1 /\ bare' \in BOOLEAN
  <2>1. /\ registry \in Seq(Shapes) /\ \A id \in DOMAIN registry : Shapely(registry[id])
        /\ Indexed /\ stamp \in 0 .. 1 /\ bare \in BOOLEAN
    BY DEF FInv, IInv, SceneInv
  <2>2. /\ registry' \in Seq(Shapes) /\ DOMAIN registry' = DOMAIN registry
        /\ \A id \in DOMAIN registry' : Shapely(registry'[id])
        /\ Live' = A
        /\ Indexed'
        /\ stamp' = 1 - stamp /\ bare' \in BOOLEAN
    BY <1>1, <1>2, <1>A, <1>D, <2>1, ApplyKeeps
  <2> QED
    BY <1>D, <2>1, <2>2
<1>7. LineOf(Append(Closed, rec), <<>>, D, A)
  BY <1>2, <1>3, <1>5, LineCommit
<1>8. OnLine(D, A)'
  <2>1. OnLine(D, A)' <=> LineOf(undoStack', redoStack', D, A)
    BY LineIsNext
  <2> QED
    BY <1>1, <1>7, <2>1
<1>9. Histories' /\ ~ HasOpen'
  <2>1. Append(Closed, rec) \in Seq(Records) /\ <<>> \in Seq(Records)
    BY <1>5
  <2> QED
    BY <1>1, <2>1 DEF Histories, HasOpen
<1>10. IInv'
  BY <1>1, <1>2, <1>6, <1>8, <1>9, NoRecordType
     DEF IInv, SceneInv, HistoryInv, Lived, Reached
<1>11. Fit(rec, h, k) /\ k \in [D -> Bodies]
  <2>1. h \in [D -> Bodies]
    BY <1>D, <1>h, CanvasOutline DEF FInv
  <2>2. k = Redone(h, rec)
    BY <1>1, <1>D, <1>h, <1>k, ApplyOutline DEF FInv
  <2>3. Applies(rec, h)
    BY <1>1 DEF Applies
  <2> QED
    BY <1>1, <2>1, <2>2, <2>3, FitForward
<1>H. PICK H : H = [j \in 0 .. Len(Closed) + 1 |-> IF j <= Len(Closed) THEN G[j] ELSE k]
  OBVIOUS
<1>12. Frames(H, D, Append(Closed, rec), <<>>)
  BY <1>3, <1>4, <1>5, <1>11, <1>H, FramesCommit
<1>13. H[Len(undoStack')] = k
  <2>1. Len(Closed) \in Nat /\ Len(Append(Closed, rec)) = Len(Closed) + 1
    BY <1>5, LenProperties, AppendProperties
  <2> QED
    BY <1>1, <1>H, <2>1
<1>14. Filmed(H)'
  BY <1>1, <1>6, <1>12, <1>13, <1>k DEF Filmed, Film, Shot
<1> QED
  BY <1>10, <1>14 DEF FInv

\* A new world is in order.
LEMMA FreshKeeps == FreshWorld => FInv'
<1>1. FreshWorld => Init'
  BY DEF FreshWorld, Init
<1>2. Init => FInv
  BY InitShown
<1> QED
  BY <1>1, <1>2, PTL

\* Whatever the canvas does, the world under it and its film stay in order.
LEMMA WorldKeeps ==
    ASSUME FInv, WorldStep
    PROVE  FInv'
<1>1. PICK F : Filmed(F)
  BY DEF FInv
<1>2. IInv
  BY DEF FInv
<1>3. CASE UNCHANGED vars
  BY <1>3, NextShown
<1>4. CASE FinishStep
  <2>1. FinishOpen /\ open' = NoRecord /\ inOperation' \in BOOLEAN /\ UNCHANGED scene
    BY <1>4 DEF FinishStep
  <2>2. IInv'
    <3>1. HistoryInv'
      <4>1. HistoryInv /\ UNCHANGED registry
        BY <1>2, <2>1 DEF IInv, scene
      <4> QED
        BY <2>1, <4>1, NoRecordType, FinishKeeps
    <3>2. UNCHANGED <<registry, bare, index, nshape, stamp>>
      BY <2>1 DEF scene
    <3>3. Live' = Live
      BY <3>2 DEF Live, IsLive
    <3>4. SceneInv'
      BY <1>2, <3>2, <3>3 DEF IInv, SceneInv, Indexed
    <3> QED
      BY <3>1, <3>4 DEF IInv
  <2> QED
    BY <1>1, <1>2, <2>1, <2>2, GestureShown DEF FInv
<1>5. CASE \E f \in Forms : AddShape(f)
  <2>1. PICK f \in Forms : AddShape(f)
    BY <1>5
  <2>2. IInv'
    BY <1>2, <2>1, AddShapeKeeps
  <2> QED
    BY <1>1, <1>2, <2>1, <2>2, AddShown DEF FInv
<1>6. CASE \E rec \in Records : EditStep(rec)
  <2>1. PICK rec \in Records : EditStep(rec)
    BY <1>6
  <2>2. Edit(rec) /\ rec.id \in Live
        /\ (rec.op \in Moves \/ (rec.op = "remove" /\ rec.type = registry[rec.id].type))
    <3>1. Edit(rec)
          /\ (rec.op \in Moves \/ (rec.op = "remove" /\ rec.type = registry[rec.id].type))
      BY <2>1 DEF EditStep
    <3>2. IsLive(rec.id)
      BY <3>1 DEF Edit
    <3> QED
      BY <3>1, <3>2 DEF Live, IsLive
  <2>3. \E B : Leads(rec, Live, B)
    <3>1. CASE rec.op \in Moves
      BY <2>2, <3>1 DEF Leads, Moves
    <3>2. CASE rec.op = "remove" /\ rec.type = registry[rec.id].type
      <4>1. rec.type # "dead"
        BY <2>2, <3>2 DEF Live, IsLive
      <4> QED
        BY <2>2, <3>2, <4>1 DEF Leads
    <3> QED
      BY <2>2, <3>1, <3>2
  <2>4. PICK B : Leads(rec, Live, B)
    BY <2>3
  <2>5. IInv'
    BY <1>2, <2>2, <2>4, EditKeeps
  <2> QED
    BY <1>1, <1>2, <2>2, <2>5, EditShown DEF FInv
<1>7. CASE \E rec \in Records : DesignStep(rec)
  BY <1>7, DesignKeeps
<1>8. CASE Undo
  BY <1>8, NextShown DEF Next
<1>9. CASE Redo
  BY <1>9, NextShown DEF Next
<1>10. CASE Clear
  BY <1>10, NextShown DEF Next
<1>11. CASE FreshWorld
  BY <1>11, FreshKeeps
<1> QED
  BY <1>3, <1>4, <1>5, <1>6, <1>7, <1>8, <1>9, <1>10, <1>11 DEF WorldStep, KeepingStep

-----------------------------------------------------------------------------
(* The inductive invariant of the modes. *)

BothEnds == \A id \in DOMAIN registry : {1, 2} \subseteq DOMAIN registry[id].points

ModeTypes == /\ world \in BOOLEAN /\ stale \in BOOLEAN
             /\ tool \in {"select", "shape"}
             /\ held \in BOOLEAN /\ drawing \in BOOLEAN /\ abandoned \in BOOLEAN
             /\ selected \in Nat /\ editing \in Nat
             /\ editNodes \subseteq {1, 2} /\ editHandle \in Nat
             /\ dragging \subseteq Nat /\ IsFiniteSet(dragging)
             /\ drag \in EditDrags \cup {"None", "View"} /\ pivot \in Places

\* A drag that edits has a world to edit, and brackets it.
Bracketed == /\ inOperation => drag \in EditDrags
             /\ drag \in EditDrags => world
             /\ ~ abandoned

\* The places in the path last edited stay places in it, also while it is dead.
OnPath(id) == /\ id \in DOMAIN registry
              /\ editHandle \in {0} \cup Handles(id)
              /\ editNodes = {} \/ editHandle = 0
              /\ drag \in {"Node", "Handle"} => dragging # {} /\ dragging \subseteq DOMAIN Points(id)
NodesKept == editing # 0 /\ ~ stale => OnPath(editing)

ModeInv == ModeTypes /\ Bracketed /\ DrawToolHoldsNothing /\ NodesKept

CInv == FInv /\ BothEnds /\ ModeInv

\* Shapes are kept, with as many points as they had.
Grows == /\ DOMAIN registry \subseteq DOMAIN registry'
         /\ \A id \in DOMAIN registry : DOMAIN registry'[id].points = DOMAIN registry[id].points

\* No record adds a point or takes one away.
LEMMA ApplyGrows ==
    ASSUME NEW rec, Apply(rec)
    PROVE  Grows
<1>1. registry' = [registry EXCEPT ![rec.id] = Edited(registry[rec.id], rec)]
  BY DEF Apply
<1>2. \A P : DOMAIN NewPoints(P, rec) = DOMAIN P
  BY DEF NewPoints
<1>3. DOMAIN Edited(registry[rec.id], rec).points = DOMAIN registry[rec.id].points
  BY <1>2 DEF Edited
<1> QED
  BY <1>1, <1>3 DEF Grows

\* A new shape leaves the others alone and has both its ends.
LEMMA AddGrows ==
    ASSUME FInv, NEW f \in Forms, AddShape(f)
    PROVE  Grows /\ (BothEnds => BothEnds')
<1>1. registry \in Seq(Shapes) /\ registry' = Append(registry, Seeded(f))
      /\ Seeded(f) \in Shapes
  BY SeededFits DEF FInv, IInv, SceneInv, AddShape, RegisterShape
<1>n. PICK n : n = Len(registry)
  OBVIOUS
<1>s. PICK s : s = Seeded(f)
  OBVIOUS
<1>2. n \in Nat /\ DOMAIN registry = 1 .. n
  BY <1>1, <1>n, LenProperties
<1>3. /\ registry' \in Seq(Shapes) /\ Len(registry') = n + 1
      /\ \A k \in 1 .. n : registry'[k] = registry[k]
      /\ registry'[n + 1] = s
  BY <1>1, <1>n, <1>s, AppendProperties
<1>4. DOMAIN registry' = 1 .. n + 1
  BY <1>3, LenProperties
<1>5. \A k \in 1 .. n + 1 : k \in 1 .. n \/ k = n + 1
  BY <1>2
<1>6. {1, 2} \subseteq DOMAIN s.points
  <2>1. f.points \in Seq(Int \X Int) /\ Len(f.points) >= 2
    BY FormsAssumption, EndsAssumption
  <2>2. Len(f.points) \in Nat /\ DOMAIN f.points = 1 .. Len(f.points)
    BY <2>1, LenProperties
  <2>3. s.points = f.points
    BY <1>s DEF Seeded
  <2> QED
    BY <2>1, <2>2, <2>3
<1>7. Grows
  BY <1>2, <1>3, <1>4 DEF Grows
<1>8. ASSUME BothEnds PROVE BothEnds'
  BY <1>2, <1>3, <1>4, <1>5, <1>6, <1>8 DEF BothEnds
<1> QED
  BY <1>7, <1>8

\* Only a cleared or a new world loses shapes.
LEMMA KeepingGrows ==
    ASSUME FInv, KeepingStep
    PROVE  Grows /\ (BothEnds => BothEnds')
<1>1. ASSUME Grows, DOMAIN registry' = DOMAIN registry
      PROVE  BothEnds => BothEnds'
  BY <1>1 DEF Grows, BothEnds
<1>2. ASSUME NEW rec, Apply(rec)
      PROVE  Grows /\ (BothEnds => BothEnds')
  <2>1. DOMAIN registry' = DOMAIN registry
    BY <1>2 DEF Apply
  <2> QED
    BY <1>1, <1>2, <2>1, ApplyGrows
<1>3. CASE UNCHANGED vars \/ FinishStep
  <2>1. registry' = registry
    BY <1>3 DEF vars, scene, FinishStep
  <2> QED
    BY <2>1 DEF Grows, BothEnds
<1>4. CASE \E f \in Forms : AddShape(f)
  BY <1>4, AddGrows
<1>5. CASE \E rec \in Records : EditStep(rec) \/ DesignStep(rec)
  <2>1. PICK rec \in Records : Apply(rec)
    BY <1>5 DEF EditStep, Edit, DesignStep
  <2> QED
    BY <1>2, <2>1
<1>6. CASE Undo
  <2>1. Apply(Inverted(Last(undoStack)))
    BY <1>6 DEF Undo
  <2> QED
    BY <1>2, <2>1
<1>7. CASE Redo
  <2>1. Apply(Last(redoStack))
    BY <1>7 DEF Redo
  <2> QED
    BY <1>2, <2>1
<1> QED
  BY <1>3, <1>4, <1>5, <1>6, <1>7 DEF KeepingStep

\* Every shape has both its ends, whatever the canvas does.
LEMMA WorldEnds ==
    ASSUME FInv, BothEnds, WorldStep
    PROVE  BothEnds'
<1>1. CASE KeepingStep
  BY <1>1, KeepingGrows
<1>2. CASE Clear \/ FreshWorld
  <2>1. registry' = <<>>
    BY <1>2 DEF Clear, FreshWorld
  <2> QED
    BY <2>1 DEF BothEnds
<1> QED
  BY <1>1, <1>2 DEF WorldStep

-----------------------------------------------------------------------------
(* The calls and the events, one by one. *)

\* The ids of shapes.
LEMMA Ids ==
    ASSUME CInv
    PROVE  /\ Live \subseteq DOMAIN registry
           /\ \A id \in DOMAIN registry : id \in Nat /\ id # 0
           /\ EditingShape # 0 => EditingShape = editing /\ editing \in Live /\ world
<1>1. DOMAIN registry = 1 .. Len(registry) /\ Len(registry) \in Nat
  BY CanvasOutline DEF CInv, FInv
<1>2. Live \subseteq DOMAIN registry
  BY LivePlaces
<1> QED
  BY <1>1, <1>2 DEF EditingShape, IsEditable, IsLive, Live

\* Once an edit drag is finished no compound is open.
LEMMA FinishEnds ==
    ASSUME CInv, FinishEdit
    PROVE  KeepingStep /\ inOperation' = FALSE /\ registry' = registry
<1>1. /\ inOperation => drag \in EditDrags /\ world
      /\ inOperation \in BOOLEAN
  BY DEF CInv, ModeInv, Bracketed, FInv, IInv, HistoryInv
<1>2. CASE inOperation
  <2>1. EndOperation
    BY <1>1, <1>2 DEF FinishEdit
  <2> QED
    BY <2>1 DEF EndOperation, KeepingStep, FinishStep, scene
<1>3. CASE ~ inOperation
  <2>1. UNCHANGED vars
    BY <1>3 DEF FinishEdit
  <2> QED
    BY <1>1, <1>3, <2>1 DEF vars, scene, history, KeepingStep
<1> QED
  BY <1>2, <1>3

\* A press that begins an edit drag opens a compound.
LEMMA BeginHolds ==
    ASSUME NEW kind, NEW id, BeginDrag(kind, id)
    PROVE  KeepingStep /\ inOperation' = TRUE /\ registry' = registry /\ drag' = kind
  BY DEF BeginDrag, BeginOperation, KeepingStep, FinishStep, scene

\* A call that finishes the drag and clears the modes leaves them in step.
LEMMA EndKeeps ==
    ASSUME CInv, FinishEdit, drag' = "None", ClearNodeSelection,
           world' = world, pivot' = pivot, abandoned' = abandoned,
           tool' \in {"select", "shape"}, held' \in BOOLEAN, drawing' \in BOOLEAN,
           drawing' => tool' = "shape" /\ held',
           selected' \in Nat, editing' \in {0} \cup DOMAIN registry,
           tool' = "shape" => selected' = 0 /\ editing' = 0
    PROVE  WorldStep /\ ModeInv'
<1>1. KeepingStep /\ inOperation' = FALSE /\ registry' = registry
  BY FinishEnds
<1>2. editNodes' = {} /\ editHandle' = 0 /\ dragging' = {} /\ stale' = FALSE
  BY DEF ClearNodeSelection
<1>3. ModeTypes'
  <2>1. /\ world \in BOOLEAN /\ abandoned \in BOOLEAN /\ pivot \in Places
    BY DEF CInv, ModeInv, ModeTypes
  <2>2. editing' \in Nat /\ editHandle' \in Nat /\ editNodes' \subseteq {1, 2}
        /\ dragging' \subseteq Nat
    BY <1>2, Ids
  <2>3. IsFiniteSet(dragging')
    BY <1>2, FS_EmptySet
  <2>4. stale' \in BOOLEAN /\ world' \in BOOLEAN /\ abandoned' \in BOOLEAN
        /\ pivot' \in Places
    BY <1>2, <2>1, Zenon
  <2> QED
    BY <2>2, <2>3, <2>4 DEF ModeTypes
<1>4. Bracketed'
  BY <1>1 DEF CInv, ModeInv, Bracketed, EditDrags
<1>5. DrawToolHoldsNothing'
  BY <1>2 DEF DrawToolHoldsNothing, CanDrawShape
<1>6. NodesKept'
  BY <1>1, <1>2 DEF NodesKept, OnPath, EditDrags
<1> QED
  BY <1>1, <1>3, <1>4, <1>5, <1>6 DEF WorldStep, ModeInv

\* setDrawTool.
LEMMA SetDrawToolKeeps ==
    ASSUME CInv, NEW t \in {"select", "shape"}, SetDrawTool(t)
    PROVE  WorldStep /\ ModeInv'
<1>1. /\ FinishEdit /\ drag' = "None" /\ ClearNodeSelection /\ tool' = t
      /\ drawing' = FALSE /\ selected' = 0 /\ editing' = 0
      /\ UNCHANGED <<world, held, pivot, abandoned>>
  BY DEF SetDrawTool, EndEditDrag
<1>2. held \in BOOLEAN
  BY DEF CInv, ModeInv, ModeTypes
<1> QED
  BY <1>1, <1>2, EndKeeps

\* A draw tool holds neither a selection nor a path, and no stroke is under way
\* without one.
LEMMA ToolParts ==
    ASSUME CInv
    PROVE  /\ tool = "shape" => selected = 0 /\ editing = 0 /\ drag = "None" /\ editNodes = {}
           /\ drawing => tool = "shape" /\ held
           /\ drag # "None" => held
           /\ tool \in {"select", "shape"} /\ held \in BOOLEAN /\ drawing \in BOOLEAN
           /\ selected \in Nat /\ editing \in Nat
  BY DEF CInv, ModeInv, ModeTypes, DrawToolHoldsNothing, CanDrawShape

\* setSelectedShape.
LEMMA SetSelectedShapeKeeps ==
    ASSUME CInv, NEW id \in {0} \cup Live, SetSelectedShape(id)
    PROVE  WorldStep /\ ModeInv'
<1>1. /\ FinishEdit /\ drag' = "None" /\ ClearNodeSelection /\ tool # "shape"
      /\ selected' = id /\ editing' = 0
      /\ UNCHANGED <<world, tool, held, drawing, pivot, abandoned>>
  BY DEF SetSelectedShape, EndEditDrag, CanDrawShape
<1>2. id \in Nat
  BY Ids
<1> QED
  BY <1>1, <1>2, ToolParts, EndKeeps

\* setEditingShape, from wherever it is called.
LEMMA ModeKeeps ==
    ASSUME CInv, NEW id, Mode(id), held' \in BOOLEAN, held => held'
    PROVE  WorldStep /\ ModeInv'
<1>1. /\ FinishEdit /\ drag' = "None" /\ ClearNodeSelection
      /\ selected' = (IF id = 0 THEN selected ELSE id) /\ editing' = id
      /\ id # 0 => tool # "shape" /\ IsLive(id)
      /\ UNCHANGED <<world, tool, drawing, pivot, abandoned>>
  BY DEF Mode, EndEditDrag, CanDrawShape, IsEditable
<1>2. id \in {0} \cup DOMAIN registry
  BY <1>1 DEF IsLive
<1>3. selected' \in Nat
  BY <1>1, <1>2, Ids, ToolParts
<1> QED
  BY <1>1, <1>2, <1>3, ToolParts, EndKeeps

\* A row of the Layers page.
LEMMA RowPickedKeeps ==
    ASSUME CInv, NEW id \in Live, RowPicked(id)
    PROVE  WorldStep /\ ModeInv'
<1>1. /\ FinishEdit /\ drag' = "None" /\ ClearNodeSelection /\ tool' = "select"
      /\ drawing' = (drawing /\ tool # "shape") /\ selected' = id /\ editing' = 0
      /\ UNCHANGED <<world, held, pivot, abandoned>>
  BY DEF RowPicked, EndEditDrag, CanDrawShape
<1>2. id \in Nat
  BY Ids
<1>3. drawing' = FALSE
  BY <1>1, ToolParts
<1> QED
  BY <1>1, <1>2, <1>3, ToolParts, EndKeeps

\* updateWorld.
LEMMA UpdateWorldKeeps ==
    ASSUME CInv, NEW kind \in {"same", "new"}, UpdateWorld(kind)
    PROVE  WorldStep /\ ModeInv'
<1>1. /\ drag' = "None" /\ ClearNodeSelection /\ selected' = 0 /\ editing' = 0
      /\ UNCHANGED <<tool, held, drawing, pivot>>
  BY DEF UpdateWorld
<1>2. CASE kind = "same"
  <2>1. FinishEdit /\ UNCHANGED <<world, abandoned>>
    BY <1>2 DEF UpdateWorld
  <2> QED
    BY <1>1, <2>1, ToolParts, EndKeeps
<1>3. CASE kind = "new"
  <2>1. world' = TRUE /\ FreshWorld /\ abandoned' = (abandoned \/ LeftOpen)
    BY <1>3 DEF UpdateWorld
  <2>2. inOperation' = FALSE
    BY <2>1 DEF FreshWorld
  <2>3. ~ abandoned /\ ~ LeftOpen
    BY DEF CInv, ModeInv, Bracketed, LeftOpen
  <2>4. abandoned' = FALSE
    BY <2>1, <2>3
  <2>5. editNodes' = {} /\ editHandle' = 0 /\ dragging' = {} /\ stale' = FALSE
    BY <1>1 DEF ClearNodeSelection
  <2>6. ModeTypes'
    <3>1. IsFiniteSet(dragging')
      BY <2>5, FS_EmptySet
    <3>2. /\ stale' \in BOOLEAN /\ world' \in BOOLEAN /\ abandoned' \in BOOLEAN
      BY <2>1, <2>4, <2>5, Zenon
    <3>3. pivot' \in Places
      BY <1>1 DEF CInv, ModeInv, ModeTypes
    <3>4. selected' \in Nat /\ editing' \in Nat /\ editHandle' \in Nat
          /\ editNodes' \subseteq {1, 2} /\ dragging' \subseteq Nat
      BY <1>1, <2>5
    <3>5. tool' \in {"select", "shape"} /\ held' \in BOOLEAN /\ drawing' \in BOOLEAN
      BY <1>1, ToolParts, Zenon
    <3> QED
      BY <1>1, <3>1, <3>2, <3>3, <3>4, <3>5 DEF ModeTypes
  <2>7. Bracketed'
    BY <1>1, <2>2, <2>4 DEF Bracketed, EditDrags
  <2>8. DrawToolHoldsNothing'
    BY <1>1, <2>5, ToolParts DEF DrawToolHoldsNothing, CanDrawShape
  <2>9. NodesKept'
    BY <1>1 DEF NodesKept
  <2> QED
    BY <2>1, <2>6, <2>7, <2>8, <2>9 DEF WorldStep, ModeInv
<1> QED
  BY <1>2, <1>3

\* A step that leaves the modes alone and opens no compound.
LEMMA QuietKeeps ==
    ASSUME CInv, KeepingStep, UNCHANGED <<canvasVars, world, abandoned>>,
           inOperation' => inOperation
    PROVE  WorldStep /\ ModeInv'
<1>1. UNCHANGED <<tool, held, drawing, selected, editing, editNodes, editHandle, dragging,
                  drag, pivot, stale, world, abandoned>>
  BY DEF canvasVars, restVars
<1>2. Grows
  BY KeepingGrows DEF CInv
<1>3. ModeTypes' /\ DrawToolHoldsNothing'
  BY <1>1 DEF CInv, ModeInv, ModeTypes, DrawToolHoldsNothing, CanDrawShape
<1>4. Bracketed'
  BY <1>1 DEF CInv, ModeInv, Bracketed
<1>5. NodesKept'
  <2>1. ASSUME editing # 0, ~ stale PROVE OnPath(editing)'
    <3>1. OnPath(editing)
      BY <2>1 DEF CInv, ModeInv, NodesKept
    <3>2. editing \in DOMAIN registry' /\ DOMAIN registry'[editing].points = DOMAIN registry[editing].points
      BY <1>2, <3>1 DEF Grows, OnPath
    <3> QED
      BY <1>1, <3>1, <3>2 DEF OnPath, Handles, Nodes, Points
  <2> QED
    BY <1>1, <2>1 DEF NodesKept
<1> QED
  BY <1>3, <1>4, <1>5 DEF WorldStep, ModeInv

\* A press with the select tool begins a drag, or none.
LEMMA PressKeeps ==
    ASSUME CInv, KeepingStep, registry' = registry, ~ CanDrawShape, held' = TRUE,
           UNCHANGED <<tool, world, drawing, abandoned>>,
           selected' \in Nat, editing' \in Nat, editNodes' \subseteq {1, 2}, editHandle' \in Nat,
           dragging' \subseteq Nat, IsFiniteSet(dragging'), stale' \in BOOLEAN, pivot' \in Places,
           drag' \in EditDrags \cup {"None", "View"},
           inOperation' => drag' \in EditDrags, drag' \in EditDrags => world,
           NodesKept'
    PROVE  WorldStep /\ ModeInv'
<1>1. tool # "shape" /\ ~ drawing
  BY ToolParts DEF CanDrawShape
<1>2. ModeTypes'
  <2>1. world \in BOOLEAN /\ abandoned \in BOOLEAN /\ drawing \in BOOLEAN
    BY DEF CInv, ModeInv, ModeTypes
  <2>2. world' \in BOOLEAN /\ abandoned' \in BOOLEAN /\ drawing' \in BOOLEAN /\ held' \in BOOLEAN
    BY <2>1, Zenon
  <2> QED
    BY <2>2, ToolParts DEF ModeTypes, EditDrags
<1>3. Bracketed'
  BY DEF CInv, ModeInv, Bracketed, EditDrags
<1>4. DrawToolHoldsNothing'
  BY <1>1 DEF DrawToolHoldsNothing, CanDrawShape
<1> QED
  BY <1>2, <1>3, <1>4 DEF WorldStep, ModeInv

\* The parts of the modes.
LEMMA ModeParts ==
    ASSUME CInv
    PROVE  /\ stale \in BOOLEAN /\ pivot \in Places
           /\ editNodes \subseteq {1, 2} /\ editHandle \in Nat
           /\ dragging \subseteq Nat /\ IsFiniteSet(dragging)
           /\ (inOperation => drag \in EditDrags)
           /\ (drag \in EditDrags => world)
           /\ (editing # 0 /\ ~ stale => OnPath(editing))
           /\ (~ held => drag = "None" /\ ~ inOperation)
  BY DEF CInv, ModeInv, ModeTypes, Bracketed, NodesKept, DrawToolHoldsNothing, EditDrags

\* The ends of a path are two of its points, as are those a selection is
\* expanded to; there is one if a node is selected.
LEMMA Expanded ==
    ASSUME CInv, NEW id \in DOMAIN registry, NEW nodes, NEW n \in nodes, n \in Nodes(id),
           NEW E, E = ExpandSelectedNodes(id, nodes)
    PROVE  E # {} /\ E \subseteq DOMAIN Points(id) /\ E \subseteq Nat /\ IsFiniteSet(E)
<1>1. {1, 2} \subseteq DOMAIN Points(id)
  BY DEF CInv, BothEnds, Points
<1>2. registry \in Seq(Shapes) /\ registry[id] \in Shapes
  BY ElementOfSeq, LenProperties DEF CInv, FInv, IInv, SceneInv
<1>3. Points(id) \in Seq(Places)
  BY <1>2 DEF Points, Shapes
<1>4. Len(Points(id)) \in Nat /\ DOMAIN Points(id) = 1 .. Len(Points(id))
  BY <1>3, LenProperties
<1>5. E \subseteq DOMAIN Points(id)
  BY <1>1 DEF ExpandSelectedNodes, Nodes, Handles
<1>6. n \in E
  BY DEF ExpandSelectedNodes, IsNodeSelected
<1>7. IsFiniteSet(DOMAIN Points(id))
  BY <1>4, FS_Interval
<1> QED
  BY <1>4, <1>5, <1>6, <1>7, FS_Subset

\* pressNodeEdit on a node.
LEMMA PressNodeKeeps ==
    ASSUME CInv, NEW n \in 1 .. 2, NEW shift \in BOOLEAN, PressNode(n, shift)
    PROVE  WorldStep /\ ModeInv'
<1>id. PICK id : id = EditingShape
  OBVIOUS
<1>ns. PICK nodes : nodes = CASE shift -> editNodes \cup {n}
                   [] ~shift /\ IsNodeSelected(id, editNodes, n)  -> editNodes
                   [] ~shift /\ ~IsNodeSelected(id, editNodes, n) -> {n}
  OBVIOUS
<1>1. /\ held' = TRUE /\ ~ CanDrawShape /\ id # 0
      /\ editNodes' = nodes /\ editHandle' = 0
      /\ dragging' = ExpandSelectedNodes(id, nodes)
      /\ BeginDrag("Node", id)
      /\ UNCHANGED <<world, tool, drawing, selected, editing, pivot, stale, abandoned>>
  BY <1>id, <1>ns DEF PressNode
<1>2. id = editing /\ id \in DOMAIN registry /\ world
  BY <1>1, <1>id, Ids
<1>3. KeepingStep /\ inOperation' = TRUE /\ registry' = registry /\ drag' = "Node"
  BY <1>1, BeginHolds
<1>4. nodes \subseteq {1, 2}
  BY <1>ns, ModeParts
<1>5. \E k \in nodes : IsNodeSelected(id, nodes, n)
  <2>1. CASE shift
    BY <1>ns, <2>1 DEF IsNodeSelected
  <2>2. CASE ~ shift /\ IsNodeSelected(id, editNodes, n)
    BY <1>ns, <2>2 DEF IsNodeSelected
  <2>3. CASE ~ shift /\ ~ IsNodeSelected(id, editNodes, n)
    BY <1>ns, <2>3 DEF IsNodeSelected
  <2> QED
    BY <2>1, <2>2, <2>3
<1>6. PICK k \in nodes : k \in Nodes(id)
  BY <1>4, <1>5 DEF Nodes
<1>7. dragging' # {} /\ dragging' \subseteq DOMAIN Points(id) /\ dragging' \subseteq Nat
      /\ IsFiniteSet(dragging')
  BY <1>1, <1>2, <1>6, Expanded
<1>8. NodesKept'
  BY <1>1, <1>2, <1>3, <1>7 DEF NodesKept, OnPath, Points
<1>9. selected' \in Nat /\ editing' \in Nat /\ stale' \in BOOLEAN /\ pivot' \in Places
  BY <1>1, ToolParts, ModeParts, Zenon
<1> QED
  BY <1>1, <1>2, <1>3, <1>4, <1>7, <1>8, <1>9, PressKeeps DEF EditDrags

\* pressNodeEdit on a node with shift: it is no longer selected.
LEMMA DropNodeKeeps ==
    ASSUME CInv, NEW n \in 1 .. 2, DropNode(n)
    PROVE  WorldStep /\ ModeInv'
<1>1. /\ ~ held /\ held' = TRUE /\ ~ CanDrawShape /\ EditingShape # 0
      /\ editNodes' \subseteq editNodes /\ editHandle' = 0
      /\ UNCHANGED <<vars, world, tool, drawing, selected, editing, dragging, drag,
                     pivot, stale, abandoned>>
  BY DEF DropNode
<1>2. EditingShape = editing /\ editing \in DOMAIN registry
  BY <1>1, Ids
<1>3. KeepingStep /\ inOperation' = inOperation /\ registry' = registry
  BY <1>1 DEF KeepingStep, vars, scene, history
<1>4. drag' = "None" /\ ~ inOperation'
  BY <1>1, <1>3, ModeParts
<1>5. NodesKept'
  BY <1>1, <1>2, <1>3, <1>4 DEF NodesKept, OnPath
<1>6. /\ selected' \in Nat /\ editing' \in Nat /\ stale' \in BOOLEAN /\ pivot' \in Places
      /\ dragging' \subseteq Nat /\ IsFiniteSet(dragging')
  BY <1>1, ToolParts, ModeParts, Zenon
<1>7. editNodes' \subseteq {1, 2} /\ editHandle' \in Nat
  BY <1>1, ModeParts
<1> QED
  BY <1>1, <1>3, <1>4, <1>5, <1>6, <1>7, PressKeeps DEF EditDrags

\* pressNodeEdit on a handle.
LEMMA PressHandleKeeps ==
    ASSUME CInv, NEW h \in 3 .. 4, PressHandle(h)
    PROVE  WorldStep /\ ModeInv'
<1>1. /\ held' = TRUE /\ ~ CanDrawShape /\ EditingShape # 0
      /\ h \in Handles(EditingShape)
      /\ editNodes' = {} /\ editHandle' = h /\ dragging' = {h}
      /\ BeginDrag("Handle", EditingShape)
      /\ UNCHANGED <<world, tool, drawing, selected, editing, pivot, stale, abandoned>>
  BY DEF PressHandle
<1>2. EditingShape = editing /\ editing \in DOMAIN registry /\ world
  BY <1>1, Ids
<1>3. KeepingStep /\ inOperation' = TRUE /\ registry' = registry /\ drag' = "Handle"
  BY <1>1, BeginHolds
<1>4. NodesKept'
  BY <1>1, <1>2, <1>3 DEF NodesKept, OnPath, Points, Handles, Nodes
<1>5. /\ selected' \in Nat /\ editing' \in Nat /\ stale' \in BOOLEAN /\ pivot' \in Places
  BY <1>1, ToolParts, ModeParts, Zenon
<1>6. /\ editNodes' \subseteq {1, 2} /\ editHandle' \in Nat
      /\ dragging' \subseteq Nat /\ IsFiniteSet(dragging')
  <2>1. IsFiniteSet({h})
    BY FS_Singleton
  <2>2. h \in Nat
    OBVIOUS
  <2> QED
    BY <1>1, <2>1, <2>2
<1> QED
  BY <1>1, <1>2, <1>3, <1>4, <1>5, <1>6, PressKeeps DEF EditDrags

\* A press elsewhere on the path, or a double click on it.
LEMMA PressPathKeeps ==
    ASSUME CInv, ~ held, held' = TRUE, ~ CanDrawShape, EditingShape # 0,
           UNCHANGED <<vars, world, tool, drawing, selected, editing, drag, pivot, abandoned>>,
           ClearNodeSelection \/ UNCHANGED nodeVars
    PROVE  WorldStep /\ ModeInv'
<1>1. KeepingStep /\ inOperation' = inOperation /\ registry' = registry
  BY DEF KeepingStep, vars, scene, history
<1>2. drag' = "None" /\ ~ inOperation'
  BY <1>1, ModeParts
<1>3. editing' = editing /\ editing \in DOMAIN registry
  BY Ids
<1>4. /\ editNodes' \subseteq {1, 2} /\ editHandle' \in Nat
      /\ dragging' \subseteq Nat /\ IsFiniteSet(dragging') /\ stale' \in BOOLEAN
  <2>1. CASE ClearNodeSelection
    BY <2>1, FS_EmptySet DEF ClearNodeSelection
  <2>2. CASE UNCHANGED nodeVars
    BY <2>2, ModeParts, Zenon DEF nodeVars
  <2> QED
    BY <2>1, <2>2
<1>5. NodesKept'
  <2>1. CASE ClearNodeSelection
    BY <1>1, <1>2, <1>3, <2>1 DEF ClearNodeSelection, NodesKept, OnPath
  <2>2. CASE UNCHANGED nodeVars
    BY <1>1, <1>2, <1>3, <2>2, ModeParts DEF nodeVars, NodesKept, OnPath, Handles, Nodes, Points
  <2> QED
    BY <2>1, <2>2
<1>6. selected' \in Nat /\ editing' \in Nat /\ pivot' \in Places
  BY ToolParts, ModeParts
<1> QED
  BY <1>1, <1>2, <1>4, <1>5, <1>6, PressKeeps DEF EditDrags

\* A press off the path.
LEMMA PressedKeeps ==
    ASSUME CInv, Pressed, KeepingStep, registry' = registry,
           selected' \in Nat, pivot' \in Places,
           drag' \in {"Move", "Rotate", "View"}, inOperation' => drag' # "View",
           drag' # "View" => world
    PROVE  WorldStep /\ ModeInv'
<1>1. /\ held' = TRUE /\ ~ CanDrawShape
      /\ \/ editing' = 0 /\ ClearNodeSelection
         \/ UNCHANGED <<editing, nodeVars>>
      /\ UNCHANGED <<world, tool, drawing, abandoned>>
  BY DEF Pressed, LeaveMode
<1>2. /\ editNodes' \subseteq {1, 2} /\ editHandle' \in Nat /\ editing' \in Nat
      /\ dragging' \subseteq Nat /\ IsFiniteSet(dragging') /\ stale' \in BOOLEAN
  <2>1. CASE editing' = 0 /\ ClearNodeSelection
    BY <2>1, FS_EmptySet DEF ClearNodeSelection
  <2>2. CASE UNCHANGED <<editing, nodeVars>>
    BY <2>2, ModeParts, ToolParts, Zenon DEF nodeVars
  <2> QED
    BY <1>1, <2>1, <2>2
<1>3. NodesKept'
  <2>1. CASE editing' = 0
    BY <2>1 DEF NodesKept
  <2>2. CASE UNCHANGED <<editing, nodeVars>>
    BY <2>2, ModeParts DEF nodeVars, NodesKept, OnPath, Handles, Nodes, Points
  <2> QED
    BY <1>1, <2>1, <2>2
<1> QED
  BY <1>1, <1>2, <1>3, PressKeeps DEF EditDrags

\* A press on the knob, on a shape or on nothing.
LEMMA PressSelectKeeps ==
    ASSUME CInv, PressKnob \/ (\E id \in Live : PressShape(id)) \/ PressEmpty
    PROVE  WorldStep /\ ModeInv'
<1>1. CASE PressKnob
  <2>1. /\ Pressed /\ world /\ IsLive(selected) /\ BeginDrag("Rotate", selected)
        /\ selected' = selected
        /\ pivot' = <<Middle(registry[selected].obb)[1] \div 2,
                      Middle(registry[selected].obb)[2] \div 2>>
    BY <1>1 DEF PressKnob
  <2>2. registry \in Seq(Shapes) /\ selected \in DOMAIN registry
    BY <2>1 DEF CInv, FInv, IInv, SceneInv, IsLive
  <2>3. registry[selected].obb \in Boxes
    <3>1. registry[selected] \in Shapes
      BY <2>2, ElementOfSeq, LenProperties
    <3> QED
      BY <3>1 DEF Shapes
  <2>4. registry[selected].obb[1] \in Places /\ registry[selected].obb[3] \in Places
    BY <2>3 DEF Boxes
  <2>5. pivot' \in Places
    BY <2>1, <2>4 DEF Middle, Plus, Places
  <2>6. selected' \in Nat
    BY <2>1, ToolParts
  <2>7. KeepingStep /\ registry' = registry /\ drag' = "Rotate"
    BY <2>1, BeginHolds
  <2> QED
    BY <2>1, <2>5, <2>6, <2>7, PressedKeeps
<1>2. CASE \E id \in Live : PressShape(id)
  <2>1. PICK id \in Live : PressShape(id)
    BY <1>2
  <2>2. Pressed /\ world /\ selected' = id /\ BeginDrag("Move", id) /\ pivot' = pivot
    BY <2>1 DEF PressShape
  <2>3. selected' \in Nat /\ pivot' \in Places
    BY <2>2, Ids, ModeParts
  <2>4. KeepingStep /\ registry' = registry /\ drag' = "Move"
    BY <2>2, BeginHolds
  <2> QED
    BY <2>2, <2>3, <2>4, PressedKeeps
<1>3. CASE PressEmpty
  <2>1. Pressed /\ selected' = 0 /\ drag' = "View" /\ UNCHANGED <<vars, pivot>> /\ ~ held
    BY <1>3 DEF PressEmpty, Pressed
  <2>2. KeepingStep /\ inOperation' = inOperation /\ registry' = registry
    BY <2>1 DEF KeepingStep, vars, scene, history
  <2>3. ~ inOperation /\ pivot' \in Places
    BY <2>1, ModeParts
  <2> QED
    BY <2>1, <2>2, <2>3, PressedKeeps
<1> QED
  BY <1>1, <1>2, <1>3

\* The records of moves.
MoveRec(id, d) == [NoRecord EXCEPT !.op = "translate", !.id = id, !.d = d]
RotateRec(id, angle, c) == [NoRecord EXCEPT !.op = "rotate", !.id = id, !.angle = angle, !.c = c]
PointsRec(id, refs, d) == [NoRecord EXCEPT !.op = "movePoints", !.id = id, !.d = d, !.refs = refs]

\* They are records.
LEMMA MoveRecords ==
    ASSUME NEW id \in Nat, NEW d \in Places, NEW c \in Places, NEW angle \in Int,
           NEW refs \in Seq(Nat)
    PROVE  /\ MoveRec(id, d) \in Records
           /\ RotateRec(id, angle, c) \in Records
           /\ PointsRec(id, refs, d) \in Records
  BY NoRecordType DEF MoveRec, RotateRec, PointsRec, Records

\* A finite set of numbers has a list.
LEMMA ListOfSet ==
    ASSUME NEW S \in SUBSET Nat, IsFiniteSet(S)
    PROVE  SetToSeq(S) \in Seq(Nat)
<1>n. PICK n : n = Cardinality(S)
  OBVIOUS
<1>1. n \in Nat /\ ExistsBijection(1 .. n, S)
  BY <1>n, FS_CardinalityType
<1>2. \E f \in [1 .. n -> S] : IsInjective(f)
  BY <1>1 DEF ExistsBijection, Bijection, Injection
<1>3. SetToSeq(S) \in [1 .. n -> S]
  BY <1>n, <1>2 DEF SetToSeq
<1>4. SetToSeq(S) \in [1 .. n -> Nat]
  BY <1>3
<1> QED
  BY <1>1, <1>4, FunctionIsList

\* What a step of the drag under way records.
Dragged(rec) ==
    \/ /\ drag = "Move" /\ rec.op = "translate" /\ rec.id = selected
       /\ rec.c = <<0, 0>> /\ rec.refs = <<>>
    \/ /\ drag = "Rotate" /\ rec.op = "rotate" /\ rec.id = selected
       /\ rec.c = pivot /\ rec.refs = <<>>
    \/ /\ drag \in {"Node", "Handle"} /\ rec.op = "movePoints" /\ rec.id = editing
       /\ rec.c = <<0, 0>> /\ rec.refs = SetToSeq(dragging)

\* mouseMoveEvent edits the shape of the drag.
LEMMA DragIsEdit ==
    ASSUME CInv, MouseMove
    PROVE  \E rec \in Records : Edit(rec) /\ Dragged(rec)
<1>1. selected \in Nat /\ editing \in Nat /\ pivot \in Places
  BY ToolParts, ModeParts
<1>2. <<0, 0>> \in Places /\ <<>> \in Seq(Nat) /\ 0 \in Int
  BY NoRecordType DEF Places
<1>3. SetToSeq(dragging) \in Seq(Nat)
  BY ModeParts, ListOfSet
<1>4. Steps \subseteq Places /\ Turns \subseteq Int
  BY StepsAssumption DEF Places
<1>5. CASE drag = "Move" /\ \E d \in Steps : TranslateShape(selected, d)
  <2>1. PICK d \in Steps : TranslateShape(selected, d)
    BY <1>5
  <2>2. MoveRec(selected, d) \in Records
    BY <1>1, <1>2, <1>4, MoveRecords
  <2>3. Edit(MoveRec(selected, d))
    BY <2>1 DEF TranslateShape, MoveRec
  <2>4. Dragged(MoveRec(selected, d))
    BY <1>5 DEF Dragged, MoveRec, NoRecord
  <2> QED
    BY <2>2, <2>3, <2>4
<1>6. CASE drag = "Rotate" /\ \E angle \in Turns : RotateShape(selected, angle, pivot)
  <2>1. PICK angle \in Turns : RotateShape(selected, angle, pivot)
    BY <1>6
  <2>2. RotateRec(selected, angle, pivot) \in Records
    BY <1>1, <1>2, <1>4, MoveRecords
  <2>3. Edit(RotateRec(selected, angle, pivot))
    BY <2>1 DEF RotateShape, RotateRec
  <2>4. Dragged(RotateRec(selected, angle, pivot))
    BY <1>6 DEF Dragged, RotateRec, NoRecord
  <2> QED
    BY <2>2, <2>3, <2>4
<1>7. CASE drag \in {"Node", "Handle"}
           /\ \E d \in Steps : MoveShapePoints(editing, SetToSeq(dragging), d)
  <2>1. PICK d \in Steps : MoveShapePoints(editing, SetToSeq(dragging), d)
    BY <1>7
  <2>2. PointsRec(editing, SetToSeq(dragging), d) \in Records
    BY <1>1, <1>2, <1>3, <1>4, MoveRecords
  <2>3. Edit(PointsRec(editing, SetToSeq(dragging), d))
    BY <2>1 DEF MoveShapePoints, PointsRec
  <2>4. Dragged(PointsRec(editing, SetToSeq(dragging), d))
    BY <1>7 DEF Dragged, PointsRec, NoRecord
  <2> QED
    BY <2>2, <2>3, <2>4
<1> QED
  BY <1>5, <1>6, <1>7 DEF MouseMove

\* mouseMoveEvent.
LEMMA MouseMoveKeeps ==
    ASSUME CInv, MouseMove
    PROVE  WorldStep /\ ModeInv'
<1>1. PICK rec \in Records : Edit(rec) /\ Dragged(rec)
  BY DragIsEdit
<1>2. EditStep(rec)
  BY <1>1 DEF Dragged, EditStep, Moves
<1>3. inOperation' = inOperation
  BY <1>1 DEF Edit, RecordOp
<1>4. UNCHANGED <<canvasVars, world, abandoned>>
  BY DEF MouseMove
<1>5. KeepingStep
  BY <1>2 DEF KeepingStep
<1> QED
  BY <1>3, <1>4, <1>5, QuietKeeps

\* mouseReleaseEvent.
LEMMA MouseReleaseKeeps ==
    ASSUME CInv, MouseRelease
    PROVE  WorldStep /\ ModeInv'
<1>1. /\ held' = FALSE
      /\ UNCHANGED <<world, tool, selected, editing, editNodes, editHandle, dragging, stale,
                     pivot, abandoned>>
  BY DEF MouseRelease, nodeVars
<1>2. KeepingStep /\ ~ inOperation' /\ drag' = "None" /\ drawing' = FALSE
  <2>1. CASE drawing
    <3>1. /\ drawing' = FALSE /\ drag' = drag
          /\ (\E f \in Forms : AddShape(f)) \/ UNCHANGED vars
      BY <2>1, CanvasFormsAssumption DEF MouseRelease
    <3>2. drag = "None" /\ ~ inOperation
      BY <2>1, ToolParts, ModeParts DEF EditDrags
    <3>3. KeepingStep /\ inOperation' = inOperation
      BY <3>1 DEF KeepingStep, AddShape, RegisterShape, RecordOp, vars, history
    <3> QED
      BY <3>1, <3>2, <3>3
  <2>2. CASE ~ drawing
    <3>1. FinishEdit /\ drag' = "None" /\ drawing' = drawing
      BY <2>2 DEF MouseRelease, EndEditDrag
    <3>2. drawing' = FALSE
      BY <2>2, <3>1, ToolParts
    <3> QED
      BY <3>1, <3>2, FinishEnds
  <2> QED
    BY <2>1, <2>2
<1>3. Grows
  BY <1>2, KeepingGrows DEF CInv
<1>4. ModeTypes'
  <2>1. ModeTypes
    BY DEF CInv, ModeInv
  <2> QED
    BY <1>1, <1>2, <2>1 DEF ModeTypes, EditDrags
<1>5. Bracketed'
  BY <1>1, <1>2 DEF CInv, ModeInv, Bracketed, EditDrags
<1>6. DrawToolHoldsNothing'
  BY <1>1, <1>2, ToolParts DEF DrawToolHoldsNothing, CanDrawShape
<1>7. NodesKept'
  <2>1. ASSUME editing # 0, ~ stale PROVE OnPath(editing)'
    <3>1. OnPath(editing)
      BY <2>1, ModeParts
    <3>2. editing \in DOMAIN registry' /\ DOMAIN registry'[editing].points = DOMAIN registry[editing].points
      BY <1>3, <3>1 DEF Grows, OnPath
    <3> QED
      BY <1>1, <1>2, <3>1, <3>2 DEF OnPath, Handles, Nodes, Points
  <2> QED
    BY <1>1, <2>1 DEF NodesKept
<1> QED
  BY <1>2, <1>4, <1>5, <1>6, <1>7 DEF WorldStep, ModeInv

\* mousePressEvent with a tool that draws.
LEMMA PressToDrawKeeps ==
    ASSUME CInv, PressToDraw
    PROVE  WorldStep /\ ModeInv'
<1>1. /\ held' = TRUE /\ drawing' = TRUE /\ tool = "shape"
      /\ UNCHANGED <<vars, world, tool, selected, editing, editNodes, editHandle, dragging,
                     stale, drag, pivot, abandoned>>
  BY DEF PressToDraw, CanDrawShape, nodeVars
<1>2. KeepingStep
  BY <1>1 DEF KeepingStep
<1>3. registry' = registry /\ inOperation' = inOperation
  BY <1>1 DEF vars, scene, history
<1>4. ModeTypes'
  BY <1>1 DEF CInv, ModeInv, ModeTypes
<1>5. Bracketed'
  BY <1>1, <1>3 DEF CInv, ModeInv, Bracketed
<1>6. DrawToolHoldsNothing'
  BY <1>1, ToolParts DEF DrawToolHoldsNothing, CanDrawShape
<1>7. NodesKept'
  BY <1>1, ToolParts DEF NodesKept
<1> QED
  BY <1>2, <1>4, <1>5, <1>6, <1>7 DEF WorldStep, ModeInv

\* A script, the agent or a menu.
LEMMA OutsideKeeps ==
    ASSUME CInv, Outside
    PROVE  WorldStep /\ ModeInv'
<1>1. UNCHANGED <<tool, held, drawing, selected, editing, editNodes, editHandle, dragging,
                  drag, pivot, world, abandoned>>
  BY DEF Outside, restVars
<1>2. ASSUME KeepingStep, inOperation' = inOperation, stale' = stale
      PROVE  WorldStep /\ ModeInv'
  <2>1. UNCHANGED <<canvasVars, world, abandoned>>
    BY <1>1, <1>2 DEF canvasVars, restVars
  <2> QED
    BY <1>2, <2>1, QuietKeeps
<1>3. CASE Len(registry) < MaxShapes /\ AddShape(Scripted[Len(registry) + 1]) /\ stale' = stale
  <2>1. Scripted[Len(registry) + 1] \in Forms
    <3>1. Len(registry) \in Nat
      BY LenProperties DEF CInv, FInv, IInv, SceneInv
    <3> QED
      BY <1>3, <3>1, CanvasFormsAssumption
  <2>2. KeepingStep
    BY <1>3, <2>1 DEF KeepingStep
  <2>3. inOperation' = inOperation
    BY <1>3 DEF AddShape, RegisterShape, RecordOp
  <2> QED
    BY <1>2, <1>3, <2>2, <2>3
<1>4. CASE (\E id \in Live, d \in Nudges : TranslateShape(id, d)) /\ stale' = stale
  <2>1. PICK id \in Live, d \in Nudges : TranslateShape(id, d)
    BY <1>4
  <2>2. id \in Nat /\ d \in Places /\ <<0, 0>> \in Places /\ <<>> \in Seq(Nat) /\ 0 \in Int
    BY Ids, CanvasFormsAssumption, StepsAssumption DEF Places
  <2>3. MoveRec(id, d) \in Records
    BY <2>2, MoveRecords
  <2>4. Edit(MoveRec(id, d)) /\ MoveRec(id, d).op = "translate"
    BY <2>1 DEF TranslateShape, MoveRec, NoRecord
  <2>5. KeepingStep /\ inOperation' = inOperation
    BY <2>3, <2>4 DEF KeepingStep, EditStep, Edit, RecordOp, Moves
  <2> QED
    BY <1>2, <1>4, <2>5
<1>5. CASE (\E id \in Live : RemoveShape(id)) /\ stale' = stale
  <2>1. PICK id \in Live : RemoveShape(id)
    BY <1>5
  <2>2. PICK rec \in Records : /\ rec.op = "remove" /\ rec.type = registry[rec.id].type
                               /\ Edit(rec)
    BY <2>1, Ids, RemoveIsEdit DEF CInv, FInv
  <2>3. KeepingStep /\ inOperation' = inOperation
    BY <2>2 DEF KeepingStep, EditStep, Edit, RecordOp
  <2> QED
    BY <1>2, <1>5, <2>3
<1>6. CASE (Undo \/ Redo) /\ stale' = stale
  BY <1>2, <1>6 DEF KeepingStep, Undo, Redo
<1>7. CASE Clear /\ stale' = (editing # 0)
  <2>1. WorldStep /\ inOperation' = FALSE
    BY <1>7 DEF WorldStep, Clear
  <2>2. stale' \in BOOLEAN
    BY <1>7, Zenon
  <2>3. ModeTypes'
    BY <1>1, <2>2 DEF CInv, ModeInv, ModeTypes
  <2>4. Bracketed'
    BY <1>1, <2>1 DEF CInv, ModeInv, Bracketed
  <2>5. DrawToolHoldsNothing'
    BY <1>1 DEF CInv, ModeInv, DrawToolHoldsNothing, CanDrawShape
  <2>6. NodesKept'
    BY <1>1, <1>7 DEF NodesKept
  <2> QED
    BY <2>1, <2>3, <2>4, <2>5, <2>6 DEF ModeInv
<1> QED
  BY <1>3, <1>4, <1>5, <1>6, <1>7 DEF Outside

\* The Design page.
LEMMA DesignMoveKeeps ==
    ASSUME CInv, DesignMove
    PROVE  WorldStep /\ ModeInv'
<1>1. inOperation' = FALSE /\ open' = NoRecord /\ UNCHANGED <<canvasVars, world, abandoned>>
      /\ IsLive(selected)
  BY DEF DesignMove
<1>2. PICK d \in Nudges :
          \/ IsNoop(MoveRec(selected, d)) /\ FinishOpen /\ UNCHANGED scene
          \/ /\ ~IsNoop(MoveRec(selected, d)) /\ Apply(MoveRec(selected, d))
             /\ undoStack' = Append(Closed, MoveRec(selected, d)) /\ redoStack' = <<>>
  BY DEF DesignMove, MoveRec
<1>3. MoveRec(selected, d) \in Records /\ MoveRec(selected, d).op = "translate"
      /\ MoveRec(selected, d).id = selected
  <2>1. selected \in Nat /\ d \in Places /\ <<0, 0>> \in Places /\ <<>> \in Seq(Nat) /\ 0 \in Int
    BY ToolParts, CanvasFormsAssumption, StepsAssumption DEF Places
  <2>2. MoveRec(selected, d) \in Records
    BY <2>1, MoveRecords
  <2> QED
    BY <2>2 DEF MoveRec, NoRecord
<1>4. KeepingStep
  <2>1. CASE IsNoop(MoveRec(selected, d)) /\ FinishOpen /\ UNCHANGED scene
    BY <1>1, <2>1 DEF KeepingStep, FinishStep
  <2>2. CASE /\ ~IsNoop(MoveRec(selected, d)) /\ Apply(MoveRec(selected, d))
             /\ undoStack' = Append(Closed, MoveRec(selected, d)) /\ redoStack' = <<>>
    <3>1. DesignStep(MoveRec(selected, d))
      BY <1>1, <1>3, <2>2 DEF DesignStep
    <3> QED
      BY <1>3, <3>1 DEF KeepingStep
  <2> QED
    BY <1>2, <2>1, <2>2
<1> QED
  BY <1>1, <1>4, QuietKeeps

\* The keys, the double click and setEditingShape.
LEMMA EnterKeeps ==
    ASSUME CInv, \/ \E id \in {0} \cup Live : SetEditingShape(id)
                 \/ PressEnter
                 \/ PressEscape
                 \/ DoubleClick
    PROVE  WorldStep /\ ModeInv'
<1>1. ASSUME NEW id, SetEditingShape(id)
      PROVE  WorldStep /\ ModeInv'
  <2>1. Mode(id) /\ held' = held
    BY <1>1 DEF SetEditingShape
  <2>2. held \in BOOLEAN
    BY ToolParts
  <2>3. held' \in BOOLEAN /\ (held => held')
    BY <2>1, <2>2, Zenon
  <2> QED
    BY <2>1, <2>3, ModeKeeps
<1>2. CASE DoubleClick
  <2>1. ~ held /\ held' = TRUE /\ ~ CanDrawShape
    BY <1>2 DEF DoubleClick
  <2>2. CASE /\ EditingShape # 0
             /\ UNCHANGED <<vars, world, tool, drawing, selected, editing, nodeVars, drag,
                            pivot, abandoned, gesture>>
    BY <2>1, <2>2, PressPathKeeps
  <2>3. CASE \E id \in Live \ {EditingShape} : Mode(id)
    <3>1. PICK id : Mode(id)
      BY <2>3
    <3> QED
      BY <2>1, <3>1, ModeKeeps
  <2> QED
    BY <1>2, <2>2, <2>3 DEF DoubleClick
<1> QED
  BY <1>1, <1>2 DEF PressEnter, PressEscape

\* No step of the canvas disturbs its modes.
LEMMA StepKeeps ==
    ASSUME CInv, [CanvasNext]_allVars
    PROVE  WorldStep /\ ModeInv'
<1>1. CASE UNCHANGED allVars
  <2>1. UNCHANGED <<vars, canvasVars, world, abandoned>>
    BY <1>1 DEF allVars
  <2>2. inOperation' = inOperation
    BY <2>1 DEF vars, history
  <2> QED
    BY <2>1, <2>2, QuietKeeps DEF KeepingStep
<1>2. CASE \/ \E t \in {"select", "shape"} : SetDrawTool(t)
           \/ \E id \in {0} \cup Live : SetSelectedShape(id)
           \/ \E kind \in {"same", "new"} : UpdateWorld(kind)
           \/ \E id \in Live : RowPicked(id)
  BY <1>2, SetDrawToolKeeps, SetSelectedShapeKeeps, UpdateWorldKeeps, RowPickedKeeps
<1>3. CASE \/ \E id \in {0} \cup Live : SetEditingShape(id)
           \/ PressEnter
           \/ PressEscape
           \/ DoubleClick
  BY <1>3, EnterKeeps
<1>4. CASE \/ \E n \in 1 .. 2, shift \in BOOLEAN : PressNode(n, shift)
           \/ \E n \in 1 .. 2 : DropNode(n)
           \/ \E h \in 3 .. 4 : PressHandle(h)
  BY <1>4, PressNodeKeeps, DropNodeKeeps, PressHandleKeeps
<1>5. CASE PressPath
  BY <1>5, PressPathKeeps DEF PressPath
<1>6. CASE PressToDraw \/ PressKnob \/ (\E id \in Live : PressShape(id)) \/ PressEmpty
  BY <1>6, PressToDrawKeeps, PressSelectKeeps
<1>7. CASE MouseMove \/ MouseRelease \/ Outside \/ DesignMove
  BY <1>7, MouseMoveKeeps, MouseReleaseKeeps, OutsideKeeps, DesignMoveKeeps
<1> QED
  BY <1>1, <1>2, <1>3, <1>4, <1>5, <1>6, <1>7 DEF CanvasNext

\* The canvas starts in order.
LEMMA CanvasStarts == CanvasInit => CInv
<1> SUFFICES ASSUME CanvasInit PROVE CInv
  OBVIOUS
<1>1. FInv
  BY InitShown DEF CanvasInit
<1>2. registry = <<>> /\ inOperation = FALSE
  BY DEF CanvasInit, Init
<1>3. BothEnds
  BY <1>2 DEF BothEnds
<1>4. ModeTypes
  <2>1. IsFiniteSet(dragging)
    BY FS_EmptySet DEF CanvasInit
  <2>2. pivot \in Places
    BY DEF CanvasInit, Places
  <2>3. drag \in EditDrags \cup {"None", "View"}
    BY DEF CanvasInit
  <2> QED
    BY <2>1, <2>2, <2>3 DEF CanvasInit, ModeTypes
<1>5. Bracketed /\ DrawToolHoldsNothing /\ NodesKept
  BY <1>2 DEF CanvasInit, Bracketed, DrawToolHoldsNothing, NodesKept, EditDrags, CanDrawShape
<1> QED
  BY <1>1, <1>3, <1>4, <1>5 DEF CInv, ModeInv

\* The canvas stays in order.
LEMMA CanvasKeeps == CInv /\ [CanvasNext]_allVars => CInv'
<1> SUFFICES ASSUME CInv, [CanvasNext]_allVars PROVE CInv'
  OBVIOUS
<1>1. WorldStep /\ ModeInv'
  BY StepKeeps
<1>2. FInv /\ BothEnds
  BY DEF CInv
<1>3. FInv' /\ BothEnds'
  BY <1>1, <1>2, WorldKeeps, WorldEnds
<1> QED
  BY <1>1, <1>3 DEF CInv

\* What stays in order is what the modes promise.
LEMMA InStep == CInv => ModesInStep
<1> SUFFICES ASSUME CInv PROVE ModesInStep
  OBVIOUS
<1>1. TypeOK
  BY IsTyped DEF CInv, FInv
<1>2. ModeTypes /\ Bracketed /\ DrawToolHoldsNothing /\ NodesKept
  BY DEF CInv, ModeInv
<1>3. CanvasTypeOK
  BY <1>1, <1>2 DEF CanvasTypeOK, ModeTypes
<1>4. NoCompoundLeft
  BY <1>2 DEF NoCompoundLeft, Bracketed
<1>5. NodesOnPath
  <2>1. ASSUME EditingShape # 0, ~ stale
        PROVE  /\ editNodes \subseteq Nodes(editing)
               /\ editHandle \in {0} \cup Handles(editing)
               /\ editNodes = {} \/ editHandle = 0
               /\ drag \in {"Node", "Handle"} =>
                      dragging # {} /\ dragging \subseteq DOMAIN Points(editing)
    <3>1. editing # 0
      BY <2>1 DEF EditingShape
    <3>2. OnPath(editing)
      BY <1>2, <2>1, <3>1 DEF NodesKept
    <3>3. editNodes \subseteq Nodes(editing)
      BY <1>2 DEF ModeTypes, Nodes
    <3> QED
      BY <3>2, <3>3 DEF OnPath
  <2> QED
    BY <2>1 DEF NodesOnPath
<1> QED
  BY <1>2, <1>3, <1>4, <1>5 DEF ModesInStep

\* Whatever cuts a drag short, no compound outlives it, no draw tool holds a
\* selection and no selected node lies beyond its path (R2DWidget.cpp).
THEOREM CanvasModes == CanvasSpec => []ModesInStep
<1>1. CanvasSpec => []CInv
  BY CanvasStarts, CanvasKeeps, PTL DEF CanvasSpec
<1> QED
  BY <1>1, InStep, PTL

-----------------------------------------------------------------------------
(* A drag is one undo step. *)

\* The shape of the drag under way.
Pulled == IF drag \in {"Move", "Rotate"} THEN selected ELSE editing

\* A drag that nobody disturbed: what it records is one open record, after the
\* picture at the press.
Alone == /\ inOperation /\ drag \in EditDrags
         /\ gesture.id # 0 /\ gesture.id = Pulled
         /\ Len(undoStack) = gesture.depth /\ Picture(Settled) = gesture.start
         /\ HasOpen => Dragged(open)

GestureInv == /\ DOMAIN gesture = {"id", "alone", "depth", "start"}
              /\ gesture.alone => Alone

GInv == CInv /\ GestureInv

\* A press on a shape begins a drag of it.
Began == \E kind \in EditDrags, id \in Nat \ {0} :
            /\ BeginDrag(kind, id) /\ ~ held
            /\ id = IF kind \in {"Move", "Rotate"} THEN selected' ELSE editing'

\* What any step does to the drag under way.
DragStep == \/ EndEditDrag
            \/ FreshWorld /\ gesture' = NoGesture
            \/ UNCHANGED gesture /\ (gesture.alone => UNCHANGED allVars)
            \/ Began
            \/ MouseMove
            \/ gesture' = Disturbed

\* The button is down as long as a drag is under way.
LEMMA AloneHeld ==
    ASSUME GInv, gesture.alone
    PROVE  /\ Alone /\ held /\ ~ drawing /\ world /\ gesture # NoGesture
  BY ToolParts, ModeParts DEF GInv, GestureInv, Alone, EditDrags, NoGesture

\* Each press that begins a drag names the shape under it.
LEMMA PressBegins ==
    ASSUME GInv, \/ \E n \in 1 .. 2, shift \in BOOLEAN : PressNode(n, shift)
                 \/ \E h \in 3 .. 4 : PressHandle(h)
                 \/ PressKnob
                 \/ \E id \in Live : PressShape(id)
    PROVE  Began
<1>1. /\ Live \subseteq Nat \ {0}
      /\ EditingShape # 0 => EditingShape = editing /\ editing \in Nat \ {0}
  BY Ids DEF GInv
<1>2. ASSUME NEW n \in 1 .. 2, NEW shift \in BOOLEAN, PressNode(n, shift) PROVE Began
  <2>1. /\ BeginDrag("Node", EditingShape) /\ ~ held /\ EditingShape # 0 /\ editing' = editing
    BY <1>2 DEF PressNode
  <2> QED
    BY <1>1, <2>1 DEF Began, EditDrags
<1>3. ASSUME NEW h \in 3 .. 4, PressHandle(h) PROVE Began
  <2>1. /\ BeginDrag("Handle", EditingShape) /\ ~ held /\ EditingShape # 0 /\ editing' = editing
    BY <1>3 DEF PressHandle
  <2> QED
    BY <1>1, <2>1 DEF Began, EditDrags
<1>4. CASE PressKnob
  <2>1. /\ BeginDrag("Rotate", selected) /\ ~ held /\ IsLive(selected) /\ selected' = selected
    BY <1>4 DEF PressKnob, Pressed
  <2>2. selected \in Nat \ {0}
    BY <1>1, <2>1 DEF Live, IsLive
  <2> QED
    BY <2>1, <2>2 DEF Began, EditDrags
<1>5. ASSUME NEW id \in Live, PressShape(id) PROVE Began
  <2>1. /\ BeginDrag("Move", id) /\ ~ held /\ selected' = id
    BY <1>5 DEF PressShape, Pressed
  <2> QED
    BY <1>1, <2>1 DEF Began, EditDrags
<1> QED
  BY <1>2, <1>3, <1>4, <1>5

\* Every step of the canvas is one of these.
LEMMA DragSteps ==
    ASSUME GInv, [CanvasNext]_allVars
    PROVE  DragStep
<1>1. CASE UNCHANGED allVars
  BY <1>1 DEF DragStep, allVars
<1>2. gesture.alone => held /\ ~ drawing
  BY AloneHeld
<1>3. CASE \/ \E t \in {"select", "shape"} : SetDrawTool(t)
           \/ \E id \in {0} \cup Live : SetSelectedShape(id)
           \/ \E id \in {0} \cup Live : SetEditingShape(id)
           \/ \E id \in Live : RowPicked(id)
           \/ PressEnter
           \/ PressEscape
  BY <1>3 DEF DragStep, SetDrawTool, SetSelectedShape, SetEditingShape, Mode, RowPicked,
              PressEnter, PressEscape
<1>4. CASE \E kind \in {"same", "new"} : UpdateWorld(kind)
  <2>1. PICK kind \in {"same", "new"} : UpdateWorld(kind)
    BY <1>4
  <2>2. drag' = "None" /\ gesture' = NoGesture
    BY <2>1 DEF UpdateWorld
  <2>3. FinishEdit \/ FreshWorld
    BY <2>1 DEF UpdateWorld
  <2> QED
    BY <2>2, <2>3 DEF DragStep, EndEditDrag
<1>5. CASE PressToDraw \/ (\E n \in 1 .. 2 : DropNode(n)) \/ PressPath \/ PressEmpty
  <2>1. ~ held /\ UNCHANGED gesture
    BY <1>5 DEF PressToDraw, DropNode, PressPath, PressEmpty, Pressed
  <2> QED
    BY <1>2, <2>1 DEF DragStep
<1>6. CASE \/ \E n \in 1 .. 2, shift \in BOOLEAN : PressNode(n, shift)
           \/ \E h \in 3 .. 4 : PressHandle(h)
           \/ PressKnob
           \/ \E id \in Live : PressShape(id)
  BY <1>6, PressBegins DEF DragStep
<1>7. CASE MouseMove
  BY <1>7 DEF DragStep
<1>8. CASE MouseRelease
  <2>1. \/ EndEditDrag
        \/ drawing /\ UNCHANGED gesture
    BY <1>8 DEF MouseRelease
  <2> QED
    BY <1>2, <2>1 DEF DragStep
<1>9. CASE DoubleClick
  <2>1. \/ ~ held /\ UNCHANGED gesture
        \/ EndEditDrag
    BY <1>9 DEF DoubleClick, Mode
  <2> QED
    BY <1>2, <2>1 DEF DragStep
<1>10. CASE Outside \/ DesignMove
  BY <1>10 DEF DragStep, Outside, DesignMove
<1> QED
  BY <1>1, <1>3, <1>4, <1>5, <1>6, <1>7, <1>8, <1>9, <1>10 DEF CanvasNext

\* A drag that somebody disturbs is not alone any more, nor at its end.
LEMMA Disturbs ==
    ASSUME GInv, gesture' = Disturbed
    PROVE  /\ DOMAIN gesture' = {"id", "alone", "depth", "start"}
           /\ ~ gesture'.alone
           /\ gesture.alone => gesture' # NoGesture /\ gesture' # gesture
<1>1. DOMAIN gesture = {"id", "alone", "depth", "start"}
  BY DEF GInv, GestureInv
<1>2. CASE gesture = NoGesture
  BY <1>2 DEF Disturbed, NoGesture
<1>3. CASE gesture # NoGesture
  <2>1. gesture' = [gesture EXCEPT !.alone = FALSE]
    BY <1>3 DEF Disturbed
  <2>2. DOMAIN gesture' = DOMAIN gesture /\ gesture'.alone = FALSE /\ gesture'.id = gesture.id
    BY <1>1, <2>1
  <2>3. gesture.alone => gesture.id # 0
    BY DEF GInv, GestureInv, Alone
  <2> QED
    BY <1>1, <2>2, <2>3 DEF NoGesture
<1> QED
  BY <1>2, <1>3

\* A drag begins alone, with nothing recorded.
LEMMA BegunAlone ==
    ASSUME GInv, Began
    PROVE  GestureInv'
<1>1. PICK kind \in EditDrags, id \in Nat \ {0} :
          /\ BeginDrag(kind, id)
          /\ id = IF kind \in {"Move", "Rotate"} THEN selected' ELSE editing'
  BY DEF Began
<1>2. /\ inOperation' = TRUE /\ open' = NoRecord /\ registry' = registry /\ drag' = kind
      /\ gesture' = [id |-> id, alone |-> TRUE, depth |-> Len(undoStack'),
                     start |-> Picture(registry)]
  BY <1>1 DEF BeginDrag, BeginOperation, scene
<1>3. DOMAIN gesture' = {"id", "alone", "depth", "start"}
      /\ gesture'.id = id /\ gesture'.depth = Len(undoStack') /\ gesture'.start = Picture(registry)
  BY <1>2
<1>4. ~ HasOpen'
  BY <1>2 DEF HasOpen
<1>5. Picture(Settled)' = Picture(registry)
  <2>1. Settled' = registry
    BY <1>2, <1>4 DEF Settled
  <2> QED
    BY <2>1 DEF Picture
<1>6. Pulled' = id
  BY <1>1, <1>2 DEF Pulled
<1>7. Alone'
  BY <1>1, <1>2, <1>3, <1>4, <1>5, <1>6 DEF Alone
<1> QED
  BY <1>3, <1>7 DEF GestureInv

\* What a step of a drag that is alone does to its record: it joins the open
\* one, or opens it.
LEMMA AloneJoins ==
    ASSUME GInv, gesture.alone, NEW rec \in Records, Edit(rec), Dragged(rec),
           UNCHANGED <<canvasVars, gesture>>
    PROVE  UNCHANGED <<undoStack, redoStack, inOperation>> /\ Dragged(open)'
<1>1. Alone
  BY AloneHeld
<1>2. RecordOp(rec)
  BY DEF Edit
<1>3. open \in Records
  BY DEF GInv, CInv, FInv, IInv, HistoryInv
<1>4. HasOpen => SameGesture(rec)
  BY <1>1 DEF Alone, Dragged, SameGesture
<1>5. \/ /\ HasOpen /\ open' = Merged(rec)
         /\ UNCHANGED <<undoStack, redoStack, inOperation>>
      \/ open' = rec /\ UNCHANGED <<undoStack, redoStack, inOperation>>
  BY <1>1, <1>2, <1>4 DEF RecordOp, Alone
<1>6. UNCHANGED <<drag, selected, editing, pivot, dragging>>
  BY DEF canvasVars, restVars
<1>7. CASE open' = rec
  BY <1>5, <1>6, <1>7 DEF Dragged
<1>8. CASE HasOpen /\ open' = Merged(rec)
  <2>1. /\ open'.id = open.id /\ open'.op = open.op /\ open'.c = open.c /\ open'.refs = open.refs
    BY <1>3, <1>8 DEF Merged, Records
  <2>2. Dragged(open)
    BY <1>1, <1>8 DEF Alone
  <2> QED
    BY <1>5, <1>6, <2>1, <2>2 DEF Dragged
<1> QED
  BY <1>5, <1>7, <1>8

\* A step of a drag that is alone leaves the picture at the press as the one to
\* go back to, and edits the shape that was pressed and no other.
LEMMA MovedAlone ==
    ASSUME GInv, MouseMove
    PROVE  /\ GestureInv'
           /\ gesture.alone =>
                  \A id \in DOMAIN registry \ {gesture.id} : registry'[id] = registry[id]
<1>1. UNCHANGED <<canvasVars, gesture>>
  BY DEF MouseMove
<1>2. DOMAIN gesture' = {"id", "alone", "depth", "start"}
  BY <1>1 DEF GInv, GestureInv
<1>3. CASE ~ gesture.alone
  BY <1>1, <1>2, <1>3 DEF GestureInv
<1>4. CASE gesture.alone
  <2>1. Alone
    BY <1>4, AloneHeld
  <2>2. CInv
    BY DEF GInv
  <2>3. PICK rec \in Records : Edit(rec) /\ Dragged(rec)
    BY <2>2, DragIsEdit
  <2>4. UNCHANGED <<undoStack, redoStack, inOperation>> /\ Dragged(open)'
    BY <1>1, <1>4, <2>3, AloneJoins
  <2>5. rec.id = gesture.id /\ rec.op \in Moves
    BY <2>1, <2>3 DEF Alone, Dragged, Pulled, Moves
  <2>6. Picture(Settled)' = Picture(Settled)
    <3>1. IInv /\ IInv'
      BY <2>2, MouseMoveKeeps, WorldKeeps DEF CInv, FInv
    <3>2. PICK F : Filmed(F)
      BY <2>2 DEF CInv, FInv
    <3>3. PICK H : /\ Filmed(H)'
                   /\ \/ Kept(F, H)
                      \/ Grown(F, H, Outline(registry))
                      \/ Grown(F, H, Outline(registry'))
      BY <2>3, <2>5, <3>1, <3>2, EditFilm
    <3>4. Len(undoStack) \in Nat /\ Len(undoStack') = Len(undoStack)
      BY <2>4, <3>1, LengthsAre DEF IInv, HistoryInv
    <3>5. H = F
      BY <3>3, <3>4 DEF Kept, Grown
    <3>6. Picture(Settled) = Picture(F[Len(undoStack)])
      BY <3>1, <3>2, ScreenedNow DEF Screened
    <3>7. Picture(Settled)' = Picture(H[Len(undoStack')])
      BY <3>1, <3>3, ScreenedNext DEF Screened
    <3> QED
      BY <3>4, <3>5, <3>6, <3>7
  <2>7. drag' = drag /\ Pulled' = Pulled
    BY <1>1 DEF canvasVars, restVars, Pulled
  <2>8. Alone'
    BY <1>1, <2>1, <2>4, <2>6, <2>7 DEF Alone
  <2>9. \A id \in DOMAIN registry \ {gesture.id} : registry'[id] = registry[id]
    BY <2>3, <2>5 DEF Edit, Apply
  <2> QED
    BY <1>2, <2>8, <2>9 DEF GestureInv
<1> QED
  BY <1>3, <1>4

\* A drag that is alone ends as one undo step, or as none.
LEMMA EndedOnce ==
    ASSUME GInv, gesture.alone, EndEditDrag
    PROVE  OneStep
<1>1. Alone /\ world
  BY AloneHeld
<1>2. EndOperation
  BY <1>1 DEF EndEditDrag, FinishEdit, Alone
<1>3. FinishOpen /\ registry' = registry
  BY <1>2 DEF EndOperation, scene
<1>4. IInv /\ \E G : Filmed(G)
  BY DEF GInv, CInv, FInv
<1>u. PICK u : u = Len(undoStack)
  OBVIOUS
<1>5. u \in Nat /\ u = gesture.depth /\ Picture(Settled) = gesture.start /\ open \in Records
      /\ undoStack \in Seq(Records)
  BY <1>u, <1>1, <1>4, LengthsAre DEF IInv, HistoryInv, Histories, Alone
<1>6. CASE ~ HasOpen
  <2>1. undoStack' = undoStack
    BY <1>3, <1>6 DEF FinishOpen
  <2>2. Settled = registry
    BY <1>6 DEF Settled
  <2> QED
    BY <1>u, <1>3, <1>5, <2>1, <2>2 DEF OneStep
<1>7. CASE HasOpen /\ IsNoop(open)
  <2>1. undoStack' = undoStack
    BY <1>1, <1>3, <1>7 DEF FinishOpen, CommitRecord, Committed, Alone
  <2>2. PICK F : Filmed(F)
    BY <1>4
  <2>g. PICK g : g = F[u]
    OBVIOUS
  <2>h. PICK h : h = Outline(registry)
    OBVIOUS
  <2>D. PICK D : D = DOMAIN registry
    OBVIOUS
  <2>3. Fit(open, g, h)
    BY <1>u, <1>7, <2>2, <2>g, <2>h DEF Filmed, Film, Shot, HasOpen
  <2>4. g \in [D -> Bodies]
    <3>1. F \in [0 .. u + Len(redoStack) -> [D -> Bodies]] /\ Len(redoStack) \in Nat
      BY <1>u, <1>4, <2>2, <2>D, LengthsAre DEF Filmed, Film, Frames, IInv, HistoryInv
    <3>2. u \in 0 .. u + Len(redoStack)
      BY <1>5, <3>1
    <3> QED
      BY <2>g, <3>1, <3>2
  <2>5. h = g
    BY <1>5, <1>7, <2>3, <2>4, FitNoop
  <2>6. Picture(registry) = Picture(h) /\ Picture(Settled) = Picture(g)
    BY <1>u, <1>4, <2>2, <2>g, <2>h, ScreenedNow DEF Screened
  <2> QED
    BY <1>u, <1>3, <1>5, <2>1, <2>5, <2>6 DEF OneStep
<1>8. CASE HasOpen /\ ~ IsNoop(open)
  <2>1. undoStack' = Append(undoStack, open)
    BY <1>1, <1>3, <1>8 DEF FinishOpen, CommitRecord, Committed, Alone
  <2>2. Len(undoStack') = u + 1 /\ undoStack'[u + 1] = open
    <3>1. PICK s, o : s = undoStack /\ o = open
      OBVIOUS
    <3>2. s \in Seq(Records) /\ o \in Records /\ Len(s) = u
      BY <1>u, <1>5, <3>1
    <3>3. Len(Append(s, o)) = Len(s) + 1 /\ Append(s, o)[Len(s) + 1] = o
      BY <3>2, AppendProperties
    <3> QED
      BY <2>1, <3>1, <3>2, <3>3
  <2>3. Last(undoStack') = open
    BY <2>2 DEF Last
  <2>4. Settled = Undone(registry, open)
    BY <1>8 DEF Settled
  <2> QED
    BY <1>3, <1>5, <2>2, <2>3, <2>4 DEF OneStep
<1> QED
  BY <1>6, <1>7, <1>8

\* What a step of the canvas may do to a drag that is alone.
DragKept ==
    gesture.alone =>
        /\ gesture' = NoGesture /\ gesture.id \in DOMAIN registry' => OneStep
        /\ gesture' = gesture =>
              \A id \in DOMAIN registry \ {gesture.id} : registry'[id] = registry[id]

\* No step of the canvas breaks up a drag that is alone.
LEMMA DragKeeps ==
    ASSUME GInv, [CanvasNext]_allVars
    PROVE  GestureInv' /\ DragKept
<1>1. DragStep
  BY DragSteps
<1>2. DOMAIN gesture = {"id", "alone", "depth", "start"} /\ (gesture.alone => Alone)
  BY DEF GInv, GestureInv
<1>3. gesture' = NoGesture => GestureInv'
  <2> SUFFICES ASSUME gesture' = NoGesture PROVE GestureInv'
    OBVIOUS
  <2>1. DOMAIN gesture' = {"id", "alone", "depth", "start"} /\ ~ gesture'.alone
    BY DEF NoGesture
  <2> QED
    BY <2>1 DEF GestureInv
<1>4. gesture.alone => gesture # NoGesture
  BY AloneHeld
<1>5. CASE EndEditDrag
  <2>1. gesture' = NoGesture
    BY <1>5 DEF EndEditDrag
  <2> QED
    BY <1>3, <1>4, <1>5, <2>1, EndedOnce DEF DragKept
<1>6. CASE FreshWorld /\ gesture' = NoGesture
  <2>1. DOMAIN registry' = {}
    BY <1>6 DEF FreshWorld
  <2> QED
    BY <1>3, <1>4, <1>6, <2>1 DEF DragKept
<1>7. CASE UNCHANGED gesture /\ (gesture.alone => UNCHANGED allVars)
  <2>1. CASE ~ gesture.alone
    BY <1>2, <1>7, <2>1 DEF GestureInv, DragKept
  <2>2. CASE gesture.alone
    <3>1. UNCHANGED <<registry, undoStack, open, inOperation, drag, selected, editing, pivot,
                      dragging, gesture>>
      BY <1>7, <2>2 DEF allVars, vars, scene, history, canvasVars, restVars
    <3>2. HasOpen' = HasOpen /\ Settled' = Settled /\ Pulled' = Pulled
      BY <3>1 DEF HasOpen, Settled, Pulled
    <3>3. Picture(Settled)' = Picture(Settled)
      BY <3>2 DEF Picture
    <3>4. Dragged(open)' <=> Dragged(open)
      BY <3>1 DEF Dragged
    <3>5. Alone'
      BY <1>2, <2>2, <3>1, <3>2, <3>3, <3>4 DEF Alone
    <3> QED
      BY <1>2, <1>4, <2>2, <3>1, <3>5 DEF GestureInv, DragKept
  <2> QED
    BY <2>1, <2>2
<1>8. CASE Began
  <2>1. ~ gesture.alone
    BY <1>8, AloneHeld DEF Began
  <2> QED
    BY <1>8, <2>1, BegunAlone DEF DragKept
<1>9. CASE MouseMove
  <2>1. gesture' = gesture
    BY <1>9 DEF MouseMove
  <2> QED
    BY <1>4, <1>9, <2>1, MovedAlone DEF DragKept
<1>10. CASE gesture' = Disturbed
  <2>1. /\ DOMAIN gesture' = {"id", "alone", "depth", "start"} /\ ~ gesture'.alone
        /\ gesture.alone => gesture' # NoGesture /\ gesture' # gesture
    BY <1>10, Disturbs
  <2> QED
    BY <2>1 DEF GestureInv, DragKept
<1> QED
  BY <1>1, <1>5, <1>6, <1>7, <1>8, <1>9, <1>10 DEF DragStep

\* The canvas starts without a drag.
LEMMA DragStarts == CanvasInit => GInv
<1> SUFFICES ASSUME CanvasInit PROVE GInv
  OBVIOUS
<1>1. CInv
  BY CanvasStarts
<1>2. gesture = NoGesture
  BY DEF CanvasInit
<1>3. DOMAIN gesture = {"id", "alone", "depth", "start"} /\ ~ gesture.alone
  BY <1>2 DEF NoGesture
<1> QED
  BY <1>1, <1>3 DEF GInv, GestureInv

\* A drag that nobody else disturbs, whatever else becomes of the selection, the
\* mode and the tool, edits the shape under the press and no other, and is one
\* undo step back to the picture at the press, or none (R2DWidget.cpp).
THEOREM DragsAreOneStep == CanvasSpec => GestureIsOneStep
<1>1. GInv /\ [CanvasNext]_allVars => GInv'
  BY CanvasKeeps, DragKeeps DEF GInv
<1>2. GInv /\ [CanvasNext]_allVars => [DragKept]_allVars
  BY DragKeeps
<1>3. CanvasSpec => [][DragKept]_allVars
  BY DragStarts, <1>1, <1>2, PTL DEF CanvasSpec
<1> QED
  BY <1>3 DEF GestureIsOneStep, DragKept
==============================================================================
