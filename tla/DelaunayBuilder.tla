--------------------------- MODULE DelaunayBuilder ---------------------------
(***************************************************************************)
(* DelaunayBuilder: triangulate() inserts the points of its pad one after  *)
(* another into the triangles that cover a large super triangle (Bowyer    *)
(* and Watson), and returns the triangles that do not touch it.  One step  *)
(* is the seed, one point of the loop, or the return.                      *)
(*                                                                         *)
(* Coordinates are integers and the arithmetic is exact but for that of    *)
(* centroids, which are rounded down; the code's relative tolerance makes  *)
(* a point on a circle count as outside, which is what exact arithmetic    *)
(* does.  A triangle's circle is that of its vertices, so m_circle is not  *)
(* kept beside m_vertex.                                                   *)
(***************************************************************************)
EXTENDS Accumulate, SequencesExt, FiniteSetsExt, Functions

CONSTANT Unit   \* the length 1.0

ASSUME UnitAssumption == Unit \in Nat \ {0}

VARIABLES
    pad,        \* the points of m_pad, in order
    work,       \* the copy with the super triangle; <<>> between calls
    vertex,     \* m_vertex, three indices per triangle
    inserted,   \* the points of work that were inserted
    tris        \* what the last call returned

builderVars == <<pad, work, vertex, inserted, tris>>

-----------------------------------------------------------------------------
(* Geometry.                                                               *)

\* Twice the area of the triangle p, q, r: positive counter-clockwise.
Area2(p, q, r) ==
    (q[1] - p[1]) * (r[2] - p[2]) - (r[1] - p[1]) * (q[2] - p[2])

\* Whether a[1] * b[1] + ... is positive, for a >= 0: the columns of the
\* products in base 64 are added with their carries, because the sum itself
\* does not fit the integers of TLC.
Digits(n) == <<n % 64, (n \div 64) % 64, (n \div 4096) % 64, n \div 262144>>
IsPositive(a, b) ==
    LET Column(k) == Accumulate(+, 0, [i \in DOMAIN a |-> Digits(a[i])[k] * b[i]])
        Carry(s, k) == LET t == s.top + Column(k)
                       IN  [top |-> t \div 64, rest |-> s.rest \/ t % 64 # 0]
        sum == Accumulate(Carry, [top |-> 0, rest |-> FALSE], <<1, 2, 3, 4>>)
    IN  sum.top > 0 \/ (sum.top = 0 /\ sum.rest)

\* Whether p is strictly inside the circle through the counter-clockwise t.
InCircle(t, p) ==
    LET away == [i \in 1 .. 3 |-> <<t[i][1] - p[1], t[i][2] - p[2]>>]
        Cross(u, v) == u[1] * v[2] - u[2] * v[1]
        Norm(u) == u[1] * u[1] + u[2] * u[2]
    IN  IsPositive(<<Norm(away[1]), Norm(away[2]), Norm(away[3])>>,
                   <<Cross(away[2], away[3]), Cross(away[3], away[1]), Cross(away[1], away[2])>>)

Corners(t) == <<work[t[1]], work[t[2]], work[t[3]]>>

-----------------------------------------------------------------------------
BuilderInit ==
    /\ pad = <<>> /\ work = <<>> /\ vertex = <<>> /\ inserted = 0 /\ tris = <<>>

\* The super triangle around the bounding box of ps.
SuperTriangle(ps) ==
    LET xs == {p[1] : p \in Range(ps)}
        ys == {p[2] : p \in Range(ps)}
        xmid == (Min(xs) + Max(xs)) \div 2
        ymid == (Min(ys) + Max(ys)) \div 2
        span == Max({Max(xs) - Min(xs), Max(ys) - Min(ys), Unit})
    IN  <<<<xmid - 64 * span, ymid - 32 * span>>,
          <<xmid + 64 * span, ymid - 32 * span>>, <<xmid, ymid + 64 * span>>>>

\* triangulate(), up to its loop.
Triangulate ==
    /\ work = <<>>
    /\ Len(pad) >= 3
    /\ work' = pad \o SuperTriangle(pad)
    /\ vertex' = <<<<Len(pad) + 1, Len(pad) + 2, Len(pad) + 3>>>>
    /\ inserted' = 0
    /\ UNCHANGED <<pad, tris>>

\* Mutant: the edges between two triangles of the hole are fanned as well.
RimWithInside(bad) ==
    Concatenated([i \in DOMAIN bad |-> [e \in 1 .. 3 |-> <<bad[i][e], bad[i][(e % 3) + 1]>>]])

\* The directed edges of the hole whose reverse is not one.
Rim(bad) ==
    LET edges == Concatenated([i \in DOMAIN bad |->
                    [e \in 1 .. 3 |-> <<bad[i][e], bad[i][(e % 3) + 1]>>]])
        directed == Range(edges)
        OnRim(e) == <<e[2], e[1]>> \notin directed
    IN  SelectSeq(edges, OnRim)

\* One turn of populate_from_points(): remove_containing() and the fan.
Insert ==
    /\ work # <<>>
    /\ inserted < Len(pad)
    /\ LET p == inserted + 1
           Hit(t) == InCircle(Corners(t), work[p])
           Missed(t) == ~ Hit(t)
           rim == Rim(SelectSeq(vertex, Hit))
       IN  vertex' = SelectSeq(vertex, Missed)
                     \o [i \in DOMAIN rim |-> <<rim[i][1], rim[i][2], p>>]
    /\ inserted' = inserted + 1
    /\ UNCHANGED <<pad, work, tris>>

\* compute_triangle_nodes().
TriangleNodes ==
    LET Inside(t) == Max(Range(t)) <= Len(pad)
        Turned(t) == IF Area2(work[t[1]], work[t[2]], work[t[3]]) < 0
                     THEN <<t[1], t[3], t[2]>> ELSE t
        kept == SelectSeq(vertex, Inside)
    IN  [i \in DOMAIN kept |-> Turned(kept[i])]

Return ==
    /\ work # <<>>
    /\ inserted = Len(pad)
    /\ tris' = TriangleNodes
    /\ work' = <<>>
    /\ UNCHANGED <<pad, vertex, inserted>>

-----------------------------------------------------------------------------
\* calc_ear_centroids(): the triangles of which two edges or more are used by
\* no other one.
EdgeSets(t) == [e \in 1 .. 3 |-> {t[e], t[(e % 3) + 1]}]
Ears(ts) ==
    LET all == Concatenated([i \in DOMAIN ts |-> EdgeSets(ts[i])])
        Alone(edge) == Cardinality({k \in DOMAIN all : all[k] = edge}) = 1
        Ear(t) == Cardinality({e \in 1 .. 3 : Alone(EdgeSets(t)[e])}) >= 2
    IN  SelectSeq(ts, Ear)
Centroid(t) ==
    [d \in 1 .. 2 |-> (pad[t[1]][d] + pad[t[2]][d] + pad[t[3]][d]) \div 3]
EarCentroids(ts) ==
    LET ears == Ears(ts) IN [i \in DOMAIN ears |-> Centroid(ears[i])]

-----------------------------------------------------------------------------
(* Properties.                                                             *)

\* Twice the area of the hull of a set of points, by its edges.
HullArea2(ps) ==
    LET Between(p, q, r) == /\ Area2(p, q, r) = 0
                            /\ (r[1] - p[1]) * (r[1] - q[1]) + (r[2] - p[2]) * (r[2] - q[2]) <= 0
        edges == {e \in ps \X ps : /\ e[1] # e[2]
                                   /\ \A r \in ps : Area2(e[1], e[2], r) > 0 \/ Between(e[1], e[2], r)}
    IN  MapThenSumSet(LAMBDA e : e[1][1] * e[2][2] - e[2][1] * e[1][2], edges)

SumArea2(ts, ps) ==
    Accumulate(+, 0, [i \in DOMAIN ts |-> Area2(ps[ts[i][1]], ps[ts[i][2]], ps[ts[i][3]])])

\* After each point the triangles tile the super triangle, are counter-clockwise
\* (so that the next circle exists), and no circle has a point inside that was
\* inserted: what remove_containing() takes out is what the fan puts back.
StaysDelaunay ==
    work # <<>> =>
        /\ SumArea2(vertex, work) = Area2(work[Len(pad) + 1], work[Len(pad) + 2], work[Len(pad) + 3])
        /\ \A i \in DOMAIN vertex :
            /\ Area2(work[vertex[i][1]], work[vertex[i][2]], work[vertex[i][3]]) > 0
            /\ \A p \in 1 .. inserted : ~ InCircle(Corners(vertex[i]), work[p])

\* What is returned tiles the convex hull of the points, in which every point is
\* a corner, whatever their order, points on one line, on one circle and points
\* that are there twice included.
TilesTheHull ==
    work = <<>> /\ inserted = Len(pad) /\ inserted > 0 =>
        /\ SumArea2(tris, pad) = HullArea2(Range(pad))
        /\ tris # <<>> => {pad[n] : n \in UNION {Range(tris[i]) : i \in DOMAIN tris}} = Range(pad)
=============================================================================
