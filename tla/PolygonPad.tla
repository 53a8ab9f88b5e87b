----------------------------- MODULE PolygonPad -----------------------------
(***************************************************************************)
(* PolygonPad: polygons in one list of nodes, their decomposition into     *)
(* trapezoids with horizontal sides (TrapezoidalDecomposer), which the pad *)
(* keeps, and the union, the intersection and the difference of two of     *)
(* them (BooleanDecompositionHelper).  A call is a step.                   *)
(*                                                                         *)
(* Coordinates are integers, Grain to the lattice step; where two edges of *)
(* the lattice cross, and where an edge is at such a height, its           *)
(* coordinates are integers too, so that the arithmetic is exact and the   *)
(* tolerances of the code never tell apart what is equal.                  *)
(***************************************************************************)
EXTENDS Accumulate, SequencesExt, FiniteSetsExt, Functions, TLC

CONSTANTS
    Outlines,       \* what callers add: sequences of points <<x, y, z>>
    Samples,        \* points on no edge of an outline, for the properties
    MaxPolygons,    \* bound: polygons added
    MaxOrphans      \* bound: nodes that refused polygons left behind

ASSUME OutlinesAssumption == Outlines \subseteq Seq(Int \X Int \X Int)

VARIABLES
    nodes,      \* m_points
    ranges,     \* m_begins and m_ends, from 1, both inclusive
    edgeIndex,  \* what m_rtree holds, in the order it was inserted
    traps,      \* m_decomposer: its trapezoids
    cuts,       \* m_decomposer: for each polygon it has cut, its range in traps
    area        \* the last boolean operation and the polygons of its result

polygonVars == <<nodes, ranges, edgeIndex, traps, cuts, area>>

Ops == {"union", "intersection", "difference"}
Polygons == DOMAIN ranges
NoArea == [op |-> "none", of |-> <<>>, result |-> <<>>]

-----------------------------------------------------------------------------
(* Polygons.                                                               *)

NodesOf(id) == SubSeq(nodes, ranges[id].first, ranges[id].last)
After(ps, i) == ps[(i % Len(ps)) + 1]
Sides(ps) == [i \in DOMAIN ps |-> <<ps[i], After(ps, i)>>]

\* compute_signed_area(), twice.
SignedArea2(ps) ==
    Accumulate(+, 0, [i \in DOMAIN ps |->
        ps[i][1] * After(ps, i)[2] - After(ps, i)[1] * ps[i][2]])

PolygonInit ==
    /\ nodes = <<>> /\ ranges = <<>> /\ edgeIndex = <<>>
    /\ traps = <<>> /\ cuts = <<>> /\ area = NoArea

Flat(outline) ==
    [n \in {i \in DOMAIN outline : \A k \in 1 .. i : outline[k][3] = 0} |->
        <<outline[n][1], outline[n][2]>>]

\* Nodes of no polygon.
Orphans == Len(nodes) - Accumulate(+, 0, [id \in Polygons |-> Len(NodesOf(id))])

\* A node off the plane throws with the nodes before it appended already.
AddPolygon(outline) ==
    LET taken == Flat(outline)
    IN  /\ Len(outline) >= 3
        /\ Len(ranges) < MaxPolygons
        /\ nodes' = nodes \o taken
        /\ IF Len(taken) = Len(outline)
           THEN /\ ranges' = Append(ranges, [first |-> Len(nodes) + 1, last |-> Len(nodes')])
                /\ edgeIndex' = edgeIndex \o Sides(taken)
           ELSE /\ Orphans + Len(taken) <= MaxOrphans
                /\ UNCHANGED <<ranges, edgeIndex>>
        /\ UNCHANGED <<traps, cuts, area>>

RebuildRtree ==
    /\ edgeIndex' = Concatenated([id \in Polygons |-> Sides(NodesOf(id))])
    /\ UNCHANGED <<nodes, ranges, traps, cuts, area>>

-----------------------------------------------------------------------------
(* TrapezoidalDecomposer.                                                  *)

\* The x of the edge from lo up to hi at the height y.
XAt(e, y) ==
    e.lo[1] + ((e.hi[1] - e.lo[1]) * (y - e.lo[2])) \div (e.hi[2] - e.lo[2])

\* build_edges_and_events(): the edges that are not horizontal, upwards.
Rising(ps) ==
    LET Upward(p, q) == IF p[2] < q[2] THEN [lo |-> p, hi |-> q] ELSE [lo |-> q, hi |-> p]
    IN  [i \in {n \in DOMAIN ps : ps[n][2] # After(ps, n)[2]} |-> Upward(ps[i], After(ps, i))]

\* The edges that span the height y, in the order of Less; those that are equal
\* in it in the order they were added in.
Spanning(edges, y, Less(_, _)) ==
    LET at == {i \in DOMAIN edges : edges[i].lo[2] <= y /\ y < edges[i].hi[2]}
        First(i, j) == \/ Less(edges[i], edges[j])
                       \/ ~ Less(edges[j], edges[i]) /\ i < j
    IN  [k \in 1 .. Cardinality(at) |->
            edges[CHOOSE i \in at : Cardinality({j \in at : First(j, i)}) = k - 1]]

\* Mistake: edges that start in one point keep the order they were added in.
ActiveByX(edges, y) ==
    LET Before(a, b) == XAt(a, y) < XAt(b, y) IN Spanning(edges, y, Before)

\* The active edges: by x, and by dx/dy where they start together.
Active(edges, y) ==
    LET Before(a, b) ==
            \/ XAt(a, y) < XAt(b, y)
            \/ /\ XAt(a, y) = XAt(b, y)
               /\ (a.hi[1] - a.lo[1]) * (b.hi[2] - b.lo[2]) < (b.hi[1] - b.lo[1]) * (a.hi[2] - a.lo[2])
    IN  Spanning(edges, y, Before)

Trapezoid(y, up, left, right) ==
    [y |-> y, up |-> up,
     left  |-> [lo |-> <<XAt(left, y), y>>, hi |-> <<XAt(left, up), up>>],
     right |-> [lo |-> <<XAt(right, y), y>>, hi |-> <<XAt(right, up), up>>]]

\* The strips between consecutive heights, from the bottom up.
Bands(ys) == LET h == Ascending(ys) IN [i \in 1 .. Len(h) - 1 |-> <<h[i], h[i + 1]>>]

\* The sweep of decompose().
Trapezoids(ps) ==
    LET edges == Rising(ps)
        Cut(band) ==
            LET at == Active(edges, band[1])
            IN  [j \in 1 .. Len(at) \div 2 |->
                    Trapezoid(band[1], band[2], at[2 * j - 1], at[2 * j])]
        bands == Bands(UNION {{edges[i].lo[2], edges[i].hi[2]} : i \in DOMAIN edges})
    IN  Concatenated([b \in DOMAIN bands |-> Cut(bands[b])])

\* Mistake: the range does not count the trapezoids cut for other polygons.
DecomposedFromStart(d, id) ==
    IF id \in DOMAIN d.cuts THEN d
    ELSE LET new == AsTuple(Trapezoids(NodesOf(id)))
         IN  [traps |-> d.traps \o new, cuts |-> Put(d.cuts, id, [first |-> 1, last |-> Len(new)])]

\* decompose(): a polygon is cut once.
Decomposed(d, id) ==
    IF id \in DOMAIN d.cuts THEN d
    ELSE LET new == AsTuple(Trapezoids(NodesOf(id)))
             range == [first |-> Len(d.traps) + 1, last |-> Len(d.traps) + Len(new)]
         IN  [traps |-> d.traps \o new, cuts |-> Put(d.cuts, id, range)]

DecomposeToTrapezoid(id) ==
    /\ LET d == Decomposed([traps |-> traps, cuts |-> cuts], id)
       IN  traps' = d.traps /\ cuts' = d.cuts
    /\ UNCHANGED <<nodes, ranges, edgeIndex, area>>

TrapsOf(d, id) == SubSeq(d.traps, d.cuts[id].first, d.cuts[id].last)

-----------------------------------------------------------------------------
(* BooleanDecompositionHelper.                                             *)

\* find_crossing(): the height, strictly between y and up, where a and b cross.
Crossing(a, b, y, up) ==
    LET gap == XAt(b, y) - XAt(a, y)
        denom == (XAt(a, up) - XAt(a, y)) - (XAt(b, up) - XAt(b, y))
    IN  IF denom = 0 THEN {}
        ELSE LET n == IF denom < 0 THEN -gap ELSE gap
                 m == IF denom < 0 THEN -denom ELSE denom
             IN  IF 0 < n /\ n < m THEN {y + (n * (up - y)) \div m} ELSE {}

\* collect_crossing_y_values().
CrossingHeights(first, second) ==
    LET Pair(s, t) ==
            LET y == Max({s.y, t.y})
                up == Min({s.up, t.up})
            IN  IF y >= up THEN {}
                ELSE UNION {Crossing(a, b, y, up) : a \in {s.left, s.right}, b \in {t.left, t.right}}
    IN  UNION {Pair(first[i], second[j]) : i \in DOMAIN first, j \in DOMAIN second}

\* gather_events(): where the trapezoids that span a band begin and end.
Gathered(ts, source, band) ==
    LET Spans(t) == t.y <= band[1] /\ t.up >= band[2]
        Event(e, start) == [lo |-> XAt(e, band[1]), hi |-> XAt(e, band[2]),
                            source |-> source, start |-> start]
        at == SelectSeq(ts, Spans)
    IN  Concatenated([i \in DOMAIN at |-> <<Event(at[i].left, TRUE), Event(at[i].right, FALSE)>>])

\* sort_events(): by the middle of the band, ends before starts.
Earlier(a, b) ==
    \/ a.lo + a.hi < b.lo + b.hi
    \/ a.lo + a.hi = b.lo + b.hi /\ ~a.start /\ b.start

ShouldInclude(op, count) ==
    CASE op = "union" -> count[1] > 0 \/ count[2] > 0
      [] op = "intersection" -> count[1] > 0 /\ count[2] > 0
      [] op = "difference" -> count[1] > 0 /\ count[2] = 0

\* sweep_events().
Swept(events, op, band) ==
    LET Pass(s, ev) ==
            LET count == [s.count EXCEPT ![ev.source] = @ + (IF ev.start THEN 1 ELSE -1)]
                now == ShouldInclude(op, count)
                leaves == s.in /\ ~now /\ (ev.lo # s.left.lo \/ ev.hi # s.left.hi)
            IN  [count |-> count, in |-> now,
                 left |-> IF now /\ ~s.in THEN ev ELSE s.left,
                 out |-> IF leaves
                         THEN Append(s.out, <<<<s.left.lo, band[1]>>, <<ev.lo, band[1]>>,
                                              <<ev.hi, band[2]>>, <<s.left.hi, band[2]>>>>)
                         ELSE s.out]
        none == [lo |-> 0, hi |-> 0, source |-> 0, start |-> FALSE]
    IN  Accumulate(Pass, [count |-> <<0, 0>>, in |-> FALSE, left |-> none, out |-> <<>>], events).out

\* compute(), after the decompositions.
Combined(first, second, op) ==
    LET all == first \o second
        heights == UNION {{all[i].y, all[i].up} : i \in DOMAIN all}
                   \cup CrossingHeights(first, second)
        bands == Bands(heights)
        Events(band) == SortSeq(Gathered(first, 1, band) \o Gathered(second, 2, band), Earlier)
    IN  Concatenated([b \in DOMAIN bands |-> Swept(AsTuple(Events(bands[b])), op, bands[b])])

\* boolean_union(), boolean_intersection(), boolean_difference().
Boolean(op, p, q) ==
    /\ IF p = q
       THEN /\ area' = [op |-> op, of |-> <<p, q>>,
                        result |-> IF op = "difference" THEN <<>> ELSE <<NodesOf(p)>>]
            /\ UNCHANGED <<traps, cuts>>
       ELSE LET d == Decomposed(Decomposed([traps |-> traps, cuts |-> cuts], p), q)
            IN  /\ traps' = d.traps /\ cuts' = d.cuts
                /\ area' = [op |-> op, of |-> <<p, q>>,
                            result |-> Combined(TrapsOf(d, p), TrapsOf(d, q), op)]
    /\ UNCHANGED <<nodes, ranges, edgeIndex>>

PolygonNext ==
    \/ \E outline \in Outlines : AddPolygon(outline)
    \/ RebuildRtree
    \/ \E id \in Polygons : DecomposeToTrapezoid(id)
    \/ \E op \in Ops, p, q \in Polygons : Boolean(op, p, q)

PolygonSpec == PolygonInit /\ [][PolygonNext]_polygonVars

-----------------------------------------------------------------------------
(* Properties.                                                             *)

\* Whether p, on no side, is inside the polygon: by the even-odd rule.
IsInside(ps, p) ==
    LET Crosses(a, b) ==
            LET side == (b[1] - a[1]) * (p[2] - a[2]) - (p[1] - a[1]) * (b[2] - a[2])
            IN  IF a[2] < b[2] THEN side > 0 ELSE side < 0
        crossed == {i \in DOMAIN ps :
                       (ps[i][2] <= p[2]) # (After(ps, i)[2] <= p[2]) /\ Crosses(ps[i], After(ps, i))}
    IN  Cardinality(crossed) % 2 = 1

\* The pieces have the points Within in them, each in one of them, and no other.
Covers(pieces, Within(_)) ==
    \A s \in Samples :
        Cardinality({i \in DOMAIN pieces : IsInside(pieces[i], s)}) = IF Within(s) THEN 1 ELSE 0
Sum2(pieces) == Accumulate(+, 0, [i \in DOMAIN pieces |-> SignedArea2(pieces[i])])

\* A polygon is what was added under its number, whatever was refused between,
\* and the index has the sides of all.
PolygonsAreAdded ==
    /\ \A id \in Polygons : \E outline \in Outlines :
          /\ Len(outline) >= 3 /\ \A k \in DOMAIN outline : outline[k][3] = 0
          /\ NodesOf(id) = Flat(outline)
    /\ edgeIndex = Concatenated([id \in Polygons |-> Sides(NodesOf(id))])

\* What is kept for a polygon is its own decomposition, and the result of an
\* operation is that of its two polygons, whichever polygons were added, cut
\* or combined before.
Alone(id) == AsTuple(Trapezoids(NodesOf(id)))
CutsAreOwn ==
    /\ \A id \in DOMAIN cuts :
          id \in Polygons /\ TrapsOf([traps |-> traps, cuts |-> cuts], id) = Alone(id)
    /\ area.op # "none" =>
          LET p == area.of[1]
              q == area.of[2]
          IN  /\ {p, q} \subseteq Polygons
              /\ area.result = IF p # q THEN Combined(Alone(p), Alone(q), area.op)
                               ELSE IF area.op = "difference" THEN <<>> ELSE <<NodesOf(p)>>

\* Whichever polygons are added, refused, cut or combined, the tables of the pad
\* (add_polygon, rebuild_rtree, decompose, compute) belong to its polygons.
PadInStep == PolygonsAreAdded /\ CutsAreOwn

\* A polygon that was cut is covered once by its trapezoids, none turned over,
\* whichever of the polygons were cut before (TrapezoidalDecomposer::decompose).
CutsTile ==
    \A id \in DOMAIN cuts :
        LET ts == TrapsOf([traps |-> traps, cuts |-> cuts], id)
            pieces == [i \in DOMAIN ts |-> <<ts[i].left.lo, ts[i].right.lo, ts[i].right.hi, ts[i].left.hi>>]
            signed == SignedArea2(NodesOf(id))
        IN  /\ Covers(pieces, LAMBDA s : IsInside(NodesOf(id), s))
            /\ \A i \in DOMAIN pieces : SignedArea2(pieces[i]) >= 0
            /\ Sum2(pieces) = Max({signed, -signed})

\* The result of an operation is its area, each point of it in one polygon, and
\* all polygons go around it counter-clockwise but for the copy that the union
\* and the intersection of a polygon with itself return.
ResultIsExact ==
    area.op # "none" =>
        LET p == NodesOf(area.of[1])
            q == NodesOf(area.of[2])
            Within(s) == CASE area.op = "union" -> IsInside(p, s) \/ IsInside(q, s)
                           [] area.op = "intersection" -> IsInside(p, s) /\ IsInside(q, s)
                           [] area.op = "difference" -> IsInside(p, s) /\ ~IsInside(q, s)
        IN  /\ Covers(area.result, Within)
            /\ area.of[1] # area.of[2] =>
                   \A i \in DOMAIN area.result : SignedArea2(area.result[i]) > 0

\* Polygons are cut and combined without gaps, overlaps or leftovers, also where
\* they touch, share sides, lie in one another or have no area.
AreasAreExact == CutsTile /\ ResultIsExact
=============================================================================
