------------------------------ MODULE MCStores ------------------------------
(***************************************************************************)
(* Three stores of the library that share nothing, checked in one run:     *)
(* each behaviour moves one of them and leaves the others as they began.   *)
(***************************************************************************)
EXTENDS CallProfiler, Collector, RTree, TLC

VARIABLE store

-----------------------------------------------------------------------------
(* The drawings that make the tree split and condense. *)

Point(x, y) == <<x, y, x, y>>
Square(x, y, s) == <<x, y, x + s, y + s>>
Scene(capacity, drawn, boxes) ==
    [capacity |-> capacity, drawn |-> drawn, boxes |-> boxes]

\* Points dropped at the two ends in turn among squares, and one square in
\* the other, in nodes of the capacity of gtests/test_nopython_rtree.cpp.
Ends == [k \in 1 .. 12 |-> IF k % 2 = 0 THEN Point(k, 0) ELSE Square(30 - k, k, k % 3)]
Nested == [k \in 1 .. 12 |-> Square(k, k, 2 * (14 - k))]
\* Scattered squares; a diagonal of points and a heap of squares on one
\* corner, both long enough for three levels of wider nodes.
Spread == [k \in 1 .. 20 |-> Square((k * 7) % 23, (k * 5) % 19, k % 2)]
Diagonal == [k \in 1 .. 38 |-> Point(k, k)]
Heap == [k \in 1 .. 32 |-> Square(0, 0, k % 3)]

MCScenes == {Scene(4, 0, Ends), Scene(4, 0, Nested), Scene(8, 9, Spread),
             Scene(8, 36, Diagonal), Scene(8, 29, Heap)}
MCQueries == {<<0, 0, 2000, 2000>>, <<3, 3, 6, 9>>, <<1, 0, 2, 2>>}

-----------------------------------------------------------------------------

\* Which address the allocator picks makes no difference.
AnyAddress == Permutations(Addresses)

storesVars == <<store, profilerVars, collectorVars, rtreeVars>>

Stores == {"profiler", "collector", "rtree"}

\* A store that does not move has one initial state.
Init ==
    /\ store \in Stores
    /\ ProfilerInit /\ CollectorInit /\ RTreeInit
    /\ store = "rtree" \/ scene = Scene(8, 36, Diagonal)
    /\ store = "collector" \/ <<unit, size>> = <<1, 0>>

Next ==
    /\ UNCHANGED store
    /\ \/ store = "profiler" /\ ProfilerNext /\ UNCHANGED <<collectorVars, rtreeVars>>
       \/ store = "collector" /\ CollectorNext /\ UNCHANGED <<profilerVars, rtreeVars>>
       \/ store = "rtree" /\ RTreeNext /\ UNCHANGED <<profilerVars, collectorVars>>

Spec == Init /\ [][Next]_storesVars
=============================================================================
