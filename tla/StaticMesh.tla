------------------------------ MODULE StaticMesh ------------------------------
(***************************************************************************)
(* The unstructured mesh of cpp/solvcon/mesh: from the nodes of its cells, *)
(* the faces they share, which cells each face lies between and which way  *)
(* it points; then the boundary, grouped by condition; then the ghost      *)
(* cells, one mirrored over each boundary face.  The caller makes these    *)
(* calls in any order and may make them again.                             *)
(*                                                                         *)
(* Indices are the code's: they start at 0, ghosts count down from -1, and *)
(* -1 stands for no cell as well.  Coordinates are integers.  A face's     *)
(* normal is kept as its area vector (twice that in space), and a cell's   *)
(* volume as ndim times itself (twice that in space).  Cells are convex    *)
(* with plane faces, so which point inside serves as a centre is no        *)
(* matter; here it is the mean of the nodes.                               *)
(***************************************************************************)
EXTENDS Accumulate, SequencesExt, FiniteSetsExt, Functions

CONSTANTS
    Grids,      \* the meshes a caller fills in, [ndim, crd, cells, patches,
                \* measure]: the coordinates of the nodes, the type and the
                \* nodes of each cell, the lists of faces that are made into
                \* boundary conditions, the volume of it all
    BcNames,    \* the names a caller gives boundary conditions
    NoName      \* the name of the condition that gets the faces left over

VARIABLES
    grid,       \* what the instance was filled with
    ndcrd, clnds,                    \* of nodes and cells, with their ghosts
    fcnds, fccls, fcnml,             \* of faces
    clfcs, clvol,                    \* of cells
    ednds,                           \* of edges
    bcs,        \* m_bcs: [name, facn], facn a list of [face, row]
    bndfcs,     \* m_bndfcs: [face, bc]
    nbound,     \* m_nbound
    ngst,       \* m_ngstnode, m_ngstface, m_ngstcell
    metric,     \* history: build_interior() was last asked for the metric
    torn        \* history: the interior was built anew under its ghosts

interiorVars == <<fcnds, fccls, fcnml, clfcs, clvol, ednds>>
staticMeshVars == <<grid, ndcrd, clnds, interiorVars, bcs, bndfcs, nbound, ngst, metric, torn>>

-----------------------------------------------------------------------------
(* The faces of a cell, as positions in its list of nodes.                 *)

LineFaces == <<<<1>>, <<2>>>>
TriangleFaces == <<<<1, 2>>, <<2, 3>>, <<3, 1>>>>
QuadrilateralFaces == <<<<1, 2>>, <<2, 3>>, <<3, 4>>, <<4, 1>>>>
HexahedronFaces == <<<<1, 4, 3, 2>>, <<2, 3, 7, 6>>, <<5, 6, 7, 8>>,
                     <<1, 5, 8, 4>>, <<1, 2, 6, 5>>, <<3, 4, 8, 7>>>>
TetrahedronFaces == <<<<1, 3, 2>>, <<1, 2, 4>>, <<1, 4, 3>>, <<2, 3, 4>>>>
PrismFaces == <<<<1, 2, 3>>, <<4, 6, 5>>, <<1, 4, 5, 2>>, <<1, 3, 6, 4>>, <<2, 5, 6, 3>>>>
PyramidFaces == <<<<1, 5, 4>>, <<2, 5, 1>>, <<3, 5, 2>>, <<4, 5, 3>>, <<1, 4, 3, 2>>>>

\* CellType::by_id(): the faces and edges of each type.
CellType == [line          |-> [faces |-> LineFaces, nface |-> 2, nedge |-> 0],
             triangle      |-> [faces |-> TriangleFaces, nface |-> 3, nedge |-> 3],
             quadrilateral |-> [faces |-> QuadrilateralFaces, nface |-> 4, nedge |-> 4],
             hexahedron    |-> [faces |-> HexahedronFaces, nface |-> 6, nedge |-> 12],
             tetrahedron   |-> [faces |-> TetrahedronFaces, nface |-> 4, nedge |-> 6],
             prism         |-> [faces |-> PrismFaces, nface |-> 5, nedge |-> 9],
             pyramid       |-> [faces |-> PyramidFaces, nface |-> 5, nedge |-> 8]]

\* Nodes are numbered from 0, and a cell has the nodes that its type asks for,
\* none of them twice.
IsGrid(g) ==
    /\ g.ndim \in 1 .. 3 /\ g.patches \subseteq Seq(Int)
    /\ IsFiniteSet(DOMAIN g.crd) /\ DOMAIN g.crd = 0 .. Cardinality(DOMAIN g.crd) - 1
    /\ g.cells \in Seq([type : DOMAIN CellType, nodes : Seq(DOMAIN g.crd)])
    /\ \A c \in DOMAIN g.cells :
          /\ IsInjective(g.cells[c].nodes)
          /\ DOMAIN g.cells[c].nodes = UNION {Range(face) : face \in Range(CellType[g.cells[c].type].faces)}

ASSUME GridsAssumption == NoName \notin BcNames /\ \A g \in Grids : IsGrid(g)

TypeOf(c) == CellType[grid.cells[c + 1].type]
Cells == 0 .. Len(grid.cells) - 1
Faces == {f \in DOMAIN fcnds : f >= 0}

-----------------------------------------------------------------------------
(* FaceBuilder.                                                            *)

\* populate(): every face of every cell.
FacesOfCell(c) ==
    LET faces == TypeOf(c).faces
    IN  [k \in DOMAIN faces |->
            [cell |-> c, nodes |-> AsTuple([n \in DOMAIN faces[k] |-> clnds[c][faces[k][n]]])]]
Populated == Concatenated([c \in 1 .. Len(grid.cells) |-> FacesOfCell(c - 1)])

\* check_match() and the type: all nodes of jfc are in ifc.
SameFace(ifc, jfc) == Len(ifc) = Len(jfc) /\ Range(jfc) \subseteq Range(ifc)

\* make_dedupmap(): the first of the faces that are the same stands for them,
\* looked for among the faces at its first node.
Deduplicated(raw) ==
    LET Twin(i, j) == /\ Head(raw[i].nodes) \in Range(raw[j].nodes)
                      /\ SameFace(raw[i].nodes, raw[j].nodes)
        First(j) == Min({i \in 1 .. j : i = j \/ Twin(i, j)})
    IN  AsTuple([j \in DOMAIN raw |-> First(j)])

\* remap_face(): what is kept, its number, and the tables that follow.
Survivors(d) == Ascending({i \in DOMAIN d : d[i] = i})
Renumbered(d) ==
    AsTuple([i \in DOMAIN d |-> Cardinality({k \in 1 .. d[i] - 1 : d[k] = k})])

OwnersOf(raw, map2, f) ==
    LET who == Ascending({i \in DOMAIN raw : map2[i] = f})
        Owner(k) == IF k \in DOMAIN who THEN raw[who[k]].cell ELSE -1
    IN  <<Owner(1), Owner(2)>>

FacesFrom(raw, map2, c) ==
    LET places == Ascending({i \in DOMAIN raw : raw[i].cell = c})
    IN  [k \in DOMAIN places |-> map2[places[k]]]

-----------------------------------------------------------------------------
(* Geometry.                                                               *)

Dot(u, v) == FoldFunction(+, 0, [k \in DOMAIN u |-> u[k] * v[k]])
Plus(u, v) == [k \in DOMAIN u |-> u[k] + v[k]]
Minus(u, v) == [k \in DOMAIN u |-> u[k] - v[k]]
Times(n, v) == [k \in DOMAIN v |-> n * v[k]]
Origin == [k \in 1 .. grid.ndim |-> 0]
Total(vs) == Accumulate(Plus, Origin, vs)
Cross(u, v) == <<u[2] * v[3] - u[3] * v[2], u[3] * v[1] - u[1] * v[3],
                 u[1] * v[2] - u[2] * v[1]>>

\* The normal times the area, as calc_metric() and fill_ghost() have it.
AreaVector(ps) ==
    CASE grid.ndim = 1 -> <<0>>
      [] grid.ndim = 2 -> <<ps[2][2] - ps[1][2], ps[1][1] - ps[2][1]>>
      [] grid.ndim = 3 ->
            Total([i \in DOMAIN ps |-> Cross(ps[i], ps[(i % Len(ps)) + 1])])

\* (fccnd - clcnd) . fcnml, times the number of nodes of the cell: positive
\* when the normal n of a face through p points out of the cell.
Outward(ps, p, n) == Dot(Minus(Times(Len(ps), p), Total(ps)), n)

At(crd, nodes) == [k \in DOMAIN nodes |-> crd[nodes[k]]]

\* The volumes of the cells cls, given all their tables.
Volumes(cls, crd, nds, cfs, fnds, nml) ==
    [c \in cls |->
        LET Part(f) == Outward(At(crd, nds[c]), crd[Head(fnds[f])], nml[f])
            Size(n) == IF n < 0 THEN -n ELSE n
        IN  Accumulate(+, 0, [k \in DOMAIN cfs[c] |-> Size(Part(cfs[c][k]))]) \div Len(nds[c])]

\* Mistake: a face is turned for whichever of its cells it points into.
TurnedForEach(faces, c, f, cls) ==
    LET out == Outward(At(ndcrd, clnds[c]), ndcrd[Head(faces.nds[f])], faces.nml[f])
    IN  IF out < 0
        THEN [nds |-> [faces.nds EXCEPT ![f] = Reverse(@)],
              nml |-> [faces.nml EXCEPT ![f] = Times(-1, @)]]
        ELSE faces

\* The end of calc_metric(): a face is turned round when it does not point
\* out of its first cell.
Turned(faces, c, f, cls) ==
    LET out == Outward(At(ndcrd, clnds[c]), ndcrd[Head(faces.nds[f])], faces.nml[f])
        wrong == IF out < 0 THEN cls[f][1] = c ELSE cls[f][1] # c
    IN  IF wrong
        THEN [nds |-> [faces.nds EXCEPT ![f] = Reverse(@)],
              nml |-> [faces.nml EXCEPT ![f] = Times(-1, @)]]
        ELSE faces

Oriented(nds, cfs, cls) ==
    LET sides == Concatenated([c \in 1 .. Len(grid.cells) |->
                    [k \in DOMAIN cfs[c - 1] |-> <<c - 1, cfs[c - 1][k]>>]])
        Turn(faces, side) == Turned(faces, side[1], side[2], cls)
        start == [nds |-> nds, nml |-> [f \in DOMAIN nds |-> AreaVector(At(ndcrd, nds[f]))]]
    IN  Accumulate(Turn, start, sides)

-----------------------------------------------------------------------------
(* build_interior().                                                       *)

\* build_edge(): the pairs of neighbours on a face, each once, as found.
EdgesOf(nodes) ==
    [k \in DOMAIN nodes |-> {nodes[k], nodes[(k % Len(nodes)) + 1]}]
BuiltEdges(nds) ==
    LET all == Concatenated([f \in 1 .. Cardinality(DOMAIN nds) |-> EdgesOf(nds[f - 1])])
        Known(es, e) == IF e \in Range(es) THEN es ELSE Append(es, e)
    IN  Accumulate(Known, <<>>, all)

\* Rows of a table that the interior has.
Body(table) == [i \in {j \in DOMAIN table : j >= 0} |-> table[i]]
Over(table, rows) == [i \in DOMAIN table |-> IF i \in DOMAIN rows THEN rows[i] ELSE table[i]]

BuildInterior(doMetric, doEdge) ==
    \E raw \in {Populated} : \E d \in {Deduplicated(raw)} :
    \E kept \in {Survivors(d)}, map2 \in {Renumbered(d)} :
        /\ fccls' = [f \in 0 .. Len(kept) - 1 |-> OwnersOf(raw, map2, f)]
        /\ clfcs' = Over(clfcs, [c \in Cells |-> FacesFrom(raw, map2, c)])
        /\ \E nds \in {[f \in DOMAIN fccls' |-> raw[kept[f + 1]].nodes]} :
            IF doMetric
            THEN \E faces \in {Oriented(nds, clfcs', fccls')} :
                    /\ fcnds' = faces.nds
                    /\ fcnml' = faces.nml
                    /\ clvol' = Over(clvol, Volumes(Cells, ndcrd, clnds, clfcs', fcnds', fcnml'))
            ELSE /\ fcnds' = nds
                 /\ fcnml' = [f \in DOMAIN nds |-> Origin]
                 /\ UNCHANGED clvol
        /\ ednds' = IF doEdge THEN BuiltEdges(fcnds') ELSE ednds
        /\ metric' = doMetric
        /\ torn' = (ngst.cell > 0)
        /\ UNCHANGED <<grid, ndcrd, clnds, bcs, bndfcs, nbound, ngst>>

-----------------------------------------------------------------------------
(* The boundary.                                                           *)

Claimed == UNION {{row.face : row \in Range(bcs[b].facn)} : b \in DOMAIN bcs}

\* What add_bc() does not refuse.
Accepts(name, faces) ==
    /\ nbound = 0
    /\ name \notin {bcs[b].name : b \in DOMAIN bcs}
    /\ \A k \in DOMAIN faces :
        /\ faces[k] \in Faces
        /\ fccls[faces[k]][2] < 0
        /\ faces[k] \notin Claimed \cup {faces[j] : j \in 1 .. k - 1}

AddBc(name, faces) ==
    /\ Accepts(name, faces)
    /\ bcs' = Append(bcs, [name |-> name,
                           facn |-> [k \in DOMAIN faces |-> [face |-> faces[k], row |-> -1]]])
    /\ UNCHANGED <<grid, ndcrd, clnds, interiorVars, bndfcs, nbound, ngst, metric, torn>>

\* Rows of bndfcs for the conditions in order; the rows are written back.
Before(bs, b) == Accumulate(+, 0, [k \in 1 .. b - 1 |-> Len(bs[k].facn)])
Numbered(bs) ==
    [b \in DOMAIN bs |->
        [bs[b] EXCEPT !.facn = [k \in DOMAIN @ |-> [@[k] EXCEPT !.row = Before(bs, b) + k - 1]]]]
Listed(bs) ==
    Concatenated([b \in DOMAIN bs |->
        [k \in DOMAIN bs[b].facn |-> [face |-> bs[b].facn[k].face, bc |-> b - 1]]])

BuildBoundary ==
    LET open == {f \in Faces : fccls[f][2] < 0}
        left == Ascending(open \ Claimed)
        rest == [name |-> NoName,
                 facn |-> [k \in DOMAIN left |-> [face |-> left[k], row |-> -1]]]
        groups == IF left = <<>> THEN bcs ELSE Append(bcs, rest)
    IN  /\ nbound = 0
        /\ nbound' = Cardinality(open)
        /\ bcs' = Numbered(groups)
        /\ bndfcs' = Listed(groups)
        /\ UNCHANGED <<grid, ndcrd, clnds, interiorVars, ngst, metric, torn>>

-----------------------------------------------------------------------------
(* build_ghost().                                                          *)

\* count_ghost().
CountGhost ==
    LET Sum(F(_)) == Accumulate(+, 0, [k \in DOMAIN bndfcs |-> F(bndfcs[k].face)])
        Nodes(f) == Len(clnds[fccls[f][1]]) - Len(fcnds[f])
        Sides(f) == TypeOf(fccls[f][1]).nface - 1
    IN  [node |-> Sum(Nodes), face |-> Sum(Sides), cell |-> nbound]

\* The point p mirrored in the boundary face f.
Mirrored(p, f) ==
    LET n == fcnml[f]
        dist == Dot(Minus(ndcrd[Head(fcnds[f])], p), n)
    IN  IF n = Origin THEN p
        ELSE [k \in DOMAIN p |-> p[k] + (2 * dist * n[k]) \div Dot(n, n)]

\* The first empty row of a table of ghosts.
NextGhost(rows) == -1 - Cardinality({i \in DOMAIN rows : i < 0})

\* The nodes of the cell icl that the face ibfc does not have get a ghost.
GhostNode(ibfc, g, n) ==
    IF n \in Range(fcnds[ibfc]) THEN g
    ELSE LET at == NextGhost(g.crd)
         IN  [g EXCEPT !.map = Put(@, n, at),
                       !.crd = Put(@, at, Mirrored(ndcrd[n], ibfc))]

\* The faces of icl other than ibfc get a ghost between the new nodes.
GhostFace(ibfc, igcl, g, ifc) ==
    IF ifc = ibfc THEN [g EXCEPT !.sides = Append(@, ibfc)]
    ELSE LET at == NextGhost(g.nds)
             To(n) == IF n \in DOMAIN g.map THEN g.map[n] ELSE n
         IN  [g EXCEPT !.nds = Put(@, at, [k \in DOMAIN fcnds[ifc] |-> To(fcnds[ifc][k])]),
                       !.cls = Put(@, at, <<igcl, -1>>),
                       !.sides = Append(@, at)]

\* Mutant: the map of nodes is not erased after a cell.
ErasedNot(g, icl) == [g EXCEPT !.sides = <<>>]

\* Erase node map record.
Erased(g, icl) ==
    [g EXCEPT !.map = [n \in DOMAIN @ \ Range(clnds[icl]) |-> @[n]], !.sides = <<>>]

\* One ghost cell, igcl, over the row-th boundary face.
GhostCell(g, row) ==
    LET ibfc == bndfcs[row].face
        icl == fccls[ibfc][1]
        igcl == -row
        Node(h, n) == GhostNode(ibfc, h, n)
        Face(h, f) == GhostFace(ibfc, igcl, h, f)
        noded == Accumulate(Node, g, clnds[icl])
        faced == Accumulate(Face, noded, clfcs[icl])
        To(n) == IF n \in Range(fcnds[ibfc]) THEN n ELSE noded.map[n]
    IN  Erased([faced EXCEPT
                    !.cnds = Put(@, igcl, [k \in DOMAIN clnds[icl] |-> To(clnds[icl][k])]),
                    !.cfcs = Put(@, igcl, faced.sides),
                    !.cls[ibfc][2] = igcl], icl)

\* The last part of fill_ghost(): the normal of a ghost face is turned, and
\* only the normal.  (Without the metric of the interior the code has no centres
\* to go by, and the geometry of the ghosts has no meaning there nor here.)
GhostNormals(g) ==
    [f \in DOMAIN g.nds |->
        IF f >= 0 THEN fcnml[f]
        ELSE LET n == AreaVector(At(g.crd, g.nds[f]))
                 c == g.cls[f][1]
             IN  IF Outward(At(g.crd, g.cnds[c]), g.crd[Head(g.nds[f])], n) < 0
                 THEN Times(-1, n) ELSE n]

BuildGhost ==
    LET start == [crd |-> Body(ndcrd), cnds |-> Body(clnds), cfcs |-> Body(clfcs),
                  nds |-> Body(fcnds), cls |-> Body(fccls), map |-> <<>>, sides |-> <<>>]
        g == Accumulate(GhostCell, start, [row \in 1 .. nbound |-> row])
        normals == GhostNormals(g)
        ghosts == {c \in DOMAIN g.cnds : c < 0}
    IN  /\ ngst' = CountGhost
        /\ ndcrd' = g.crd /\ clnds' = g.cnds /\ clfcs' = g.cfcs
        /\ fcnds' = g.nds /\ fccls' = g.cls /\ fcnml' = normals
        /\ clvol' = Volumes(ghosts, g.crd, g.cnds, g.cfcs, g.nds, normals) @@ Body(clvol)
        /\ torn' = FALSE
        /\ UNCHANGED <<grid, ednds, bcs, bndfcs, nbound, metric>>

-----------------------------------------------------------------------------
\* The constructor, and the nodes and cells the caller fills in.
NewMesh(g) ==
    /\ grid' = g
    /\ ndcrd' = g.crd
    /\ clnds' = [c \in 0 .. Len(g.cells) - 1 |-> g.cells[c + 1].nodes]
    /\ fcnds' = <<>> /\ fccls' = <<>> /\ fcnml' = <<>>
    /\ clfcs' = [c \in DOMAIN clnds' |-> <<>>] /\ clvol' = [c \in DOMAIN clnds' |-> 0]
    /\ ednds' = <<>> /\ bcs' = <<>> /\ bndfcs' = <<>> /\ nbound' = 0
    /\ ngst' = [node |-> 0, face |-> 0, cell |-> 0]
    /\ metric' = FALSE /\ torn' = FALSE

StaticMeshInit ==
    /\ grid = [ndim |-> 2, crd |-> <<>>, cells |-> <<>>, patches |-> {}, measure |-> 0]
    /\ ndcrd = <<>> /\ clnds = <<>>
    /\ fcnds = <<>> /\ fccls = <<>> /\ fcnml = <<>>
    /\ clfcs = <<>> /\ clvol = <<>>
    /\ ednds = <<>> /\ bcs = <<>> /\ bndfcs = <<>> /\ nbound = 0
    /\ ngst = [node |-> 0, face |-> 0, cell |-> 0]
    /\ metric = FALSE /\ torn = FALSE

\* The calls on a mesh that was filled in.  (A mesh of no node has no hash of
\* faces: build_interior() reads the largest of none.)
StaticMeshCalls ==
    \/ \E doMetric, doEdge \in BOOLEAN : BuildInterior(doMetric, doEdge)
    \/ \E name \in BcNames, faces \in grid.patches : AddBc(name, faces)
    \/ BuildBoundary
    \/ BuildGhost

StaticMeshNext ==
    \/ grid.cells = <<>> /\ \E g \in Grids : NewMesh(g)
    \/ grid.cells # <<>> /\ StaticMeshCalls

StaticMeshSpec == StaticMeshInit /\ [][StaticMeshNext]_staticMeshVars

-----------------------------------------------------------------------------
(* Properties.                                                             *)

StaticMeshTypeOK ==
    /\ IsGrid(grid)
    /\ DOMAIN fccls = DOMAIN fcnds /\ DOMAIN fcnml = DOMAIN fcnds
    /\ DOMAIN clvol = DOMAIN clnds /\ DOMAIN clfcs = DOMAIN clnds
    /\ \A f \in DOMAIN fcnds : fcnds[f] \in Seq(DOMAIN ndcrd)
    /\ IsInjective([b \in DOMAIN bcs |-> bcs[b].name])
    /\ nbound \in Nat /\ metric \in BOOLEAN /\ torn \in BOOLEAN

\* Two cells that have a face's worth of nodes in common meet in one face,
\* and a face lies between the cells that list it, the first one first.
FacesJoinCells ==
    Faces # {} =>
        /\ \A c, d \in Cells : c < d =>
            (Cardinality(Range(clnds[c]) \cap Range(clnds[d])) >= grid.ndim
                <=> \E f \in Faces : fccls[f] = <<c, d>>)
        /\ \A f \in Faces : LET around == {c \in Cells : f \in Range(clfcs[c])}
                           IN  /\ around = Range(fccls[f]) \cap Cells
                               /\ fccls[f][1] = Min(around)

\* The edges of the faces are those of the cells, each once.
EdgesOnce ==
    ednds # <<>> /\ grid.ndim > 1 =>
        /\ IsInjective(ednds)
        /\ \A c \in Cells :
            Cardinality({e \in Range(ednds) : e \subseteq Range(clnds[c])}) = TypeOf(c).nedge

\* The normals around c, each the way that points out of it.
Around(c) ==
    [k \in DOMAIN clfcs[c] |->
        LET f == clfcs[c][k] IN IF fccls[f][1] = c THEN fcnml[f] ELSE Times(-1, fcnml[f])]
IsClosed(c) == Total(Around(c)) = Origin /\ \A k \in DOMAIN clfcs[c] :
    Outward(At(ndcrd, clnds[c]), ndcrd[Head(fcnds[clfcs[c][k]])], Around(c)[k]) > 0

\* calc_metric: every normal points out of the face's first cell and goes by
\* the order of its nodes, every cell is closed (what flows out of one flows
\* into others), and the volumes add up to that of the domain.
MetricHolds ==
    metric /\ ~ torn =>
        /\ grid.ndim > 1 => \A c \in Cells : IsClosed(c)
        /\ \A f \in Faces : fcnml[f] = AreaVector(At(ndcrd, fcnds[f]))
        /\ FoldFunctionOnSet(+, 0, clvol, Cells) = grid.measure

\* build_boundary: each face without a neighbour belongs to one condition,
\* and the two tables point at each other.
BoundaryIsSplit ==
    nbound > 0 =>
        /\ IsInjective([k \in DOMAIN bndfcs |-> bndfcs[k].face])
        /\ {bndfcs[k].face : k \in DOMAIN bndfcs} = {f \in Faces : fccls[f][2] < 0}
        /\ nbound = Len(bndfcs)
        /\ \A b \in DOMAIN bcs : \A k \in DOMAIN bcs[b].facn :
            bndfcs[bcs[b].facn[k].row + 1] = [face |-> bcs[b].facn[k].face, bc |-> b - 1]

\* FaceBuilder: no two faces have the same nodes, that is, the hash of faces by
\* their first node misses no twin.
FacesDiffer == \A f, h \in Faces : f # h => Range(fcnds[f]) # Range(fcnds[h])

HasGhosts == ngst.cell > 0 /\ ~ torn

\* fill_ghost: the ghosts fill the rows that count_ghost() counted for them; a
\* ghost cell is the neighbour of its boundary face, which is all it shares with
\* the interior and with other ghosts, and its other faces are its own.
GhostsFit ==
    HasGhosts =>
        /\ DOMAIN ndcrd = -ngst.node .. Cardinality(DOMAIN grid.crd) - 1
        /\ DOMAIN fcnds = -ngst.face .. Cardinality(Faces) - 1
        /\ DOMAIN clnds = -ngst.cell .. Cardinality(Cells) - 1
        /\ \A row \in 1 .. nbound :
            LET f == bndfcs[row].face
                g == -row
            IN  /\ fccls[f][2] = g
                /\ {n \in Range(clnds[g]) : n >= 0} = Range(fcnds[f])
                /\ \A h \in 1 .. row - 1 : {n \in Range(clnds[g]) \cap Range(clnds[-h]) : n < 0} = {}
                /\ \A k \in DOMAIN clfcs[g] :
                    /\ Range(fcnds[clfcs[g][k]]) \subseteq Range(clnds[g])
                    /\ clfcs[g][k] = f \/ fccls[clfcs[g][k]][1] = g

\* fill_ghost: a ghost cell is its cell in a mirror, as large and closed too.
GhostsMirror ==
    HasGhosts /\ metric =>
        \A row \in 1 .. nbound :
            /\ clvol[-row] = clvol[fccls[bndfcs[row].face][1]]
            /\ grid.ndim > 1 => IsClosed(-row)

\* Whatever the order of the calls, no face is there twice, each face without a
\* neighbour is in one condition, and the ghosts fill the room made for them.
TablesAgree == FacesDiffer /\ BoundaryIsSplit /\ GhostsFit

\* Whatever the order of the calls, the tables of the mesh tell one story.
MeshInStep == StaticMeshTypeOK /\ FacesJoinCells /\ EdgesOnce /\ MetricHolds /\ GhostsMirror
=============================================================================
