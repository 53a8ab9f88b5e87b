----------------------------- MODULE RectDomain -----------------------------
(***************************************************************************)
(* RectDomainMesher.make_mesh(): the mesh of a rectangle of nx by ny boxes *)
(* in one of three flavours.  The unstructured one triangulates the nodes  *)
(* of the outline and points inside that are off their place, and puts a   *)
(* point into every ear until there is none; then all three build a        *)
(* StaticMesh with a boundary condition for each edge of the rectangle.    *)
(***************************************************************************)
EXTENDS StaticMesh, DelaunayBuilder

CONSTANTS
    Domains,    \* the calls: [nx, ny, flavor, off], off the displacement of
                \* each point inside, by its place
    MaxIter     \* max_iter

VARIABLES
    domain,     \* the call
    stage,      \* where make_mesh() is
    tries       \* turns of the loop that puts points into ears

rectVars == <<domain, stage, tries>>

\* BOUNDARY_NAMES.
Edges == <<"left", "top", "bottom", "right">>

-----------------------------------------------------------------------------
(* Nodes and cells.                                                        *)

Node(it, jt) == <<Unit * it, Unit * jt>>
Nid(it, jt) == jt * (domain.nx + 1) + it
Box(it, jt) == <<Nid(it, jt), Nid(it + 1, jt), Nid(it + 1, jt + 1), Nid(it, jt + 1)>>

\* The places of an m by n layout, row by row.
RowByRow(m, n) == [k \in 1 .. m * n |-> <<(k - 1) % m, (k - 1) \div m>>]

StructuredNodes ==
    LET at == RowByRow(domain.nx + 1, domain.ny + 1)
    IN  [k \in DOMAIN at |-> Node(at[k][1], at[k][2])]

Outline ==
    LET nx == domain.nx
        ny == domain.ny
    IN  [k \in 1 .. nx + 1 |-> Node(k - 1, 0)] \o [k \in 1 .. ny |-> Node(nx, k)]
        \o [k \in 1 .. nx |-> Node(nx - k, ny)] \o [k \in 1 .. ny - 1 |-> Node(0, ny - k)]
JitterPoints ==
    LET at == RowByRow(domain.nx - 1, domain.ny - 1)
        Inside(it, jt) == Plus(Node(it, jt), domain.off[<<it, jt>>])
    IN  Outline \o [k \in DOMAIN at |-> Inside(at[k][1] + 1, at[k][2] + 1)]

Cell(type, nodes) == [type |-> type, nodes |-> nodes]

\* The diagonal of a box is turned at two corners of the rectangle.
CutBox(it, jt) ==
    LET b == Box(it, jt)
    IN  IF <<it, jt>> \in {<<0, domain.ny - 1>>, <<domain.nx - 1, 0>>}
        THEN <<Cell("triangle", <<b[1], b[2], b[4]>>), Cell("triangle", <<b[2], b[3], b[4]>>)>>
        ELSE <<Cell("triangle", <<b[1], b[2], b[3]>>), Cell("triangle", <<b[1], b[3], b[4]>>)>>

CellsOfDomain ==
    LET at == RowByRow(domain.nx, domain.ny)
    IN  CASE domain.flavor = "quad" ->
                 [k \in DOMAIN at |-> Cell("quadrilateral", Box(at[k][1], at[k][2]))]
          [] domain.flavor = "triangle" ->
                 Concatenated([k \in DOMAIN at |-> CutBox(at[k][1], at[k][2])])
          [] OTHER -> [i \in DOMAIN tris |->
                          Cell("triangle", [v \in 1 .. 3 |-> tris[i][v] - 1])]

-----------------------------------------------------------------------------
(* make_mesh(), up to the mesh.                                            *)

RectInit ==
    /\ domain = [nx |-> 0, ny |-> 0, flavor |-> "none", off |-> <<>>]
    /\ stage = "idle" /\ tries = 0
    /\ BuilderInit /\ StaticMeshInit

MakeMesh(d) ==
    /\ stage = "idle"
    /\ domain' = d
    /\ stage' = "points"
    /\ UNCHANGED <<tries, builderVars, staticMeshVars>>

Points ==
    /\ stage = "points"
    /\ IF domain.flavor = "unstructured"
       THEN pad' = JitterPoints /\ stage' = "triangulate"
       ELSE pad' = StructuredNodes /\ stage' = "mesh"
    /\ UNCHANGED <<domain, tries, work, vertex, inserted, tris, staticMeshVars>>

Triangulation ==
    /\ stage = "triangulate"
    /\ (inserted < Len(pad) /\ Triangulate) \/ Insert \/ Return
    /\ stage' = IF work # <<>> /\ work' = <<>> THEN "ears" ELSE stage
    /\ UNCHANGED <<domain, tries, staticMeshVars>>

Refine ==
    /\ stage = "ears"
    /\ IF Ears(tris) = <<>>
       THEN stage' = "mesh" /\ UNCHANGED <<pad, tries>>
       ELSE /\ pad' = pad \o EarCentroids(tris)
            /\ tries' = tries + 1
            /\ stage' = IF tries' = MaxIter THEN "raised" ELSE "triangulate"
    /\ UNCHANGED <<domain, work, vertex, inserted, tris, staticMeshVars>>

FillMesh ==
    /\ stage = "mesh"
    /\ NewMesh([ndim |-> 2, crd |-> [n \in 0 .. Len(pad) - 1 |-> pad[n + 1]],
                cells |-> CellsOfDomain, patches |-> {},
                measure |-> 2 * domain.nx * domain.ny * Unit * Unit])
    /\ stage' = "interior"
    /\ UNCHANGED <<domain, tries, builderVars>>

-----------------------------------------------------------------------------
(* make_mesh(), the mesh.                                                  *)

\* classify_boundary(); twice the centre of a face stands for it.
Classified ==
    LET Open(f) == fccls[f][2] < 0
        bfaces == SelectSeq([k \in 1 .. Cardinality(Faces) |-> k - 1], Open)
        Centre(f) == Plus(ndcrd[fcnds[f][1]], ndcrd[fcnds[f][2]])
        xs == {Centre(f)[1] : f \in Range(bfaces)}
        ys == {Centre(f)[2] : f \in Range(bfaces)}
        EdgeOf(f) ==
            CASE Centre(f)[1] = Min(xs) /\ fcnml[f][1] < 0 -> "left"
              [] Centre(f)[1] = Max(xs) /\ fcnml[f][1] > 0 -> "right"
              [] Centre(f)[2] = Max(ys) /\ fcnml[f][2] > 0 -> "top"
              [] OTHER -> "bottom"
    IN  [edge \in Range(Edges) |-> LET On(f) == EdgeOf(f) = edge IN SelectSeq(bfaces, On)]

NextEdge == Edges[Len(bcs) + 1]

BuildMesh ==
    /\ \/ stage = "interior" /\ BuildInterior(TRUE, TRUE) /\ stage' = "edges"
       \/ /\ stage = "edges" /\ Len(bcs) < 4
          /\ AddBc(NextEdge, Classified[NextEdge])
          /\ UNCHANGED stage
       \/ stage = "edges" /\ Len(bcs) = 4 /\ BuildBoundary /\ stage' = "ghost"
       \/ stage = "ghost" /\ BuildGhost /\ stage' = "done"
    /\ UNCHANGED <<domain, tries, builderVars>>

RectDomainNext ==
    \/ \E d \in Domains : MakeMesh(d)
    \/ Points \/ Triangulation \/ Refine \/ FillMesh \/ BuildMesh

-----------------------------------------------------------------------------
(* Properties.                                                             *)

\* How many of the faces of c are on the boundary.
OpenFaces(c) == Cardinality({f \in Range(clfcs[c]) : \E k \in DOMAIN bndfcs : bndfcs[k].face = f})

\* Where no triangle is to have two faces on the boundary: the diagonals alone
\* cannot keep them apart in a single row or column of boxes.
OneOpenFace ==
    \/ domain.flavor = "unstructured"
    \/ domain.flavor = "triangle" /\ domain.nx > 1 /\ domain.ny > 1

\* Each triangulation is a Delaunay one of all points; and make_mesh() comes to
\* its end: the ears run out, no condition is refused, none but the four edges
\* gets a face, each as many as the outline has; and no triangle has two faces
\* on the boundary where that can be had.
DomainIsMeshed ==
    /\ StaysDelaunay /\ TilesTheHull
    /\ stage # "raised"
    /\ stage = "edges" /\ Len(bcs) < 4 => Accepts(NextEdge, Classified[NextEdge])
    /\ stage = "done" =>
        /\ [b \in DOMAIN bcs |-> bcs[b].name] = Edges
        /\ [b \in DOMAIN bcs |-> Len(bcs[b].facn)] =
               <<domain.ny, domain.nx, domain.nx, domain.ny>>
        /\ OneOpenFace => \A c \in Cells : OpenFaces(c) <= 1
=============================================================================
