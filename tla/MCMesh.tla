------------------------------- MODULE MCMesh -------------------------------
(***************************************************************************)
(* Meshes: how they are made, how the viewer shows them, and the arrays    *)
(* that hold their numbers.  A run is one session: of the viewer           *)
(* (DomainWidget over a flat mesh, the same domain at another resolution,  *)
(* a solid one and one of no node), of a mesh that is filled in by hand,   *)
(* of a cloud of points that is triangulated, of one call of make_mesh(),  *)
(* of two polygons that are combined, or of two arrays.  Every session of  *)
(* the viewer may update the mesh, and makes the calls of the groups it is *)
(* named for.  The sessions bound the state space, not the calls in one.   *)
(***************************************************************************)
EXTENDS DomainWidget, RectDomain, PolygonPad, ArrayReads

CONSTANTS flat, fine, solid, hollow, d1, d2

VARIABLE session

-----------------------------------------------------------------------------
(* The viewer.                                                             *)

MCMeshes == {flat, fine, solid, hollow}
MCNDim == (flat :> 2) @@ (fine :> 2) @@ (solid :> 3) @@ (hollow :> 3)
MCBounds == (flat :> 1..2) @@ (fine :> 1..2) @@ (solid :> 2..3) @@ (hollow :> {})
MCSets == (flat :> {10}) @@ (fine :> {10, 11}) @@ (solid :> {11}) @@ (hollow :> {})
MCCategories == (flat :> 1) @@ (fine :> 3) @@ (solid :> 2) @@ (hollow :> 0)
MCAxis == 0..4
MCFields == {[box |-> 1..2, own |-> <<0, 5>>, deep |-> FALSE],
             [box |-> 1..2, own |-> <<3, 4>>, deep |-> FALSE],
             [box |-> 3..4, own |-> <<0, 5>>, deep |-> TRUE],
             [box |-> {}, own |-> <<0, 1>>, deep |-> FALSE]}
MCRanges == {<<0, 2>>, <<1, 6>>}

Views == {"mesh", "field", "objects", "pick", "filters", "device"}

Calls ==
    \/ session = "mesh" /\ MeshCalls
    \/ session = "field" /\ (FieldCalls \/ Navigate)
    \/ session = "objects" /\ (ObjectCalls \/ FitScene)
    \/ session = "objects" /\ \E f \in Fields : UpdateColorField(f)
    \/ session = "pick" /\ (PickCalls \/ CameraCalls)
    \/ session = "filters" /\ FilterCalls
    \/ session = "device" /\ (DeviceCalls \/ ColorByCategory)

View ==
    /\ session \in Views
    /\ (\E m \in Meshes : UpdateMesh(m)) \/ Calls
    /\ UNCHANGED <<rectVars, builderVars, staticMeshVars, polygonVars>>

-----------------------------------------------------------------------------
(* Meshes filled in by hand: a rod, a sheet of a quadrilateral and two     *)
(* triangles, and a block of one solid of each type, each glued to another. *)

Zero(s) == [i \in 0 .. Len(s) - 1 |-> s[i + 1]]
Rod == [ndim |-> 1, crd |-> Zero(<<<<0>>, <<1>>, <<3>>>>), measure |-> 0,
        cells |-> <<Cell("line", <<0, 1>>), Cell("line", <<1, 2>>)>>,
        patches |-> {<<0>>, <<1>>, <<2>>}]
Sheet == [ndim |-> 2, measure |-> 16,
          crd |-> Zero(<<<<0, 0>>, <<2, 0>>, <<4, 0>>, <<0, 2>>, <<2, 2>>, <<4, 2>>>>),
          cells |-> <<Cell("quadrilateral", <<0, 1, 4, 3>>),
                      Cell("triangle", <<4, 1, 2>>), Cell("triangle", <<4, 2, 5>>)>>,
          patches |-> {<<0>>, <<3, 2>>, <<0, 0>>, <<1>>, <<>>, <<9>>}]
Block == [ndim |-> 3, measure |-> 6 * (216 + 36 + 108 + 36),
          crd |-> Zero(<<<<0, 0, 0>>, <<6, 0, 0>>, <<6, 6, 0>>, <<0, 6, 0>>,
                         <<0, 0, 6>>, <<6, 0, 6>>, <<6, 6, 6>>, <<0, 6, 6>>,
                         <<3, 3, 9>>, <<12, 0, 0>>, <<12, 6, 0>>, <<6, -6, 0>>>>),
          cells |-> <<Cell("hexahedron", <<0, 1, 2, 3, 4, 5, 6, 7>>),
                      Cell("pyramid", <<4, 5, 6, 7, 8>>),
                      Cell("prism", <<1, 9, 5, 2, 10, 6>>),
                      Cell("tetrahedron", <<1, 9, 5, 11>>)>>,
          patches |-> {<<0, 3>>, <<2>>, <<8>>}]
MCGrids == {Rod, Sheet, Block}

Build ==
    /\ session = "build"
    /\ StaticMeshNext
    /\ UNCHANGED <<vars, rectVars, builderVars, polygonVars>>

-----------------------------------------------------------------------------
(* Every sequence of three or four points of a grid, points on one line    *)
(* and points that are there twice included.                               *)

Lattice == {<<Unit * x, Unit * y>> : x \in 0 .. 2, y \in 0 .. 2}
Cloud ==
    /\ session = "cloud"
    /\ \/ pad = <<>> /\ \E n \in 3 .. 4 : \E points \in [1 .. n -> Lattice] :
              pad' = points /\ UNCHANGED <<work, vertex, inserted, tris>>
       \/ inserted = 0 /\ Triangulate
       \/ Insert
       \/ Return
    /\ UNCHANGED <<vars, rectVars, staticMeshVars, polygonVars>>

-----------------------------------------------------------------------------
(* One call of make_mesh(), for up to 3 by 3 boxes; a point inside may be  *)
(* off its place in several directions.                                    *)

MakeCall(nx, ny, flavor, off) == [nx |-> nx, ny |-> ny, flavor |-> flavor, off |-> off]
Places(nx, ny) == (1 .. nx - 1) \X (1 .. ny - 1)
Offs == {<<0, 0>>, <<1, 1>>, <<-1, 0>>, <<0, -1>>, <<1, -1>>}
MCDomains ==
    {MakeCall(nx, ny, f, <<>>) : nx \in 1 .. 3, ny \in 1 .. 3, f \in {"quad", "triangle"}}
    \cup UNION {{MakeCall(b[1], b[2], "unstructured", off) : off \in [Places(b[1], b[2]) -> Offs]} :
                b \in {<<1, 1>>, <<2, 1>>, <<1, 2>>, <<2, 2>>, <<3, 2>>, <<3, 1>>}}

Make ==
    /\ session = "domain"
    /\ RectDomainNext
    /\ UNCHANGED <<vars, polygonVars>>

-----------------------------------------------------------------------------
(* Two polygons of a lattice and one operation on them.  There are squares *)
(* that share a side or lie in one another, triangles and concave outlines *)
(* whose sides cross, one that goes round a slit, two without an area, one *)
(* clockwise, and one that leaves the plane.                               *)

Grain == 120
Drawn(s) == [i \in DOMAIN s |-> <<Grain * s[i][1], Grain * s[i][2], 0>>]
MCOutlines ==
    {[Drawn(<<<<0, 0>>, <<1, 0>>, <<2, 2>>>>) EXCEPT ![3] = <<0, 0, 1>>]} \cup
    {Drawn(s) : s \in {
        <<<<0, 0>>, <<2, 0>>, <<2, 2>>, <<0, 2>>>>, <<<<0, 0>>, <<1, 0>>, <<1, 1>>, <<0, 1>>>>,
        <<<<1, 0>>, <<2, 0>>, <<2, 1>>, <<1, 1>>>>,
        <<<<0, 0>>, <<2, 1>>, <<1, 2>>>>, <<<<0, 2>>, <<1, 0>>, <<2, 2>>>>, <<<<0, 0>>, <<1, 2>>, <<2, 0>>>>,
        <<<<0, 2>>, <<1, 1>>, <<0, 0>>, <<2, 1>>>>,
        <<<<0, 0>>, <<2, 0>>, <<2, 1>>, <<1, 1>>, <<1, 2>>, <<0, 2>>>>,
        <<<<0, 2>>, <<0, 0>>, <<1, 1>>, <<2, 0>>, <<2, 2>>>>,
        <<<<0, 0>>, <<1, 0>>, <<2, 0>>, <<2, 1>>, <<1, 1>>, <<1, 2>>, <<1, 1>>, <<0, 1>>>>,
        <<<<0, 0>>, <<1, 0>>, <<2, 0>>>>, <<<<1, 0>>, <<1, 2>>, <<1, 1>>>>}}

\* No line through two points of the lattice meets one of these.
MCSamples == {<<30 * k + 4, 30 * m + 1>> : k \in 0 .. 7, m \in 0 .. 7}

Combine ==
    /\ session = "areas"
    /\ area = NoArea
    /\ PolygonNext
    /\ UNCHANGED <<vars, rectVars, builderVars, staticMeshVars>>

-----------------------------------------------------------------------------
(* Arrays: up to three calls, the later ones among those that the earlier  *)
(* ones matter to.  There are a dense array in either order, one turned    *)
(* over, one with gaps, one with an axis of one item and a stride that     *)
(* leads nowhere, one without an item and one without an axis; and two     *)
(* views that overlap in one memory in every way.                          *)

Slice(start, stop, step) == [kind |-> "slice", start |-> start, stop |-> stop, step |-> step]
Index(i) == [kind |-> "index", at |-> i]
Dots == [kind |-> "ellipsis"]
MCKeys ==
    {<<Dots>>, <<Slice(<<1>>, <<>>, 1)>>, <<Slice(<<>>, <<>>, -1)>>, <<Slice(<<-1>>, <<3>>, 2)>>,
     <<Index(-1)>>, <<Index(1), Slice(<<>>, <<-1>>, 1)>>, <<Dots, Slice(<<1>>, <<>>, 1)>>,
     <<Slice(<<2>>, <<0>>, 1), Dots>>, <<Slice(<<>>, <<>>, 2), Slice(<<2>>, <<0>>, -1)>>,
     <<Dots, Index(0)>>, <<Slice(<<1>>, <<>>, 1), Slice(<<>>, <<>>, 1), Dots, Index(1)>>,
     <<Dots, Dots>>}
MCShapes == {<<6>>, <<3, 2>>, <<4>>, <<1, 4>>, <<0>>, <<>>, <<8>>}

Laid(origin, shape, stride) == [origin |-> origin, shape |-> shape, stride |-> stride]
Memory(x, y, cells) == [x |-> x, y |-> y, cells |-> [i \in 0 .. 9 |-> cells[i + 1]]]
Nums == <<5, 1, 7, 0, -8, 2, 7, 3, 0, -3>>
Nans == <<5, 1, NaN, 0, NaN, 2, 7, NaN, 0, NaN>>
MCStarts ==
    {Memory(Laid(0, <<2, 3>>, <<3, 1>>), <<>>, cells) : cells \in {Nums, Nans}} \cup
    {Memory(Laid(p[1], <<2, 3>>, p[2]), <<>>, Nums) :
        p \in {<<0, <<1, 2>>>>, <<3, <<-3, 1>>>>, <<0, <<5, 2>>>>}} \cup
    {Memory(Laid(0, <<2, 2, 2>>, stride), <<>>, Nums) : stride \in {<<4, 2, 1>>, <<1, 4, 2>>}} \cup
    {Memory(Laid(0, <<4>>, <<1>>), <<Laid(2, <<4>>, <<1>>)>>, Nums),
     Memory(Laid(0, <<4>>, <<1>>), <<Laid(3, <<4>>, <<-1>>)>>, Nums),
     Memory(Laid(2, <<4>>, <<2>>), <<Laid(1, <<2>>, <<3>>)>>, Nans),
     Memory(Laid(0, <<3>>, <<1>>), <<Laid(1, <<1, 3>>, <<5, 1>>)>>, Nans),
     Memory(Laid(0, <<2, 2>>, <<1, 2>>), <<Laid(4, <<2, 2>>, <<2, 1>>)>>, Nums),
     Memory(Laid(3, <<1, 3>>, <<-5, 1>>), <<>>, Nums),
     Memory(Laid(3, <<0, 3>>, <<3, 1>>), <<>>, Nums),
     Memory(Laid(3, <<>>, <<>>), <<>>, Nums)}

Store ==
    /\ session = "arrays"
    /\ call.count < MaxCalls
    /\ \/ call.op = "none" /\ SimpleArrayNext
       \/ /\ call.op = "getitem" /\ call.ok
          /\ \/ Swap \/ Assign
             \/ \E key \in Keys : SetItem(key)
             \/ \E op \in Operations : InPlace(op)
       \/ /\ call.op = "swap"
          /\ \/ CopyCalls \/ Fill(0)
             \/ \E shape \in Shapes : Reshape(shape)
             \/ \E axis \in AxesOrders, copy \in BOOLEAN : TransposeAxes(axis, copy)
       \/ /\ call.op = "set_nghost"
          /\ \/ CopyCalls \/ Transpose \/ TransposeInto \/ InPlaceScalar("add", 3)
             \/ \E key \in Keys : GetItem(key) \/ (Present(arrays.y) /\ SetItem(key))
             \/ \E shape \in Shapes : Reshape(shape)
             \/ \E i \in {-1, 1, 3} : SetScalar(<<i>>, 0) \/ SetScalar(<<i, 0>>, 0)
    /\ UNCHANGED <<vars, rectVars, builderVars, staticMeshVars, polygonVars>>
NoArrays ==
    /\ memory = <<>> /\ arrays = [n \in Both |-> None]
    /\ call = [op |-> "none", arg |-> <<>>, ok |-> TRUE, count |-> 0]

-----------------------------------------------------------------------------
MCInit ==
    /\ Init /\ RectInit /\ PolygonInit
    /\ \/ session \in Views \cup {"build", "cloud", "domain", "areas"} /\ NoArrays
       \/ session = "arrays" /\ SimpleArrayInit
MCNext ==
    /\ \/ (View \/ Build \/ Cloud \/ Make \/ Combine) /\ UNCHANGED simpleArrayVars
       \/ Store
    /\ UNCHANGED session
MCSpec ==
    MCInit /\ [][MCNext]_<<vars, rectVars, builderVars, staticMeshVars, polygonVars,
                           simpleArrayVars, session>>
=============================================================================
