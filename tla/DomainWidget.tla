---------------------------- MODULE DomainWidget ----------------------------
(***************************************************************************)
(* The mesh viewer: RDomainWidget with the RScene it owns (the drawables,  *)
(* the bounding box and the framing of the camera) and its overlays.       *)
(*                                                                         *)
(* The scene owns every drawable; the widget keeps raw pointers into it,   *)
(* flags that say what should be drawn, and copies of what was drawn (the  *)
(* colour range, the bounding box of the field).  Each operation changes   *)
(* several of these, and no operation changes all of them.                 *)
(*                                                                         *)
(* Geometry is one-dimensional here: a bounding box is an interval of      *)
(* integers, the empty set when there is none.                             *)
(***************************************************************************)
EXTENDS Integers, FiniteSets

CONSTANTS
    Meshes,      \* the StaticMesh objects a caller passes in
    NDim,        \* [Meshes -> {2, 3}]
    Bounds,      \* [Meshes -> interval of its nodes; {} for a mesh of no node]
    Sets,        \* [Meshes -> the boundary sets that own a face]
    Categories,  \* [Meshes -> number of distinct cell attributes, 0 for none]
    Axis,        \* the whole axis: what a box of a mesh of no node spans
    Names,       \* names of scene objects
    Shifts,      \* translations of an object
    Fields,      \* tables passed to the update calls: [box, own, deep]
    Ranges,      \* ranges a caller pins
    Colormaps,   \* names a caller selects
    Scales,      \* normal scales
    Ids,         \* ids of the entities a pick can hit
    Devices      \* (device, render pass, sample count) triples Qt may give

CONSTANTS NoMesh, NoId, NoDevice

ASSUME ViewerAssumption ==
    /\ NoMesh \notin Meshes /\ NoDevice \notin Devices
    /\ Axis \subseteq Int /\ 1 \in Scales /\ "viridis" \in Colormaps
    /\ Ranges \subseteq Int \X Int
    /\ \A m \in Meshes : /\ Bounds[m] \subseteq Axis /\ (Bounds[m] = {} => Sets[m] = {})
                        /\ NDim[m] \in {2, 3} /\ Categories[m] \in Nat
    /\ \A f \in Fields : f.box \subseteq Axis /\ f.own \in Int \X Int

VARIABLES
    mesh,      \* m_mesh
    styles,    \* the m_show_* flags that are on
    shown,     \* m_mesh_shown
    normals,   \* [on |-> m_show_normals, scale |-> m_normal_scale]
    scene,     \* RScene::m_drawables: id -> drawable
    ptr,       \* the RDrawable * members, by name
    objects,   \* m_objects: name -> [drawable, mesh]
    color,     \* [map |-> m_colormap, pinned |-> m_range_pinned, range |-> m_range_*]
    bar,       \* m_scalar_bar
    fieldBox,  \* m_field_lo/hi while m_has_field_bbox, {} otherwise
    box,       \* RScene::m_bbox_*, {} while !m_has_bbox
    ndim,      \* RScene::m_ndim
    camera,    \* [mode, view]: what placed the camera last
    frame,     \* RScene::m_frame_*: the zoomed-in box, "none" without one
    pick,      \* [has, kind, id, of]: the m_selection_* members
    dev,       \* (m_rhi, m_rpdesc, m_sample_count)
    overlay,   \* m_gizmo, m_scalar_bar, m_title: [visible, built]
    asked      \* history: setScalarRange has been called

meshVars == <<mesh, styles, shown, normals>>
viewVars == <<box, ndim, camera, frame>>
colorVars == <<color, bar, fieldBox, asked>>
drawVars == <<scene, ptr, objects>>
vars == <<meshVars, viewVars, colorVars, drawVars, pick, dev, overlay>>

StyleNames == {"surface", "wireframe", "points"}
Pointers == StyleNames \cup {"field", "scalar", "selection", "ruler", "axes", "clip", "slice"}
DrawnKinds == (Pointers \ {"scalar"}) \cup {"object", "normals", "edges", "boundary"}
Overlays == {"gizmo", "bar", "title"}
NoRange == <<0, 0>>

ASSUME NoIdAssumption == NoId \notin DrawnKinds \X Nat

-----------------------------------------------------------------------------
(* The scene: an id is <<kind, n>>, with n told apart only while two       *)
(* drawables of a kind live together.                                      *)

NewId(sc, kind) ==
    <<kind, CHOOSE n \in 0..Cardinality(DOMAIN sc) : <<kind, n>> \notin DOMAIN sc>>

Drawable(of) ==
    [of |-> of, visible |-> TRUE, range |-> NoRange, map |-> "none", built |-> NoDevice]

With(f, x, value) == [y \in DOMAIN f \cup {x} |-> IF y = x THEN value ELSE f[y]]

AddDrawable(sc, kind, d) == With(sc, NewId(sc, kind), d)

RemoveDrawables(sc, ids) == [i \in DOMAIN sc \ ids |-> sc[i]]
OfKind(sc, kind) == {i \in DOMAIN sc : i[1] = kind}

Hull(a, b) ==
    LET all == a \cup b
    IN  {x \in Axis : (\E y \in all : y <= x) /\ (\E y \in all : x <= y)}

Fit(b) == IF b = {} THEN [by |-> "default", of |-> {}] ELSE [by |-> "fit", of |-> b]

\* fitCameraToScene() on the box b.
FitCamera(b) ==
    /\ camera' = [camera EXCEPT !.view = Fit(b)]
    /\ frame' = IF b = {} THEN frame ELSE "none"

-----------------------------------------------------------------------------
Init ==
    /\ mesh = NoMesh /\ styles = {"wireframe"} /\ shown = TRUE
    /\ normals = [on |-> FALSE, scale |-> 1]
    /\ scene = <<>> /\ ptr = [p \in Pointers |-> NoId] /\ objects = <<>>
    /\ color = [map |-> "viridis", pinned |-> FALSE, range |-> <<0, 1>>]
    /\ bar = [map |-> "viridis", range |-> <<0, 1>>]
    /\ fieldBox = {} /\ asked = FALSE
    /\ box = {} /\ ndim = 0 /\ frame = "none"
    /\ camera = [mode |-> "orbit", view |-> Fit({})]
    /\ pick = [has |-> FALSE, kind |-> "none", id |-> 0, of |-> NoMesh]
    /\ dev = NoDevice
    /\ overlay = [o \in Overlays |-> [visible |-> o = "gizmo", built |-> NoDevice]]

-----------------------------------------------------------------------------
(* The mesh, its styles and the overlays built from it.                    *)

\* applyMeshVisibility() on the scene sc with the pointers p.
ApplyMeshVisibility(sc, p, on, st) ==
    [i \in DOMAIN sc |->
        IF \E s \in StyleNames : p[s] = i
        THEN [sc[i] EXCEPT !.visible = on /\ (CHOOSE s \in StyleNames : p[s] = i) \in st]
        ELSE sc[i]]

\* Whether an overlay built from the mesh m has anything to draw.
HasNormals(m) == Bounds[m] # {}
HasBoundary(m, s) == s \in Sets[m]
HasFeatureEdges(m) == Sets[m] # {}

\* rebuildNormals() on the scene sc, for the mesh m.
RebuildNormals(sc, m, nm) ==
    LET rest == RemoveDrawables(sc, OfKind(sc, "normals"))
    IN  IF nm.on /\ m # NoMesh /\ HasNormals(m)
        THEN AddDrawable(rest, "normals", Drawable(<<m, nm.scale>>)) ELSE rest

\* The drawables of the mesh m, one for each style.
NewStyles(sc, ids, m) ==
    LET new == {ids[s] : s \in StyleNames}
    IN  [i \in DOMAIN sc \cup new |-> IF i \in new THEN Drawable(<<m>>) ELSE sc[i]]

\* Mutant: the styles' flags are not applied to the new drawables.
UpdateMeshUnstyled(m) ==
    LET rest == RemoveDrawables(scene, {ptr[s] : s \in StyleNames})
        ids == [s \in StyleNames |-> NewId(rest, s)]
        newBox == Hull(Bounds[m], fieldBox)
    IN  /\ mesh' = m
        /\ ptr' = [x \in Pointers |-> IF x \in StyleNames THEN ids[x] ELSE ptr[x]]
        /\ scene' = RebuildNormals(NewStyles(rest, ids, m), m, normals)
        /\ ndim' = NDim[m] /\ box' = newBox
        /\ camera' = [camera EXCEPT !.view = IF newBox = box THEN camera.view ELSE Fit(newBox)]
        /\ UNCHANGED <<styles, shown, normals, objects, colorVars, frame, pick, dev, overlay>>

UpdateMesh(m) ==
    LET rest == RemoveDrawables(scene, {ptr[s] : s \in StyleNames})
        ids == [s \in StyleNames |-> NewId(rest, s)]
        three == NewStyles(rest, ids, m)
        p == [x \in Pointers |-> IF x \in StyleNames THEN ids[x] ELSE ptr[x]]
        newBox == Hull(Bounds[m], fieldBox)
        sameBox == box # {} /\ newBox # {} /\ newBox = box
        mode == IF NDim[m] = 2 THEN "pan" ELSE camera.mode
    IN  /\ mesh' = m
        /\ ptr' = p
        /\ scene' = RebuildNormals(ApplyMeshVisibility(three, p, shown, styles), m, normals)
        /\ ndim' = NDim[m]
        /\ box' = newBox
        /\ camera' = [mode |-> mode, view |-> IF sameBox THEN camera.view ELSE Fit(newBox)]
        /\ frame' = IF sameBox \/ newBox = {} THEN frame ELSE "none"
        /\ UNCHANGED <<styles, shown, normals, objects, colorVars, pick, dev, overlay>>

ShowMesh(on) ==
    /\ shown' = on
    /\ scene' = ApplyMeshVisibility(scene, ptr, on, styles)
    /\ UNCHANGED <<mesh, styles, normals, ptr, objects, colorVars, viewVars, pick, dev, overlay>>

ShowMeshStyle(s, on) ==
    /\ styles' = IF on THEN styles \cup {s} ELSE styles \ {s}
    /\ scene' = ApplyMeshVisibility(scene, ptr, shown, styles')
    /\ UNCHANGED <<mesh, shown, normals, ptr, objects, colorVars, viewVars, pick, dev, overlay>>

ShowNormals(on) ==
    /\ normals' = [normals EXCEPT !.on = on]
    /\ scene' = RebuildNormals(scene, mesh, normals')
    /\ UNCHANGED <<mesh, styles, shown, ptr, objects, colorVars, viewVars, pick, dev, overlay>>

SetNormalScale(k) ==
    /\ normals' = [normals EXCEPT !.scale = k]
    /\ scene' = IF normals.on THEN RebuildNormals(scene, mesh, normals') ELSE scene
    /\ UNCHANGED <<mesh, styles, shown, ptr, objects, colorVars, viewVars, pick, dev, overlay>>

\* One highlight per boundary set; hiding or showing it again drops the old one.
ShowBoundary(s, on) ==
    LET rest == RemoveDrawables(scene, {i \in OfKind(scene, "boundary") : scene[i].of[2] = s})
    IN  /\ scene' = IF on /\ mesh # NoMesh /\ HasBoundary(mesh, s)
                    THEN AddDrawable(rest, "boundary", Drawable(<<mesh, s>>)) ELSE rest
        /\ UNCHANGED <<meshVars, ptr, objects, colorVars, viewVars, pick, dev, overlay>>

ShowFeatureEdges(on) ==
    LET rest == RemoveDrawables(scene, OfKind(scene, "edges"))
    IN  /\ scene' = IF on /\ mesh # NoMesh /\ HasFeatureEdges(mesh)
                    THEN AddDrawable(rest, "edges", Drawable(<<mesh>>)) ELSE rest
        /\ UNCHANGED <<meshVars, ptr, objects, colorVars, viewVars, pick, dev, overlay>>

-----------------------------------------------------------------------------
(* The named objects.                                                      *)

AddObject(name, m) ==
    LET old == IF name \in DOMAIN objects THEN {objects[name].drawable} ELSE {}
        rest == RemoveDrawables(scene, old)
        id == NewId(rest, "object")
        newBox == IF Bounds[m] = {} THEN box ELSE Hull(box, Bounds[m])
    IN  /\ scene' = With(rest, id, Drawable(<<m>>))
        /\ objects' = With(objects, name, [drawable |-> id, mesh |-> m])
        /\ ndim' = NDim[m]
        /\ box' = newBox
        /\ FitCamera(newBox)
        /\ UNCHANGED <<meshVars, ptr, colorVars, pick, dev, overlay>>

\* The corners of a mesh of no node are the ends of the axis.
SetObjectTransform(name, t) ==
    /\ name \in DOMAIN objects
    /\ LET b == Bounds[objects[name].mesh]
           moved == IF b = {} THEN Axis ELSE {x + t : x \in b} \cap Axis
           newBox == Hull(box, moved)
       IN  /\ box' = newBox
           /\ FitCamera(newBox)
    /\ UNCHANGED <<meshVars, scene, ptr, objects, colorVars, ndim, pick, dev, overlay>>

SetObjectVisible(name, on) ==
    /\ name \in DOMAIN objects
    /\ scene' = [scene EXCEPT ![objects[name].drawable].visible = on]
    /\ UNCHANGED <<meshVars, ptr, objects, colorVars, viewVars, pick, dev, overlay>>

-----------------------------------------------------------------------------
(* The field and its legend.                                               *)

\* Mutant: the old box is read after it was reset, so every install reframes.
InstallFieldReframed(d, b, deep, scalar) ==
    LET rest == RemoveDrawables(scene, {ptr.field})
        id == NewId(rest, "field")
    IN  IF b = {}
        THEN /\ scene' = rest /\ fieldBox' = {}
             /\ ptr' = [ptr EXCEPT !.field = NoId, !.scalar = NoId]
             /\ UNCHANGED <<box, ndim, camera, frame>>
        ELSE /\ scene' = With(rest, id, d) /\ fieldBox' = b
             /\ ptr' = [ptr EXCEPT !.field = id, !.scalar = IF scalar THEN id ELSE NoId]
             /\ box' = Hull(box, b)
             /\ ndim' = IF box = {} THEN (IF deep THEN 3 ELSE 2) ELSE ndim
             /\ FitCamera(box')

\* installField(): d is the new drawable, b its bounding box ({} when it has
\* no geometry), deep whether it has a depth extent, scalar whether the caller
\* keeps it as m_scalar_field.
InstallField(d, b, deep, scalar) ==
    LET rest == RemoveDrawables(scene, {ptr.field})
        id == NewId(rest, "field")
        newBox == Hull(box, b)
    IN  IF b = {}
        THEN /\ scene' = rest
             /\ ptr' = [ptr EXCEPT !.field = NoId, !.scalar = NoId]
             /\ fieldBox' = {}
             /\ UNCHANGED <<box, ndim, camera, frame>>
        ELSE /\ scene' = With(rest, id, d)
             /\ ptr' = [ptr EXCEPT !.field = id, !.scalar = IF scalar THEN id ELSE NoId]
             /\ fieldBox' = b
             /\ box' = newBox
             /\ ndim' = IF box = {} THEN (IF deep THEN 3 ELSE 2) ELSE ndim
             /\ IF fieldBox = b THEN UNCHANGED <<camera, frame>> ELSE FitCamera(newBox)

ScalarDrawable(of, range, map) == [Drawable(of) EXCEPT !.range = range, !.map = map]
ColorDrawable(f) == Drawable(<<"color", f>>)

UpdateColorField(f) ==
    /\ InstallField(ColorDrawable(f), f.box, f.deep, FALSE)
    /\ UNCHANGED <<meshVars, objects, color, bar, asked, pick, dev, overlay>>

UpdateScalarField(f) ==
    LET range == IF color.pinned THEN color.range ELSE f.own
    IN  /\ InstallField(ScalarDrawable(<<"scalar", f>>, range, color.map), f.box, f.deep, TRUE)
        /\ bar' = [bar EXCEPT !.range = range]
        /\ UNCHANGED <<meshVars, objects, color, asked, pick, dev, overlay>>

SetColormap(map) ==
    /\ color' = [color EXCEPT !.map = map]
    /\ bar' = [bar EXCEPT !.map = map]
    /\ scene' = IF ptr.scalar = NoId THEN scene ELSE [scene EXCEPT ![ptr.scalar].map = map]
    /\ UNCHANGED <<meshVars, ptr, objects, fieldBox, asked, viewVars, pick, dev, overlay>>

SetScalarRange(r) ==
    /\ color' = [color EXCEPT !.pinned = TRUE, !.range = r]
    /\ bar' = [bar EXCEPT !.range = r]
    /\ scene' = IF ptr.scalar = NoId THEN scene ELSE [scene EXCEPT ![ptr.scalar].range = r]
    /\ asked' = TRUE
    /\ UNCHANGED <<meshVars, ptr, objects, fieldBox, viewVars, pick, dev, overlay>>

ShowOverlay(o, on) ==
    /\ overlay' = [overlay EXCEPT ![o].visible = on]
    /\ UNCHANGED <<meshVars, viewVars, colorVars, drawVars, pick, dev>>

\* The box of the triangles that collectSurfaceScalars() makes of the mesh: its
\* cells in 2D, its boundary faces in 3D.
Surface(m) == IF Categories[m] = 0 THEN {} ELSE Bounds[m]

\* Colour the surface of the mesh: both kinds install a scalar field and show
\* the bar with the same range and colours.
InstallSurfaceField(of, r, map, pinned) ==
    /\ mesh # NoMesh
    /\ Surface(mesh) # {}
    /\ InstallField(ScalarDrawable(<<of, mesh>>, r, map), Surface(mesh), NDim[mesh] = 3, TRUE)
    /\ color' = [map |-> map, pinned |-> pinned, range |-> r]
    /\ bar' = [map |-> map, range |-> r]
    /\ overlay' = [overlay EXCEPT !["bar"].visible = TRUE]
    /\ UNCHANGED <<meshVars, objects, asked, pick, dev>>

\* One colour per category, the range pinned to the number of them.
InstallCategoryField(n) ==
    InstallSurfaceField("category", <<0, IF n > 1 THEN n - 1 ELSE 1>>, "categorical", TRUE)

\* A metric is continuous: the field takes the range of its values.
InstallMetricField(r) ==
    LET map == IF color.map = "categorical" THEN "viridis" ELSE color.map
    IN  InstallSurfaceField("metric", r, map, FALSE)

\* colorByCellType(), colorByCellGroup() and colorByBoundary().
ColorByCategory == mesh # NoMesh /\ InstallCategoryField(Categories[mesh])

\* colorByQuality(), r the range of the metric over the cells.
ColorByQuality(r) == mesh # NoMesh /\ InstallMetricField(r)

ClearCellColoring ==
    /\ scene' = RemoveDrawables(scene, {ptr.field})
    /\ ptr' = [ptr EXCEPT !.field = NoId, !.scalar = NoId]
    /\ fieldBox' = {}
    /\ color' = [color EXCEPT !.pinned = FALSE]
    /\ overlay' = [overlay EXCEPT !["bar"].visible = FALSE]
    /\ UNCHANGED <<meshVars, objects, bar, asked, viewVars, pick, dev>>

-----------------------------------------------------------------------------
(* Picks, measurements, filters and the cube axes: each keeps one drawable *)
(* behind one pointer.                                                     *)

\* Drop what the pointer p shows, and show a new drawable when there is one.
Replace(p, has, of) ==
    LET rest == RemoveDrawables(scene, {ptr[p]})
        id == NewId(rest, p)
    IN  /\ scene' = IF has THEN With(rest, id, Drawable(of)) ELSE rest
        /\ ptr' = [ptr EXCEPT ![p] = IF has THEN id ELSE NoId]

\* Only a cell is highlighted.
SetSelection(kind, id) ==
    /\ Replace("selection", kind = "cell", <<mesh, id>>)
    /\ pick' = [has |-> TRUE, kind |-> kind, id |-> id, of |-> mesh]
    /\ UNCHANGED <<meshVars, objects, colorVars, viewVars, dev, overlay>>

\* A pick that hits; one that misses, or has no mesh, keeps the selection.
PickCell(id) == mesh # NoMesh /\ Surface(mesh) # {} /\ SetSelection("cell", id)
PickNode(id) == mesh # NoMesh /\ Bounds[mesh] # {} /\ SetSelection("node", id)
PickFace(id) ==
    /\ mesh # NoMesh /\ NDim[mesh] = 3 /\ Surface(mesh) # {}
    /\ SetSelection("face", id)

ClearSelection ==
    /\ Replace("selection", FALSE, <<>>)
    /\ pick' = [pick EXCEPT !.has = FALSE, !.kind = "none", !.id = -1]
    /\ UNCHANGED <<meshVars, objects, colorVars, viewVars, dev, overlay>>

\* measureDistance(), measureAngle() and clearMeasurements().
Measure(on) ==
    /\ Replace("ruler", on, <<"points">>)
    /\ UNCHANGED <<meshVars, objects, colorVars, viewVars, pick, dev, overlay>>

\* hit says whether the plane left anything of the mesh to draw.
AddFilter(p, hit) ==
    /\ Replace(p, hit /\ mesh # NoMesh /\ Bounds[mesh] # {}, <<mesh>>)
    /\ UNCHANGED <<meshVars, objects, colorVars, viewVars, pick, dev, overlay>>

AddClip(hit) == AddFilter("clip", hit)
AddSlice(hit) == AddFilter("slice", hit)

ClearFilters ==
    /\ scene' = RemoveDrawables(scene, {ptr.clip, ptr.slice})
    /\ ptr' = [ptr EXCEPT !.clip = NoId, !.slice = NoId]
    /\ UNCHANGED <<meshVars, objects, colorVars, viewVars, pick, dev, overlay>>

ShowCubeAxes(on) ==
    /\ Replace("axes", on /\ box # {}, <<box>>)
    /\ UNCHANGED <<meshVars, objects, colorVars, viewVars, pick, dev, overlay>>

-----------------------------------------------------------------------------
(* The camera.                                                             *)

\* fitCameraToScene() and resetCamera().
FitScene ==
    /\ FitCamera(box)
    /\ UNCHANGED <<meshVars, box, ndim, colorVars, drawVars, pick, dev, overlay>>

\* zoomToSelection() and frameSelected().
ZoomToSelection ==
    /\ IF pick.has
       THEN /\ frame' = <<pick.of, pick.kind, pick.id>>
            /\ camera' = [camera EXCEPT !.view = [by |-> "frame", of |-> frame']]
       ELSE FitCamera(box)
    /\ UNCHANGED <<meshVars, box, ndim, colorVars, drawVars, pick, dev, overlay>>

\* setView(): the eye moves to see the whole box; a zoomed-in frame stays.
SetView ==
    /\ box # {}
    /\ camera' = [camera EXCEPT !.view = [by |-> "preset", of |-> box]]
    /\ UNCHANGED <<meshVars, box, ndim, frame, colorVars, drawVars, pick, dev, overlay>>

\* rotateCamera(), panCamera(), zoomCamera(), setCameraPosition(), ...
Navigate ==
    /\ camera' = [camera EXCEPT !.view = [by |-> "user", of |-> {}]]
    /\ UNCHANGED <<meshVars, box, ndim, frame, colorVars, drawVars, pick, dev, overlay>>

SetCameraMode(mode) ==
    /\ camera' = [camera EXCEPT !.mode = mode]
    /\ UNCHANGED <<meshVars, box, ndim, frame, colorVars, drawVars, pick, dev, overlay>>

-----------------------------------------------------------------------------
(* The device.  Qt calls initialize() with the device it renders to before *)
(* the first render() on it, and releaseResources() when it goes away.     *)

Released(sc) == [i \in DOMAIN sc |-> [sc[i] EXCEPT !.built = NoDevice]]

Initialize(d) ==
    /\ d # dev
    /\ dev' = d
    /\ scene' = Released(scene)
    /\ overlay' = [o \in Overlays |->
                      IF o = "title" THEN overlay[o] ELSE [overlay[o] EXCEPT !.built = NoDevice]]
    /\ UNCHANGED <<meshVars, ptr, objects, colorVars, viewVars, pick>>

\* A drawable of a mesh of no node has nothing to build.
Empty(i) == i[1] \in StyleNames \cup {"object"} /\ Bounds[scene[i].of[1]] = {}

Prepared(i) ==
    IF scene[i].built # NoDevice \/ Empty(i) THEN scene[i] ELSE [scene[i] EXCEPT !.built = dev]

\* An overlay that is hidden builds nothing, and keeps what it had built.
UpdatedOverlay(o) ==
    IF overlay[o].visible /\ overlay[o].built = NoDevice
    THEN [overlay[o] EXCEPT !.built = dev] ELSE overlay[o]

Render ==
    /\ dev # NoDevice
    /\ scene' = [i \in DOMAIN scene |-> Prepared(i)]
    /\ overlay' = [o \in Overlays |-> UpdatedOverlay(o)]
    /\ UNCHANGED <<meshVars, ptr, objects, colorVars, viewVars, pick, dev>>

ReleaseResources ==
    /\ dev' = NoDevice
    /\ scene' = Released(scene)
    /\ overlay' = [o \in Overlays |-> [overlay[o] EXCEPT !.built = NoDevice]]
    /\ UNCHANGED <<meshVars, ptr, objects, colorVars, viewVars, pick>>

-----------------------------------------------------------------------------
MeshCalls ==
    \/ \E on \in BOOLEAN : ShowMesh(on) \/ ShowNormals(on) \/ ShowFeatureEdges(on)
    \/ \E s \in StyleNames, on \in BOOLEAN : ShowMeshStyle(s, on)
    \/ \E k \in Scales : SetNormalScale(k)
    \/ \E s \in UNION {Sets[m] : m \in Meshes}, on \in BOOLEAN : ShowBoundary(s, on)

FieldCalls ==
    \/ \E f \in Fields : UpdateColorField(f) \/ UpdateScalarField(f)
    \/ \E r \in Ranges : SetScalarRange(r) \/ ColorByQuality(r)
    \/ \E map \in Colormaps : SetColormap(map)
    \/ ColorByCategory
    \/ ClearCellColoring

ObjectCalls ==
    \E name \in Names :
        \/ \E m \in Meshes : AddObject(name, m)
        \/ \E t \in Shifts : SetObjectTransform(name, t)
        \/ \E on \in BOOLEAN : SetObjectVisible(name, on)

PickCalls ==
    \/ \E id \in Ids : PickCell(id) \/ PickNode(id) \/ PickFace(id)
    \/ ClearSelection
    \/ ZoomToSelection

FilterCalls ==
    \/ \E on \in BOOLEAN : Measure(on) \/ ShowCubeAxes(on)
    \/ \E hit \in BOOLEAN : AddClip(hit) \/ AddSlice(hit)
    \/ ClearFilters

CameraCalls ==
    \/ FitScene \/ SetView \/ Navigate
    \/ \E mode \in {"pan", "orbit", "fps"} : SetCameraMode(mode)

DeviceCalls ==
    \/ \E d \in Devices : Initialize(d)
    \/ Render
    \/ ReleaseResources
    \/ \E o \in Overlays, on \in BOOLEAN : ShowOverlay(o, on)

Next ==
    \/ \E m \in Meshes : UpdateMesh(m)
    \/ MeshCalls \/ FieldCalls \/ ObjectCalls \/ PickCalls \/ FilterCalls
    \/ CameraCalls \/ DeviceCalls

Spec == Init /\ [][Next]_vars

-----------------------------------------------------------------------------
\* Type correctness of the widget's members.
TypeOK ==
    /\ mesh \in Meshes \cup {NoMesh} /\ styles \subseteq StyleNames /\ shown \in BOOLEAN
    /\ normals \in [on : BOOLEAN, scale : Scales]
    /\ \A i \in DOMAIN scene : /\ scene[i].visible \in BOOLEAN
                            /\ scene[i].built \in Devices \cup {NoDevice}
    /\ DOMAIN ptr = Pointers
    /\ DOMAIN objects \subseteq Names
    /\ color \in [map : Colormaps \cup {"categorical"}, pinned : BOOLEAN, range : Int \X Int]
    /\ bar \in [map : Colormaps \cup {"categorical"}, range : Int \X Int]
    /\ fieldBox \subseteq Axis /\ box \subseteq Axis /\ ndim \in {0, 2, 3}
    /\ camera.mode \in {"orbit", "pan", "fps"}
    /\ camera.view.by \in {"default", "fit", "frame", "preset", "user"}
    /\ pick.has \in BOOLEAN /\ pick.kind \in {"none", "cell", "node", "face"}
    /\ dev \in Devices \cup {NoDevice}
    /\ overlay \in [Overlays -> [visible : BOOLEAN, built : Devices \cup {NoDevice}]]

Kept == {objects[n].drawable : n \in DOMAIN objects}

\* The widget's raw pointers and the scene that owns the drawables agree: no
\* pointer outlives its drawable (removeDrawable() without the null), no
\* drawable is left in the scene that nothing can remove (a null without
\* removeDrawable()), and none is behind two names.  Highlights found by their
\* type stay single.
PointersOwn ==
    /\ \A p \in Pointers : ptr[p] # NoId => ptr[p] \in DOMAIN scene
    /\ \A n \in DOMAIN objects : /\ objects[n].drawable \in DOMAIN scene
                                 /\ scene[objects[n].drawable].of = <<objects[n].mesh>>
    /\ \A m, n \in DOMAIN objects : objects[m].drawable = objects[n].drawable => m = n
    /\ \A i \in DOMAIN scene :
          CASE i[1] = "object" -> i \in Kept
            [] i[1] \in {"normals", "edges"} -> \A j \in DOMAIN scene : j[1] = i[1] => i = j
            [] i[1] = "boundary" -> \A j \in DOMAIN scene :
                   j[1] = "boundary" /\ scene[j].of[2] = scene[i].of[2] => i = j
            [] OTHER -> ptr[i[1]] = i

\* What the scene draws of the mesh is the mesh the widget holds, in the styles
\* its flags name: the flags survive a new mesh, which brings new drawables.
StylesFollowMesh ==
    \A s \in StyleNames :
        IF mesh = NoMesh THEN ptr[s] = NoId
        ELSE /\ ptr[s] # NoId
             /\ scene[ptr[s]].of = <<mesh>>
             /\ scene[ptr[s]].visible = (shown /\ s \in styles)

\* The normals overlay is on exactly when it was asked for, over the mesh the
\* widget holds and at the scale last set, whatever order the calls came in.
NormalsFollowMesh ==
    {scene[i].of : i \in OfKind(scene, "normals")} =
        IF normals.on /\ mesh # NoMesh /\ Bounds[mesh] # {}
        THEN {<<mesh, normals.scale>>} ELSE {}

\* The legend tells the truth of the field on screen: while a scalar field is
\* drawn, the bar carries the range and the colours the field is drawn with,
\* and a pinned range is the one in use.  m_scalar_field is m_field or null.
LegendMatchesField ==
    ptr.scalar # NoId =>
        /\ ptr.scalar = ptr.field
        /\ scene[ptr.scalar].range = bar.range
        /\ scene[ptr.scalar].map = bar.map
        /\ color.map = bar.map
        /\ color.pinned => color.range = bar.range

\* What is drawn is inside the box the camera is fitted to: the mesh, and a
\* field installed before it, whose own box updateMesh() must not forget.
FieldInView ==
    /\ (fieldBox # {}) = (ptr.field # NoId)
    /\ fieldBox \subseteq box
    /\ mesh # NoMesh => Bounds[mesh] \subseteq box

\* A field decides between the 2D and the 3D view only where no mesh did:
\* installField() infers the dimension while the scene has no box.
DimensionIsDomains ==
    mesh # NoMesh /\ Bounds[mesh] # {} /\ objects = <<>> => ndim = NDim[mesh]

\* A field recoloured over the same geometry, and a mesh that spans the framed
\* box, leave the user's pan and zoom alone.
KeepsView ==
    [][ \/ /\ ptr.field # NoId /\ ptr'.field # NoId
           /\ scene'[ptr'.field].of # scene[ptr.field].of
           /\ fieldBox' = fieldBox
        \/ mesh' # mesh /\ box # {} /\ box' = box
        => camera'.view = camera.view /\ frame' = frame ]_vars

\* The highlight shows the selection: a drawable behind m_selection is the cell
\* that was recorded, and dropping the selection, or picking a node after a
\* cell, takes it off the screen.
SelectionShown ==
    /\ (ptr.selection # NoId) = (pick.has /\ pick.kind = "cell")
    /\ ptr.selection # NoId => scene[ptr.selection].of = <<pick.of, pick.id>>

\* Nothing is drawn with resources of another device: what is built, the title
\* apart, is built for the device the widget renders to.
BuiltForDevice ==
    /\ \A i \in DOMAIN scene : scene[i].built \in {NoDevice, dev}
    /\ \A o \in Overlays \ {"title"} : overlay[o].built \in {NoDevice, dev}

\* What is in the scene is what the members of the widget, kept beside it call
\* by call, say of it: the drawables of the mesh, its styles, its normals, the
\* selection, the field with its legend, its box and the dimension it was given,
\* and what is built for the device.
SceneInStep ==
    /\ TypeOK
    /\ PointersOwn
    /\ StylesFollowMesh /\ NormalsFollowMesh
    /\ SelectionShown
    /\ LegendMatchesField /\ FieldInView /\ DimensionIsDomains
    /\ BuiltForDevice
=============================================================================
