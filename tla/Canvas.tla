------------------------------- MODULE Canvas --------------------------------
(* The 2D canvas (cpp/solvcon/pilot/canvas/R2DWidget.cpp) over the World it  *)
(* shows: the draw tool, the selection, the node-edit mode and the mouse     *)
(* drags, with the others that reach the same world between two events of a  *)
(* drag: the Edit menu, scripts and the agent, and the Painter panel's       *)
(* Design and Layers pages (solvcon/pilot/painter).                          *)
(*                                                                           *)
(* Where the pointer is appears as what is under it: a node or a handle of   *)
(* the path in node-edit mode, the rotate knob, a live shape, or nothing.    *)
(* The view transform, the colours, the cursor and what is painted are left  *)
(* out.  A path is one piece: its first two points are the ends, its nodes,  *)
(* and a further point is the handle that rides with the end in its place.   *)
EXTENDS World

CONSTANTS Stroke,     \* the form a draw tool commits
          Scripted,   \* the form that a script adds as a world's n-th shape
          Nudges      \* displacements of a move that is no drag

ASSUME CanvasFormsAssumption ==
    /\ Stroke \in Forms /\ Scripted \in [1..MaxShapes -> Forms] /\ Stroke.type # "path"
    /\ Nudges \subseteq Steps /\ MaxShapes \in Nat

(* A shape has a segment or a curve: it has both its end points. *)
ASSUME EndsAssumption == \A f \in Forms : Len(f.points) >= 2

VARIABLES world,      \* whether m_world is set
          tool,       \* m_tool: "select", or "shape" for the tools that draw
          held,       \* whether the left button is down
          drawing,    \* m_drawing
          selected,   \* m_selected, 0 for -1
          editing,    \* m_editing, 0 for -1
          editNodes,  \* m_edit_nodes
          editHandle, \* m_edit_handle, 0 for none
          dragging,   \* m_edit_dragging_points
          drag,       \* m_drag
          pivot,      \* m_rotate_cx, m_rotate_cy
          abandoned,  \* whether a world was let go with its compound open
          gesture,    \* history: the edit drag under way
          stale       \* history: the world was cleared under the node-edit mode

nodeVars == <<editNodes, editHandle, dragging, stale>>
restVars == <<tool, held, drawing, selected, editing, editNodes, editHandle, dragging, drag, pivot>>
canvasVars == <<restVars, stale>>
allVars == <<vars, canvasVars, world, abandoned, gesture>>

EditDrags == {"Move", "Rotate", "Node", "Handle"}
NoGesture == [id |-> 0, alone |-> FALSE, depth |-> 0, start |-> {}]

CanDrawShape == tool = "shape"

(* isEditable, editingShape *)
IsEditable(id) == world /\ IsLive(id) /\ registry[id].type = "path"
EditingShape == IF IsEditable(editing) THEN editing ELSE 0

Points(id) == registry[id].points
Nodes(id) == {1, 2}
Handles(id) == DOMAIN Points(id) \ Nodes(id)

CanvasInit ==
    /\ Init
    /\ world = FALSE
    /\ tool = "select" /\ held = FALSE /\ drawing = FALSE
    /\ selected = 0 /\ editing = 0
    /\ editNodes = {} /\ editHandle = 0 /\ dragging = {}
    /\ drag = "None" /\ pivot = <<0, 0>>
    /\ abandoned = FALSE /\ gesture = NoGesture /\ stale = FALSE

-----------------------------------------------------------------------------
(* What the handlers share. *)

(* Mutant: the drags of node-edit mode are forgotten. *)
FinishEditOldDrags == IF world /\ drag \in {"Move", "Rotate"} /\ inOperation
                      THEN EndOperation ELSE UNCHANGED vars

(* finishEdit: an edit drag leaves its compound closed. *)
FinishEdit == IF world /\ drag \in EditDrags /\ inOperation
              THEN EndOperation ELSE UNCHANGED vars

(* endEditDrag *)
EndEditDrag == FinishEdit /\ drag' = "None" /\ gesture' = NoGesture

ClearNodeSelection == editNodes' = {} /\ editHandle' = 0 /\ dragging' = {} /\ stale' = FALSE

(* Mutant: the drag is not bracketed. *)
BeginDragUnbracketed(kind, id) ==
    /\ UNCHANGED vars
    /\ drag' = kind
    /\ gesture' = [id |-> id, alone |-> TRUE, depth |-> Len(undoStack),
                   start |-> Picture(registry)]

(* begin_operation at a press on shape id, which the drag will edit. *)
BeginDrag(kind, id) ==
    /\ BeginOperation
    /\ drag' = kind
    /\ gesture' = [id |-> id, alone |-> TRUE, depth |-> Len(undoStack'),
                   start |-> Picture(registry)]

-----------------------------------------------------------------------------
(* The calls. *)

(* setDrawTool: another tool starts with nothing selected and no drag. *)
SetDrawTool(t) ==
    /\ t # tool
    /\ tool' = t
    /\ EndEditDrag
    /\ drawing' = FALSE
    /\ selected' = 0 /\ editing' = 0
    /\ ClearNodeSelection
    /\ UNCHANGED <<world, held, pivot, abandoned>>

(* setSelectedShape *)
SetSelectedShape(id) ==
    /\ ~CanDrawShape
    /\ id # 0 => world /\ IsLive(id)
    /\ id # selected
    /\ EndEditDrag
    /\ selected' = id /\ editing' = 0
    /\ ClearNodeSelection
    /\ UNCHANGED <<world, tool, held, drawing, pivot, abandoned>>

(* Mutant: the mode takes the selected nodes of one path to the next. *)
ModeKeepsNodes(id) ==
    /\ id # 0 => ~CanDrawShape /\ IsEditable(id)
    /\ EndEditDrag
    /\ selected' = IF id = 0 THEN selected ELSE id
    /\ editing' = id
    /\ UNCHANGED <<world, tool, drawing, nodeVars, pivot, abandoned>>

(* setEditingShape: enters the mode on a live path, or leaves it. *)
Mode(id) ==
    /\ id # 0 => ~CanDrawShape /\ IsEditable(id)
    /\ EndEditDrag
    /\ selected' = IF id = 0 THEN selected ELSE id
    /\ editing' = id
    /\ ClearNodeSelection
    /\ UNCHANGED <<world, tool, drawing, pivot, abandoned>>

SetEditingShape(id) == Mode(id) /\ UNCHANGED held

(* The world takes its first state, as a new one has it. *)
FreshWorld ==
    /\ registry' = <<>> /\ bare' = FALSE
    /\ index' = {} /\ nshape' = 0 /\ stamp' = 0
    /\ undoStack' = <<>> /\ redoStack' = <<>>
    /\ inOperation' = FALSE /\ open' = NoRecord

LeftOpen == inOperation /\ ~(world /\ drag \in EditDrags)

(* updateWorld: the drag is finished on the world that goes; a stroke under  *)
(* way is not.  The same world may come back.                                *)
UpdateWorld(kind) ==
    /\ CASE kind = "same" -> FinishEdit /\ UNCHANGED <<world, abandoned>>
         [] kind = "new"  -> /\ world' = TRUE
                             /\ FreshWorld
                             /\ abandoned' = (abandoned \/ LeftOpen)
    /\ drag' = "None" /\ gesture' = NoGesture
    /\ selected' = 0 /\ editing' = 0
    /\ ClearNodeSelection
    /\ UNCHANGED <<tool, held, drawing, pivot>>

-----------------------------------------------------------------------------
(* The mouse and the keys. *)

(* mousePressEvent with a tool that draws. *)
PressToDraw ==
    /\ ~held /\ held' = TRUE
    /\ CanDrawShape
    /\ drawing' = TRUE
    /\ UNCHANGED <<vars, world, tool, selected, editing, nodeVars, drag, pivot,
                   abandoned, gesture>>

IsNodeSelected(id, nodes, i) == \E n \in nodes : Points(id)[n] = Points(id)[i]

(* expandSelectedNodes: every end at a selected node, and its handle. *)
ExpandSelectedNodes(id, nodes) ==
    LET ends == {i \in Nodes(id) : IsNodeSelected(id, nodes, i)}
    IN  ends \cup {h \in Handles(id) : h - 2 \in ends}

(* pressNodeEdit on a node: alone, added to the group, or with the group. *)
PressNode(n, shift) ==
    LET id == EditingShape
        chosen == IsNodeSelected(id, editNodes, n)
        nodes == CASE shift             -> editNodes \cup {n}
                   [] ~shift /\ chosen  -> editNodes
                   [] ~shift /\ ~chosen -> {n}
    IN  /\ ~held /\ held' = TRUE
        /\ ~CanDrawShape /\ id # 0 /\ n \in Nodes(id)
        /\ ~(shift /\ chosen)
        /\ editNodes' = nodes /\ editHandle' = 0
        /\ dragging' = ExpandSelectedNodes(id, nodes)
        /\ BeginDrag("Node", id)
        /\ UNCHANGED <<world, tool, drawing, selected, editing, pivot, stale, abandoned>>

(* Shift and a press on a selected node drops it; no drag follows. *)
DropNode(n) ==
    LET id == EditingShape
    IN  /\ ~held /\ held' = TRUE
        /\ ~CanDrawShape /\ id # 0 /\ n \in Nodes(id)
        /\ IsNodeSelected(id, editNodes, n)
        /\ editNodes' = {k \in editNodes : Points(id)[k] # Points(id)[n]}
        /\ editHandle' = 0
        /\ UNCHANGED <<vars, world, tool, drawing, selected, editing, dragging, drag,
                       pivot, stale, abandoned, gesture>>

PressHandle(h) ==
    LET id == EditingShape
    IN  /\ ~held /\ held' = TRUE
        /\ ~CanDrawShape /\ id # 0 /\ h \in Handles(id)
        /\ editNodes' = {} /\ editHandle' = h /\ dragging' = {h}
        /\ BeginDrag("Handle", id)
        /\ UNCHANGED <<world, tool, drawing, selected, editing, pivot, stale, abandoned>>

(* A press elsewhere on the path in node-edit mode. *)
PressPath ==
    /\ ~held /\ held' = TRUE
    /\ ~CanDrawShape /\ EditingShape # 0
    /\ ClearNodeSelection
    /\ UNCHANGED <<vars, world, tool, drawing, selected, editing, drag, pivot,
                   abandoned, gesture>>

(* A press off the path leaves the mode and goes on as usual. *)
LeaveMode == IF EditingShape # 0 THEN editing' = 0 /\ ClearNodeSelection
                                 ELSE UNCHANGED <<editing, nodeVars>>

Pressed == /\ ~held /\ held' = TRUE
           /\ ~CanDrawShape
           /\ LeaveMode
           /\ UNCHANGED <<world, tool, drawing, abandoned>>

(* selectionCenterWorld, taken where it is a point of the grid. *)
Middle(obb) == Plus(obb[1], obb[3])
OnGrid(p) == p[1] % 2 = 0 /\ p[2] % 2 = 0

PressKnob == /\ Pressed
             /\ world /\ IsLive(selected)
             /\ OnGrid(Middle(registry[selected].obb))
             /\ pivot' = <<Middle(registry[selected].obb)[1] \div 2,
                           Middle(registry[selected].obb)[2] \div 2>>
             /\ BeginDrag("Rotate", selected)
             /\ UNCHANGED selected

PressShape(id) == /\ Pressed
                  /\ world /\ IsLive(id) /\ id # EditingShape
                  /\ selected' = id
                  /\ BeginDrag("Move", id)
                  /\ UNCHANGED pivot

PressEmpty == /\ Pressed
              /\ selected' = 0
              /\ drag' = "View"
              /\ UNCHANGED <<vars, pivot, gesture>>

(* mouseMoveEvent: the step of the drag, if what it edits is still there. *)
MouseMove ==
    /\ held
    /\ \/ /\ drag = "Move" /\ world /\ IsLive(selected)
          /\ \E d \in Steps : TranslateShape(selected, d)
       \/ /\ drag = "Rotate" /\ world /\ IsLive(selected)
          /\ \E angle \in Turns : RotateShape(selected, angle, pivot)
       \/ /\ drag \in {"Node", "Handle"} /\ EditingShape # 0
          /\ \E d \in Steps : MoveShapePoints(editing, SetToSeq(dragging), d)
    /\ UNCHANGED <<canvasVars, world, abandoned, gesture>>

(* mouseReleaseEvent: a stroke of two pixels or more becomes a shape. *)
MouseRelease ==
    /\ held /\ held' = FALSE
    /\ IF drawing
       THEN /\ drawing' = FALSE
            /\ \/ world /\ AddShape(Stroke)
               \/ UNCHANGED vars
            /\ UNCHANGED <<drag, gesture>>
       ELSE EndEditDrag /\ UNCHANGED drawing
    /\ UNCHANGED <<world, tool, selected, editing, nodeVars, pivot, abandoned>>

(* mouseDoubleClickEvent: enters the mode on a path; on the path already in  *)
(* it nothing happens, and elsewhere Qt makes a press of it.                 *)
DoubleClick ==
    /\ ~held /\ held' = TRUE
    /\ ~CanDrawShape
    /\ \/ /\ EditingShape # 0
          /\ UNCHANGED <<vars, world, tool, drawing, selected, editing, nodeVars, drag,
                         pivot, abandoned, gesture>>
       \/ \E id \in Live \ {EditingShape} : Mode(id)

(* keyPressEvent *)
PressEnter == ~CanDrawShape /\ IsEditable(selected) /\ SetEditingShape(selected)
PressEscape == EditingShape # 0 /\ SetEditingShape(0)

-----------------------------------------------------------------------------
(* The others. *)

Disturbed == IF gesture = NoGesture THEN gesture ELSE [gesture EXCEPT !.alone = FALSE]

(* A script, the agent's commands and the Edit menu. *)
Outside ==
    /\ world
    /\ \/ /\ \/ Len(registry) < MaxShapes /\ AddShape(Scripted[Len(registry) + 1])
             \/ \E id \in Live, d \in Nudges : TranslateShape(id, d)
             \/ \E id \in Live : RemoveShape(id)
             \/ Undo
             \/ Redo
          /\ UNCHANGED stale
       \/ Clear /\ stale' = (editing # 0)
    /\ gesture' = Disturbed
    /\ UNCHANGED <<restVars, world, abandoned>>

(* The undo history with the compound that was left open closed. *)
Closed == IF inOperation /\ HasOpen THEN Committed(open).undo ELSE undoStack

(* DesignPage._on_committed: a compound of its own around one move, which    *)
(* may be by nothing.                                                        *)
DesignMove ==
    /\ world /\ IsLive(selected) /\ Room
    /\ \E d \in Nudges :
          LET rec == [NoRecord EXCEPT !.op = "translate", !.id = selected, !.d = d]
          IN  \/ IsNoop(rec) /\ FinishOpen /\ UNCHANGED scene
              \/ /\ ~IsNoop(rec)
                 /\ InReach(Edited(registry[selected], rec).points)
                 /\ Apply(rec)
                 /\ undoStack' = Append(Closed, rec) /\ redoStack' = <<>>
    /\ inOperation' = FALSE /\ open' = NoRecord
    /\ gesture' = Disturbed
    /\ UNCHANGED <<canvasVars, world, abandoned>>

(* PainterPanel._on_picked: a row of the Layers page arms the select tool    *)
(* and selects its shape.  The list polls and may lag: a row of another      *)
(* world or of a dead shape only refreshes the page.                         *)
RowPicked(id) ==
    /\ world /\ IsLive(id)
    /\ CanDrawShape \/ id # selected
    /\ EndEditDrag
    /\ tool' = "select"
    /\ drawing' = (drawing /\ ~CanDrawShape)
    /\ selected' = id /\ editing' = 0
    /\ ClearNodeSelection
    /\ UNCHANGED <<world, held, pivot, abandoned>>

-----------------------------------------------------------------------------
CanvasNext ==
    \/ \E t \in {"select", "shape"} : SetDrawTool(t)
    \/ \E id \in {0} \cup Live : SetSelectedShape(id)
    \/ \E id \in {0} \cup Live : SetEditingShape(id)
    \/ \E kind \in {"same", "new"} : UpdateWorld(kind)
    \/ PressToDraw
    \/ \E n \in 1..2, shift \in BOOLEAN : PressNode(n, shift)
    \/ \E n \in 1..2 : DropNode(n)
    \/ \E h \in 3..4 : PressHandle(h)
    \/ PressPath
    \/ PressKnob
    \/ \E id \in Live : PressShape(id)
    \/ PressEmpty
    \/ MouseMove
    \/ MouseRelease
    \/ DoubleClick
    \/ PressEnter
    \/ PressEscape
    \/ Outside
    \/ DesignMove
    \/ \E id \in Live : RowPicked(id)

CanvasSpec == CanvasInit /\ [][CanvasNext]_allVars

-----------------------------------------------------------------------------
(* Every variable has its type. *)
CanvasTypeOK ==
    /\ TypeOK
    /\ world \in BOOLEAN /\ stale \in BOOLEAN
    /\ tool \in {"select", "shape"}
    /\ held \in BOOLEAN /\ drawing \in BOOLEAN /\ abandoned \in BOOLEAN
    /\ selected \in Nat /\ editing \in Nat
    /\ editNodes \subseteq Nat /\ editHandle \in Nat /\ dragging \subseteq Nat
    /\ drag \in EditDrags \cup {"None", "View"} /\ pivot \in Places

(* World refuses undo and redo while a compound is open, so one that outlives *)
(* its drag would disable both: whichever call, key, tool or world cuts a    *)
(* drag short, nothing but an edit drag under way holds a compound open.     *)
NoCompoundLeft == /\ inOperation => drag \in EditDrags
                  /\ ~abandoned

OneStep ==
    IF Len(undoStack') = gesture.depth
    THEN Picture(registry') = gesture.start
    ELSE /\ Len(undoStack') = gesture.depth + 1
         /\ Picture(Undone(registry', Last(undoStack'))) = gesture.start

(* R2DWidget.cpp:680, 832, 843 "so its incremental steps undo as one": a     *)
(* drag that nobody else disturbs is one undo step, which leads back to the  *)
(* picture at the press, or none when it came back to it by itself; and it   *)
(* edits the shape that was under the press and no other, whatever becomes   *)
(* of the selection and the mode before the release.                         *)
GestureIsOneStep ==
    [][gesture.alone =>
        /\ gesture' = NoGesture /\ gesture.id \in DOMAIN registry' => OneStep
        /\ gesture' = gesture =>
              \A id \in DOMAIN registry \ {gesture.id} : registry'[id] = registry[id]]_allVars

(* R2DWidget.cpp:156-157: a draw tool paints no selection, so none may be    *)
(* left to answer the mouse; and a stroke is under way only with a draw tool. *)
DrawToolHoldsNothing ==
    /\ CanDrawShape => selected = 0 /\ editing = 0 /\ drag = "None" /\ editNodes = {}
    /\ drawing => CanDrawShape /\ held
    /\ drag # "None" => held

(* The selected nodes and the handle, kept as places in the path's pieces,   *)
(* are places the path in the mode has, at most one kind of them; a place    *)
(* beyond them would throw out of the paint event.  A cleared world is the   *)
(* exception: it gives the ids of its paths to others.                       *)
NodesOnPath ==
    EditingShape # 0 /\ ~stale =>
        /\ editNodes \subseteq Nodes(editing)
        /\ editHandle \in {0} \cup Handles(editing)
        /\ editNodes = {} \/ editHandle = 0
        /\ drag \in {"Node", "Handle"} => dragging # {} /\ dragging \subseteq DOMAIN Points(editing)

(* The modes of the canvas agree with each other, with the mouse and with    *)
(* the drawing they point into.                                              *)
ModesInStep == CanvasTypeOK /\ NoCompoundLeft /\ DrawToolHoldsNothing /\ NodesOnPath
=============================================================================
