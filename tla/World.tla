------------------------------- MODULE World --------------------------------
(* World (cpp/solvcon/universe/World.hpp): the shapes of a canvas, the       *)
(* spatial index over them, and the undo and redo histories.                 *)
(*                                                                           *)
(* A shape keeps its control points, in the pads of segments and curves, and *)
(* an oriented box.  A removed shape stays in the registry as "dead" with    *)
(* its points in place.  A change is recorded by what it did, never by a     *)
(* copy of the shape: undo applies the inverse of the record to whatever the *)
(* shape has become.  Between begin_operation and end_operation the records  *)
(* of one gesture are merged into one.                                       *)
(*                                                                           *)
(* Coordinates are integers and rotations count quarter turns, so that every *)
(* edit has an exact inverse; a control point that two segments share is one *)
(* point here.  The R-tree is the set of its entries: insert() adds one and  *)
(* remove() takes out the entry with that id and that box, if there is one.  *)
EXTENDS Integers, Sequences, FiniteSets, SequencesExt, FiniteSetsExt

CONSTANTS Forms,      \* [type, points] of the shapes that are added
          Steps,      \* displacements <<dx, dy>> of a move
          Turns,      \* angles of a rotation, in quarter turns
          Pivots,     \* centres of a rotation
          Refs,       \* lists of control points that are moved together
          MaxShapes,  \* bound: shapes ever registered
          MaxUndo,    \* bound: records in the two histories
          Reach,      \* bound: largest coordinate
          MaxTurn     \* bound: quarter turns one gesture adds up to

ASSUME FormsAssumption ==
    \A f \in Forms : f.type # "dead" /\ f.points \in Seq(Int \X Int) /\ f.points # <<>>
ASSUME StepsAssumption ==
    Steps \subseteq Int \X Int /\ Pivots \subseteq Int \X Int /\ Turns \subseteq Int
ASSUME RefsAssumption == Refs \subseteq Seq(Nat)

VARIABLES registry,      \* m_shape_registry with the points of m_segments and m_curves
          bare,          \* whether m_points or the pads hold geometry of no shape
          index,         \* the entries of m_rtree
          nshape,        \* m_nshape
          stamp,         \* m_state_stamp, modulo 2
          undoStack,     \* m_undo_stack
          redoStack,     \* m_redo_stack
          inOperation,   \* m_in_operation
          open           \* m_open_operation, NoRecord unless m_has_open

history == <<undoStack, redoStack, inOperation, open>>
scene == <<registry, bare, index, nshape, stamp>>
vars == <<scene, history>>

-----------------------------------------------------------------------------
(* Plane geometry. *)

Plus(p, d) == <<p[1] + d[1], p[2] + d[2]>>
Minus(p, d) == <<p[1] - d[1], p[2] - d[2]>>
Negated(d) == Minus(<<0, 0>>, d)

QuarterTurn(v) == <<-v[2], v[1]>>

(* p turned about c; a full turn brings it back. *)
Turned(p, angle, c) ==
    LET v == Minus(p, c)
    IN  Plus(c, CASE angle % 4 = 0 -> v
                  [] angle % 4 = 1 -> QuarterTurn(v)
                  [] angle % 4 = 2 -> Negated(v)
                  [] angle % 4 = 3 -> Negated(QuarterTurn(v)))

Along(points, i) == {p[i] : p \in Range(points)}

(* compute_shape_bbox *)
BoundBox(points) == [lo |-> <<Min(Along(points, 1)), Min(Along(points, 2))>>,
                     hi |-> <<Max(Along(points, 1)), Max(Along(points, 2))>>]

(* Corners of a box in the order top left, top right, bottom right, bottom left. *)
Corners(b) == <<<<b.lo[1], b.hi[2]>>, b.hi, <<b.hi[1], b.lo[2]>>, b.lo>>

Sign(n) == CASE n > 0 -> 1 [] n = 0 -> 0 [] n < 0 -> -1

(* The unit vector of an axis-parallel v. *)
Unit(v) == <<Sign(v[1]), Sign(v[2])>>

(* The box's x axis: from its top left to its top right corner, from its     *)
(* height when it has no width, and the world's x axis when it has neither.  *)
Axis(obb) ==
    LET width  == Minus(obb[2], obb[1])
        height == Minus(obb[1], obb[4])
    IN  CASE width # <<0, 0>> -> Unit(width)
          [] width = <<0, 0>> /\ height # <<0, 0>> -> Unit(<<height[2], -height[1]>>)
          [] OTHER -> <<1, 0>>

QuarterTurns(axis) == CHOOSE n \in 0..3 : Turned(<<1, 0>>, n, <<0, 0>>) = axis

(* refit_obb: the tight box around the points in the frame of the old box. *)
Refit(points, obb) ==
    LET n == QuarterTurns(Axis(obb))
        inFrame == [i \in DOMAIN points |-> Turned(points[i], -n, <<0, 0>>)]
        box == Corners(BoundBox(inFrame))
    IN  [i \in 1..4 |-> Turned(box[i], n, <<0, 0>>)]

-----------------------------------------------------------------------------
(* What a record does to its shape. *)

NoRecord == [op |-> "create", id |-> 0, type |-> "dead", d |-> <<0, 0>>,
             angle |-> 0, c |-> <<0, 0>>, refs |-> <<>>]

Times(refs, i) == Cardinality({k \in DOMAIN refs : refs[k] = i})

(* The points after the edit.  A point that is listed twice moves twice. *)
NewPoints(points, rec) ==
    CASE rec.op = "translate"  -> [i \in DOMAIN points |-> Plus(points[i], rec.d)]
      [] rec.op = "rotate"     -> [i \in DOMAIN points |-> Turned(points[i], rec.angle, rec.c)]
      [] rec.op = "movePoints" -> [i \in DOMAIN points |->
                                      LET n == Times(rec.refs, i)
                                      IN  Plus(points[i], <<n * rec.d[1], n * rec.d[2]>>)]
      [] OTHER                 -> points

(* The oriented box rides along, or is refitted when single points move. *)
NewBox(s, rec) ==
    CASE rec.op = "translate"  -> [i \in 1..4 |-> Plus(s.obb[i], rec.d)]
      [] rec.op = "rotate"     -> [i \in 1..4 |-> Turned(s.obb[i], rec.angle, rec.c)]
      [] rec.op = "movePoints" -> Refit(NewPoints(s.points, rec), s.obb)
      [] OTHER                 -> s.obb

NewType(type, rec) == CASE rec.op = "create" -> rec.type
                        [] rec.op = "remove" -> "dead"
                        [] OTHER             -> type

(* redo_record *)
Edited(s, rec) == [type |-> NewType(s.type, rec), points |-> NewPoints(s.points, rec),
                   obb |-> NewBox(s, rec)]

(* undo_record does what redo_record would do with the inverse record. *)
InverseOp(op) == CASE op = "create" -> "remove"
                   [] op = "remove" -> "create"
                   [] OTHER         -> op

Inverted(rec) == [rec EXCEPT !.op = InverseOp(rec.op), !.d = Negated(rec.d), !.angle = -rec.angle]

(* is_noop *)
IsNoop(rec) == \/ rec.op \in {"translate", "movePoints"} /\ rec.d = <<0, 0>>
               \/ rec.op = "rotate" /\ rec.angle = 0

IsLive(id) == id \in DOMAIN registry /\ registry[id].type # "dead"
Live == {id \in DOMAIN registry : IsLive(id)}

Entry(id, s) == [id |-> id, bbox |-> BoundBox(s.points)]

(* Mistake: the entry is looked up under the box the shape has after the edit. *)
UnindexedLate(rec, old, new) == IF rec.op = "create" THEN {} ELSE {Entry(rec.id, new)}

(* The entry an edit takes out of the index before it touches the shape. *)
Unindexed(rec, old, new) == IF rec.op = "create" THEN {} ELSE {Entry(rec.id, old)}

(* Mistake: reviving a shape is not marked. *)
MarkedEdits(rec) == IF rec.op = "create" THEN stamp ELSE 1 - stamp

(* mark_changed *)
Marked(rec) == 1 - stamp

(* kill_shape, revive_shape, apply_translate, apply_rotate, translate_points: *)
(* edit the shape, keep the index and the count in step, stamp the change.    *)
Apply(rec) ==
    LET old == registry[rec.id]
        new == Edited(old, rec)
    IN  /\ registry' = [registry EXCEPT ![rec.id] = new]
        /\ index' = (index \ Unindexed(rec, old, new))
                       \cup (IF rec.op = "remove" THEN {} ELSE {Entry(rec.id, new)})
        /\ nshape' = CASE rec.op = "create" -> nshape + 1
                       [] rec.op = "remove" -> nshape - 1
                       [] OTHER             -> nshape
        /\ stamp' = Marked(rec)
        /\ bare' = bare

-----------------------------------------------------------------------------
(* Recording. *)

(* commit_record: the histories after rec is committed. *)
Committed(rec) ==
    IF IsNoop(rec) THEN [undo |-> undoStack, redo |-> redoStack]
                   ELSE [undo |-> Append(undoStack, rec), redo |-> <<>>]

CommitRecord(rec) == /\ undoStack' = Committed(rec).undo
                     /\ redoStack' = Committed(rec).redo

HasOpen == open # NoRecord

(* Mistake: rotations about different pivots are merged. *)
SameGestureAnyPivot(rec) == open.id = rec.id /\ open.op = rec.op /\ open.refs = rec.refs

SameGesture(rec) == /\ open.id = rec.id
                    /\ open.op = rec.op
                    /\ open.c = rec.c
                    /\ open.refs = rec.refs

Merged(rec) == [open EXCEPT !.d = Plus(@, rec.d), !.angle = @ + rec.angle]

(* The bounds on what the user does. *)
Room == Len(undoStack) + (IF HasOpen THEN 1 ELSE 0) < MaxUndo
InReach(points) == \A p \in Range(points) : p[1] \in -Reach..Reach /\ p[2] \in -Reach..Reach

(* record_op *)
RecordOp(rec) ==
    \/ /\ ~inOperation
       /\ Room
       /\ CommitRecord(rec)
       /\ UNCHANGED <<inOperation, open>>
    \/ /\ inOperation /\ HasOpen /\ SameGesture(rec)
       /\ Merged(rec).angle \in -MaxTurn..MaxTurn
       /\ open' = Merged(rec)
       /\ UNCHANGED <<undoStack, redoStack, inOperation>>
    \/ /\ inOperation
       /\ ~(HasOpen /\ SameGesture(rec))
       /\ Room
       /\ IF HasOpen THEN CommitRecord(open) ELSE UNCHANGED <<undoStack, redoStack>>
       /\ open' = rec
       /\ UNCHANGED inOperation

-----------------------------------------------------------------------------
(* The operations. *)

Init == /\ registry = <<>> /\ bare = FALSE
        /\ index = {} /\ nshape = 0 /\ stamp = 0
        /\ undoStack = <<>> /\ redoStack = <<>>
        /\ inOperation = FALSE /\ open = NoRecord

(* A new shape; its oriented box starts as its bounding box. *)
Seeded(f) == [type |-> f.type, points |-> f.points, obb |-> Corners(BoundBox(f.points))]

(* register_shape: the id is the next place in the registry. *)
RegisterShape(id, f) ==
    /\ registry' = Append(registry, Seeded(f))
    /\ nshape' = nshape + 1
    /\ index' = index \cup {Entry(id, Seeded(f))}
    /\ RecordOp([NoRecord EXCEPT !.op = "create", !.id = id, !.type = f.type])
    /\ stamp' = 1 - stamp
    /\ UNCHANGED bare

(* add_triangle, add_line, ..., add_path: geometry into the pads, then the shape. *)
AddShape(f) == /\ Len(registry) < MaxShapes
               /\ RegisterShape(Len(registry) + 1, f)

(* add_point, add_segment, add_bezier: geometry of no shape, never undone. *)
AddBare == /\ bare' = TRUE
           /\ stamp' = 1 - stamp
           /\ UNCHANGED <<registry, index, nshape, history>>

(* The public edits of a live shape; one on a dead shape throws. *)
Edit(rec) == /\ IsLive(rec.id)
             /\ ~IsNoop(rec)
             /\ InReach(Edited(registry[rec.id], rec).points)
             /\ Apply(rec)
             /\ RecordOp(rec)

TranslateShape(id, d) == Edit([NoRecord EXCEPT !.op = "translate", !.id = id, !.d = d])

RotateShape(id, angle, c) ==
    Edit([NoRecord EXCEPT !.op = "rotate", !.id = id, !.angle = angle, !.c = c])

(* A reference outside the shape throws before anything is touched. *)
MoveShapePoints(id, refs, d) ==
    /\ IsLive(id)
    /\ Range(refs) \subseteq DOMAIN registry[id].points
    /\ refs # <<>>
    /\ Edit([NoRecord EXCEPT !.op = "movePoints", !.id = id, !.d = d, !.refs = refs])

RemoveShape(id) ==
    /\ IsLive(id)
    /\ Edit([NoRecord EXCEPT !.op = "remove", !.id = id, !.type = registry[id].type])

(* end_operation: commit the open record; also how begin_operation treats a  *)
(* gesture that was abandoned.                                               *)
FinishOpen == IF inOperation /\ HasOpen THEN CommitRecord(open)
                                        ELSE UNCHANGED <<undoStack, redoStack>>

BeginOperation == /\ FinishOpen
                  /\ inOperation' = TRUE
                  /\ open' = NoRecord
                  /\ UNCHANGED scene

EndOperation == /\ inOperation
                /\ FinishOpen
                /\ inOperation' = FALSE
                /\ open' = NoRecord
                /\ UNCHANGED scene

(* undo and redo are ignored while a compound is open. *)
Undo == /\ ~inOperation
        /\ undoStack # <<>>
        /\ Apply(Inverted(Last(undoStack)))
        /\ undoStack' = Front(undoStack)
        /\ redoStack' = Append(redoStack, Last(undoStack))
        /\ UNCHANGED <<inOperation, open>>

Redo == /\ ~inOperation
        /\ redoStack # <<>>
        /\ Apply(Last(redoStack))
        /\ redoStack' = Front(redoStack)
        /\ undoStack' = Append(undoStack, Last(redoStack))
        /\ UNCHANGED <<inOperation, open>>

Clear == /\ registry' = <<>> /\ bare' = FALSE
         /\ index' = {} /\ nshape' = 0
         /\ undoStack' = <<>> /\ redoStack' = <<>>
         /\ inOperation' = FALSE /\ open' = NoRecord
         /\ stamp' = 1 - stamp

Next == \/ \E f \in Forms : AddShape(f)
        \/ AddBare
        \/ \E id \in DOMAIN registry, d \in Steps : TranslateShape(id, d)
        \/ \E id \in DOMAIN registry, angle \in Turns, c \in Pivots : RotateShape(id, angle, c)
        \/ \E id \in DOMAIN registry, refs \in Refs, d \in Steps : MoveShapePoints(id, refs, d)
        \/ \E id \in DOMAIN registry : RemoveShape(id)
        \/ BeginOperation
        \/ EndOperation
        \/ Undo
        \/ Redo
        \/ Clear

Spec == Init /\ [][Next]_vars

-----------------------------------------------------------------------------
(* Every variable has its type. *)
Places == Int \X Int
Types == {f.type : f \in Forms}
Boxes == [1..4 -> Places]
Shapes == [type : Types \cup {"dead"}, points : Seq(Places), obb : Boxes]
Records == [op : {"create", "remove", "translate", "rotate", "movePoints"}, id : Nat,
            type : Types \cup {"dead"}, d : Places, angle : Int, c : Places, refs : Seq(Nat)]

TypeOK == /\ registry \in Seq(Shapes) /\ bare \in BOOLEAN
          /\ index \subseteq [id : Nat, bbox : [lo : Places, hi : Places]]
          /\ nshape \in Nat /\ stamp \in 0..1
          /\ undoStack \in Seq(Records) /\ redoStack \in Seq(Records)
          /\ inOperation \in BOOLEAN /\ open \in Records
          /\ ~inOperation => ~HasOpen

(* The oriented box stays tight around the shape through any mixture of      *)
(* moves, rotations, moves of single points, undos and redos; it is never    *)
(* recomputed but by a move of points.                                       *)
BoxFits == \A id \in DOMAIN registry :
               BoundBox(registry[id].obb) = BoundBox(registry[id].points)

(* The index holds every live shape at the box it has now, which fits, and   *)
(* nothing else, and the live count agrees: an edit that left an entry       *)
(* behind would make query_visible and pick_shape return a dead or misplaced *)
(* shape, and a record applied to a shape in the wrong state would count it  *)
(* twice.                                                                    *)
IndexInStep == /\ index = {Entry(id, registry[id]) : id \in Live}
               /\ nshape = Cardinality(Live)
               /\ BoxFits

(* What a panel that polls state_stamp shows. *)
Shown == [shapes |-> [id \in Live |-> registry[id]], bare |-> bare]

(* A change of what can be seen moves the stamp, so a panel that compares    *)
(* stamps (solvcon/pilot/painter/_layers.py, _state_key) is never left with  *)
(* an old picture; one operation moves it by one, so it cannot come back.    *)
StampMoves == [][Shown' # Shown => stamp' # stamp]_vars

(* The pictures the histories stand for: the canvas with the records of the  *)
(* undo stack undone one after the other, or those of the redo stack redone. *)
Picture(reg) == {[id |-> id, type |-> reg[id].type, points |-> reg[id].points] :
                    id \in {i \in DOMAIN reg : reg[i].type # "dead"}}

Redone(reg, rec) == [reg EXCEPT ![rec.id].points = NewPoints(@, rec),
                                ![rec.id].type = NewType(@, rec)]
Undone(reg, rec) == Redone(reg, Inverted(rec))

Settled == IF HasOpen THEN Undone(registry, open) ELSE registry

(* reg after the last k of the records undone, or redone, from the back. *)
Rewound(reg, recs) ==
    LET r[k \in 0..Len(recs)] == IF k = 0 THEN reg ELSE Undone(r[k - 1], recs[Len(recs) + 1 - k])
    IN  r
Replayed(reg, recs) ==
    LET r[k \in 0..Len(recs)] == IF k = 0 THEN reg ELSE Redone(r[k - 1], recs[Len(recs) + 1 - k])
    IN  r

Past == [i \in DOMAIN undoStack |-> Picture(Rewound(Settled, undoStack)[Len(undoStack) + 1 - i])]
Future == [i \in DOMAIN redoStack |-> Picture(Replayed(Settled, redoStack)[Len(redoStack) + 1 - i])]

(* Undo and redo show exactly the earlier and the undone pictures, although  *)
(* only differences are stored, edits of one shape are merged, and a shape   *)
(* may be edited, removed, revived and edited again in between.              *)
Promise == INSTANCE Timeline
    WITH Pictures <- SUBSET [id : Nat, type : Types, points : Seq(Places)], Blank <- {},
         past <- Past, present <- Picture(Settled), draft <- Picture(registry), future <- Future

ImplementsTimeline == Promise!Spec
=============================================================================
