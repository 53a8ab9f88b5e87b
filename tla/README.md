# A verification project for solvcon

solvcon is a C++/Python platform for solving conservation laws, with a Qt application (the *pilot*)
for drawing, meshing, running and inspecting. Much of its source is numerical code. The part where a
step taken in the wrong order does damage that no unit test shows is smaller: the threads of the pilot
and the jobs they exchange; the editable drawing (`World`) with its spatial index and undo history, and
the canvas whose mouse drags edit it; the meshes, whose tables are built in place by calls in any
order, and the triangulation behind them; polygons that are cut up and combined; the mesh viewer, whose scene, flags, legend and camera are
changed by sixty calls in any order; the panels that run an agent or a benchmark while the user goes
on; and a few stores that are shared or reused: toggles, the call profiler, growing buffers. This
directory specifies that part in TLA+, model-checks it with TLC on small instances, and proves the
central results with TLAPS for every instance.

Paths below are relative to the repository; `RThreadManager.cpp` stands for
`cpp/solvcon/pilot/app/RThreadManager.cpp`, and so on.

- [Inventory](#inventory)
- [Modules](#modules)
- [Runs](#runs)
- [Bounds](#bounds)
- [Fairness](#fairness)
- [Proofs](#proofs)
- [What the runs found](#what-the-runs-found)
- [What is not modelled](#what-is-not-modelled)
- [Plan](#plan)

## Inventory

### Components, their state and their operations

| Component | State | Operations | Interacts with |
|---|---|---|---|
| `RThreadManager::Scheduler` (RThreadManager.cpp:239-411) | job queue, `m_stopping`, `m_exited`, mutex, condition variable | `push`, `stop`, `loop`, `open_state` | pushed to by the Qt thread, task threads and its own jobs; shares the GIL with all of Python |
| `RThreadManager` (RThreadManager.cpp:413-715) | registered threads, open workflows with `pending_callbacks`, `m_stopped` | `registerThread`, `submit`, `start_workflow`, `dispatch`, `complete_task`, `close_if_done`, `cancel_open_workflows`, `shutdown` | one Scheduler per thread; posts events to the Qt thread |
| `WorkflowContext` | submissions, result | `submit`, `finish` | used by the workflow's callbacks, read by `dispatch` and `close_if_done` |
| `RWorkflowHandle` (RThreadManager.cpp:201-250) | state, result, two callbacks | `onStateChanged`, `onFinished`, `setState`, `deliver`, `flush` | receives the manager's events; calls the owner, who may re-enter or destroy it |
| `RManager` | the thread manager, menus, docks, canvases | `setUp`, `reset` | starts, shuts down and deletes the thread manager |
| `World` (universe/World.hpp) | shape registry, pads of points, R-tree, live count, change stamp, undo and redo stacks, the open compound | `add_*`, `translate_shape`, `rotate_shape`, `move_shape_points`, `remove_shape`, `begin_operation`, `end_operation`, `undo`, `redo`, `clear` | edited by canvas gestures, Python and agents; polled by panels through `state_stamp` |
| R-tree (universe/rtree.hpp) | a tree of boxes | `insert`, `remove`, `search`; splits, condensation, reinsertion | owned by `World` |
| Toggle store (toggle/, pilot/base/_gui_common.py) | typed columns, key index, categories, generation, observers; the menu action bound to a key | `get_*`, `set_*`, `declare`, `add_subkey`, `clear`, `ToggleRef`; `ToggleActionBridge` | read and written by C++ and Python threads; notifies observers, one of which is a menu action |
| Call profiler (profiling/RadixTree) | tree of callers, current node, cancel callbacks, pending nodes, published snapshot | `start_caller`, `end_caller`, `discard_caller`, `reset` | probes on the C++ and Python stacks |
| Agent turns (solvcon/agent, solvcon/pilot/agent) | transcript, worker thread, active canvas | submit, succeeded, failed, finished, quit | a backend on a worker thread; commands applied to `World` |
| Benchmark runner (solvcon/benchmark, solvcon/pilot/benchmark) | worker process, buffered output, result file, what the panel offers | start, stop, close, read, process error, finish, quit | a process behind `QProcess` |
| Buffers and arrays (buffer/) | memory, shared owners, capacity; of an array its shape, strides, origin and ghosts | `reserve`, `expand`, `push_back`, `as_concrete`, `as_array`; indexing, views, copies, transposition, `reshape`, arithmetic, searches, statistics | collectors hand their memory to arrays; arrays share it with numpy and with each other |
| Canvas gestures (pilot/canvas, pilot/painter) | draw tool, selected shape, node-edit mode with its nodes and handle, drag in progress | mouse and key handlers, the tool and the selection set from outside, `updateWorld`, the Painter panel's pages | opens and closes compounds of `World`; scripts, the agent and the Edit menu reach the same world meanwhile |
| Mesh viewer (pilot/visual) | the scene's drawables and pointers to them, what should be shown, field and legend, selection, filters, camera, device resources | some sixty calls of the widget | Python and the panels call it, Qt gives and takes the device |
| Configuration, console, shortcuts, themes, plots | settings and view state | sequential handlers of the user interface | the Qt thread only |
| Meshes (mesh/StaticMesh\*, mesh/DelaunayBuilder, mesh/_regular_domain.py) | tables of nodes, faces and cells with rows for ghosts, edges, named boundaries; a triangulation in the making | `build_interior`, `add_bc`, `build_boundary`, `build_ghost`; `triangulate`, `calc_ear_centroids`; `make_mesh` | filled in by readers, by hand or by `RectDomainMesher`; shown by the viewer, read by solvers |
| Polygons (universe/polygon.hpp, polygon_boolean.hpp) | a list of nodes with a range for each polygon, the index of the sides, the trapezoids each was cut into | `add_polygon`, `rebuild_rtree`, `decompose_to_trapezoid`, `boolean_union`, `boolean_intersection`, `boolean_difference` | used from Python; the index is an R-tree |
| Matrix products, solvers, transforms, device and SIMD back ends, readers and writers | arrays | numerical kernels, parsing | sequential |

### How they interact

The Qt thread submits a workflow to the manager, which queues a job on the *workflow thread*. There
the workflow's callbacks run, one at a time; they submit tasks to named *task threads* through a
context, and each task's completion comes back to the workflow thread as another job. State changes
and the result go to the Qt thread as queued events, where the handle calls its owner. Every one of
those threads may run Python, so the GIL is a second lock next to each scheduler's `m_mutex`.
`RManager::reset()` shuts everything down on the Qt thread and deletes the manager.

`World` is sequential but long-lived: a drawing session is an arbitrary sequence of edits, compounds,
undo and redo, and four redundant views of the drawing (registry, index, count, stamp, and the
histories on top) have to follow each of them. The canvas brackets a mouse drag in a compound, which
anything that reaches the canvas or the world between two events of the drag may find open.

The agent's panel and the benchmark's panel live on the same Qt thread and answer to the same quit: one
joins a thread when the event loop has ended, the other kills a process inside the quit event. The
menu's toggles and the toggle store write each other back through a queued signal.

`RectDomainMesher.make_mesh()` lays out points, lets a `DelaunayBuilder` triangulate them until no triangle has two
edges on the boundary, fills a `StaticMesh` and has it build its tables; the viewer shows a mesh of any origin.

### What is hard, and what has to be true

| Component | What is hard to test | What makes it correct |
|---|---|---|
| Scheduler | notifications outside the lock, a push against the last look at the queue, a stop while a job runs, two locks | no lost wakeup, nothing left in the queue of a thread that exited, FIFO, every pushed job settled, `stop()` returns |
| RThreadManager | a completion for a workflow that is gone is dropped silently, so only the accounting protects it; shutdown while jobs still submit to one another; callbacks that throw | the count is the number of tasks on their way; every callback comes home on the workflow thread; a workflow is answered once and never while a task owes it a callback; `shutdown()` returns |
| RWorkflowHandle | callbacks that register callbacks, run an event loop or destroy the handle under `deliver()` | a completion callback runs once, in every order of registration and result; a destroyed handle calls nobody |
| World | undo applies inverse differences to whatever the shape has become; merging inside compounds; index entries found by the *old* box | index, count, boxes and stamp in step; undo and redo show exactly the earlier pictures |
| R-tree | splits and reinsertion while boxes are being recomputed | entries neither lost nor doubled; every box contains what is below it |
| Toggle store | handles that check a generation and then read without the lock; notification after unlock | a handle reaches its own register or throws; the menu comes to show what the store holds |
| Call profiler | reset from inside a profiled call, probes withdrawn while others run; a published snapshot that lags | the callback stack is as deep as the cursor; what was withdrawn is not counted; the snapshot is the log at the last outermost return |
| Agent turns | the world changes while the backend works; the three end signals in any order | one reply per prompt; nothing lost without a word; the panel is busy exactly while it waits |
| Benchmark runner | error, exit, output, stop, close and quit in any order; the timer after `FailedToStart` | a stopped run stays stopped; the result on offer is the one shown; everything ends |
| Buffers | the collector moves on while arrays hold the old memory | nobody keeps memory that was freed; items survive every move |
| Arrays | a walk, an offset or a copying kernel for every kind of layout; an operand that overlaps its destination | every walk reads the same items; a view shares those of its key, a copy none; a write changes what it is for and nothing else |
| Canvas gestures | a drag cut short by a key, a tool, a script, a new world | no compound stays open; a drag is one undo step and edits one shape |
| Meshes | faces found by comparing node sets; ghosts written into the same tables under negative indices, one after the other; build calls in another order than the usual; points on one circle or one line | every table tells what the others do; a ghost is its cell in the mirror and shares nothing else; a triangulation is Delaunay, covers the hull, and its refinement ends |
| Polygons | sides that touch, cross, start together or lie on each other; trapezoids kept by number; a refused polygon that leaves nodes behind | trapezoids cover their polygon once; a result is exactly its area, in pieces that do not overlap |
| Mesh viewer | sixty calls that each change some of a dozen linked members | pointers name live drawables, flags agree with the scene, the legend with the field, resources with the device |

Every hazard is listed in `PROJECT.json` at the line where it bites, with the properties that watch it.

## Modules

| Module | Models | Kind |
|---|---|---|
| `JobQueue` | what a scheduler promises: one FIFO line, run before the stop, cancelled after it | abstract specification |
| `Scheduler` | `RThreadManager::Scheduler` with its mutex, condition variable and the GIL | detailed; implements `JobQueue` |
| `SchedulerProofs` | | theorems about `Scheduler` |
| `WorkflowService` | what the manager promises: every accepted workflow is answered once, never while a task owes it a callback, all before the manager has stopped | abstract specification |
| `ThreadManager` | the Qt thread, the workflow thread, the task threads and the Qt event queue | composition; implements `WorkflowService` |
| `ThreadManagerProofs` | | theorems about `ThreadManager` |
| `WorkflowHandle` | `RWorkflowHandle` and its owner's callbacks | detailed |
| `WorkflowHandleProofs` | | theorems about `WorkflowHandle` |
| `Timeline` | what undo and redo promise: a walk along a line of pictures | abstract specification |
| `World` | the editable drawing and its histories | detailed; implements `Timeline` |
| `Canvas` | the canvas over a `World`: tool, selection, node-edit mode, mouse drags | extends `World` |
| `WorldProofs` | | theorems about `World` and `Canvas` |
| `RTree` | the spatial index, operation by operation on trees of nodes | algorithm, checked against a search of the set of its items |
| `CallLog` | what the profiler promises: calls that returned, counted by their path of callers | abstract specification |
| `CallProfiler` | the radix tree of callers, the probes and the published snapshot | detailed; implements `CallLog` |
| `Collector` | a growing collector and the arrays that share its memory | detailed |
| `StoresProofs` | | theorems about `Collector` and `CallProfiler` |
| `Application` | the application object: running, quitting, left, gone | shared by the next three |
| `BenchmarkRun` | the Benchmark Inspector, its worker process and `QProcess` (external) | component |
| `AgentSession`, `AgentPanel` | the session's transcript; the Agent Console, its worker threads and their signals | component |
| `Pilot` | both panels on one Qt thread, through a quit | composition |
| `PilotProofs` | | theorems about `Pilot` and its parts |
| `ToggleTable` | the toggle store: map, columns, generation, handles | component |
| `ToggleBridge` | the store's observers and the menu action bound to a key | composition over `ToggleTable` |
| `ToggleProofs` | | theorems about `ToggleBridge` and `ToggleTable` |
| `DomainWidget` | the mesh viewer with its scene | detailed |
| `StaticMesh` | an unstructured mesh: interior, metric, edges, boundary, ghosts | component |
| `DelaunayBuilder` | the triangulation of a cloud of points, and its ears | component |
| `RectDomain` | `RectDomainMesher.make_mesh()` | composition over `StaticMesh` and `DelaunayBuilder` |
| `PolygonPad` | polygons, their trapezoids, and operations on two of them | component |
| `MeshProofs` | | theorems about `DomainWidget`, `PolygonPad` and `StaticMesh`, and the lemmas about folds and ascending lists they share |
| `Layout` | how an array lies in memory: strides, offsets, walks, copying kernels | algorithm |
| `SimpleArray` | arrays over shared memory and the calls that make and write them | component |
| `ArrayReads` | what is computed from the items of an array, and what all calls promise | extends `SimpleArray` |
| `Accumulate` | folds of a sequence, ascending lists, tables | helper |
| `MC...` | | constants, sessions and symmetry for TLC; `MCStores` runs the profiler, the collector and the tree side by side, `MCMesh` the viewer, the meshes, the polygons and the arrays, one session each |

Each module with properties also holds, next to the definition it changes, the variants a plausible
mistake would give ("Mutant:" or "Mistake:"). They are used by no action; `PROJECT.json` lists, for
every property, the one that makes TLC find it violated. Properties that belong together are
conjoined under one name (`PanelsInStep`, `SceneInStep`, ...), each part with its own comment.

### Scheduler

A step is what one thread does between two points where it can be made to wait. A thread that finds
`m_mutex` free runs its critical section in one step, since nothing in it blocks. The exception is
the end of an iteration of `loop()`: the `unique_ptr` that holds the job lives until the closing
brace, after `lock.lock()`, so the job is destroyed with the mutex held, and the destructors of
Python jobs wait for the GIL (`Drop`). That is why `mutex` needs only the values *free* and *loop*.

| Variable | Code | | Action | Code |
|---|---|---|---|---|
| `queue` | `m_queue` | | `Push`, `PushLocked`, `PushNotify`, `CancelRefused` | `push()`: call, critical section, `notify_one()` after unlock, cancelling what was refused |
| `stopping`, `exited` | `m_stopping`, `m_exited` | | `Stop`, `StopNotify`, `Join` | `stop()` |
| `mutex`, `gil` | who holds them | | `OpenState` | `open_state()` under the GIL |
| `loopAt` | program counter of `loop()` | | `Lock`, `Sleep`, `SpuriousWakeup` | the lock and `m_condition.wait` |
| `job`, `cancelling` | locals of `loop()` | | `Take`, `Work`, `Drop` | serving one job |
| `clientAt`, `pushing` | each pusher | | `PushFromJob` | a job that pushes to its own scheduler |
| `fate` | history of each job | | `Exit`, `CloseState` | the end of `loop()` |

A pusher in `PythonClients` holds the GIL throughout `push()`, as Python's `manager.submit()` does. The
Stopper releases it around `stop()`, as `RManager::reset()` does. `start()` is not an action: the
thread is started before anybody can find its scheduler.

### ThreadManager

One level up, a critical section of `m_mutex` is one step: `Scheduler` has shown what a queue does.
A job is named by what it is about: a workflow in the queue of the workflow thread is its
`StartWorkflowJob`, a task in the queue of a task thread its `TaskJob`, a task in the queue of the
workflow thread its `CompletionJob`. `hand[t]` is the job thread `t` works on.

- *Qt thread*: `RegisterThread`, `Submit`, `HandleEvent`, `DestroyOwner`, then `BeginShutdown`,
  `StopThread` (task threads first, each joined by `Joined`, the workflow thread last) and
  `DeleteManager`, which drops the events still queued.
- *Every thread*: `Take`, `Exit`, `End`.
- *Task threads*: `CompleteTask` runs or cancels the task and pushes the completion to the workflow
  thread; if that thread had exited, `push()` would run the completion right here. `strays` collects
  the tasks this happens to (none, and that is a theorem).
- *Workflow thread*: `CancelStart`, `BeginStart`, `BeginCallback`; then the user's code as an
  arbitrary sequence of `ContextSubmit` and `ContextFinish`; `StartReturn` or `CallbackReturn`, with or
  without an exception; `Dispatch` once per submission; `CloseIfDone`; `Close`. After it exited,
  `CancelOpen` closes what is left.

Dispatching to a name nobody registered, and to a thread that has exited, completes the task at once
(`Receiver`, `OutcomeAtOnce`). `Retriers` are workflows whose callbacks submit again after a task
failed them; `LateSubmitters` those that submit from `cancel()` or `close()`. A task that called
back is free to be submitted again, so `Tasks` bounds the tasks on their way, not those of a session.
Calling a context of another workflow, or from another thread, is outside the contract
(RThreadManager.hpp:119) and not modelled.

### WorkflowHandle

`frames` is the stack of the owner's callbacks that run on the Qt thread. Between any two steps, from
the event loop or from inside a callback (which may run a nested event loop), the owner may
register either kind of callback or destroy the handle. `deliver()` is split where it calls the
state callback; what follows runs in `Return`, behind the `QPointer` guard of the code.

### World

A shape is its type, its control points and its oriented box. The pads of points are not modelled as
arrays, since a shape never shares its part of a pad; the shapes' kinds differ only in their points,
so the `add_*` family is one action, `AddShape`. Geometry that belongs to no shape is the flag
`bare`. An edit is a record `[op, id, type, d, angle, c, refs]`, the `ShapeOperationRecord` of the
code, and `Apply` is the one place where a record changes a shape, the index, the count and the stamp;
`kill_shape`, `revive_shape`, `apply_translate`, `apply_rotate` and `translate_points` are its cases.
`Inverted` is what `undo_record` does. `RecordOp`, `Committed`, `FinishOpen`, `BeginOperation` and
`EndOperation` follow the functions of those names.

Coordinates are integers and rotations quarter turns, so that every edit has an exact inverse:
rounding is not what these properties are about. The index is the set of its entries, each a shape's id and
box; `remove()` finds an entry only under the box it was inserted with, as `find_leaf_with_item` does.
The stamp counts modulo 2, which is enough to see that one operation moves it by one. `open = NoRecord`
stands for `!m_has_open`. What the constants may be is named: a form is a live type with points
(`FormsAssumption`), steps and pivots are places and turns whole (`StepsAssumption`), references number points (`RefsAssumption`).

### RTree

A tree is a value: a node is its box, its items (a leaf) or its child nodes. `Inserted` follows
`insert()` down by `ChosenChild` and back by `SplitIfFull` and `Adjusted`; `Split` picks the `Seeds` of
largest waste and distributes with the count of remaining entries as the code counts it
(`Remaining` includes the seeds that are still to come, rtree.hpp:554). `Without` removes and condenses: underfull nodes
are unlinked and what they held is reinserted (`Reinserted`) after the root was shortened. The unlinked
leaves come before the items of unlinked inner nodes, as the code collects them.

### CallProfiler and Collector

A node of the profiler is the path of keys that leads to it, so moving the cursor up is `Front`. A probe is a scope:
scopes end in the reverse of the order they began, and each may be withdrawn before (`Cancel`) or voided by
`Reset`. A scope keeps the number of its callback; ending it when it was voided pops nothing, which is what the
callbacks are there for. `Log` maps a state to `CallLog`: the path of names of the cursor is
what runs, the counts of all nodes are the total, and what a snapshot reports is what was published at the
last outermost return.

`Collector` keeps memory as blocks with owners: the expander's own block (`holder`) or a shared buffer
(`concrete`), and the arrays. `Put`, `Release` and `LetGo` are what the smart pointers do. Sizes count items; an
alignment of two items shows every branch of the rounding.

### Application, BenchmarkRun, AgentSession, AgentPanel, Pilot

A step is one slot of the Qt thread, or one step of the worker process or a worker thread. Signals that
cross threads wait in `inbox`; what the child writes waits in `lines`; the zero timer of `FailedToStart` is
`ui.armed`. `ReadyRead`, `Finished`, `StreamError`, `FailToStart` and `TimerFires` may come in any order
`QProcess` allows. `Quit` is the Quit event, in which the inspector kills its child and waits
(`QuitOn` goes on, or takes the quit back); `LeaveLoop` is `aboutToQuit`, where the console joins its thread. The commands of an agent's answer
are `Rearranged`: they may leave any canvases open. `ReadStdout` says which lines of a batch count, with
quantifiers over the batch; the code handles them one after the other, and `MCPilot` compares the two over every batch of
four lines (`ReadsLineByLine`). `Pilot` is the interleaving of the two.

### ToggleTable and ToggleBridge

A section under the store's mutex is one step. `clear()` is two, `Clear` and `Bump`, since the registers are
gone before the generation moves and a handle looks at either without the lock. A handle's access is two steps,
`Check` and `Access`; `raced` remembers that a `clear()` ran in between, where the code's outcome is
undefined. A setter that changed a register is in the state `notify` until it has called the
observers. The bridge is made and subscribed in two steps, as its constructor does it; `Deliver` sets the
action from a posted value and `Toggled` is the slot that writes the store.

### DomainWidget

The scene maps ids to drawables (what it was made of, whether it is visible, the range and map it was
coloured with, the device it was built for). `ptr` are the widget's raw pointers into it. Each public
call is an action with everything it calls; helpers that several calls share are operators with the
scene as argument (`ApplyMeshVisibility`, `RebuildNormals`, `InstallField`, `RemoveDrawables`). Boxes are
intervals of a line. A session (`MCMesh`) is the group of calls a behaviour makes beside `UpdateMesh`.

### StaticMesh, DelaunayBuilder and RectDomain

A table of the code is a function on its rows, the ghost rows under negative indices as there; nodes, faces
and cells are numbered from 0 and a missing one is −1. `StaticMesh` has one action per public build call:
`NewMesh` (a mesh as its caller fills it in, a member of `Grids`), `BuildInterior` with and without metric and edges,
`AddBc`, `BuildBoundary` and `BuildGhost`. They may come in any order the code allows. `Deduplicated` matches a raw face with the
earlier ones of the same node set, `Renumbered` closes the gaps, `OwnersOf` and `FacesFrom` make the two neighbour tables from
it. `Oriented` turns faces so that every normal points out of the face's first cell. `GhostCell` is
`fill_ghost`: node by node, then face by face, with the node map `sides` that `Erased` clears. Coordinates are
integers and normals, areas and volumes are kept as multiples (`AreaVector`, `Volumes`), so that they are exact.
`measure` is what the caller knows of the grid: the volume of what it covers, as the same multiple.

A triangle of `DelaunayBuilder` is three rows of the pad, counterclockwise. `Triangulate` adds the super triangle, each `Insert` is one turn
of `populate_from_points` (`InCircle` decides in integers what the code's test of the circle decides in floating point),
`Return` is `compute_triangle_nodes`.

`RectDomain` follows `make_mesh()` through its stages: `MakeMesh`, `Points`, then `Triangulation` and `Refine` in turn
until no ears are left or `MaxIter` rounds were made, `FillMesh`, and `BuildMesh`, which is the calls the mesher makes of the mesh. The jitter, a
pseudo-random offset in the code, is an input (`off`).

A step of `PolygonPad` is a call: `AddPolygon`, `RebuildRtree`, `DecomposeToTrapezoid` and `Boolean`, which is the three operations
from their short cut to the result. `Trapezoids` is the sweep of `TrapezoidalDecomposer::decompose()`, `Decomposed` the numbers it keeps;
`Combined` follows `compute()`: the heights, where `Crossing` adds those at which sides of the two cross, and in each band between two
of them the events, sorted by `Earlier` and run through by `Swept`. A point has integer coordinates, `Grain` to a step of the
lattice, and what the sweep computes from such points is an integer again; the code's tolerances then never see a difference
that is not zero and small.

`Accumulate` folds a sequence as a recursive function, so that proofs can follow the fold; it computes what `FoldLeft` of the community
modules does, in a time linear in the length. `Ascending` is what a loop over the indices of an array finds, `Put` writes a row of a table.

### Canvas

The pointer's place appears as what is under it, so one `mousePressEvent()` is the actions `PressToDraw`,
`PressNode`, `PressHandle`, `PressPath`, `PressKnob`, `PressShape` and `PressEmpty`, guarded as the handler orders its
tests. `Outside` is anybody else's change of the world between two events: a script, the agent, the
Edit menu's undo and redo. `DesignMove` and `RowPicked` are the Painter panel's pages. `gesture` is a
history variable: the drag under way, how deep the undo stack was at the press and the picture then, and
whether somebody else has touched the world since (`gesture.alone`). That a shape has both its end points
(`EndsAssumption`) is what lets the mode name the nodes it shows.

## Runs

| Run | Instance | Shows |
|---|---|---|
| `scheduler_jobs` | 3 jobs, a Python pusher that also stops, a task thread; 4 291 states | `NoLostWakeup`, `NothingLeftBehind`, `ImplementsJobQueue`; and `NobodyStuck`: the deadlock of `m_mutex` and the GIL is the *only* way a pushed job or `stop()` can be held up forever |
| `scheduler_drop` | 2 jobs | finding: that deadlock |
| `manager_safety` | 2 workflows (one retries, one submits late), 2 tasks, 2 task threads; 1.65 million states up to symmetry | `PendingCounts`, `CallbacksComeHome`, `QuietAfterExit`, `OneHistoryPerOwner` |
| `manager_live` | 1 workflow that does neither, 2 tasks, 2 task threads; 71 963 states | `ImplementsWorkflowService`, `ShutdownReturns`, `EverybodyHears` (every task calls back, every owner hears) |
| `handle_safety` | 2 state callbacks, 2 completion callbacks; 1 799 states | `HandleInv` (a completion callback runs once), `NothingAfterDestroy`, `ResultArrives` |
| `world_editing` | 2 lines, steps of one, quarter turns about two pivots, 3 records; 66 696 states | `IndexInStep`, `StampMoves`, `ImplementsTimeline` |
| `canvas` | 2 shapes (a line, a path of a segment or of a curve), 3 records; 965 554 states | `ModesInStep`, `GestureIsOneStep` |
| `meshes` | viewer: 4 meshes (flat, its refinement, solid, empty), six sessions of calls; built by hand: a rod, a sheet, a block of four solids; clouds of 3 and 4 points; 52 calls of `make_mesh()`; 2 polygons of 12 outlines; 15 memories with one or two arrays, up to 3 calls; 171 868 states | `SceneInStep`, `KeepsView`; `TablesAgree`, `MeshInStep`; `DomainIsMeshed`; `PadInStep`, `AreasAreExact`; `ArraysAgree` |
| `stores` | profiler: 2 names, 3 open, 4 calls; collector: 4 items, 2 arrays, 3 addresses; tree: five drawings, 2 removals; 668 372 states up to symmetry | `ProfilerInStep`, `KeepsTheLog`; `ItemsKept`; `TreeInStep` |
| `pilot` | 2 requests, each a prompt or a run, 2 canvases; 308 700 states | `PanelsInStep`, `Conversation`, `TruthfulEnding`, `EverythingEnds` |
| `toggle` | the UI thread and a solver, 2 keys, 4 operations; 704 956 states | `StoreInStep`, `ShowsTheStore`, `ResolvedStays`, `CatchesUp` |
| `toggle_echo` | the UI thread, 1 key, 2 operations | finding: the bridge and the store set each other back and forth |

Most type invariants are checked too, by their own name (`manager_safety`) or as the first part of the conjunctions:
`HandleInv`, `PanelsInStep`, `StoreInStep`, `SceneInStep`, `MeshInStep`, `ModesInStep` and the three of `stores`. That of `Scheduler` is only
proved (`TypeCorrect`).

What the conjunctions say beyond that:

- `PanelsInStep`: what can be saved is what is shown; the controls are locked exactly while a run is on; a
  pilot that is gone leaves neither a worker process nor a backend call running. `Conversation`: the prompt box is locked exactly while a worker is
  held and no prompt is dropped, each gets its one reply, a switch of worlds is marked in the transcript, and a worker replays what was said before
  its prompt. It says nothing of the shape ids in an answer, which may be stale (TODO #966, _agent_gui.py:320). `TruthfulEnding`: a run that was stopped ends as stopped, a completed one
  reported its own artifact and exited cleanly, and a quit is lost only to a child that failed to start and whose timer has not
  fired. `EverythingEnds`: stopping, closing, a prompt and a quit all end.
- `SceneInStep`: every pointer names a drawable of the scene, styles and normals follow the current mesh, the
  highlight is the selection's, every drawable is built for the device there is or not at all; the legend shows
  the range and map of the field, a field that is shown lies in the framed box, the camera's dimension is that of the domain.
- `MeshInStep`: two cells that have a face's worth of nodes in common meet in one face, which both list; the edges of the faces are those of the
  cells, each once; every cell is closed by normals that point out of it, and the volumes add up to the measure; a ghost cell is closed and has
  the volume of the cell it mirrors.
- `TablesAgree`: no two faces have the same nodes (`FacesDiffer`); every open face belongs to one condition, and the two tables of the boundary point
  at each other (`BoundaryIsSplit`); the ghosts fill exactly the rows that `count_ghost()` counted before any of them was made, a ghost cell is the
  neighbour of its boundary face, shares with the interior and with other ghosts nothing but that, and its other faces are its own (`GhostsFit`).
- `DomainIsMeshed`: after each point the triangles tile the super triangle and no circle has a point in it; what is returned tiles the
  hull of the points, each of them a corner; and `make_mesh()` ends without raising, no condition is refused, the four
  edges hold as many faces as the outline has, and no triangle has two open faces where the layout permits it.
- `IndexInStep`: the registry, the spatial index and the live count tell of the same shapes, and the oriented box of each is tight around its points.
- `PadInStep`: a polygon has the nodes it was added with, whatever was refused before it, and the index its sides; what is kept for a polygon is its own
  decomposition, whichever were cut before, and a result is that of its two polygons alone.
- `AreasAreExact`: the trapezoids of a polygon cover it once and are not turned over; the result of an operation covers the points that are in its area, each
  once, no others, and all of it goes around counter-clockwise unless it is the copy of a polygon combined with itself. Coverage is decided at 64 sample points
  by the even-odd rule, which owes nothing to the sweep, and for the trapezoids by the sum of their areas as well.
- `GestureIsOneStep`: a drag that nobody else disturbs is one undo step, which leads back to the picture at the press, or none when it
  came back by itself; and it edits the shape that was under the press and no other.
- `StoreInStep`: types, and each key of a value type has a register of its own. `ResolvedStays`: a key keeps its type
  until everything is cleared, and a handle reaches its own register unless a `clear()` runs between its check and
  its access.
- `TreeInStep`: a search finds exactly what is there; for capacities of 8 and more boxes are tight, nodes at
  most two short of half full, leaves level. Nodes of capacity 4 can be split into a lone seed whose box is loose, as the
  suspect count of rtree.hpp:554 makes possible; searches stay exact.
- `ModesInStep`: no compound outlives its drag, a draw tool holds no selection, a drag has the button down, the selected
  nodes are places of the path in the mode.
- `ItemsKept`: nobody holds memory that was let go, an item survives every move of the collector, and an array handed out
  shows just the items there are.
- `ArraysAgree`: an array lies in its buffer; `at()`, an mdspan, the cursor and the copying kernels lead to the same items;
  a view is of the items its key names and a copy shares none; an assignment within one memory is as if its source had been copied first; a
  write stays in its items, or in the buffer of its array where it goes through the buffer. Reductions along axes and medians find what the items in C
  order say in every layout. Of the calls that go from `begin()` (`sum()` of dense items, `min()`, `max()`, `argwhere()`, the variance, sorting and searching by order, comparisons,
  arithmetic in place or by elements) the property says so only in the layouts where the items are the first of the buffer, as
  `ScansAgree`, `ValuesAgree`, `PairsAgree` and `CallAgrees` spell out. In the others the code takes other items (see *Arrays* below), and the
  property is silent.

Deadlock is checked for the thread manager, `World` and `Canvas`. It is off for `Scheduler`, because of the
deadlock it has (`NobodyStuck` says precisely that there is no other), and for
the handle, the pilot, the toggles, the meshes with their viewer, the polygons and the stores, which legitimately come to rest: when everything
was delivered, when the process is gone, or at a bound.

`ImplementsTimeline` deserves a word. The histories store differences, so the mapping to `Timeline`
*replays* them: the past is the list of pictures one gets by undoing the records of the undo stack one
after the other, the future by redoing those of the redo stack, the present is the picture with an
open record taken back, and the draft is what the canvas shows. `Timeline` then says that undo and redo
move along those pictures and change none of them. Any edit recorded with the wrong net effect, merged
with one it does not commute with, or applied in the wrong state, changes a picture of the past and
fails the step.

## Bounds

- *Jobs, tasks, workflows, threads, clients*: two of a kind meet in every way that matters here: two
  threads that exit in different orders, two tasks of one workflow or of two, two pushers in a push
  at the same time, a third job behind two. Jobs of `Scheduler` are pushed once each; tasks of
  `ThreadManager` return to *free* and are submitted again, so that run has no bound on how long the
  session is.
- `manager_live` has one workflow, because the temporal properties are per workflow or per task and
  workflows only meet in the queues; `manager_safety` has two. `manager_live` has no retriers or late submitters,
  since with them the properties are false; see what no run asserts, below.
- Symmetry is used in `manager_safety` over tasks and task threads, and in `stores` over addresses; neither run has a
  temporal property that names one of them. Workflows are not symmetric: their roles differ.
- `World` and `Canvas`: `MaxShapes` (shapes ever registered, 2), `MaxUndo` (records in the undo history, with the open
  one, 3), `Reach` (coordinates stay within ±1) and `MaxTurn` (quarter turns merged into one gesture)
  bound guards only of operations the *user* starts; `Undo`, `Redo`, `Clear`, `EndOperation` are never
  cut. Three records are enough for an edit, a merge and an edit between them, or a removal under an edit
  that is undone; two end points of a line are enough for a box to lose its width, its height and both. On the
  canvas, a curve is what has handles, and everything moves to the right only: undo brings it back.
- `RTree`: the drawings are long enough for a root to split twice, and removals (2) may take out any items, so leaves and inner nodes
  fall short, and the tree loses a level. They are drawn in a fixed order before the first removal, which keeps the number of trees small
  where the code is deterministic anyhow. Capacity 4 is that of the repository's tests; 8 shows the seeds counted twice.
- `CallProfiler`: three open scopes make a middle one; four calls are a path, a sibling, and both again.
- `Collector`: capacities 0, 1, 2 and 4 are three growths, two arrays can share a block with or without the collector, and three addresses
  allow the allocator to give a freed one again while two are in use.
- `Pilot`: two requests are a prompt under a run, a run after a run and a prompt after a prompt. A worker leaves at most two unread lines
  (`MaxLines`), one of them a result.
- `ToggleBridge`: four operations are the two of a race with a `clear()` and a new declaration in a register given
  again (two cells). Values are Boolean for both types; what distinguishes them is the type.
- `DomainWidget`: two flat meshes of one domain (a new time step's mesh), one of another dimension and place, one of no nodes; names, ids, colour maps
  and devices two of each. Groups of calls that touch no common variable are in different sessions.
- `StaticMesh`: the rod, the sheet and the block have every type of cell but the point, and every kind of face shared between two types; patches given
  to `add_bc` include an inner face, a face twice, one that does not exist and none.
- `DelaunayBuilder`: every sequence of three or four points of a 3 by 3 lattice, with points on one line, on one circle and twice there.
- `RectDomain`: up to 3 by 3 boxes structured, up to 3 by 2 unstructured, each inner point at its place or off it in four directions. `Unit` (6) is the
  width of a box; centroids are rounded down to integers. `MaxIter` is the code's 16.
- `PolygonPad`: two polygons of 12 outlines on a 3 by 3 lattice: squares that share a side or lie in one another, triangles and concave outlines whose
  sides cross or start together, one around a slit, two without area, one clockwise. Every pair meets in every operation, before and after every
  order of decompositions. A thirteenth outline leaves the plane at its last node and so leaves two nodes behind (`MaxOrphans`). One operation per behaviour: it changes
  nothing the next depends on but the trapezoids, which `DecomposeToTrapezoid` makes just as well. No line through two points of the lattice meets a sample point.

## Fairness

- `Scheduler`: strong fairness of each pusher inside `push()` and of the loop thread, since a thread that
  waits for a mutex or the GIL that is released again and again is served in the end; weak fairness of
  `stop()` after it was called. Nobody is obliged to push or stop, and no wakeup has to be spurious.
- `ThreadManager`: weak fairness of each task thread, of the workflow thread, of the shutdown once it
  began and of the Qt event loop. The workflow thread's fairness includes that user code *returns*;
  that a task returns is the assumption without which no thread pool finishes. Submitting,
  registering, beginning a shutdown and destroying an owner have no fairness.
- `WorkflowHandle`: weak fairness of the event loop and of callbacks that return.
- `Pilot`: weak fairness of what `QProcess` does by itself (start, report the end), of a killed child's death,
  of a backend's answer (`_backends_impl.py` gives every call a timeout) and of the delivery of signals; strong fairness of the zero timer,
  which the event loop serves in the end although a new run may keep disarming it. A worker that nobody kills owes
  nothing: it may compute for ever, and no property depends on it.
- `ToggleBridge`: weak fairness of the event loop (`Deliver`, `Toggled`, `Subscribe`) and of a thread that is inside a
  call of the store. Nobody is obliged to begin one.
- `World`, `Canvas`, `DomainWidget`, the meshes, the polygons, the stores: none; they have only safety properties.

## Proofs

All theorems hold for every value of the constants that satisfies the assumptions named.

**Scheduler** (`SchedulerProofs`; `ClientsAssumption`: the stopper is a client, the names are distinct).
`TypeCorrect`, `NobodyLeftBehind`, `WakeupsArrive` and `KeepsThePromise` (`Spec => ImplementsJobQueue`).
The inductive invariant is `IInv == TypeOK /\ MutexInv /\ PushInv /\ QueueInv /\ NothingLeftBehind`.
`MutexInv` ties the mutex to the two points of `loop()` that hold it; without it a pusher could slip
between `Exit`'s look at the queue and its setting of `m_exited`. `PushInv` says a job in the middle of
a push is new and belongs to one pusher, and `QueueInv` that what is queued is not new; without them
`Take` could settle a job that somebody pushes. `NoLostWakeup` is inductive on top of `IInv`.

**ThreadManager** (`ThreadManagerProofs`; `NamesAssumption`: names are distinct, `TasksAssumption`:
finitely many tasks are on their way at a time). `TypeCorrect`, `CountsAreRight`, `NoCallbackIsSwallowed`,
`ExitIsQuiet` and `OwnersHaveOneHistory`, also with workflows that retry or submit late. The invariant has, beside `TypeOK`, `CallbacksComeHome` and
`PendingCounts`, six named parts: `Order` (the workflow thread stops last), `Placement` (a task whose
place is a thread is in exactly one queue or hand, and conversely), `Steps` (what the workflow thread's
hand and entries are in each of its steps), `Entries` (which entry a queued, started or closed
workflow has), `Asked` (a task asked for is in its owner's submissions once) and `Posted`. The heart of
it is the pair `PendingCounts` and `Placement`: a workflow closes only when no task can still come back
to it, which is why the early return of `complete_task()`'s completion is never taken by a task
somebody waits for; and `Order` makes the workflow thread's exit a point where there is none at all, which
is what `cancel_open_workflows()` relies on. `OwnersHaveOneHistory` rests on a second invariant, `Histories`, inductive on top of the
first: each event of a workflow waits at most once in the queue, *running* before *finished*, only while its handle has not
seen it, and a handle that still waits for its answer has it in the queue once the workflow is closed.

**Refinement** (`ThreadManagerProofs`; additionally `LateSubmitters = {}`). `KeepsTheService`:
`Spec => ImplementsWorkflowService`. The mapping takes a workflow's entry to its stage, the tasks it owns
to what it is owed, and the Qt thread's state to the level of the service; one lemma per action that
is not a stutter. It needs one fact beside `IInv`: a job is cancelled only on a thread that was told to
stop, so a workflow that never started is answered only during a shutdown. The assumption is needed:
a task that is submitted late has no dispatch and never calls back.

**WorkflowHandle** (`WorkflowHandleProofs`; `CallbacksAssumption`: the owner's callbacks have names of their own).
`CallbacksRunOnce` (`HandleInv`) and `DestroyedIsSilent` (`NothingAfterDestroy`), for any callbacks and any nesting of them. The
invariant is `TypeOK /\ History /\ Answer /\ Custody /\ Waits`: what was posted is one of four sequences and what
waits is its end; after the answer nothing waits or is posted any more; a completion callback is with
its owner, in the handle or called, one place at a time; and one that is registered after the answer has a `deliver()` below it on the
stack that flushes it. Without `History` a second answer could arrive from the queue; without `Custody` a callback
could be called and registered again.

**Toggles** (`ToggleProofs`; `TableAssumption`: 0 is no register and somebody may do something; `BridgeAssumption`: the UI thread is
one of the threads, the bound key one of the keys). `StoreMatches` (`StoreInStep`), `MenuShowsTheStore` (`ShowsTheStore`) and
`HandlesReach` (`ResolvedStays`), for any keys, registers, threads and operations. The invariant has `Clearing` (one thread clears at a time, and the
generation is behind the operations begun), `Handles` (a handle of this generation, or one whose check no `clear()` has followed, names
the register its key has), `Stages` (what can be on its way to the action at each stage of the bridge's life) and
`Reconciled`: whenever action and store differ, a value is on its way that will make them agree: a notification to be made, a
posted value, or an emission. The last one is what `ShowsTheStore` needs and a run can only sample.

**Pilot** (`PilotProofs`; `BoundsAssumption`, `AgentAssumption`, `MaxRequestsAssumption`: the bounds are positive and no canvas is
called *none*). `PanelsShowTheirWork` (`PanelsInStep`), `ConversationIsKept` (`Conversation`) and `EndingsAreTruthful` (`TruthfulEnding`),
for any canvases, prompts, runs and lines. For the inspector the invariant says that a run is ended by its child or by the zero timer and never by
both, that its flags follow from which it is, and what may be in pipe and file (`Steady`, `Sound`). For the console, `Custody` says
that all threads but the panel's own are done and which signals of that one are still to come, and `Answers` gives the place of each prompt's
turn and reply in the transcript. The proof of `ReadyRead` needs what a batch of lines does as one step, which is why `ReadStdout` is not a
fold.

**World** (`WorldProofs`; `FormsAssumption`, `StepsAssumption`, `RefsAssumption`). `IndexFollows` (`IndexInStep`), `ChangesAreStamped`
(`StampMoves`) and `CanvasIsTyped` (`TypeOK`), for any shapes, histories, steps, pivots and turns. Two things have to be added to make them inductive:

- `Shapely`: boxes stay `Upright`, their sides parallel to the axes. `Refit` finds its frame by the box's side, so the box it makes is tight
  only then. The lemmas about `BoundBox`, `Turned` and `Refit` say that moves and quarter turns take the bounding box along. That a
  list of numbers has a largest one is an induction, which is done by hand with the well-foundedness of the numbers, as the library's
  induction theorems cannot be instantiated here.
- `Lived`: both histories make up one line of records with a cursor, and there is a set of live shapes for every place of the line such that each
  record finds its shape as it needs it: creating where it is dead, removing where it is live. Undo and redo move the cursor, so they are applied in
  the right state; commits, merges and a record left open extend the line. Without `Lived` an undo might revive a live shape and count it twice.

**World implements Timeline** (also in `WorldProofs`; the same assumptions). `KeepsThePromise`: `Spec => ImplementsTimeline`. The refinement mapping replays
the histories from the canvas, so a step would have to be compared with a replay of everything before and after it. The proof carries a *film*
instead (`Filmed`): one frame for every place of the line, where every record leads from its frame to the next *and its inverse back*
(`Fit`), and the open one from the frame at the cursor to the canvas. `FilmShows` proves that a film shows what the replay computes, whichever film it is; the
recursions of `Rewound` and `Replayed` are met by exhibiting the frames as their solution. Then every step is a small change of the film: a
commit adds a frame (`FramesCommit`), undo and redo move the cursor (`FramesUndo`, `FramesRedo`), a new shape widens all frames by a dead
shape (`FramesWider`), a merge replaces the frame it leads to (`FitMerge`), and a record without an effect leads from a frame
to itself (`FitNoop`), which is why it may be dropped. Frames keep types and points only: undoing leaves other oriented boxes behind than there were, so
with the boxes the inverse would not lead back.

**Canvas** (also in `WorldProofs`; `CanvasFormsAssumption`, `EndsAssumption` and those of `World`). `CanvasModes` (`ModesInStep`) and `DragsAreOneStep`
(`GestureIsOneStep`), for any shapes, forms, moves and bounds. Whatever the canvas does to the world is a step of `WorldStep`, so
the invariant and the film of the world are kept and only the canvas is left to argue about:

- the modes: a compound is open only while a drag edits and there is a world (`Bracketed`), no shape loses points (`BothEnds`), and
  what the mode holds are places of its path (`NodesKept`), also while that path is removed, since undoing brings it back to a mode that
  was never told;
- the drags: a drag that nobody else disturbs (`Alone`) has recorded at most one open record, it belongs to the shape under the press, and
  the film's frame before it is the picture at the press. Releasing the mouse commits that record or drops it for having no
  effect; either way the histories lead back to that picture.

**Collector** (`StoresProofs`; `CollectorBounds`). `CollectorKeepsItems` (`ItemsKept`), for any items, addresses, alignments and bounds. The invariant adds
to the types and to `NoneDangles` that blocks are no longer than they may be and none is at the null pointer (`Blocks`): a
move takes a block that was free, so it can overwrite nobody, and `Release` frees only what no owner is left for.

**Call profiler** (`StoresProofs`; `ProfilerBounds`). `ProfilerAgrees` (`ProfilerInStep`) and `ProfilerIsTheLog` (`KeepsTheLog`), for any names, bounds, and
any nesting of calls, resets and withdrawals. The invariant says of the tree that a node has its callers' nodes above it (`TreeInv`), of the keys that a
name has one and no two share it (`IdsInv`), of the counts that what lags behind is pending (`CountsInv`), and of the scopes that each one that
is not void has a depth of the call stack to itself, later ones deeper (`DepthInv`). From the last one follows that the scope that ends is
the cursor's own, which is why a stack of callbacks can stand for the scopes. The refinement maps paths of keys to paths of names: as keys are
injective, no two nodes are added up under one path, and a step of the tree is the step of the log.

**Viewer** (`MeshProofs`; `ViewerAssumption`, `NoIdAssumption`). `SceneFollows` (`SceneInStep`) and `ViewIsKept` (`KeepsView`), for any meshes,
fields, objects, names, picks and devices, and any order of the calls. Twenty kinds of call change the scene, so the proof is arranged by what a call leaves alone:

- `Links` relates a scene to pointers and objects: a pointer that is not null leads to a drawable of its kind, an object to one of its own,
  and every drawable has *one* who can remove it, a pointer, an object or a search for its kind. There are four ways in which calls
  change drawables, each with a lemma that it keeps `Links`: a pointer's drawable is replaced (`LinksSwap`), drawables found by their kind are replaced
  (`LinksSearch`), the three styles of the mesh are replaced (`LinksStyles`), an object is added (`LinksObject`). Each also says which kinds it touched (`Others`).
- `Untouched` carries styles, normals, selection, legend and view through a step that touches other kinds, so that a call owes
  a proof only for what it changes.
- `Legend` says more than the run checks: bar and widget agree on the colours also while no scalar field is drawn, since the
  next field is drawn with the colours of the widget and the legend stays as it is. What is in view must be, as a mesh recomputes the box from the box of the
  field that `fieldBox` remembers.

**Polygons** (`MeshProofs`; `OutlinesAssumption`: outlines are lists of points with integer coordinates). `PadStaysInStep`
(`PolygonSpec => []PadInStep`), for any outlines, bounds and order of calls. The invariant adds to `PadInStep` that ranges lie in the nodes
(`NodesOK`) and that what is kept for a polygon lies in the list of trapezoids and is its own (`CacheOK`). With the first, nodes that are
appended, those of a refused polygon too, move nobody's range; with the second, `Decomposed` may be applied to the two polygons one after
the other and leaves earlier ranges alone. That the index is the sides of all polygons put together after a step that appends to it is the lemma
`ConcatenatedAppend`.

**Meshes** (`MeshProofs`; `GridsAssumption`: finitely many nodes, numbered from 0, a cell has the nodes its type asks for, none twice, and no boundary is
called *none*). `MeshTablesAgree` (`StaticMeshSpec => []TablesAgree`), for any grids, cells of any of the seven types, and any order and repetition
of the calls. `PolygonSpec` and `StaticMeshSpec` are the modules' own specifications; the run makes the same steps, `PolygonNext` and `StaticMeshNext`,
in a session each. The invariant is `MeshIInv` with `GhostsFit`. `MeshIInv` has in it:

- `NodesAsGiven` and `GivenRows`: whatever the calls do, rows from 0 up are what the caller filled in and ghosts are below;
- `FaceRows` and `CellsListFaces`: the faces are those `build_interior()` finds from the nodes of the cells, with the nodes perhaps turned round by
  the metric, and behind each open one a ghost or nothing. That is why a second `build_interior()` or a boundary built in
  between changes nothing that others refer to;
- `BoundaryRows`: conditions claim open faces, each once (`OwnClaims`), and after `build_boundary()` all of them (`IsSplit`).

`FacesDiffer` is an argument about the hash of faces: raw faces are matched only with those at their first node, but having the same nodes is
symmetric among faces of one length, so the first of a class is found from each of its members (`TwinsHaveTheSameNodes`), and two that are
kept are never twins (`KeptDiffer`). `BoundaryIsSplit` follows the rows that `build_boundary()` hands out: those of a condition begin where
the faces of the conditions before it end (`BeforeIsOffset`), and what is left over is the last condition. `GhostsFit` is the longest. It is
a fold over boundary faces of a fold over the nodes and one over the faces of the cell, while `count_ghost()` only adds
up two differences per face. The step of the fold (`RowIsDone`) keeps that rows below zero have no gaps (`Filled`) and are as many as the
sum of the differences up to there: a cell gives a ghost to every node that its boundary face does not have (`LeftOut` counts them) and to each of
its faces but one. For the latter a cell must list each of its faces once, and the boundary face among them (`CellListsItsFaces`), which
`FacesOfCellDiffer` reads off the seven tables of types. That the node map is empty again after each cell (`Erased`) is part of what
the fold keeps; otherwise two ghost cells could share a node.

The lemmas on which these two rest come first in the module: what a fold that keeps a set of values returns (`Recursion`), where the items of lists put
together are (`ConcatenatedPlaces`), and that `Ascending` lists a finite set, each number once, the smaller first (`AscendingLists`). As the
provers cannot instantiate an operator in a lemma, each fold of the mesh has a copy of the first one (`Sums`, `Turns`, `NodeGhosts`,
`FaceGhosts`, `CellGhosts`).

**Only model-checked**:

- every liveness property (`NobodyStuck`, `EverybodyHears`, `ShutdownReturns`, `ResultArrives`, `EverythingEnds`, `CatchesUp`), since the
  prover has no rule for fairness and `ENABLED`;
- `TreeInStep` and `DomainIsMeshed`: the tree and the triangulation are recursions over data, and what they promise, a tree of balanced nodes
  and triangles that tile, is an induction over them that the provers cannot do;
- `AreasAreExact`: coverage of a plane by what a sweep leaves, decided at sample points;
- `MeshInStep`: normals, volumes and closedness are products of coordinates, out of the provers' arithmetic; that neighbours by nodes are neighbours
  by faces and that edges are all found says something of the given grid, which a theorem would have to assume;
- `ArraysAgree`: walks over arrays of any shape, recursive in the number of dimensions.

## What the runs found

`PROJECT.json` quotes the lines.

1. `scheduler_drop`: a Qt thread in Python's `manager.submit()` holds the GIL and waits for `m_mutex`;
   the loop thread holds `m_mutex`, at the end of an iteration, and waits for the GIL to destroy a
   Python job. Both wait forever.
2. `toggle_echo`: two opposite changes of a bound toggle, posted before the event loop delivers the first,
   make the menu action and the store set each other back and forth without end.

While modelling, more turned up that no run asserts, because the properties are stated so that they hold around it:

- *Thread manager.* A callback that resubmits after *Cancelled* keeps `shutdown()` from returning
  (RThreadManager.cpp:593; `Retriers = {}` in `manager_live`). What `cancel()` or `close()` submits through the context is never
  dispatched (RThreadManager.cpp:553 against RThreadManager.hpp:119; `LateSubmitters = {}`). Results
  produced by `shutdown()` are posted to an event loop that does not run again before the manager is deleted
  (RManager.cpp:196).
- *Handle.* `setState()` calls the registered `std::function` in place, so a state callback that
  registers another one, or destroys the owner, destroys the function that is running
  (RThreadManager.cpp:236, against the comment at :243).
- *World.* `record_op()` merges only like edits of one shape, so a compound of several is
  several undo steps (World.hpp:712 against :1669). `begin_operation()` inside a compound commits the open record
  (:713 against :1720).
- *R-tree.* With nodes of capacity 4, `split_node_impl()` can leave a seed alone under a box that is too large
  (rtree.hpp:554).
- *Pilot.* A quit that arrives between `FailedToStart` and the zero timer is taken back, contrary to the comment at
  _run.py:138. An answer's commands run on whatever canvas is active by then, and what they leave there is not marked.
- *Toggles.* The comment at toggle.hpp:252 promises that a callback never outlives the widget, yet the callback is copied before it is called
  outside the lock. `declare()` records the category even when it throws. Writing through a handle,
  `declare()` and `clear()` notify nobody, so `ShowsTheStore` holds but for them. A `set` of another type is
  silently dropped.
- *Profiler.* Python probes destroyed out of the order of their nesting pop each other's callbacks
  (RadixTree.cpp:71). Withdrawing the last top-level probe leaves what ended before it unpublished until the next outermost
  end. A serialised snapshot hides what is below a caller whose published count is 0
  (SerializableProfiler.hpp:58). In `_profiling.py`, `key_func` returns nothing, so sorting two siblings raises.
- *Collector.* An aligned collector that is still empty cannot be pushed to. The first `as_array()` copies, against the header's "without copying";
  `tolist()` makes a collector concrete and shrinks its capacity. A push after a pop or `clear()` overwrites what an earlier
  array shows.
- *Viewer.* `initialize()` leaves the title's pipeline of the old device (RDomainWidget.cpp:2115; `BuiltForDevice` excepts the title).
  `updateMesh()` leaves the clip, the slice, the selection's highlight, the boundary, the feature edges, the cube axes and the cell colouring
  of the old mesh. `setView` keeps a zoomed-in frame. `colorByCellType` pins the range. An object of a mesh without nodes makes the
  box infinite when it is moved (:380). The camera stays flat after a solid mesh.
- *Meshes.* In `fccls`, −1 is both "no cell" and the first ghost cell. Building the interior again under ghosts leaves tables without
  ghosts and their counts in place until `build_ghost()` (`torn` marks these states). A third cell on a face is dropped silently. `build_boundary()` before
  `build_interior()` reads `fccls` uninitialised, if the caller gave a number of faces. A mesh without nodes takes the maximum of an empty
  range (StaticMesh_interior.cpp:402). `build_ghost()` without metric mirrors about normals that nobody computed. The promise at _regular_domain.py:90, at most one
  boundary face per cell, cannot hold for a single row or column of boxes cut by diagonals (`OneOpenFace` excepts it). The super triangle is finite, 64 spans wide, so a
  thin enough triangle of the hull may be missing; points given twice are skipped.
- *Polygons.* `add_polygon()` appends nodes until it throws on one off the plane (polygon.hpp:2523), so they stay in the pad and belong to no polygon.
  The union and the intersection of a clockwise polygon with itself are the clockwise copy, against the statement of `test_boolean_result_ccw_winding`
  (test_universe_shape2d.py:1357), and those of a polygon without area keep it. The operations use only the numbers of the polygons they are given, so one of another
  pad stands silently for the polygon of that number here (polygon.hpp:2416). `test_decomposition_edge_order` decomposes nothing, so its loop is
  empty; `CutsTile` is what it means to say. An outline that crosses itself between two nodes is cut into twisted trapezoids; it is not among the outlines.
- *Canvas.* A press where the hidden rotate knob would be leaves the node-edit mode and starts a rotation (R2DWidget.cpp:741). A stroke under
  way survives `updateWorld()` and lands in the new world (:242). `clear()` reuses ids, so the selection and the
  nodes may afterwards be those of another shape; nodes beyond its path throw out of the paint event (`stale` marks these
  states). Somebody else's edit in the middle of a drag splits it into two undo steps.

- *Arrays.* `sum()` of dense items reads from the start of the buffer and not from the logical origin, so `x[1:].sum()` leaves out the last item and takes
  the first instead, against the comment at SimpleArray.hpp:371; `min()`, `max()`, `argwhere()`, sorting, comparisons, arithmetic in place and `add_simd()` do
  so for every view (`ScansAgree` and `CallAgrees` say for which layouts they are right; the comment at :1602 knows of sorting). `argwhere()` on an array in
  column order takes its place apart by the wrong strides. Transposing a view leaves its ghosts on the new first axis and its body where it was (:3017).
  `argmin()` of dense items that begin with a NaN answers a later NaN. A shape without axes cannot be the target of `reshape()`.

## What is not modelled

- `World`'s readers (`pick_shape`, `query_visible`, `collect_live_*`, `describe_state`), rings and holes,
  the pads as arrays, and rounding.
- Canvas: view transform, cursor, painting, export, highlights, the polling of the panel's pages, two canvases on one world,
  taking a world away, a mouse release that never arrives.
- Viewer: opacity, what mouse drags do to the camera, quality ranges, ticks, image capture.
- Pilot: the settings dialog of the agent, what a single command does to a world, the loop of a turn with its tools, the
  benchmark's schedule and statistics; `RManager` but for the end of the thread manager.
- Toggles: the reference `get_string()` returns, `clone()`, the fixed settings.
- Profiler: times. Buffers: `BufferExpander::as_concrete(cap)`, devices. Arrays: division, complex numbers, conversion of types, `SimpleArrayPlex`;
  rounding, so a mean or a variance is a fraction.
- Configuration, console history, shortcuts, themes, plots: sequential state of the user interface with
  good tests.
- Meshes: point cells, triangulation in space, the incenter variant of the metric (nothing turns it on), the text readers.
- Polygons: the pads of triangles and trapezoids, polygons from segments or curves, bounding boxes, `search_segments`, rounding and the tolerances against it.
- Matrix products, linear algebra, solvers, transforms, SIMD and device back ends: floating-point
  kernels, where the question is rounding and not order. Readers, writers and serialisation: input
  and output.

## Plan

Done, in order of what a mistake would cost and what a test would miss: the scheduler, the thread manager and the handle; the
world and its timeline; the tree; the panels and the pilot; the toggles; the profiler and the collector; the viewer;
the canvas; the meshes; the polygons; the arrays.

Proved, in that order as well: the scheduler, the thread manager and the handle with their refinements; the world, its stamp and
its timeline; the panels; the toggles; the canvas; the collector, the profiler and its log; the viewer.

Models to come: the loop of an agent's turn with its tools and the cancellable backend
(`solvcon/agent/_turn.py`, `_backends_impl.py`).
