-------------------------------- MODULE RTree --------------------------------
(***************************************************************************)
(* The R-tree of cpp/solvcon/universe/rtree.hpp, which a World keeps its   *)
(* shapes in: insertion, Guttman's split, removal with the reinsertion of  *)
(* what underfull nodes held, and search.  A tree is a value: a node has a *)
(* box, its items (a leaf) and its child nodes (an internal node), and     *)
(* every operation that the code performs in place returns the new tree.   *)
(* Boxes lie in a plane, as those of the canvas do.                        *)
(***************************************************************************)
EXTENDS Integers, SequencesExt, FiniteSetsExt

CONSTANTS
    Scenes,       \* [capacity, boxes, drawn]: MAX_ITEMS_PER_NODE, the boxes of
                  \* the items in the order the caller first inserts them,
                  \* and how many are in before the first is removed
    Queries,      \* the boxes searched for
    MaxRemovals   \* bound: how many removals a behaviour has

Box == {b \in Seq(Int) : Len(b) = 4 /\ b[1] <= b[3] /\ b[2] <= b[4]}

ASSUME ScenesAssumption ==
    \A scene \in Scenes :
        /\ scene.capacity \in 4 .. 64
        /\ Range(scene.boxes) \subseteq Box
        /\ scene.drawn \in 0 .. Len(scene.boxes)

ASSUME QueriesAssumption == Queries \subseteq Box /\ MaxRemovals \in Nat

VARIABLES
    scene,      \* the instance: fixed by RTreeInit
    root,       \* the tree, Null before the first insertion
    live,       \* what the caller has inserted and not removed
    inserted,   \* how many items have been inserted for the first time
    removals

rtreeVars == <<scene, root, live, inserted, removals>>

NodeCapacity == scene.capacity
MinEntries == NodeCapacity \div 2
BoxOf(item) == scene.boxes[item]

-----------------------------------------------------------------------------
(* Boxes. *)

Least(a, b) == IF b < a THEN b ELSE a
Most(a, b) == IF b > a THEN b ELSE a
Join(a, b) == <<Least(a[1], b[1]), Least(a[2], b[2]),
                Most(a[3], b[3]), Most(a[4], b[4])>>
Area(b) == (b[3] - b[1]) * (b[4] - b[2])
Overlap(a, b) == ~ (\/ b[1] > a[3] \/ b[3] < a[1]
                    \/ b[2] > a[4] \/ b[4] < a[2])
Encloses(a, b) == /\ b[1] >= a[1] /\ b[3] <= a[3]
                   /\ b[2] >= a[2] /\ b[4] <= a[4]
Enlargement(b, by) == Area(Join(b, by)) - Area(b)

-----------------------------------------------------------------------------
(* Nodes. *)

TreeNode(box, items, nodes) == [box |-> box, items |-> items, nodes |-> nodes]
Null == TreeNode(<<>>, <<>>, <<>>)
IsLeaf(node) == node.nodes = <<>>
BoxesIn(node) == [k \in DOMAIN node.items |-> BoxOf(node.items[k])]
                    \o [k \in DOMAIN node.nodes |-> node.nodes[k].box]
EntryCount(node) == IF node.items = <<>> THEN Len(node.nodes)
                                         ELSE Len(node.items)

\* recalculate_bound_box(); an empty node keeps the box it has.
Bounding(node, boxes) ==
    IF boxes = <<>> THEN node
    ELSE [node EXCEPT !.box = FoldLeft(Join, Head(boxes), Tail(boxes))]
Refit(node) == Bounding(node, BoxesIn(node))

-----------------------------------------------------------------------------
(* Splitting a node that has NodeCapacity + 1 entries. *)

\* pick_seeds(): the first pair that wastes most when put together.
Waste(a, b) == Area(Join(a, b)) - Area(a) - Area(b)
Wastes(boxes) ==
    [p \in {q \in (DOMAIN boxes) \X (DOMAIN boxes) : q[1] < q[2]} |->
        Waste(boxes[p[1]], boxes[p[2]])]
Worst(waste) ==
    CHOOSE p \in DOMAIN waste : \A q \in DOMAIN waste :
        \/ waste[q] < waste[p]
        \/ waste[q] = waste[p] /\ (p[1] < q[1] \/ (p[1] = q[1] /\ p[2] <= q[2]))
Seeds(boxes) == Worst(Wastes(boxes))

\* How many entries the loop believes it still has to place: it counts the
\* seeds that come later, which have been placed before it began.
Remaining(count, k) == count - k + 1

\* Where an entry's box would rather be: with the first seed's.
Prefers(b, box1, box2) ==
    LET Gain(e1, e2) == e1 < e2 \/ (e1 = e2 /\ Area(box1) < Area(box2))
    IN  Gain(Enlargement(box1, b), Enlargement(box2, b))

\* split_node_impl(): the indices of the two groups and whether the boxes
\* are recalculated at the end.  The comparison is with the boxes of the
\* seeds; those do not grow with the groups.
GroupsAround(boxes, seeds) ==
    LET Needs(group, k) == Len(group) + Remaining(Len(boxes), k) <= MinEntries
        Place(g, k) ==
            IF k \in {seeds[1], seeds[2]} THEN g
            ELSE IF Needs(g.one, k)
                 THEN [g EXCEPT !.one = Append(@, k), !.refit = TRUE]
            ELSE IF Needs(g.two, k)
                 THEN [g EXCEPT !.two = Append(@, k), !.refit = TRUE]
            ELSE IF Prefers(boxes[k], boxes[seeds[1]], boxes[seeds[2]])
                 THEN [g EXCEPT !.one = Append(@, k)]
                 ELSE [g EXCEPT !.two = Append(@, k)]
    IN  FoldLeft(Place,
                 [one |-> <<seeds[1]>>, two |-> <<seeds[2]>>, refit |-> FALSE],
                 [k \in DOMAIN boxes |-> k])
Groups(boxes) == GroupsAround(boxes, Seeds(boxes))

\* split_node(): the node and its new sibling.  A first group that stayed
\* the seed alone keeps the box of the whole node.
Part(node, group) ==
    IF IsLeaf(node)
    THEN TreeNode(node.box, [k \in DOMAIN group |-> node.items[group[k]]], <<>>)
    ELSE TreeNode(node.box, <<>>, [k \in DOMAIN group |-> node.nodes[group[k]]])
Halves(node, g) ==
    <<IF Len(g.one) > 1 \/ g.refit THEN Refit(Part(node, g.one)) ELSE Part(node, g.one),
      Refit(Part(node, g.two))>>
Split(node) == Halves(node, Groups(BoxesIn(node)))

-----------------------------------------------------------------------------
(* Insertion. *)

\* One level of choose_leaf_for_new_entry(): the first child that has to
\* grow least.
FirstLeast(growth) ==
    CHOOSE k \in DOMAIN growth : \A j \in DOMAIN growth :
        growth[k] < growth[j] \/ (growth[k] = growth[j] /\ k <= j)
ChosenChild(node, box) ==
    FirstLeast([k \in DOMAIN node.nodes |-> Enlargement(node.nodes[k].box, box)])

SplitIfFull(node) == IF EntryCount(node) > NodeCapacity THEN Split(node) ELSE <<node>>

\* adjust_tree() at one level: below is what became of the k-th child.
Adjusted(parts) == <<Refit(parts[1])>> \o Tail(parts)
Relinked(node, k, below) ==
    Adjusted(SplitIfFull([node EXCEPT !.nodes = ReplaceAt(@, k, below[1]) \o Tail(below)]))

\* The way down to a leaf and the way up: the node afterwards, followed by
\* the sibling it was split into, if it was.
RECURSIVE Inserted(_, _)
Inserted(node, item) ==
    LET Through(k) == Relinked(node, k, Inserted(node.nodes[k], item))
    IN  IF IsLeaf(node)
        THEN SplitIfFull(Refit([node EXCEPT !.items = Append(@, item)]))
        ELSE Through(ChosenChild(node, BoxOf(item)))

\* insert(), with the root that grows above a root that was split.
RootOver(parts) ==
    IF Len(parts) = 1 THEN parts[1]
    ELSE TreeNode(Join(parts[1].box, parts[2].box), <<>>, parts)
Grown(tree, item) ==
    RootOver(Inserted(IF tree = Null THEN TreeNode(BoxOf(item), <<>>, <<>>) ELSE tree, item))

-----------------------------------------------------------------------------
(* Removal. *)

\* The order in which reinsert_subtree() meets the items of a subtree.
RECURSIVE ItemsOf(_)
ItemsOf(node) ==
    node.items \o FlattenSeq([k \in DOMAIN node.nodes |-> ItemsOf(node.nodes[k])])

Underfull(node) == EntryCount(node) \in 1 .. MinEntries - 1

\* find_leaf_with_item() on the way down, condense_tree() on the way up:
\* the node without the item, and the nodes unlinked below it, lowest first.
Removed(node, unlinked) == [found |-> TRUE, node |-> node, unlinked |-> unlinked]
Missed(node) == [found |-> FALSE, node |-> node, unlinked |-> <<>>]
Condensed(node, k, below) ==
    IF Underfull(below.node)
    THEN Removed([node EXCEPT !.nodes = RemoveAt(@, k)],
                 Append(below.unlinked, below.node))
    ELSE Removed([node EXCEPT !.nodes[k] = Refit(below.node)], below.unlinked)
FirstFound(node, below) ==
    LET Found(k) == Condensed(node, k, below[k])
    IN  IF \E k \in DOMAIN below : below[k].found
        THEN Found(Min({k \in DOMAIN below : below[k].found}))
        ELSE Missed(node)

RECURSIVE Without(_, _)
Without(node, item) ==
    IF Contains(node.items, item)
    THEN Removed([node EXCEPT !.items = RemoveFirst(@, item)], <<>>)
    ELSE FirstFound(node, [k \in DOMAIN node.nodes |->
                              IF Encloses(node.nodes[k].box, BoxOf(item))
                              THEN Without(node.nodes[k], item)
                              ELSE Missed(node.nodes[k])])

\* Mutant: only the leaves among the unlinked nodes give their items back.
OrphansOfLeaves(unlinked) ==
    FlattenSeq([k \in DOMAIN unlinked |-> unlinked[k].items])

\* What condense_tree() inserts again.
Orphans(unlinked) == FlattenSeq([k \in DOMAIN unlinked |-> ItemsOf(unlinked[k])])

\* A root with a single child gives way to it, once.
Shortened(tree) == IF tree.items = <<>> /\ Len(tree.nodes) = 1
                   THEN tree.nodes[1] ELSE tree

\* remove().
Reinserted(tree, unlinked) == FoldLeft(Grown, tree, Orphans(unlinked))
AfterRemoval(tree, r) ==
    IF r.found THEN Shortened(Reinserted(r.node, r.unlinked)) ELSE tree
Shrunk(tree, item) == IF tree = Null THEN tree ELSE AfterRemoval(tree, Without(tree, item))

-----------------------------------------------------------------------------
(* search() *)

RECURSIVE Hits(_, _)
Hits(node, box) ==
    FlattenSeq([k \in DOMAIN node.nodes |->
                    IF Overlap(node.nodes[k].box, box)
                    THEN Hits(node.nodes[k], box) ELSE <<>>])
        \o SelectSeq(node.items, LAMBDA item : Overlap(BoxOf(item), box))

-----------------------------------------------------------------------------
(* What a caller does: new items in the scene's order, removals of anything *)
(* it has inserted, and removed items inserted again (World re-indexes a    *)
(* shape that moved).                                                       *)

RTreeInit ==
    /\ scene \in Scenes
    /\ root = Null
    /\ live = {}
    /\ inserted = 0
    /\ removals = 0

InsertNew ==
    /\ inserted < Len(scene.boxes)
    /\ inserted' = inserted + 1
    /\ live' = live \cup {inserted'}
    /\ root' = Grown(root, inserted')
    /\ UNCHANGED <<scene, removals>>

InsertAgain(item) ==
    /\ item \in (1 .. inserted) \ live
    /\ live' = live \cup {item}
    /\ root' = Grown(root, item)
    /\ UNCHANGED <<scene, inserted, removals>>

RemoveItem(item) ==
    /\ removals < MaxRemovals /\ inserted >= scene.drawn
    /\ item \in live
    /\ live' = live \ {item}
    /\ root' = Shrunk(root, item)
    /\ removals' = removals + 1
    /\ UNCHANGED <<scene, inserted>>

RTreeNext ==
    \/ InsertNew
    \/ \E item \in 1 .. inserted : InsertAgain(item) \/ RemoveItem(item)

-----------------------------------------------------------------------------
(* Properties. *)

RECURSIVE NodesOf(_)
NodesOf(node) == {node} \cup UNION {NodesOf(node.nodes[k]) : k \in DOMAIN node.nodes}

Below(node) == {node.nodes[k] : k \in DOMAIN node.nodes}
Inner == UNION {Below(n) : n \in NodesOf(root)}   \* every node but the root

\* A node holds items or nodes, and not more of them than it may.
RTreeTypeOK ==
    /\ scene \in Scenes /\ inserted \in 0 .. Len(scene.boxes)
    /\ live \subseteq 1 .. inserted /\ removals \in 0 .. MaxRemovals
    /\ root # Null =>
        \A n \in NodesOf(root) :
            /\ n.box \in Box
            /\ n.items = <<>> \/ n.nodes = <<>>
            /\ EntryCount(n) <= NodeCapacity
            /\ Range(n.items) \subseteq 1 .. inserted

\* Whatever was split, unlinked, reinserted and shortened before, a search
\* returns every live item that overlaps its box, and returns it once; what
\* was removed is never returned (World::pick_shape, query_visible).
SearchFinds ==
    \A q \in Queries :
        LET hits == Hits(root, q)
        IN  /\ Range(hits) = {item \in live : Overlap(BoxOf(item), q)}
            /\ IsInjective(hits)

\* MIN_ITEMS_PER_NODE is at least 4, as it is in World (32).  A smaller node
\* can be split into a lone seed, which keeps the box of the whole node, and
\* can lose its last entry without being unlinked.
Roomy == NodeCapacity >= 8

\* No search looks into a node for nothing: below the root, the box of a
\* node is the smallest that holds its entries, after splits
\* (split_node_impl's own recalculation) and after removals.
BoxesTight == Roomy => \A n \in Inner : Refit(n) = n

\* Every split leaves each side within two of half a node, because
\* split_node_impl() counts at most two seeds too many, and a node that a
\* removal leaves smaller is unlinked: no node but the root is emptier.
Filled == Roomy => \A n \in Inner : EntryCount(n) >= MinEntries - 2

\* Depth of the leaves.
RECURSIVE Depths(_)
Depths(node) == IF IsLeaf(node) THEN {0}
                ELSE {d + 1 : d \in UNION {Depths(n) : n \in Below(node)}}

\* All leaves are as deep as each other, however nodes were unlinked and
\* their items inserted again, so a search costs what a B-tree's would.
Balanced == Roomy => Cardinality(Depths(root)) = 1

\* The tree is a tree of what was inserted and not removed: it finds it, and
\* finds it without detours.
TreeInStep == RTreeTypeOK /\ SearchFinds /\ BoxesTight /\ Filled /\ Balanced
=============================================================================
