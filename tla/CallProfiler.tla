---------------------------- MODULE CallProfiler ----------------------------
(***************************************************************************)
(* The call profiler (profiling/RadixTree.hpp, RadixTree.cpp): a tree of   *)
(* callers with one node per path of calls, a cursor that follows the call *)
(* stack, a cancel callback per open call, and the nodes whose counts the  *)
(* next end of an outermost call publishes.                                *)
(*                                                                         *)
(* A node is the path of keys that leads to it; times are left out, the    *)
(* counts stand for them.  Probes are scopes: they end in the reverse of   *)
(* the order they began in, as C++ scopes and Python locals do.            *)
(***************************************************************************)
EXTENDS Naturals, SequencesExt, FiniteSets

CONSTANTS
    Names,      \* the names of callers
    MaxOpen,    \* bound: scopes open at once
    MaxEntries  \* bound: calls between two resets

ASSUME ProfilerBounds == MaxOpen \in Nat /\ MaxEntries \in Nat

VARIABLES
    nodes,      \* the tree below the root: path of keys -> caller name and counts
    current,    \* the node the cursor is at; <<>> is the root
    ids,        \* the id map: name -> key
    nextId,     \* m_unique_id
    stableIds,  \* the snapshot of the id map
    stableNext, \* the snapshot of m_unique_id
    callbacks,  \* m_cancel_callbacks: the scope each belongs to, 0 for none
    pending,    \* m_pending_nodes
    scopes      \* the probes and timed wrappers open, the innermost last

treeVars == <<nodes, current, ids, nextId, stableIds, stableNext>>
profilerVars == <<treeVars, callbacks, pending, scopes>>

Node == [name : Names, calls : Nat, stable : Nat]
Root == <<>>

ProfilerInit ==
    /\ nodes = <<>>
    /\ current = Root
    /\ ids = <<>> /\ nextId = 0
    /\ stableIds = <<>> /\ stableNext = 0
    /\ callbacks = <<>>
    /\ pending = {}
    /\ scopes = <<>>

-----------------------------------------------------------------------------
\* The operations of the tree and of the profiler.

NextId(name) == nextId + 1

\* A child is found by the key of its name and made when it is not there.
Entry(name) ==
    LET key == IF name \in DOMAIN ids THEN ids[name] ELSE nextId
        node == Append(current, key)
    IN /\ ids' = [n \in DOMAIN ids \cup {name} |-> IF n = name THEN key ELSE ids[n]]
       /\ nextId' = NextId(name)
       /\ current' = node
       /\ nodes' = [p \in DOMAIN nodes \cup {node} |->
                        IF p \in DOMAIN nodes THEN nodes[p]
                        ELSE [name |-> name, calls |-> 0, stable |-> 0]]

StartCaller(name, callback) ==
    /\ callbacks' = Append(callbacks, callback)
    /\ Entry(name)

Parent(p) == IF p = Root THEN Root ELSE Front(p)

\* Mutant: the callback stays behind when its call is popped.
PopCallerOnly == current' = Parent(current) /\ UNCHANGED callbacks
PopCaller ==
    /\ current' = Parent(current)
    /\ callbacks' = Front(callbacks)

Counted == [nodes EXCEPT ![current].calls = @ + 1]

Published(ns, ps) ==
    [p \in DOMAIN ns |-> IF p \in ps THEN [ns[p] EXCEPT !.stable = ns[p].calls] ELSE ns[p]]

\* Mutant: the end of any call publishes, not only of an outermost one.
OutermostAny == TRUE
Outermost == current' = Root

StillPending == pending \cup {current}

EndCaller ==
    /\ PopCaller
    /\ IF Outermost
       THEN /\ nodes' = Published(Counted, StillPending)
            /\ pending' = {}
            /\ stableIds' = ids /\ stableNext' = nextId
       ELSE /\ nodes' = Counted
            /\ pending' = StillPending
            /\ UNCHANGED <<stableIds, stableNext>>
    /\ UNCHANGED <<ids, nextId>>

-----------------------------------------------------------------------------
\* The scopes that call them.

Scope(name, frame, timed) == [name |-> name, frame |-> frame, timed |-> timed, cancel |-> FALSE]

\* A probe begins, or a timed wrapper, which leaves no cancel callback.
Begin(name, timed) ==
    /\ Len(scopes) < MaxOpen
    /\ nextId < MaxEntries
    /\ StartCaller(name, IF timed THEN 0 ELSE Len(scopes) + 1)
    /\ scopes' = Append(scopes, Scope(name, current', timed))
    /\ UNCHANGED <<stableIds, stableNext, pending>>

End ==
    /\ scopes # <<>>
    /\ scopes' = Front(scopes)
    /\ IF Last(scopes).cancel THEN UNCHANGED <<treeVars, callbacks, pending>> ELSE EndCaller

\* Python asks a probe to withdraw its call; unless it is the innermost one
\* discard_caller() throws and nothing changes.  The functions that timed
\* wrappers wrap run no Python.
NoneTimed == \A i \in DOMAIN scopes : ~ scopes[i].timed

Cancel(i) ==
    /\ NoneTimed
    /\ i \in DOMAIN scopes
    /\ ~ scopes[i].cancel
    /\ scopes[i].frame = current
    /\ PopCaller
    /\ scopes' = [scopes EXCEPT ![i].cancel = TRUE]
    /\ UNCHANGED <<nodes, ids, nextId, stableIds, stableNext, pending>>

Dropped == {}

\* Every probe is told that its call is void, then the tree starts afresh.
Reset ==
    /\ NoneTimed
    /\ nodes' = <<>> /\ current' = Root
    /\ ids' = <<>> /\ nextId' = 0
    /\ stableIds' = <<>> /\ stableNext' = 0
    /\ scopes' = [i \in DOMAIN scopes |->
                    [scopes[i] EXCEPT !.cancel = @ \/ i \in Range(callbacks)]]
    /\ callbacks' = <<>>
    /\ pending' = Dropped

ProfilerNext ==
    \/ \E name \in Names, timed \in BOOLEAN : Begin(name, timed)
    \/ End
    \/ \E i \in 1..MaxOpen : Cancel(i)
    \/ Reset

ProfilerSpec == ProfilerInit /\ [][ProfilerNext]_profilerVars

-----------------------------------------------------------------------------
\* Every variable has its type.
ProfilerTypeOK ==
    /\ \A p \in DOMAIN nodes : p \in Seq(0..MaxEntries) \ {Root} /\ nodes[p] \in Node
    /\ current \in DOMAIN nodes \cup {Root}
    /\ DOMAIN ids \subseteq Names /\ DOMAIN stableIds \subseteq DOMAIN ids
    /\ nextId \in 0..MaxEntries /\ stableNext \in 0..nextId
    /\ callbacks \in Seq(0..MaxOpen)

\* The scopes whose call is not void, in the order they began.
NotVoid == {i \in DOMAIN scopes : ~ scopes[i].cancel}
UpTo(i) == {j \in NotVoid : j <= i}
Live == [k \in 1..Cardinality(NotVoid) |-> CHOOSE i \in NotVoid : Cardinality(UpTo(i)) = k]

\* The callbacks are those of the live scopes, in the order the scopes began,
\* and the cursor is at the node of the innermost one: ends, withdrawals and
\* resets in any order leave no callback of a scope that is gone and no live
\* scope without the node it will count (RadixTree.cpp:15, :62, :71).
StackAgrees ==
    /\ Len(callbacks) = Len(Live)
    /\ \A k \in DOMAIN Live :
         /\ callbacks[k] = IF scopes[Live[k]].timed THEN 0 ELSE Live[k]
         /\ scopes[Live[k]].frame = SubSeq(current, 1, k)
    /\ Len(current) = Len(Live)

\* The nodes to publish are nodes of the tree, and are just those whose
\* counts ran ahead of what a snapshot shows (RadixTree.hpp:305).
PendingIsTheLag ==
    pending = {p \in DOMAIN nodes : nodes[p].calls # nodes[p].stable}

\* A key stands for one name in the whole tree, and a node that a snapshot
\* shows has its key in the id map the same snapshot carries
\* (SerializableProfiler.hpp:58, RadixTree.hpp:193).
KeysNameCallers ==
    \A p \in DOMAIN nodes :
        /\ ids[nodes[p].name] = Last(p)
        /\ nodes[p].stable > 0 => /\ nodes[p].name \in DOMAIN stableIds
                                  /\ stableIds[nodes[p].name] = Last(p)
                                  /\ Last(p) < stableNext

NamesOf(p) == [i \in DOMAIN p |-> nodes[SubSeq(p, 1, i)].name]

Tally(count) ==
    LET counted == {p \in DOMAIN nodes : count[p] > 0}
    IN [q \in {NamesOf(p) : p \in counted} |->
            count[CHOOSE p \in counted : NamesOf(p) = q]]

Log == INSTANCE CallLog WITH
    open <- [k \in DOMAIN Live |-> scopes[Live[k]].name],
    total <- Tally([p \in DOMAIN nodes |-> nodes[p].calls]),
    shown <- Tally([p \in DOMAIN nodes |-> nodes[p].stable])

\* The profiler is the call log: each path of callers has the number of calls
\* that returned and were not withdrawn, and the published counts catch up
\* when an outermost call ends (RadixTree.cpp:48).
KeepsTheLog == Log!LogSpec

\* The scopes, the tree, the id map and the list of nodes to publish are four
\* accounts of the same calls, and none of them falls behind another.
ProfilerInStep == ProfilerTypeOK /\ StackAgrees /\ PendingIsTheLag /\ KeysNameCallers
=============================================================================
