------------------------------ MODULE ToggleTable ------------------------------
(***************************************************************************)
(* The toggle store (DynamicToggleTable in solvcon/toggle): typed registers *)
(* behind a map of keys under one mutex, handles that go past the mutex,    *)
(* and the generation that refuses a handle after clear().  A section under *)
(* the mutex is one step, except in clear(), whose registers die before its *)
(* generation moves while a handle needs no lock to look at either.  A type *)
(* and its index into a column are kept as a type and the address of the    *)
(* register; a later register may get the address of a dead one.            *)
(***************************************************************************)
EXTENDS Integers, Sequences, FiniteSets

CONSTANTS
    Threads, Keys,
    Cells,      \* addresses of registers
    MaxOps      \* bound: how many operations a behaviour begins

ASSUME TableAssumption == MaxOps \in Nat \ {0} /\ 0 \notin Cells

VARIABLES
    index,       \* m_key2index: the type and the register of each key
    category,    \* m_categories
    reg,         \* the registers of all columns, by address
    generation,  \* m_generation
    ref,         \* the ToggleRef that each thread keeps
    doing,       \* what each thread is in the middle of
    ops          \* how many operations were begun

table == <<index, category, reg, generation>>
tableVars == <<table, ref, doing, ops>>

ValueTypes == {"bool", "int"}
Categories == {"Ops", "Release"}
NoEntry == [type |-> "none", cell |-> 0]
SubkeyEntry == [type |-> "subkey", cell |-> 0]
Dead == [type |-> "none", val |-> FALSE]
NoRef == [key |-> "none", type |-> "none", cell |-> 0, gen |-> 0]
Idle == [op |-> "idle"]

TableInit ==
    /\ index = [k \in Keys |-> NoEntry]
    /\ category = [k \in Keys |-> "Ops"]
    /\ reg = [c \in Cells |-> Dead]
    /\ generation = 0
    /\ ref = [t \in Threads |-> NoRef]
    /\ doing = [t \in Threads |-> Idle]
    /\ ops = 0

\* Only clear() holds the mutex for longer than a step.
Locked == \E t \in Threads : doing[t].op = "clearing"

Begin(t) == /\ doing[t] = Idle
            /\ ops < MaxOps /\ ops' = ops + 1
Become(t, what) == doing' = [doing EXCEPT ![t] = what]

\* get(): the default for a key that is missing or of another type.
Get(k, type, default) ==
    IF index[k].type = type THEN reg[index[k].cell].val ELSE default

Create(k, type, v, c) ==
    /\ reg[c] = Dead
    /\ reg' = [reg EXCEPT ![c] = [type |-> type, val |-> v]]
    /\ index' = [index EXCEPT ![k] = [type |-> type, cell |-> c]]

-----------------------------------------------------------------------------
(* Writing by key. *)

\* What set_TYPE() does under the mutex; the notification comes after it.
Write(t, k, type, v) ==
    \/ /\ index[k].type = type
       /\ IF reg[index[k].cell].val = v
          THEN UNCHANGED <<index, reg>> /\ Become(t, Idle)
          ELSE /\ reg' = [reg EXCEPT ![index[k].cell].val = v]
               /\ Become(t, [op |-> "notify", key |-> k])
               /\ UNCHANGED index
    \/ /\ index[k].type \notin {type, "none"}
       /\ UNCHANGED <<index, reg>> /\ Become(t, Idle)
    \/ /\ index[k].type = "none"
       /\ \E c \in Cells : Create(k, type, v, c)
       /\ Become(t, [op |-> "notify", key |-> k])

\* set_TYPE() called by a solver, a script or a test.
Set(t, k, type, v) ==
    /\ Begin(t) /\ ~ Locked
    /\ Write(t, k, type, v)
    /\ UNCHANGED <<category, generation, ref>>

-----------------------------------------------------------------------------
(* Declarations and handles. *)

RefTo(k, entry) ==
    [key |-> k, type |-> entry.type, cell |-> entry.cell, gen |-> generation]

\* declare(): the category is recorded even when the type is in conflict and
\* the call throws.
Declare(t, k, type, v, cat) ==
    /\ Begin(t) /\ ~ Locked
    /\ category' = [category EXCEPT ![k] = cat]
    /\ IF index[k].type = "none"
       THEN \E c \in Cells : Create(k, type, v, c)
       ELSE UNCHANGED <<index, reg>>
    /\ ref' = IF index'[k].type = type THEN [ref EXCEPT ![t] = RefTo(k, index'[k])] ELSE ref
    /\ UNCHANGED <<generation, doing>>

\* ref(): an invalid handle when the key is missing or of another type.
Ref(t, k, type) ==
    /\ Begin(t) /\ ~ Locked
    /\ ref' = [ref EXCEPT ![t] = IF index[k].type = type THEN RefTo(k, index[k]) ELSE NoRef]
    /\ UNCHANGED <<table, doing>>

AddSubkey(t, k) ==
    /\ Begin(t) /\ ~ Locked
    /\ index[k].type = "none"
    /\ index' = [index EXCEPT ![k] = SubkeyEntry]
    /\ UNCHANGED <<category, reg, generation, ref, doing>>

\* Mutant: a handle is good for ever.
ValidEver(r) == r # NoRef

Valid(r) == r # NoRef /\ r.gen = generation

\* load() and store() of a handle: check(), which throws or not...
Check(t, store, v) ==
    /\ Begin(t)
    /\ Valid(ref[t])
    /\ Become(t, [op |-> "checked", store |-> store, val |-> v, raced |-> Locked])
    /\ UNCHANGED <<table, ref>>

\* ... and the register, wherever it has gone.
Access(t) ==
    /\ doing[t].op = "checked"
    /\ reg' = IF doing[t].store /\ reg[ref[t].cell] # Dead
              THEN [reg EXCEPT ![ref[t].cell].val = doing[t].val] ELSE reg
    /\ Become(t, Idle)
    /\ UNCHANGED <<index, category, generation, ref, ops>>

-----------------------------------------------------------------------------
(* clear(). *)

\* Mutant: the map survives its registers.
EmptiedNot == UNCHANGED <<index, category>>

Emptied == /\ index' = [k \in Keys |-> NoEntry]
           /\ category' = [k \in Keys |-> "Ops"]

\* The map and the columns.  An access that was checked before may now go
\* anywhere.
Clear(t) ==
    /\ Begin(t) /\ ~ Locked
    /\ Emptied
    /\ reg' = [c \in Cells |-> Dead]
    /\ doing' = [u \in Threads |->
                    IF u = t THEN [op |-> "clearing"]
                    ELSE IF doing[u].op = "checked" THEN [doing[u] EXCEPT !.raced = TRUE]
                    ELSE doing[u]]
    /\ UNCHANGED <<generation, ref>>

Bump(t) ==
    /\ doing[t].op = "clearing"
    /\ generation' = generation + 1
    /\ Become(t, Idle)
    /\ UNCHANGED <<index, category, reg, ref, ops>>

\* The operations that tell no observer.
TableNext(t) ==
    \/ \E k \in Keys, type \in ValueTypes, v \in BOOLEAN, cat \in Categories :
        Declare(t, k, type, v, cat)
    \/ \E k \in Keys, type \in ValueTypes : Ref(t, k, type)
    \/ \E k \in Keys : AddSubkey(t, k)
    \/ \E store, v \in BOOLEAN : Check(t, store, v)
    \/ Access(t)
    \/ Clear(t)
    \/ Bump(t)

-----------------------------------------------------------------------------
(* Properties. *)

Entries == [type : ValueTypes, cell : Cells] \cup {NoEntry, SubkeyEntry}

TableTypeOK ==
    /\ index \in [Keys -> Entries]
    /\ category \in [Keys -> Categories]
    /\ reg \in [Cells -> [type : ValueTypes, val : BOOLEAN] \cup {Dead}]
    /\ generation \in 0 .. MaxOps /\ ops \in 0 .. MaxOps
    /\ ref \in [Threads -> [key : Keys, type : ValueTypes, cell : Cells, gen : Nat]
                           \cup {NoRef}]

\* The map and the columns tell the same story: every key of a value type
\* has a register of its own and of its type, and no register is without a
\* key.
RegistersMatch ==
    /\ \A k \in Keys :
        index[k].type \in ValueTypes => reg[index[k].cell].type = index[k].type
    /\ \A j, k \in Keys :
        j # k /\ index[j].type \in ValueTypes => index[j] # index[k]
    /\ \A c \in Cells : reg[c] # Dead => \E k \in Keys : index[k].cell = c

\* A key keeps its type until everything is cleared, whoever declares or
\* sets it, so what a caller resolved stays what it resolved.
TypesFixed ==
    [][\A k \in Keys :
        index'[k].type \in {index[k].type, "none"} \/ index[k].type = "none"]_tableVars

\* A handle reaches the register of its own key, however many toggles came
\* after it and whatever was cleared and declared anew, unless a clear()
\* runs between its check and its access.
HandleReaches ==
    [][\A t \in Threads :
        doing[t].op = "checked" /\ doing'[t] = Idle /\ ~ doing[t].raced
            => index[ref[t].key] = [type |-> ref[t].type, cell |-> ref[t].cell]]_tableVars
=============================================================================
