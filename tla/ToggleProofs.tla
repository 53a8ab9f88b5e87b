----------------------------- MODULE ToggleProofs -----------------------------
(***************************************************************************)
(* What holds of the toggle store and of the menu action bound to one of   *)
(* its keys, for every number of threads, keys, registers and operations.  *)
(***************************************************************************)
EXTENDS ToggleBridge, TLAPS

\* What a thread can be in the middle of.
Doings ==
    [op : {"idle", "clearing", "making", "fire"}]
        \cup [op : {"checked"}, store : BOOLEAN, val : BOOLEAN, raced : BOOLEAN]
        \cup [op : {"notify"}, key : Keys]
        \cup [op : {"set", "emit"}, val : BOOLEAN]

\* One thread clears at a time, and the generation it will write is counted by
\* the operations that were begun.
Clearing ==
    /\ \A t, u \in Threads : doing[t].op = "clearing" /\ doing[u].op = "clearing" => t = u
    /\ generation <= ops
    /\ Locked => generation < ops

\* A handle of this generation names the register its key has, and so does one
\* that was checked in any generation, until a clear() comes in between.
EntryOf(r) == [type |-> r.type, cell |-> r.cell]
Handles ==
    \A t \in Threads :
        /\ ref[t] # NoRef => ref[t].gen <= generation
        /\ ref[t] # NoRef /\ ref[t].gen = generation /\ ~ Locked
            => index[ref[t].key] = EntryOf(ref[t])
        /\ doing[t].op = "checked" =>
            /\ ref[t] # NoRef
            /\ ~ doing[t].raced => index[ref[t].key] = EntryOf(ref[t])

\* Where the bridge is in its life tells what can be on its way to it.
Stages ==
    /\ observed => bridge = "bound"
    /\ \A t \in Threads :
        /\ doing[t].op \in {"fire", "emit"} => bridge \in {"bound", "gone"}
        /\ doing[t].op \in {"making", "set"} => t = ui
    /\ doing[ui].op = "making" => bridge = "made"
    /\ doing[ui].op = "set" => doing[ui].val = checked

\* A value is on its way to the action, or the action's to the store.
Coming(v) ==
    \/ \E t \in Threads : doing[t].op = "fire"
    \/ \E t \in Threads : doing[t].op = "emit" /\ doing[t].val = v
    \/ \E i \in 1 .. Len(posted) : posted[i] = v
    \/ doing[ui].op = "set"

\* When the action and the store differ, something is coming that ends it.
Held == reg[index[Key].cell].val
Reconciled ==
    bridge \in {"made", "bound"} /\ ~ silent /\ index[Key].type = "bool" /\ checked # Held
        => Coming(Held)

Types == TypeOK /\ doing \in [Threads -> Doings]

IInv ==
    /\ Types
    /\ RegistersMatch
    /\ Clearing
    /\ Handles
    /\ Stages
    /\ Reconciled

-----------------------------------------------------------------------------
(* What a thread is doing.                                                 *)

\* The values of doing that actions write are values it may have.
LEMMA SomeDoings ==
    /\ Idle \in Doings /\ [op |-> "clearing"] \in Doings
    /\ [op |-> "making"] \in Doings /\ [op |-> "fire"] \in Doings
    /\ \A k \in Keys : [op |-> "notify", key |-> k] \in Doings
    /\ \A v \in BOOLEAN : [op |-> "set", val |-> v] \in Doings /\ [op |-> "emit", val |-> v] \in Doings
  BY DEF Doings, Idle

\* A thread that goes on to something else leaves the others in theirs.
LEMMA BecomeFacts ==
    ASSUME Types, NEW t \in Threads, NEW what \in Doings, Become(t, what)
    PROVE /\ doing' \in [Threads -> Doings]
          /\ doing'[t] = what
          /\ \A u \in Threads : u # t => doing'[u] = doing[u]
  BY DEF Types, Become

-----------------------------------------------------------------------------
(* The map and the columns.                                                *)

Registers == [type : ValueTypes, val : BOOLEAN] \cup {Dead}

\* An entry of a value type has a register, and the entry of a missing key or
\* of a subkey has none.
LEMMA EntryFacts ==
    ASSUME NEW e \in Entries
    PROVE /\ e.type \in ValueTypes => e.cell \in Cells
          /\ e.type \notin ValueTypes => e.cell \notin Cells /\ e \in {NoEntry, SubkeyEntry}
          /\ e.type = "none" => e = NoEntry
          /\ NoEntry.type = "none" /\ SubkeyEntry.type = "subkey"
          /\ "none" \notin ValueTypes /\ "subkey" \notin ValueTypes
  BY TableAssumption DEF Entries, NoEntry, SubkeyEntry, ValueTypes

\* A register is dead just when it has no value type.
LEMMA RegisterFacts ==
    ASSUME NEW r \in Registers
    PROVE /\ r # Dead => r.type \in ValueTypes /\ r.val \in BOOLEAN
          /\ Dead.type \notin ValueTypes
  BY DEF Registers, Dead, ValueTypes

\* What a step may do to the map and the columns without a clear(): an entry
\* stays, and one that appears had a dead register.
Grows ==
    /\ index' \in [Keys -> Entries]
    /\ reg' \in [Cells -> Registers]
    /\ RegistersMatch'
    /\ \A k \in Keys : index[k].type # "none" => index'[k] = index[k]
    /\ \A k \in Keys :
        index'[k] # index[k] /\ index'[k].type \in ValueTypes => reg[index'[k].cell] = Dead

\* A step that leaves the map and the columns alone.
LEMMA SameGrows == ASSUME IInv, UNCHANGED <<index, reg>> PROVE Grows
  BY DEF IInv, Types, TypeOK, TableTypeOK, Grows, Registers, RegistersMatch

\* A new key gets a register that no key has.
LEMMA CreateGrows ==
    ASSUME IInv, NEW k \in Keys, NEW type \in ValueTypes, NEW v \in BOOLEAN, NEW c \in Cells,
           index[k].type = "none", Create(k, type, v, c)
    PROVE Grows /\ index'[k] = [type |-> type, cell |-> c]
<1> DEFINE e == [type |-> type, cell |-> c]
           r == [type |-> type, val |-> v]
<1>1. index \in [Keys -> Entries] /\ reg \in [Cells -> Registers]
  BY DEF IInv, Types, TypeOK, TableTypeOK, Registers
<1>2. /\ e \in Entries /\ e.type = type /\ e.cell = c
      /\ r \in Registers /\ r.type = type /\ r # Dead
  BY RegisterFacts DEF Entries, Registers, Dead, ValueTypes
<1> HIDE DEF e, r
<1>3. index' = [index EXCEPT ![k] = e] /\ reg' = [reg EXCEPT ![c] = r] /\ reg[c] = Dead
  BY DEF Create, e, r
<1>4. index' \in [Keys -> Entries] /\ reg' \in [Cells -> Registers]
  BY <1>1, <1>2, <1>3
<1>5. /\ index'[k] = e /\ \A j \in Keys : j # k => index'[j] = index[j]
      /\ reg'[c] = r /\ \A d \in Cells : d # c => reg'[d] = reg[d]
  BY <1>1, <1>3
<1>6. \A j \in Keys : index[j].type \in ValueTypes => index[j].cell \in Cells /\ index[j].cell # c
  BY <1>1, <1>3, EntryFacts, RegisterFacts DEF IInv, RegistersMatch
<1>7. ASSUME NEW j \in Keys, index'[j].type \in ValueTypes
      PROVE reg'[index'[j].cell].type = index'[j].type
  <2>1. CASE j = k
    BY <1>2, <1>5, <2>1
  <2>2. CASE j # k
    BY <1>5, <1>6, <1>7, <2>2 DEF IInv, RegistersMatch
  <2> QED BY <2>1, <2>2
<1>8. ASSUME NEW i \in Keys, NEW j \in Keys, i # j, index'[i].type \in ValueTypes
      PROVE index'[i] # index'[j]
  <2>1. CASE i # k /\ j # k
    BY <1>5, <1>8, <2>1 DEF IInv, RegistersMatch
  <2>2. CASE i = k
    BY <1>2, <1>5, <1>6, <1>8, <2>2
  <2>3. CASE j = k
    BY <1>2, <1>5, <1>6, <1>8, <2>3
  <2> QED BY <2>1, <2>2, <2>3
<1>9. ASSUME NEW d \in Cells, reg'[d] # Dead PROVE \E j \in Keys : index'[j].cell = d
  <2>1. CASE d = c
    BY <1>2, <1>5, <2>1
  <2>2. CASE d # c
    <3>1. PICK j \in Keys : index[j].cell = d
      BY <1>5, <1>9, <2>2 DEF IInv, RegistersMatch
    <3>2. j # k
      BY <1>1, <3>1, EntryFacts
    <3> QED BY <1>5, <3>1, <3>2
  <2> QED BY <2>1, <2>2
<1>10. RegistersMatch'
  BY <1>7, <1>8, <1>9 DEF RegistersMatch
<1> QED BY <1>2, <1>3, <1>4, <1>5, <1>10 DEF Grows, e

\* A write to a register keeps its type.
LEMMA AssignGrows ==
    ASSUME IInv, NEW c \in Cells, NEW v \in BOOLEAN, reg[c] # Dead,
           reg' = [reg EXCEPT ![c].val = v], UNCHANGED index
    PROVE Grows /\ reg'[c].val = v
<1>1. index \in [Keys -> Entries] /\ reg \in [Cells -> Registers]
  BY DEF IInv, Types, TypeOK, TableTypeOK, Registers
<1>2. reg[c] \in [type : ValueTypes, val : BOOLEAN]
  BY <1>1 DEF Registers
<1>3. /\ reg' \in [Cells -> Registers]
      /\ reg'[c].type = reg[c].type /\ reg'[c].val = v /\ reg'[c] # Dead
      /\ \A d \in Cells : d # c => reg'[d] = reg[d]
  BY <1>1, <1>2 DEF Registers, Dead, ValueTypes
<1>4. RegistersMatch'
  <2>1. \A j \in Keys : index[j].type \in ValueTypes => index[j].cell \in Cells
    BY <1>1, EntryFacts
  <2>2. \A d \in Cells : reg'[d].type = reg[d].type
    BY <1>3
  <2> QED BY <1>3, <2>1, <2>2 DEF IInv, RegistersMatch
<1> QED BY <1>1, <1>3, <1>4 DEF Grows

\* What set_TYPE() does to the store, and what its thread does next.
LEMMA WriteFacts ==
    ASSUME IInv, NEW t \in Threads, NEW k \in Keys, NEW type \in ValueTypes, NEW v \in BOOLEAN,
           Write(t, k, type, v)
    PROVE /\ Grows
          /\ index'[k].type = type => reg'[index'[k].cell].val = v
          /\ doing' \in [Threads -> Doings]
          /\ doing'[t] \in {Idle, [op |-> "notify", key |-> k]}
          /\ \A u \in Threads : u # t => doing'[u] = doing[u]
<1>0. index \in [Keys -> Entries] /\ reg \in [Cells -> Registers] /\ "none" \notin ValueTypes
  BY DEF IInv, Types, TypeOK, TableTypeOK, Registers, ValueTypes
<1>1. ASSUME NEW what \in {Idle, [op |-> "notify", key |-> k]}, Become(t, what)
      PROVE /\ doing' \in [Threads -> Doings]
            /\ doing'[t] \in {Idle, [op |-> "notify", key |-> k]}
            /\ \A u \in Threads : u # t => doing'[u] = doing[u]
  BY <1>1, SomeDoings, BecomeFacts DEF IInv
<1>2. CASE index[k].type = type
  <2>1. index[k].cell \in Cells /\ reg[index[k].cell] # Dead
    BY <1>0, <1>2, EntryFacts, RegisterFacts DEF IInv, RegistersMatch
  <2>2. CASE reg[index[k].cell].val = v
    BY <1>1, <1>0, <1>2, <2>2, SameGrows DEF Write
  <2>3. CASE reg[index[k].cell].val # v
    BY <1>1, <1>0, <1>2, <2>1, <2>3, AssignGrows DEF Write
  <2> QED BY <2>2, <2>3
<1>3. CASE index[k].type \notin {type, "none"}
  BY <1>1, <1>3, SameGrows DEF Write
<1>4. CASE index[k].type = "none"
  <2>1. PICK c \in Cells : Create(k, type, v, c)
    BY <1>0, <1>4 DEF Write
  <2>2. Become(t, [op |-> "notify", key |-> k])
    BY <1>0, <1>4 DEF Write
  <2>3. reg'[c].val = v
    BY <1>0, <2>1 DEF Create
  <2>4. Grows /\ index'[k] = [type |-> type, cell |-> c]
    BY <1>4, <2>1, CreateGrows
  <2>5. index'[k].cell = c
    BY <2>4
  <2> QED BY <1>1, <2>2, <2>3, <2>4, <2>5
<1> QED BY <1>2, <1>3, <1>4

-----------------------------------------------------------------------------
(* What the parts of the invariant need from a step.                       *)

\* The types that do not change with the map and the columns.
LEMMA GrowsTypes ==
    ASSUME IInv, Grows,
           UNCHANGED generation, ops' \in 0 .. MaxOps,
           category' \in [Keys -> Categories],
           ref' \in [Threads -> [key : Keys, type : ValueTypes, cell : Cells, gen : Nat] \cup {NoRef}]
    PROVE TableTypeOK'
  BY DEF IInv, Types, TypeOK, TableTypeOK, Grows, Registers

\* The operations that are in the middle of something.
LEMMA DoingTypes ==
    ASSUME NEW d \in [Threads -> Doings]
    PROVE \A t \in Threads :
        d[t].op \in {"idle", "clearing", "checked", "notify", "making", "set", "fire", "emit"}
  BY DEF Doings

\* A thread that was neither clearing nor checked is neither now, unless it is
\* where it was: handles and generation stay as they fit.
LEMMA HandlesStay ==
    ASSUME IInv, Grows, UNCHANGED <<generation, ref>>, ops' \in {ops, ops + 1}, ops \in Nat,
           \A t \in Threads : doing[t].op = "clearing" => doing'[t] = doing[t],
           \A t \in Threads : doing'[t].op \in {"clearing", "checked"} => doing'[t] = doing[t]
    PROVE Clearing' /\ Handles'
<1>1. Locked' <=> Locked
  BY DEF Locked
<1>2. Clearing'
  BY <1>1 DEF IInv, Clearing, Types, TypeOK, TableTypeOK
<1>3. \A t \in Threads : ref[t] # NoRef =>
        ref[t].key \in Keys /\ ref[t].type \in ValueTypes /\ "none" \notin ValueTypes
        /\ EntryOf(ref[t]).type = ref[t].type
  BY DEF IInv, Types, TypeOK, TableTypeOK, ValueTypes, EntryOf
<1>4. \A t \in Threads : ref[t] # NoRef /\ index[ref[t].key] = EntryOf(ref[t])
        => index'[ref[t].key] = EntryOf(ref[t])
  BY <1>3 DEF Grows
<1>5. Handles'
  BY <1>1, <1>4 DEF IInv, Handles, EntryOf
<1> QED BY <1>2, <1>5

\* A step of the store alone leaves the bridge where it was.
LEMMA StagesStay ==
    ASSUME IInv, UNCHANGED <<bridge, checked>>, observed' => observed,
           \A t \in Threads : doing'[t].op \in {"fire", "emit", "making", "set"} => doing'[t] = doing[t]
    PROVE Stages'
  BY BridgeAssumption DEF IInv, Stages

\* A change of the bridge's register that nobody is told of is remembered as
\* silent; any other step of the store leaves what is coming as it was.
LEMMA StoreReconciled ==
    ASSUME IInv,
           index'[Key] = index[Key] \/ index'[Key].type # "bool" \/ reg[index'[Key].cell] = Dead,
           RegistersMatch', Remember, UNCHANGED <<bridge, checked, posted>>,
           \A t \in Threads : doing[t].op \in {"fire", "emit", "set"} => doing'[t] = doing[t]
    PROVE Reconciled'
<1> SUFFICES ASSUME bridge \in {"made", "bound"}, ~ silent', index'[Key].type = "bool", checked # Held'
             PROVE Coming(Held)'
  BY DEF Reconciled
<1>1. ~ silent /\ reg'[index'[Key].cell] = reg[index'[Key].cell]
  BY DEF Remember, Told
<1>2. reg'[index'[Key].cell].type = "bool"
  BY BridgeAssumption DEF RegistersMatch, ValueTypes
<1>3. index'[Key] = index[Key]
  BY <1>1, <1>2 DEF Dead
<1>4. Held' = Held
  BY <1>1, <1>3 DEF Held
<1>5. Coming(Held)
  BY <1>1, <1>3, <1>4 DEF IInv, Reconciled
<1> QED BY <1>4, <1>5, BridgeAssumption DEF Coming

-----------------------------------------------------------------------------
(* The life of the bridge.                                                 *)

\* The bridge takes over what the store has, or gives it what the action has.
LEMMA MakeIInv == ASSUME IInv, Make PROVE IInv'
<1> USE BridgeAssumption
<1>1. Grows /\ index'[Key].type = "bool"
  <2>1. CASE index[Key].type = "none"
    <3>1. PICK c \in Cells : Create(Key, "bool", checked, c)
      BY <2>1 DEF Make
    <3>2. "bool" \in ValueTypes /\ checked \in BOOLEAN
      BY DEF ValueTypes, IInv, Types, TypeOK
    <3>3. Grows /\ index'[Key] = [type |-> "bool", cell |-> c]
      BY <2>1, <3>1, <3>2, CreateGrows
    <3> QED BY <3>3
  <2>2. CASE index[Key].type # "none"
    BY <2>2, SameGrows DEF Make
  <2> QED BY <2>1, <2>2
<1>2. /\ doing' \in [Threads -> Doings] /\ doing'[ui] = [op |-> "making"]
      /\ \A u \in Threads : u # ui => doing'[u] = doing[u]
  BY SomeDoings, BecomeFacts DEF Make, IInv
<1>3. doing[ui].op = "idle" /\ doing'[ui].op = "making"
  BY <1>2 DEF Make, Idle
<1>4. checked' \in BOOLEAN
  <2>1. "bool" \in ValueTypes /\ index'[Key].cell \in Cells
    BY <1>1, EntryFacts DEF Grows, ValueTypes
  <2>2. reg'[index'[Key].cell].type = "bool" /\ reg'[index'[Key].cell] \in Registers
    BY <1>1, <2>1 DEF Grows, RegistersMatch
  <2> QED BY <2>2, RegisterFacts DEF Make, ValueTypes, Dead
<1>5. category' \in [Keys -> Categories]
  BY DEF Make, IInv, Types, TypeOK, TableTypeOK, Categories
<1>6. TableTypeOK'
  BY <1>1, <1>5, GrowsTypes DEF Make, IInv, Types, TypeOK, TableTypeOK
<1>7. Types'
  BY <1>2, <1>4, <1>6, DoingTypes DEF Make, IInv, Types, TypeOK
<1>8. Clearing' /\ Handles'
  BY <1>1, <1>2, <1>3, HandlesStay DEF Make, IInv, Types, TypeOK, TableTypeOK
<1>9. Stages'
  BY <1>2, <1>3 DEF Make, IInv, Stages
<1>10. Reconciled'
  BY DEF Make, Reconciled, Held
<1> QED BY <1>1, <1>7, <1>8, <1>9, <1>10 DEF IInv, Grows

\* The bridge hears of changes from here on.
LEMMA SubscribeIInv == ASSUME IInv, Subscribe PROVE IInv'
<1> USE BridgeAssumption
<1>1. Grows
  BY SameGrows DEF Subscribe, table
<1>2. /\ doing' \in [Threads -> Doings] /\ doing'[ui] = Idle
      /\ \A u \in Threads : u # ui => doing'[u] = doing[u]
  BY SomeDoings, BecomeFacts DEF Subscribe, IInv
<1>3. doing[ui].op = "making" /\ doing'[ui].op = "idle"
  BY <1>2 DEF Subscribe, Idle
<1>4. TableTypeOK'
  BY <1>1, GrowsTypes DEF Subscribe, table, IInv, Types, TypeOK, TableTypeOK
<1>5. Types'
  BY <1>2, <1>4, DoingTypes DEF Subscribe, IInv, Types, TypeOK
<1>6. Clearing' /\ Handles'
  BY <1>1, <1>2, <1>3, HandlesStay DEF Subscribe, table, IInv, Types, TypeOK, TableTypeOK
<1>7. Stages'
  BY <1>2, <1>3 DEF Subscribe, IInv, Stages
<1>8. Reconciled'
  <2>1. bridge = "made"
    BY <1>3 DEF IInv, Stages
  <2>2. \A v : Coming(v) => Coming(v)'
    BY <1>2, <1>3 DEF Subscribe, Coming
  <2> QED BY <2>1, <2>2 DEF Subscribe, table, IInv, Reconciled, Held
<1> QED BY <1>1, <1>5, <1>6, <1>7, <1>8 DEF IInv, Grows

\* Nothing is expected of a bridge that is gone.
LEMMA ReleaseIInv == ASSUME IInv, Release PROVE IInv'
<1>1. Grows
  BY SameGrows DEF Release, tableVars, table
<1>2. Types'
  <2>1. TableTypeOK'
    BY DEF Release, tableVars, table, IInv, Types, TypeOK, TableTypeOK
  <2>2. <<>> \in Seq(BOOLEAN)
    OBVIOUS
  <2> QED BY <2>1, <2>2 DEF Release, tableVars, IInv, Types, TypeOK
<1>3. Clearing' /\ Handles'
  BY <1>1, HandlesStay DEF Release, tableVars, table, IInv, Types, TypeOK, TableTypeOK
<1>4. Stages'
  BY DEF Release, tableVars, Idle, IInv, Stages
<1>5. Reconciled'
  BY DEF Release, Reconciled
<1> QED BY <1>1, <1>2, <1>3, <1>4, <1>5 DEF IInv, Grows

\* What was on its way to the action is delivered even so.
LEMMA ClearObserversIInv == ASSUME IInv, ClearObservers PROVE IInv'
<1>1. Grows
  BY SameGrows DEF ClearObservers, table
<1>2. ops \in 0 .. MaxOps /\ ops' = ops + 1 /\ ops' \in 0 .. MaxOps
  BY TableAssumption DEF ClearObservers, Begin, IInv, Types, TypeOK, TableTypeOK
<1>3. TableTypeOK'
  BY <1>1, <1>2, GrowsTypes DEF ClearObservers, table, IInv, Types, TypeOK, TableTypeOK
<1>4. Types'
  BY <1>3 DEF ClearObservers, IInv, Types, TypeOK
<1>5. Clearing' /\ Handles'
  BY <1>1, <1>2, HandlesStay DEF ClearObservers, table
<1>6. Stages'
  BY StagesStay DEF ClearObservers
<1>7. Reconciled'
  BY DEF ClearObservers, table, IInv, Reconciled, Held, Coming
<1> QED BY <1>1, <1>4, <1>5, <1>6, <1>7 DEF IInv, Grows

-----------------------------------------------------------------------------
(* The action.                                                             *)

\* An action that changes writes the store.
LEMMA SetCheckedFacts ==
    ASSUME IInv, NEW v \in BOOLEAN, SetChecked(v), doing[ui] = Idle
    PROVE /\ checked' = v
          /\ doing' \in [Threads -> Doings]
          /\ doing'[ui] = IF v # checked THEN [op |-> "set", val |-> v] ELSE Idle
          /\ \A u \in Threads : u # ui => doing'[u] = doing[u]
<1>1. CASE v # checked
  BY <1>1, SomeDoings, BecomeFacts, BridgeAssumption DEF SetChecked, IInv
<1>2. CASE v = checked
  BY <1>2 DEF SetChecked, IInv, Types
<1> QED BY <1>1, <1>2

\* The user's click goes to the store.
LEMMA ClickIInv == ASSUME IInv, Click PROVE IInv'
<1> USE BridgeAssumption
<1>1. Grows
  BY SameGrows DEF Click, table
<1>2. ops \in 0 .. MaxOps /\ ops' = ops + 1 /\ ops' \in 0 .. MaxOps /\ checked \in BOOLEAN
  BY TableAssumption DEF Click, Begin, IInv, Types, TypeOK, TableTypeOK
<1>3. /\ checked' = ~ checked
      /\ doing' \in [Threads -> Doings] /\ doing'[ui] = [op |-> "set", val |-> checked']
      /\ \A u \in Threads : u # ui => doing'[u] = doing[u]
  BY <1>2, SetCheckedFacts DEF Click, Begin
<1>4. doing[ui].op = "idle" /\ doing'[ui].op = "set" /\ doing'[ui].val = checked'
  BY <1>3 DEF Click, Begin, Idle
<1>5. TableTypeOK'
  BY <1>1, <1>2, GrowsTypes DEF Click, table, IInv, Types, TypeOK, TableTypeOK
<1>6. Types'
  BY <1>2, <1>3, <1>5, DoingTypes DEF Click, IInv, Types, TypeOK
<1>7. Clearing' /\ Handles'
  BY <1>1, <1>2, <1>3, <1>4, HandlesStay DEF Click, table
<1>8. Stages'
  BY <1>3, <1>4 DEF Click, IInv, Stages
<1>9. Reconciled'
  BY <1>4 DEF Reconciled, Coming
<1> QED BY <1>1, <1>6, <1>7, <1>8, <1>9 DEF IInv, Grows

\* The oldest posted value is either what the action has, and then not what is
\* awaited, or it makes the action write the store.
LEMMA DeliverIInv == ASSUME IInv, Deliver PROVE IInv'
<1> USE BridgeAssumption
<1>1. Grows
  BY SameGrows DEF Deliver, table
<1>2. /\ Head(posted) \in BOOLEAN /\ posted' \in Seq(BOOLEAN)
      /\ Head(posted) = posted[1]
      /\ \A i \in 1 .. Len(posted) : i # 1 => i - 1 \in 1 .. Len(posted') /\ posted'[i - 1] = posted[i]
  BY DEF Deliver, IInv, Types, TypeOK
<1>3. /\ checked' = Head(posted)
      /\ doing' \in [Threads -> Doings]
      /\ doing'[ui] = IF Head(posted) # checked THEN [op |-> "set", val |-> Head(posted)] ELSE Idle
      /\ \A u \in Threads : u # ui => doing'[u] = doing[u]
  BY <1>2, SetCheckedFacts DEF Deliver
<1>4. /\ doing[ui].op = "idle" /\ doing'[ui].op \in {"idle", "set"}
      /\ checked' # checked => doing'[ui].op = "set"
      /\ doing'[ui].op = "set" => doing'[ui].val = checked'
  BY <1>3 DEF Deliver, Idle
<1>5. TableTypeOK'
  BY <1>1, GrowsTypes DEF Deliver, table, IInv, Types, TypeOK, TableTypeOK
<1>6. Types'
  BY <1>2, <1>3, <1>5, DoingTypes DEF Deliver, IInv, Types, TypeOK
<1>7. Clearing' /\ Handles'
  BY <1>1, <1>3, <1>4, HandlesStay DEF Deliver, table, IInv, Types, TypeOK, TableTypeOK
<1>8. Stages'
  BY <1>3, <1>4 DEF Deliver, IInv, Stages
<1>9. Reconciled'
  <2>1. CASE checked' # checked
    BY <1>4, <2>1 DEF Reconciled, Coming
  <2>2. CASE checked' = checked
    <3>1. Held' = Held
      BY DEF Deliver, table, Held
    <3>2. checked # Held /\ Coming(Held) => Coming(Held)'
      BY <1>2, <1>3, <1>4, <2>2, <3>1 DEF Coming
    <3> QED BY <2>2, <3>1, <3>2 DEF Deliver, table, IInv, Reconciled
  <2> QED BY <2>1, <2>2
<1> QED BY <1>1, <1>6, <1>7, <1>8, <1>9 DEF IInv, Grows

\* The action's write leaves the store with the action's value, if its key is
\* of the type.
LEMMA ToggledIInv == ASSUME IInv, Toggled PROVE IInv'
<1> USE BridgeAssumption
<1>1. doing[ui].op = "set" /\ doing[ui].val = checked /\ checked \in BOOLEAN /\ "bool" \in ValueTypes
  BY DEF Toggled, IInv, Stages, Types, TypeOK, ValueTypes
<1>2. /\ Grows
      /\ index'[Key].type = "bool" => reg'[index'[Key].cell].val = checked
      /\ doing' \in [Threads -> Doings]
      /\ doing'[ui] \in {Idle, [op |-> "notify", key |-> Key]}
      /\ \A u \in Threads : u # ui => doing'[u] = doing[u]
  BY <1>1, WriteFacts DEF Toggled
<1>3. doing'[ui].op \in {"idle", "notify"}
  BY <1>2 DEF Idle
<1>4. TableTypeOK'
  BY <1>2, GrowsTypes DEF Toggled, IInv, Types, TypeOK, TableTypeOK
<1>5. silent' \in BOOLEAN
  BY DEF Toggled, Remember
<1>6. Types'
  BY <1>2, <1>4, <1>5, DoingTypes DEF Toggled, IInv, Types, TypeOK
<1>7. Clearing' /\ Handles'
  BY <1>1, <1>2, <1>3, HandlesStay DEF Toggled, IInv, Types, TypeOK, TableTypeOK
<1>8. Stages'
  BY <1>2, <1>3, StagesStay DEF Toggled
<1>9. Reconciled'
  BY <1>2 DEF Toggled, Reconciled, Held
<1> QED BY <1>2, <1>6, <1>7, <1>8, <1>9 DEF IInv, Grows

-----------------------------------------------------------------------------
(* The notification.                                                       *)

\* A change that the bridge is told of is not silent: the callback is coming.
LEMMA NotifyIInv == ASSUME IInv, NEW t \in Threads, Notify(t) PROVE IInv'
<1> USE BridgeAssumption
<1> DEFINE mine == doing[t].key = Key /\ observed
<1>1. Grows
  BY SameGrows DEF Notify, table
<1>2. /\ doing' \in [Threads -> Doings] /\ doing'[t] = IF mine THEN [op |-> "fire"] ELSE Idle
      /\ \A u \in Threads : u # t => doing'[u] = doing[u]
  BY SomeDoings, BecomeFacts DEF Notify, IInv
<1>3. /\ doing[t].op = "notify" /\ doing'[t].op \in {"fire", "idle"}
      /\ doing'[t].op = "fire" <=> mine
      /\ mine => bridge = "bound"
      /\ silent' = (silent /\ ~ mine)
  BY <1>2 DEF Notify, Idle, IInv, Stages
<1> HIDE DEF mine
<1>4. TableTypeOK'
  BY <1>1, GrowsTypes DEF Notify, table, IInv, Types, TypeOK, TableTypeOK
<1>5. silent' \in BOOLEAN
  BY <1>3
<1>6. Types'
  BY <1>2, <1>4, <1>5, DoingTypes DEF Notify, IInv, Types, TypeOK
<1>7. Clearing' /\ Handles'
  BY <1>1, <1>2, <1>3, HandlesStay DEF Notify, table, IInv, Types, TypeOK, TableTypeOK
<1>8. Stages'
  BY <1>2, <1>3 DEF Notify, IInv, Stages
<1>9. Reconciled'
  <2>1. CASE mine
    BY <1>3, <2>1 DEF Reconciled, Coming
  <2>2. CASE ~ mine
    <3>1. \A v : Coming(v) => Coming(v)'
      BY <1>2, <1>3 DEF Notify, Coming
    <3> QED BY <1>3, <2>2, <3>1 DEF Notify, table, IInv, Reconciled, Held
  <2> QED BY <2>1, <2>2
<1> QED BY <1>1, <1>6, <1>7, <1>8, <1>9 DEF IInv, Grows

\* The callback reads the value there is.
LEMMA FireIInv == ASSUME IInv, NEW t \in Threads, Fire(t) PROVE IInv'
<1> USE BridgeAssumption
<1> DEFINE read == Get(Key, "bool", checked)
<1>1. Grows
  BY SameGrows DEF Fire, table
<1>2. read \in BOOLEAN /\ (index[Key].type = "bool" => read = Held)
  <2>1. CASE index[Key].type = "bool"
    <3>1. index[Key].cell \in Cells
      BY <2>1, EntryFacts DEF IInv, Types, TypeOK, TableTypeOK, ValueTypes
    <3>2. reg[index[Key].cell].type = "bool" /\ reg[index[Key].cell] \in Registers
      BY <2>1, <3>1 DEF IInv, RegistersMatch, Types, TypeOK, TableTypeOK, Registers, ValueTypes
    <3> QED BY <2>1, <3>2, RegisterFacts DEF Get, Held, Dead, ValueTypes
  <2>2. CASE index[Key].type # "bool"
    BY <2>2 DEF Get, IInv, Types, TypeOK
  <2> QED BY <2>1, <2>2
<1> HIDE DEF read
<1>3. /\ doing' \in [Threads -> Doings]
      /\ doing'[t] = IF bridge = "bound" THEN [op |-> "emit", val |-> read] ELSE Idle
      /\ \A u \in Threads : u # t => doing'[u] = doing[u]
  <2>1. Become(t, IF bridge = "bound" THEN [op |-> "emit", val |-> read] ELSE Idle)
    BY DEF Fire, read
  <2> QED BY <1>2, <2>1, SomeDoings, BecomeFacts DEF IInv
<1>4. /\ doing[t].op = "fire" /\ doing'[t].op \in {"emit", "idle"}
      /\ bridge = "bound" => doing'[t].op = "emit" /\ doing'[t].val = read
      /\ bridge \in {"bound", "gone"}
  BY <1>3 DEF Fire, Idle, IInv, Stages
<1>5. TableTypeOK'
  BY <1>1, GrowsTypes DEF Fire, table, IInv, Types, TypeOK, TableTypeOK
<1>6. Types'
  BY <1>3, <1>5, DoingTypes DEF Fire, bridgeVars, IInv, Types, TypeOK
<1>7. Clearing' /\ Handles'
  BY <1>1, <1>3, <1>4, HandlesStay DEF Fire, table, IInv, Types, TypeOK, TableTypeOK
<1>8. Stages'
  BY <1>3, <1>4 DEF Fire, bridgeVars, IInv, Stages
<1>9. Reconciled'
  <2>1. Held' = Held
    BY DEF Fire, table, Held
  <2>2. CASE bridge = "bound"
    BY <1>2, <1>4, <2>1, <2>2 DEF Fire, table, Reconciled, Coming
  <2>3. CASE bridge # "bound"
    BY <1>4, <2>3 DEF Fire, bridgeVars, Reconciled
  <2> QED BY <2>2, <2>3
<1> QED BY <1>1, <1>6, <1>7, <1>8, <1>9 DEF IInv, Grows

\* What the callback read goes to the queue of the UI thread.
LEMMA EmitIInv == ASSUME IInv, NEW t \in Threads, Emit(t) PROVE IInv'
<1> USE BridgeAssumption
<1>1. Grows
  BY SameGrows DEF Emit, table
<1>2. /\ doing' \in [Threads -> Doings] /\ doing'[t] = Idle
      /\ \A u \in Threads : u # t => doing'[u] = doing[u]
  BY SomeDoings, BecomeFacts DEF Emit, IInv
<1>3. /\ doing[t].op = "emit" /\ doing'[t].op = "idle" /\ doing[t].val \in BOOLEAN
      /\ bridge \in {"bound", "gone"}
  BY <1>2 DEF Emit, Idle, IInv, Stages, Types, Doings
<1>4. TableTypeOK'
  BY <1>1, GrowsTypes DEF Emit, table, IInv, Types, TypeOK, TableTypeOK
<1>5. /\ posted' \in Seq(BOOLEAN)
      /\ bridge = "bound" =>
            /\ \E i \in 1 .. Len(posted') : posted'[i] = doing[t].val
            /\ \A i \in 1 .. Len(posted) : i \in 1 .. Len(posted') /\ posted'[i] = posted[i]
  <2>1. CASE bridge = "bound"
    <3>1. posted' = Append(posted, doing[t].val) /\ posted \in Seq(BOOLEAN)
      BY <2>1 DEF Emit, IInv, Types, TypeOK
    <3>2. /\ posted' \in Seq(BOOLEAN) /\ Len(posted') = Len(posted) + 1 /\ Len(posted) \in Nat
          /\ posted'[Len(posted) + 1] = doing[t].val
          /\ \A i \in 1 .. Len(posted) : posted'[i] = posted[i]
      BY <1>3, <3>1
    <3>3. Len(posted) + 1 \in 1 .. Len(posted')
      BY <3>2
    <3> QED BY <3>2, <3>3
  <2>2. CASE bridge # "bound"
    BY <2>2 DEF Emit, IInv, Types, TypeOK
  <2> QED BY <2>1, <2>2
<1>6. Types'
  BY <1>2, <1>4, <1>5, DoingTypes DEF Emit, IInv, Types, TypeOK
<1>7. Clearing' /\ Handles'
  BY <1>1, <1>2, <1>3, HandlesStay DEF Emit, table, IInv, Types, TypeOK, TableTypeOK
<1>8. Stages'
  BY <1>2, <1>3 DEF Emit, IInv, Stages
<1>9. Reconciled'
  <2>1. Held' = Held
    BY DEF Emit, table, Held
  <2>2. CASE bridge = "bound"
    <3>1. Coming(Held) => Coming(Held)'
      BY <1>2, <1>3, <1>5, <2>1, <2>2 DEF Coming
    <3> QED BY <2>1, <3>1 DEF Emit, table, IInv, Reconciled
  <2>3. CASE bridge # "bound"
    BY <1>3, <2>3 DEF Emit, Reconciled
  <2> QED BY <2>2, <2>3
<1> QED BY <1>1, <1>6, <1>7, <1>8, <1>9 DEF IInv, Grows

-----------------------------------------------------------------------------
(* The operations of the store.                                            *)

\* An operation that is begun counts.
LEMMA BeginFacts ==
    ASSUME IInv, NEW t \in Threads, Begin(t)
    PROVE doing[t].op = "idle" /\ ops \in Nat /\ ops' = ops + 1 /\ ops' \in 0 .. MaxOps
  BY TableAssumption DEF Begin, Idle, IInv, Types, TypeOK, TableTypeOK

\* What a step of the store leaves of the bridge and the types of the rest.
LEMMA StoreTypes ==
    ASSUME IInv, TableTypeOK', doing' \in [Threads -> Doings],
           Remember, UNCHANGED <<bridge, checked, posted, observed>>
    PROVE Types'
<1>1. silent' \in BOOLEAN
  BY DEF Remember
<1> QED BY <1>1, DoingTypes DEF IInv, Types, TypeOK

\* The register of a key that is declared was dead, so a step that only adds
\* keys tells of the bridge's.
LEMMA GrowsReconciled ==
    ASSUME IInv, Grows, Remember, UNCHANGED <<bridge, checked, posted>>,
           \A t \in Threads : doing[t].op \in {"fire", "emit", "set"} => doing'[t] = doing[t]
    PROVE Reconciled'
<1>1. index'[Key] = index[Key] \/ index'[Key].type # "bool" \/ reg[index'[Key].cell] = Dead
  BY BridgeAssumption DEF Grows, ValueTypes
<1> QED BY <1>1, StoreReconciled DEF Grows

\* A thread gets a handle to what the map says, or none.
LEMMA RefMoves ==
    ASSUME IInv, Grows, NEW t \in Threads, Begin(t), ~ Locked, UNCHANGED <<generation, doing>>,
           \/ ref' = ref
           \/ ref' = [ref EXCEPT ![t] = NoRef]
           \/ \E k \in Keys : /\ index'[k].type \in ValueTypes
                              /\ ref' = [ref EXCEPT ![t] = RefTo(k, index'[k])]
    PROVE /\ ref' \in [Threads -> [key : Keys, type : ValueTypes, cell : Cells, gen : Nat] \cup {NoRef}]
          /\ Clearing' /\ Handles'
<1> DEFINE Refs == [key : Keys, type : ValueTypes, cell : Cells, gen : Nat] \cup {NoRef}
<1>1. ref \in [Threads -> Refs] /\ generation \in Nat
  BY DEF IInv, Types, TypeOK, TableTypeOK
<1>2. doing[t].op = "idle" /\ ops \in Nat /\ ops' = ops + 1
  BY BeginFacts
<1>3. CASE ref' = ref
  BY <1>1, <1>2, <1>3, HandlesStay
<1>4. ASSUME NEW r \in Refs, ref' = [ref EXCEPT ![t] = r],
             r # NoRef => r.gen = generation /\ index'[r.key] = EntryOf(r)
      PROVE ref' \in [Threads -> Refs] /\ Clearing' /\ Handles'
  <2>1. ref' \in [Threads -> Refs]
    BY <1>1, <1>4
  <2>2. ref'[t] = r /\ \A u \in Threads : u # t => ref'[u] = ref[u]
    BY <1>1, <1>4
  <2>3. ~ Locked'
    BY DEF Locked
  <2>4. Clearing'
    BY <1>2, <2>3 DEF IInv, Clearing, Types, TypeOK, TableTypeOK
  <2>5. \A u \in Threads : ref[u] # NoRef /\ index[ref[u].key] = EntryOf(ref[u])
        => index'[ref[u].key] = EntryOf(ref[u])
    <3>1. \A u \in Threads : ref[u] # NoRef =>
            ref[u].key \in Keys /\ EntryOf(ref[u]).type \in ValueTypes /\ "none" \notin ValueTypes
      BY <1>1 DEF ValueTypes, EntryOf
    <3> QED BY <3>1 DEF Grows
  <2>6. ASSUME NEW u \in Threads
        PROVE /\ ref'[u] # NoRef => ref'[u].gen <= generation'
              /\ ref'[u] # NoRef /\ ref'[u].gen = generation' /\ ~ Locked'
                  => index'[ref'[u].key] = EntryOf(ref'[u])
              /\ doing'[u].op = "checked" =>
                  /\ ref'[u] # NoRef
                  /\ ~ doing'[u].raced => index'[ref'[u].key] = EntryOf(ref'[u])
    <3>1. CASE u = t
      BY <1>1, <1>2, <1>4, <2>2, <3>1
    <3>2. CASE u # t
      BY <2>2, <2>3, <2>5, <3>2 DEF IInv, Handles
    <3> QED BY <3>1, <3>2
  <2> QED BY <2>1, <2>4, <2>6 DEF Handles, EntryOf
<1>5. CASE ref' = [ref EXCEPT ![t] = NoRef]
  BY <1>4, <1>5
<1>6. ASSUME NEW k \in Keys, index'[k].type \in ValueTypes,
             ref' = [ref EXCEPT ![t] = RefTo(k, index'[k])]
      PROVE ref' \in [Threads -> Refs] /\ Clearing' /\ Handles'
  <2> DEFINE r == RefTo(k, index'[k])
  <2>1. index'[k].cell \in Cells /\ index'[k] = [type |-> index'[k].type, cell |-> index'[k].cell]
    BY <1>6, EntryFacts DEF Grows, Entries, NoEntry, SubkeyEntry, ValueTypes
  <2>2. r \in Refs /\ r.gen = generation /\ r.key = k /\ EntryOf(r) = index'[k]
    BY <1>1, <1>6, <2>1 DEF RefTo, EntryOf
  <2> HIDE DEF r
  <2>3. ref' = [ref EXCEPT ![t] = r]
    BY <1>6 DEF r
  <2> QED BY <1>4, <2>2, <2>3
<1> QED BY <1>3, <1>5, <1>6

\* declare() adds a key, or finds it, and may hand out a handle.
LEMMA DeclareIInv ==
    ASSUME IInv, NEW t \in Threads, NEW k \in Keys, NEW type \in ValueTypes, NEW v \in BOOLEAN,
           NEW cat \in Categories, Store(Declare(t, k, type, v, cat))
    PROVE IInv'
<1> USE BridgeAssumption
<1>1. Grows
  <2>1. CASE index[k].type = "none"
    <3>1. PICK c \in Cells : Create(k, type, v, c)
      BY <2>1 DEF Store, Declare
    <3> QED BY <2>1, <3>1, CreateGrows
  <2>2. CASE index[k].type # "none"
    BY <2>2, SameGrows DEF Store, Declare
  <2> QED BY <2>1, <2>2
<1>2. doing[t].op = "idle" /\ ops \in Nat /\ ops' = ops + 1 /\ ops' \in 0 .. MaxOps
  BY BeginFacts DEF Store, Declare
<1>3. /\ ref' \in [Threads -> [key : Keys, type : ValueTypes, cell : Cells, gen : Nat] \cup {NoRef}]
      /\ Clearing' /\ Handles'
  <2>1. Begin(t) /\ ~ Locked /\ UNCHANGED <<generation, doing>>
        /\ ref' = IF index'[k].type = type THEN [ref EXCEPT ![t] = RefTo(k, index'[k])] ELSE ref
    BY DEF Store, Declare
  <2> QED BY <1>1, <2>1, RefMoves
<1>4. category' \in [Keys -> Categories]
  BY DEF Store, Declare, IInv, Types, TypeOK, TableTypeOK
<1>5. TableTypeOK'
  BY <1>1, <1>2, <1>3, <1>4, GrowsTypes DEF Store, Declare
<1>6. Types'
  BY <1>5, StoreTypes DEF Store, Declare, IInv, Types
<1>7. Stages'
  BY StagesStay DEF Store, Declare
<1>8. Reconciled'
  BY <1>1, GrowsReconciled DEF Store, Declare
<1> QED BY <1>1, <1>3, <1>6, <1>7, <1>8 DEF IInv, Grows

\* ref() looks a key up.
LEMMA RefIInv ==
    ASSUME IInv, NEW t \in Threads, NEW k \in Keys, NEW type \in ValueTypes, Store(Ref(t, k, type))
    PROVE IInv'
<1> USE BridgeAssumption
<1>1. Grows
  BY SameGrows DEF Store, Ref, table
<1>2. doing[t].op = "idle" /\ ops \in Nat /\ ops' = ops + 1 /\ ops' \in 0 .. MaxOps
  BY BeginFacts DEF Store, Ref
<1>3. /\ ref' \in [Threads -> [key : Keys, type : ValueTypes, cell : Cells, gen : Nat] \cup {NoRef}]
      /\ Clearing' /\ Handles'
  <2>1. Begin(t) /\ ~ Locked /\ UNCHANGED <<index, generation, doing>>
        /\ ref' = [ref EXCEPT ![t] = IF index[k].type = type THEN RefTo(k, index[k]) ELSE NoRef]
    BY DEF Store, Ref, table
  <2> QED BY <1>1, <2>1, RefMoves
<1>4. TableTypeOK'
  BY <1>1, <1>2, <1>3, GrowsTypes DEF Store, Ref, table, IInv, Types, TypeOK, TableTypeOK
<1>5. Types'
  BY <1>4, StoreTypes DEF Store, Ref, IInv, Types
<1>6. Stages'
  BY StagesStay DEF Store, Ref
<1>7. Reconciled'
  BY <1>1, GrowsReconciled DEF Store, Ref
<1> QED BY <1>1, <1>3, <1>5, <1>6, <1>7 DEF IInv, Grows

\* A subkey has no register.
LEMMA AddSubkeyIInv ==
    ASSUME IInv, NEW t \in Threads, NEW k \in Keys, Store(AddSubkey(t, k)) PROVE IInv'
<1> USE BridgeAssumption
<1>1. index \in [Keys -> Entries] /\ SubkeyEntry \in Entries /\ NoEntry \in Entries
  BY DEF IInv, Types, TypeOK, TableTypeOK, Entries
<1>2. /\ index' \in [Keys -> Entries] /\ index'[k] = SubkeyEntry /\ UNCHANGED reg
      /\ index[k].type = "none"
      /\ \A j \in Keys : j # k => index'[j] = index[j]
  BY <1>1 DEF Store, AddSubkey
<1>3. RegistersMatch'
  <2>1. SubkeyEntry.type \notin ValueTypes
    BY <1>1, EntryFacts
  <2>2. \A j \in Keys : index'[j].type \in ValueTypes => j # k
    BY <1>2, <2>1
  <2>3. \A c \in Cells : index[k].cell # c
    BY <1>1, <1>2, EntryFacts
  <2>4. ASSUME NEW i \in Keys, NEW j \in Keys, i # j, index'[i].type \in ValueTypes
        PROVE index'[i] # index'[j]
    BY <1>2, <2>1, <2>2, <2>4 DEF IInv, RegistersMatch
  <2>5. ASSUME NEW c \in Cells, reg'[c] # Dead PROVE \E j \in Keys : index'[j].cell = c
    BY <1>2, <2>3, <2>5 DEF IInv, RegistersMatch
  <2> QED BY <1>2, <2>2, <2>4, <2>5 DEF IInv, RegistersMatch
<1>4. Grows
  BY <1>1, <1>2, <1>3, EntryFacts DEF Grows, IInv, Types, TypeOK, TableTypeOK, Registers
<1>5. doing[t].op = "idle" /\ ops \in Nat /\ ops' = ops + 1 /\ ops' \in 0 .. MaxOps
  BY BeginFacts DEF Store, AddSubkey
<1>6. TableTypeOK'
  BY <1>4, <1>5, GrowsTypes DEF Store, AddSubkey, IInv, Types, TypeOK, TableTypeOK
<1>7. Types'
  BY <1>6, StoreTypes DEF Store, AddSubkey, IInv, Types
<1>8. Clearing' /\ Handles'
  BY <1>4, <1>5, HandlesStay DEF Store, AddSubkey
<1>9. Stages'
  BY StagesStay DEF Store, AddSubkey
<1>10. Reconciled'
  BY <1>4, GrowsReconciled DEF Store, AddSubkey
<1> QED BY <1>4, <1>7, <1>8, <1>9, <1>10 DEF IInv, Grows

\* A handle that passes its check names the register its key has, unless a
\* clear() is under way.
LEMMA CheckIInv ==
    ASSUME IInv, NEW t \in Threads, NEW store \in BOOLEAN, NEW v \in BOOLEAN, Store(Check(t, store, v))
    PROVE IInv'
<1> USE BridgeAssumption
<1> DEFINE what == [op |-> "checked", store |-> store, val |-> v, raced |-> Locked]
<1>1. Grows
  BY SameGrows DEF Store, Check, table
<1>2. doing[t].op = "idle" /\ ops \in Nat /\ ops' = ops + 1 /\ ops' \in 0 .. MaxOps
  BY BeginFacts DEF Store, Check
<1>3. Locked \in BOOLEAN
  BY DEF Locked
<1>4. what \in Doings /\ what.op = "checked" /\ what.raced = Locked
  BY <1>3 DEF Doings
<1> HIDE DEF what
<1>5. /\ doing' \in [Threads -> Doings] /\ doing'[t] = what
      /\ \A u \in Threads : u # t => doing'[u] = doing[u]
  BY <1>4, BecomeFacts DEF Store, Check, what, IInv
<1>6. TableTypeOK'
  BY <1>1, <1>2, GrowsTypes DEF Store, Check, table, IInv, Types, TypeOK, TableTypeOK
<1>7. Types'
  BY <1>5, <1>6, StoreTypes DEF Store, Check
<1>8. Locked' <=> Locked
  BY <1>2, <1>4, <1>5 DEF Locked
<1>9. Clearing'
  BY <1>2, <1>4, <1>5, <1>8 DEF Store, Check, table, IInv, Clearing, Types, TypeOK, TableTypeOK
<1>10. UNCHANGED <<index, ref, generation>>
  BY DEF Store, Check, table
<1>11. Handles'
  <2>1. ref[t] # NoRef /\ (~ Locked => index[ref[t].key] = EntryOf(ref[t]))
    BY DEF Store, Check, Valid, IInv, Handles
  <2> QED BY <1>4, <1>5, <1>8, <1>10, <2>1 DEF IInv, Handles, EntryOf
<1>12. Stages'
  BY <1>4, <1>5, StagesStay DEF Store, Check
<1>13. Reconciled'
  BY <1>1, <1>2, <1>5, GrowsReconciled DEF Store, Check
<1> QED BY <1>1, <1>7, <1>9, <1>11, <1>12, <1>13 DEF IInv, Grows

\* The access changes a register's value at most.
LEMMA AccessIInv == ASSUME IInv, NEW t \in Threads, Store(Access(t)) PROVE IInv'
<1> USE BridgeAssumption
<1>1. /\ doing[t].op = "checked" /\ doing[t].val \in BOOLEAN /\ ref[t].cell \in Cells
      /\ ops \in Nat /\ ops \in 0 .. MaxOps
  BY DEF Store, Access, IInv, Handles, Types, Doings, TypeOK, TableTypeOK
<1>2. Grows
  <2>1. CASE doing[t].store /\ reg[ref[t].cell] # Dead
    <3>1. reg' = [reg EXCEPT ![ref[t].cell].val = doing[t].val] /\ UNCHANGED index
      BY <2>1 DEF Store, Access
    <3> QED BY <1>1, <2>1, <3>1, AssignGrows
  <2>2. CASE ~ (doing[t].store /\ reg[ref[t].cell] # Dead)
    BY <2>2, SameGrows DEF Store, Access
  <2> QED BY <2>1, <2>2
<1>3. /\ doing' \in [Threads -> Doings] /\ doing'[t] = Idle
      /\ \A u \in Threads : u # t => doing'[u] = doing[u]
  BY SomeDoings, BecomeFacts DEF Store, Access, IInv
<1>4. doing'[t].op = "idle"
  BY <1>3 DEF Idle
<1>5. TableTypeOK'
  BY <1>1, <1>2, GrowsTypes DEF Store, Access, IInv, Types, TypeOK, TableTypeOK
<1>6. Types'
  BY <1>3, <1>5, StoreTypes DEF Store, Access
<1>7. Clearing' /\ Handles'
  BY <1>1, <1>2, <1>3, <1>4, HandlesStay DEF Store, Access
<1>8. Stages'
  BY <1>3, <1>4, StagesStay DEF Store, Access
<1>9. Reconciled'
  BY <1>1, <1>2, <1>3, GrowsReconciled DEF Store, Access
<1> QED BY <1>2, <1>6, <1>7, <1>8, <1>9 DEF IInv, Grows

\* When everything is cleared no key is left, and every access that was checked
\* before is on its own.
LEMMA ClearIInv == ASSUME IInv, NEW t \in Threads, Store(Clear(t)) PROVE IInv'
<1> USE BridgeAssumption
<1>1. doing[t].op = "idle" /\ ops \in Nat /\ ops' = ops + 1 /\ ops' \in 0 .. MaxOps /\ ~ Locked
  BY BeginFacts DEF Store, Clear
<1>2. /\ index' = [k \in Keys |-> NoEntry] /\ reg' = [c \in Cells |-> Dead]
      /\ category' = [k \in Keys |-> "Ops"]
      /\ UNCHANGED <<generation, ref>>
  BY DEF Store, Clear, Emptied
<1>3. \A u \in Threads : doing[u].op = "checked" =>
        LET d == [doing[u] EXCEPT !.raced = TRUE] IN d \in Doings /\ d.op = "checked" /\ d.raced = TRUE
  BY DEF IInv, Types, Doings
<1>4. /\ doing' \in [Threads -> Doings] /\ doing'[t].op = "clearing"
      /\ \A u \in Threads : u # t =>
            /\ doing'[u].op = doing[u].op
            /\ doing[u].op # "checked" => doing'[u] = doing[u]
      /\ \A u \in Threads : doing'[u].op = "checked" => u # t /\ doing[u].op = "checked" /\ doing'[u].raced
  <2>1. doing' = [u \in Threads |->
                    IF u = t THEN [op |-> "clearing"]
                    ELSE IF doing[u].op = "checked" THEN [doing[u] EXCEPT !.raced = TRUE]
                    ELSE doing[u]]
    BY DEF Store, Clear
  <2>2. \A u \in Threads : doing[u] \in Doings
    BY DEF IInv, Types
  <2>3. [op |-> "clearing"] \in Doings /\ [op |-> "clearing"].op = "clearing"
    BY SomeDoings
  <2>4. doing' \in [Threads -> Doings]
    BY <1>3, <2>1, <2>2, <2>3
  <2>5. doing'[t].op = "clearing"
    BY <2>1
  <2>6. ASSUME NEW u \in Threads, u # t
        PROVE /\ doing'[u].op = doing[u].op
              /\ doing[u].op # "checked" => doing'[u] = doing[u]
              /\ doing'[u].op = "checked" => doing[u].op = "checked" /\ doing'[u].raced
    <3>1. CASE doing[u].op = "checked"
      BY <1>3, <2>1, <2>6, <3>1
    <3>2. CASE doing[u].op # "checked"
      BY <2>1, <2>6, <3>2
    <3> QED BY <3>1, <3>2
  <2> QED BY <2>4, <2>5, <2>6
<1>5. NoEntry \in Entries /\ NoEntry.type = "none" /\ Dead \in Registers
  BY DEF Entries, NoEntry, Registers
<1>6. TableTypeOK'
  BY <1>1, <1>2, <1>5 DEF IInv, Types, TypeOK, TableTypeOK, Categories, Registers
<1>7. Types'
  BY <1>4, <1>6, StoreTypes DEF Store
<1>8. RegistersMatch'
  BY <1>2, <1>5 DEF RegistersMatch, ValueTypes
<1>9. Clearing'
  BY <1>1, <1>2, <1>4 DEF IInv, Clearing, Locked, Types, TypeOK, TableTypeOK
<1>10. Handles'
  <2>1. Locked'
    BY <1>4 DEF Locked
  <2> QED BY <1>2, <1>4, <2>1 DEF IInv, Handles
<1>11. Stages'
  <2>1. UNCHANGED <<bridge, checked, observed>>
    BY DEF Store
  <2>2. \A u \in Threads : doing'[u].op \in {"fire", "emit", "making", "set"} => doing'[u] = doing[u]
    BY <1>1, <1>4
  <2> QED BY <2>1, <2>2, StagesStay
<1>12. Reconciled'
  BY <1>2, <1>5 DEF Reconciled
<1> QED BY <1>7, <1>8, <1>9, <1>10, <1>11, <1>12 DEF IInv

\* With the new generation no handle is good.
LEMMA BumpIInv == ASSUME IInv, NEW t \in Threads, Store(Bump(t)) PROVE IInv'
<1> USE BridgeAssumption
<1>1. Grows
  BY SameGrows DEF Store, Bump
<1>2. /\ doing' \in [Threads -> Doings] /\ doing'[t] = Idle
      /\ \A u \in Threads : u # t => doing'[u] = doing[u]
  BY SomeDoings, BecomeFacts DEF Store, Bump, IInv
<1>3. doing[t].op = "clearing" /\ doing'[t].op = "idle" /\ UNCHANGED <<index, ref, ops>>
  BY <1>2 DEF Store, Bump, Idle
<1>4. Locked /\ ~ Locked'
  BY <1>2, <1>3 DEF IInv, Clearing, Locked
<1>5. /\ generation \in Nat /\ ops \in 0 .. MaxOps /\ MaxOps \in Nat
      /\ generation' = generation + 1 /\ generation' <= ops /\ generation' \in 0 .. MaxOps
  BY <1>4, TableAssumption DEF Store, Bump, IInv, Clearing, Types, TypeOK, TableTypeOK
<1>6. TableTypeOK'
  BY <1>3, <1>5 DEF Store, Bump, IInv, Types, TypeOK, TableTypeOK
<1>7. Types'
  BY <1>2, <1>6, StoreTypes DEF Store
<1>8. Clearing'
  BY <1>2, <1>3, <1>4, <1>5 DEF IInv, Clearing
<1>9. Handles'
  <2>1. \A u \in Threads : ref[u] # NoRef => ref[u].gen \in Nat
    BY DEF IInv, Types, TypeOK, TableTypeOK
  <2>2. \A u \in Threads : ref[u] # NoRef => ref[u].gen <= generation' /\ ref[u].gen # generation'
    BY <1>5, <2>1 DEF IInv, Handles
  <2> QED BY <1>2, <1>3, <2>2 DEF IInv, Handles, EntryOf
<1>10. Stages'
  BY <1>2, <1>3, StagesStay DEF Store
<1>11. Reconciled'
  BY <1>1, <1>2, <1>3, GrowsReconciled DEF Store
<1> QED BY <1>1, <1>7, <1>8, <1>9, <1>10, <1>11 DEF IInv, Grows

\* set_TYPE() of anybody, up to the notification.
LEMMA SetIInv ==
    ASSUME IInv, NEW t \in Threads, NEW k \in Keys, NEW type \in ValueTypes, NEW v \in BOOLEAN,
           Store(Set(t, k, type, v))
    PROVE IInv'
<1> USE BridgeAssumption
<1>1. doing[t].op = "idle" /\ ops \in Nat /\ ops' = ops + 1 /\ ops' \in 0 .. MaxOps
  BY BeginFacts DEF Store, Set
<1>2. /\ Grows
      /\ doing' \in [Threads -> Doings]
      /\ doing'[t] \in {Idle, [op |-> "notify", key |-> k]}
      /\ \A u \in Threads : u # t => doing'[u] = doing[u]
  BY WriteFacts DEF Store, Set
<1>3. doing'[t].op \in {"idle", "notify"}
  BY <1>2 DEF Idle
<1>4. TableTypeOK'
  BY <1>1, <1>2, GrowsTypes DEF Store, Set, IInv, Types, TypeOK, TableTypeOK
<1>5. Types'
  BY <1>2, <1>4, StoreTypes DEF Store
<1>6. Clearing' /\ Handles'
  BY <1>1, <1>2, <1>3, HandlesStay DEF Store, Set
<1>7. Stages'
  BY <1>2, <1>3, StagesStay DEF Store
<1>8. Reconciled'
  BY <1>1, <1>2, GrowsReconciled DEF Store
<1> QED BY <1>2, <1>5, <1>6, <1>7, <1>8 DEF IInv, Grows

-----------------------------------------------------------------------------
(* The invariant.                                                          *)

\* An empty store, and no bridge.
LEMMA InitIInv == Init => IInv
<1> SUFFICES ASSUME Init PROVE IInv
  OBVIOUS
<1>1. NoEntry \in Entries /\ NoEntry.type = "none" /\ Idle \in Doings /\ Idle.op = "idle"
  BY SomeDoings DEF Entries, NoEntry, Idle
<1>2. TableTypeOK
  BY <1>1, TableAssumption DEF Init, TableInit, TableTypeOK, Categories
<1>3. Types
  <2>1. <<>> \in Seq(BOOLEAN)
    OBVIOUS
  <2> QED BY <1>1, <1>2, <2>1 DEF Init, TableInit, Types, TypeOK
<1>4. RegistersMatch
  BY <1>1 DEF Init, TableInit, RegistersMatch, ValueTypes
<1>5. Clearing /\ Handles
  BY <1>1 DEF Init, TableInit, Clearing, Handles, Locked
<1>6. Stages /\ Reconciled
  BY <1>1, BridgeAssumption DEF Init, TableInit, Stages, Reconciled
<1> QED BY <1>3, <1>4, <1>5, <1>6 DEF IInv

\* Every operation of the store, by any thread.
LEMMA TableNextIInv == ASSUME IInv, NEW t \in Threads, Store(TableNext(t)) PROVE IInv'
<1>1. ASSUME NEW k \in Keys, NEW type \in ValueTypes, NEW v \in BOOLEAN, NEW cat \in Categories,
             Declare(t, k, type, v, cat)
      PROVE IInv'
  BY <1>1, DeclareIInv DEF Store
<1>2. ASSUME NEW k \in Keys, NEW type \in ValueTypes, Ref(t, k, type) PROVE IInv'
  BY <1>2, RefIInv DEF Store
<1>3. ASSUME NEW k \in Keys, AddSubkey(t, k) PROVE IInv'
  BY <1>3, AddSubkeyIInv DEF Store
<1>4. ASSUME NEW store \in BOOLEAN, NEW v \in BOOLEAN, Check(t, store, v) PROVE IInv'
  BY <1>4, CheckIInv DEF Store
<1>5. CASE Access(t)
  BY <1>5, AccessIInv DEF Store
<1>6. CASE Clear(t)
  BY <1>6, ClearIInv DEF Store
<1>7. CASE Bump(t)
  BY <1>7, BumpIInv DEF Store
<1> QED BY <1>1, <1>2, <1>3, <1>4, <1>5, <1>6, <1>7 DEF Store, TableNext

\* The invariant is inductive.
LEMMA NextIInv == IInv /\ [Next]_vars => IInv'
<1> SUFFICES ASSUME IInv, [Next]_vars PROVE IInv'
  OBVIOUS
<1>1. CASE UNCHANGED vars
  <2>1. UNCHANGED <<index, category, reg, generation, ref, doing, ops, bridge, checked, posted,
                    observed, silent>>
    BY <1>1 DEF vars, tableVars, table, bridgeVars
  <2>2. Types' /\ RegistersMatch' /\ Clearing' /\ Handles'
    BY <2>1 DEF IInv, Types, TypeOK, TableTypeOK, RegistersMatch, Clearing, Locked, Handles
  <2>3. Stages' /\ Reconciled'
    BY <2>1 DEF IInv, Stages, Reconciled, Coming, Held
  <2> QED BY <2>2, <2>3 DEF IInv
<1>2. ASSUME NEW t \in Threads, Proceed(t) PROVE IInv'
  BY <1>2, NotifyIInv, FireIInv, EmitIInv DEF Proceed
<1>3. ASSUME NEW t \in Threads, Store(TableNext(t)) PROVE IInv'
  BY <1>3, TableNextIInv
<1>4. ASSUME NEW t \in Threads, NEW k \in Keys, NEW type \in ValueTypes, NEW v \in BOOLEAN,
             Store(Set(t, k, type, v))
      PROVE IInv'
  BY <1>4, SetIInv
<1> QED
  BY <1>1, <1>2, <1>3, <1>4, MakeIInv, SubscribeIInv, ReleaseIInv, ClearObserversIInv, ClickIInv,
     DeliverIInv, ToggledIInv
  DEF Next

\* The invariant holds throughout.
LEMMA SpecIInv == Spec => []IInv
  BY InitIInv, NextIInv, PTL DEF Spec

-----------------------------------------------------------------------------
(* The results.                                                            *)

\* Between any two steps of any threads the map, the columns and the handles
\* are what each takes the others to be: every key of a value type has a
\* register of its own and of its type, and no register is without a key.
THEOREM StoreMatches == Spec => []StoreInStep
<1>1. IInv => StoreInStep
  BY DEF IInv, Types, StoreInStep
<1> QED BY <1>1, SpecIInv, PTL

\* In whatever order the writers write, notify, read and post, and the UI
\* thread delivers: when nothing is on its way and the last change was told, the
\* menu shows what the store holds.
THEOREM MenuShowsTheStore == Spec => []ShowsTheStore
<1>1. IInv => ShowsTheStore
  <2> SUFFICES ASSUME IInv, bridge = "bound", Quiet, ~ silent, index[Key].type = "bool" PROVE checked = Held
    BY DEF ShowsTheStore, Agrees, Held
  <2>1. \A i \in 1 .. Len(posted) : FALSE
    BY DEF Quiet
  <2>2. ~ Coming(Held)
    BY <2>1, BridgeAssumption DEF Quiet, Coming
  <2> QED BY <2>2 DEF IInv, Reconciled
<1> QED BY <1>1, SpecIInv, PTL

\* No entry changes its type but by a clear().
LEMMA EntriesStay ==
    IInv /\ [Next]_vars
        => [\A k \in Keys : index'[k].type \in {index[k].type, "none"} \/ index[k].type = "none"]_tableVars
<1> SUFFICES ASSUME IInv, Next, NEW k \in Keys
             PROVE index'[k].type \in {index[k].type, "none"} \/ index[k].type = "none"
  BY DEF vars
<1>1. CASE Grows
  BY <1>1 DEF Grows
<1>2. CASE UNCHANGED <<index, reg>>
  BY <1>1, <1>2, SameGrows
<1>3. CASE Make
  <2>1. ASSUME NEW c \in Cells, index[Key].type = "none", Create(Key, "bool", checked, c) PROVE Grows
    BY <2>1, CreateGrows, BridgeAssumption DEF IInv, Types, TypeOK, ValueTypes
  <2> QED BY <1>1, <1>2, <1>3, <2>1 DEF Make
<1>4. CASE Toggled
  <2>1. checked \in BOOLEAN /\ doing[ui].val = checked /\ "bool" \in ValueTypes
    BY <1>4 DEF Toggled, IInv, Stages, Types, TypeOK, ValueTypes
  <2> QED BY <1>1, <1>4, <2>1, WriteFacts, BridgeAssumption DEF Toggled
<1>5. ASSUME NEW t \in Threads, NEW j \in Keys, NEW type \in ValueTypes, NEW v \in BOOLEAN, Set(t, j, type, v)
      PROVE Grows
  BY <1>5, WriteFacts DEF Set
<1>6. ASSUME NEW t \in Threads, NEW j \in Keys, NEW type \in ValueTypes, NEW v \in BOOLEAN, NEW cat \in Categories,
             Declare(t, j, type, v, cat)
      PROVE Grows
  BY <1>6, CreateGrows, SameGrows DEF Declare
<1>7. ASSUME NEW t \in Threads, NEW j \in Keys, AddSubkey(t, j)
      PROVE index'[k] = index[k] \/ index[k].type = "none"
  BY <1>7 DEF AddSubkey, IInv, Types, TypeOK, TableTypeOK
<1>8. ASSUME NEW t \in Threads, Clear(t) PROVE index'[k].type = "none"
  BY <1>8 DEF Clear, Emptied, NoEntry
<1>9. ASSUME NEW t \in Threads, Access(t) PROVE UNCHANGED index
  BY <1>9 DEF Access
<1>10. ASSUME NEW t \in Threads,
              \/ Proceed(t) \/ Bump(t)
              \/ \E j \in Keys, type \in ValueTypes : Ref(t, j, type)
              \/ \E store, v \in BOOLEAN : Check(t, store, v)
       PROVE UNCHANGED <<index, reg>>
  BY <1>10 DEF Proceed, Notify, Fire, Emit, Bump, Ref, Check, table
<1>11. CASE Subscribe \/ Release \/ ClearObservers \/ Click \/ Deliver
  BY <1>2, <1>11 DEF Subscribe, Release, ClearObservers, Click, Deliver, tableVars, table
<1> QED BY <1>1, <1>2, <1>3, <1>4, <1>5, <1>6, <1>7, <1>8, <1>9, <1>10, <1>11
        DEF Next, Store, TableNext

\* What a caller resolved stays what it resolved: nobody turns a key into one of
\* another type, and a handle that passed its check reaches the register of its
\* own key, unless a clear() runs between the check and the access.
THEOREM HandlesReach == Spec => ResolvedStays
<1>1. IInv /\ [Next]_vars
        => [\A t \in Threads :
                doing[t].op = "checked" /\ doing'[t] = Idle /\ ~ doing[t].raced
                    => index[ref[t].key] = [type |-> ref[t].type, cell |-> ref[t].cell]]_tableVars
  BY DEF IInv, Handles, EntryOf
<1>2. Spec => HandleReaches
  BY <1>1, SpecIInv, PTL DEF Spec, HandleReaches
<1>3. Spec => TypesFixed
  BY EntriesStay, SpecIInv, PTL DEF Spec, TypesFixed
<1> QED BY <1>2, <1>3 DEF ResolvedStays

=============================================================================
