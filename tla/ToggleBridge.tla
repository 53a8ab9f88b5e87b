----------------------------- MODULE ToggleBridge -----------------------------
(***************************************************************************)
(* The observers of the toggle store and the one the pilot has:            *)
(* ToggleActionBridge (solvcon/pilot/base/_gui_common.py), which ties a    *)
(* checkable action of the menu to a key.  The action writes the store,    *)
(* the store's notification posts the value to the UI thread, and the UI   *)
(* thread sets the action, which writes the store again if that changed    *)
(* it.  Notifications run on the thread that wrote, after its section.     *)
(* The actor ui is the UI thread, which runs scripts of the console too.   *)
(***************************************************************************)
EXTENDS ToggleTable

CONSTANTS ui, Key   \* the UI thread, the key of the bridge

ASSUME BridgeAssumption == ui \in Threads /\ Key \in Keys

VARIABLES
    bridge,    \* "none", "made" (the action was set), "bound" (and subscribed), "gone"
    checked,   \* the action's state
    posted,    \* values on their way to the action, in the queue of the UI thread
    observed,  \* the store's registry holds the bridge's callback
    silent     \* history: the last change of Key's register was told to nobody

bridgeVars == <<bridge, checked, posted, observed, silent>>
vars == <<tableVars, bridgeVars>>

Init ==
    /\ TableInit
    /\ bridge = "none" /\ checked = FALSE
    /\ posted = <<>> /\ observed = FALSE
    /\ silent = FALSE

\* The register that Key has after a step, and whether the step changed it.
Told(k) == index'[k].type = "bool" /\ reg'[index'[k].cell] # reg[index'[k].cell]
Remember == silent' = (silent \/ Told(Key))

-----------------------------------------------------------------------------
(* The life of the bridge, on the UI thread. *)

\* __init__() up to setChecked(): the key is declared with the state of the
\* action, unless it has another type, and the action takes over its value.
Make ==
    /\ bridge = "none" /\ doing[ui] = Idle /\ ~ Locked
    /\ index[Key].type \in {"none", "bool"}
    /\ IF index[Key].type = "none"
       THEN \E c \in Cells : Create(Key, "bool", checked, c)
       ELSE UNCHANGED <<index, reg>>
    /\ category' = [category EXCEPT ![Key] = "Ops"]
    /\ checked' = reg'[index'[Key].cell].val
    /\ bridge' = "made" /\ Become(ui, [op |-> "making"])
    /\ silent' = FALSE
    /\ UNCHANGED <<generation, ref, ops, posted, observed>>

\* The rest of __init__(): on_change().
Subscribe ==
    /\ doing[ui].op = "making"
    /\ bridge' = "bound" /\ Become(ui, Idle)
    /\ observed' = TRUE
    /\ UNCHANGED <<table, ref, ops, checked, posted, silent>>

\* The action is destroyed: Qt drops what was posted to it, and _release()
\* drops the token, which unsubscribes.
Release ==
    /\ bridge = "bound" /\ doing[ui] = Idle
    /\ bridge' = "gone"
    /\ posted' = <<>>
    /\ observed' = FALSE
    /\ UNCHANGED <<tableVars, checked, silent>>

\* clear_observers(), at the shutdown of the interpreter.
ClearObservers ==
    /\ Begin(ui)
    /\ observed' = FALSE
    /\ UNCHANGED <<table, ref, doing, bridge, checked, posted, silent>>

-----------------------------------------------------------------------------
(* The action. *)

\* setChecked(): toggled() comes only with a real change, and writes the
\* store.
SetChecked(v) ==
    /\ checked' = v
    /\ IF v # checked THEN Become(ui, [op |-> "set", val |-> v]) ELSE UNCHANGED doing

\* The user or a script toggles the action.
Click ==
    /\ bridge = "bound" /\ Begin(ui)
    /\ SetChecked(~ checked)
    /\ UNCHANGED <<table, ref, bridge, posted, observed, silent>>

\* The event loop delivers a posted value.
Deliver ==
    /\ bridge = "bound" /\ doing[ui] = Idle
    /\ posted # <<>>
    /\ posted' = Tail(posted)
    /\ SetChecked(Head(posted))
    /\ UNCHANGED <<table, ref, ops, bridge, observed, silent>>

\* _on_action_toggled().
Toggled ==
    /\ doing[ui].op = "set" /\ ~ Locked
    /\ Write(ui, Key, "bool", doing[ui].val)
    /\ Remember
    /\ UNCHANGED <<category, generation, ref, ops, bridge, checked, posted, observed>>

-----------------------------------------------------------------------------
(* The notification. *)

\* notify() copies the callbacks of the key.
Notify(t) ==
    /\ doing[t].op = "notify"
    /\ LET mine == doing[t].key = Key /\ observed
       IN  /\ Become(t, IF mine THEN [op |-> "fire"] ELSE Idle)
           /\ silent' = (silent /\ ~ mine)
    /\ UNCHANGED <<table, ref, ops, bridge, checked, posted, observed>>

\* _on_store_changed(): it reads the store, for a bridge that is not gone...
Fire(t) ==
    /\ doing[t].op = "fire" /\ ~ Locked
    /\ Become(t, IF bridge = "bound"
                 THEN [op |-> "emit", val |-> Get(Key, "bool", checked)] ELSE Idle)
    /\ UNCHANGED <<table, ref, ops, bridgeVars>>

\* Mutant: what is posted twice is posted once.
EmitCoalesced(t) ==
    /\ doing[t].op = "emit"
    /\ posted' = IF bridge = "bound" /\ posted = <<>>
                 THEN Append(posted, doing[t].val) ELSE posted
    /\ Become(t, Idle)
    /\ UNCHANGED <<table, ref, ops, bridge, checked, observed, silent>>

\* ... and posts what it read; the GIL may change hands in between.
Emit(t) ==
    /\ doing[t].op = "emit"
    /\ posted' = IF bridge = "bound" THEN Append(posted, doing[t].val) ELSE posted
    /\ Become(t, Idle)
    /\ UNCHANGED <<table, ref, ops, bridge, checked, observed, silent>>

Proceed(t) == Notify(t) \/ Fire(t) \/ Emit(t)

\* A step of the store alone.
Store(A) == A /\ Remember /\ UNCHANGED <<bridge, checked, posted, observed>>

Next ==
    \/ Make \/ Subscribe \/ Release \/ ClearObservers
    \/ Click \/ Deliver \/ Toggled
    \/ \E t \in Threads :
        \/ Proceed(t)
        \/ Store(TableNext(t))
        \/ \E k \in Keys, type \in ValueTypes, v \in BOOLEAN : Store(Set(t, k, type, v))

\* Threads run, and the event loop delivers what is posted.
Fairness == /\ WF_vars(Deliver) /\ WF_vars(Toggled) /\ WF_vars(Subscribe)
            /\ \A t \in Threads : WF_vars(Proceed(t)) /\ WF_vars(Store(Bump(t) \/ Access(t)))

Spec == Init /\ [][Next]_vars /\ Fairness

-----------------------------------------------------------------------------
(* Properties. *)

TypeOK ==
    /\ TableTypeOK
    /\ bridge \in {"none", "made", "bound", "gone"}
    /\ checked \in BOOLEAN /\ observed \in BOOLEAN /\ silent \in BOOLEAN
    /\ posted \in Seq(BOOLEAN)
    /\ \A t \in Threads :
        doing[t].op \in {"idle", "clearing", "checked", "notify", "making", "set",
                        "fire", "emit"}

Quiet == posted = <<>> /\ \A t \in Threads : doing[t].op \in {"idle", "checked", "clearing"}
Agrees == index[Key].type = "bool" => checked = reg[index[Key].cell].val

\* When all is quiet, the menu shows what the store holds, in whatever order
\* the writers came, notified and posted: unless the last change was made
\* past the notification, by a handle, by declare(), or before the bridge
\* had subscribed.
ShowsTheStore == bridge = "bound" /\ Quiet /\ ~ silent => Agrees

\* However much goes on, the menu catches up with the store again and again.
CatchesUp == []<>(bridge = "bound" /\ ~ silent => Agrees)

\* The bridge's comment: the store's no-op guard and Qt's, together, stop
\* the echo.
EchoStops == <>[](posted = <<>>)

\* The store's map, columns and handles are what each of them takes the others
\* to be, between any two steps of any threads.
StoreInStep == TypeOK /\ RegistersMatch

\* What a caller resolved stays what it resolved: neither a set() of another
\* type nor a clear() turns a key, or a handle that passes its check, into
\* something else.
ResolvedStays == TypesFixed /\ HandleReaches
=============================================================================
