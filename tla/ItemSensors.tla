----------------------------- MODULE ItemSensors -----------------------------
(***************************************************************************)
(* The sensors of single items (sensor.py): which items are selected, the  *)
(* reconciliation of the sensors with the selection - after each update,   *)
(* when the platform is set up and when the clean-up button is pressed -   *)
(* and the grace period of an item that is selected no more, over restarts.*)
(* Reconciliations overlap: each works on with the selection it began with *)
(* after it awaited the removal of an entity or the saving of the stamps.  *)
(*                                                                         *)
(* An item stands for its sensors.  A stamp is kept as its age in ticks of *)
(* the clock, which ticks between reconciliations: grace is a number of    *)
(* days.  Home Assistant adds entities without a wait and starts tasks     *)
(* eagerly; its registry survives a stop.  Left out: entries the user      *)
(* removes, and a reconciliation that outlives the unloading of its entry. *)
(***************************************************************************)
EXTENDS Naturals, FiniteSets, FiniteSetsExt

CONSTANTS
    Items,          \* numbered in the order of their kinds and ids
    ItemCap,        \* per_item_entity_cap
    Grace,          \* item_entity_grace_days
    Enabled,        \* items whose sensors are enabled: pinned, or by the user;
                    \* only these have an entity in the platform
    Runs,           \* reconciliations that may be under way together
    None

ASSUME ItemSensorsAssumption ==
    /\ Items \subseteq Nat /\ IsFiniteSet(Items)
    /\ ItemCap \in Nat /\ Grace \in Nat /\ None \notin Nat
    /\ Enabled \subseteq Items

Ages == (0..Grace) \cup {None}
\* The priorities of _select_item_entities that let an item in.
Priorities == {0, 10, 20, 100}

VARIABLES
    running,        \* the platform is set up, or being set up
    selection,      \* the selection from self.data
    registry,       \* items with sensors in the entity registry
    knownItems,     \* known_item_ids
    live,           \* items with an entity in the platform
    inactive,       \* inactive_item_sensors, ages of stamps
    stored,         \* their copy in storage
    rec,            \* the reconciliations
    away,           \* history variable: ticks since the item was last selected
    early,          \* history variable: items whose stamp is older than their
                    \* absence, from a stop that lost the newer one, an outdated
                    \* selection or an update while the platform was set up
    calm            \* history variable: the last reconciliation that began, when
                    \* none was under way with it: "grace", "force", else "no"

sensorsVars == <<running, selection, registry, knownItems, live, inactive, stored, rec,
                 away, early, calm>>

Blank == [i \in Items |-> None]
Idle == [at |-> "idle", kind |-> "none", selected |-> {}, todo |-> {}, item |-> None,
         changed |-> FALSE, payload |-> Blank]
UnderWay == {p \in Runs : rec[p] # Idle}
SettingUp == \E p \in Runs : rec[p].kind = "setup"

\* _select_item_entities, of the items an update holds and lets in.
Selected(priority) ==
    LET Before(i, j) == priority[i] < priority[j] \/ (priority[i] = priority[j] /\ i < j)
    IN  {i \in DOMAIN priority : Cardinality({j \in DOMAIN priority : Before(j, i)}) < ItemCap}

\* refresh_selected_item_keys: {} too when no item has a sensor in this mode.
Selections == {Selected(priority) : priority \in UNION {[held -> Priorities] : held \in SUBSET Items}}

SensorsInit ==
    /\ running = FALSE
    /\ selection = {} /\ registry = {} /\ knownItems = {} /\ live = {}
    /\ inactive = Blank /\ stored = Blank
    /\ rec = [p \in Runs |-> Idle]
    /\ away = [i \in Items |-> Grace]
    /\ early = {} /\ calm = "no"

-----------------------------------------------------------------------------
CandidatesKnown(selected) == knownItems \ selected

\* What _async_remove_stale_item_sensors looks at, and the stamps it leaves the
\* items that are selected again: none.
Candidates(selected) == (knownItems \cup registry) \ selected

PoppedNot(selected) == inactive

Popped(selected) == [i \in Items |-> IF i \in selected THEN None ELSE inactive[i]]

\* The stamps become `since`; of those that begin here one is early when its item
\* is selected by now.
Stamp(since) ==
    /\ inactive' = since
    /\ early' = {i \in Items :
                    /\ since[i] # None
                    /\ i \in early \/ (inactive[i] = None /\ i \in selection')}

\* The end of a reconciliation: _new_item_sensors, for the selection it began
\* with, and _retained_inactive_item_sensors; a sensor added twice is refused.
Add(p, r, since) ==
    LET new == r.selected \ knownItems
        retained == {i \in registry \ (r.selected \cup knownItems) :
                        r.kind # "force" /\ since[i] # None /\ since[i] # Grace}
    IN  /\ knownItems' = knownItems \cup new \cup retained
        /\ registry' = registry \cup new
        /\ live' = live \cup ((new \cup retained) \cap Enabled)
        /\ rec' = [rec EXCEPT ![p] = Idle]

\* The loop over the candidates that are left, from the stamps `since` to the next
\* await: the removal of an entity, or the saving of what changed.  The order of
\* the candidates is a set's: those done first are any of them.
Loop(p, r, since, kept) ==
    \E done \in SUBSET r.todo :
        LET stamped == [i \in Items |-> IF i \in done /\ since[i] = None THEN 0 ELSE since[i]]
            gone == {i \in done : r.kind = "force" \/ stamped[i] = Grace}
            awaited == gone \cap registry \cap live
            left == [i \in Items |-> IF i \in gone \ awaited THEN None ELSE stamped[i]]
            next == [r EXCEPT !.changed = @ \/ gone # {} \/ stamped # since, !.todo = @ \ done]
        IN  /\ Cardinality(awaited) <= 1
            /\ awaited = {} => done = r.todo
            /\ Stamp(left)
            /\ IF awaited = {} /\ ~next.changed
               THEN Add(p, r, left)
               ELSE /\ registry' = registry \ gone
                    /\ live' = live \ gone
                    /\ knownItems' = kept \ (gone \ awaited)
                    /\ rec' = [rec EXCEPT ![p] =
                                IF awaited = {}
                                THEN [next EXCEPT !.at = "saving", !.payload = left]
                                ELSE [next EXCEPT !.at = "removing",
                                                  !.item = CHOOSE i \in awaited : TRUE]]

\* _async_reconcile_item_sensors, up to its first await, with the selection of the
\* data there is.
Reconcile(p, kind) ==
    /\ rec[p] = Idle
    /\ calm' = IF UnderWay # {} THEN "no" ELSE IF kind = "force" THEN "force" ELSE "grace"
    /\ LET r == [Idle EXCEPT !.kind = kind, !.selected = selection',
                             !.todo = Candidates(selection'),
                             !.changed = Popped(selection') # inactive]
       IN  Loop(p, r, Popped(selection'), knownItems)

\* The entity is removed: its item is forgotten, and the loop goes on.
Removed(p) ==
    /\ rec[p].at = "removing"
    /\ UNCHANGED <<running, selection, stored, away, calm>>
    /\ Loop(p, [rec[p] EXCEPT !.item = None], [inactive EXCEPT ![rec[p].item] = None],
            knownItems \ {rec[p].item})

\* The stamps are saved: each save has a store of its own, so that of two the older
\* may be written last.
Saved(p) ==
    /\ rec[p].at = "saving"
    /\ stored' = rec[p].payload
    /\ Add(p, rec[p], inactive)
    /\ UNCHANGED <<running, selection, inactive, away, early, calm>>

-----------------------------------------------------------------------------
\* The coordinator has new data and calls its listeners; the platform's is not
\* there before it is set up.
Update(p, selected) ==
    /\ running
    /\ selection' = selected
    /\ away' = [i \in Items |-> IF i \in selection' THEN 0 ELSE away[i]]
    /\ IF SettingUp
       THEN /\ calm' = "no"
            /\ early' = early \cup {i \in selected : inactive[i] # None}
            /\ UNCHANGED <<registry, knownItems, live, inactive, rec>>
       ELSE Reconcile(p, "update")
    /\ UNCHANGED <<running, stored>>

\* EbayCleanupInactiveItemEntitiesButton.async_press.
CleanUp(p) ==
    /\ running /\ ~SettingUp
    /\ UNCHANGED <<running, selection, stored, away>>
    /\ Reconcile(p, "force")

\* async_setup_entry, after the first refresh: the stamps were loaded.
Start(p, selected) ==
    /\ ~running /\ running' = TRUE
    /\ selection' = selected
    /\ away' = [i \in Items |-> IF i \in selection' THEN 0 ELSE away[i]]
    /\ Reconcile(p, "setup")
    /\ UNCHANGED stored

\* The entry is unloaded, with the stamps saved; or Home Assistant stops.
Stop(flush) ==
    /\ running /\ running' = FALSE
    /\ flush => UnderWay = {}
    /\ stored' = IF flush THEN inactive ELSE stored
    /\ early' = {i \in Items : /\ stored'[i] # None
                               /\ i \in early \/ stored'[i] # inactive[i]}
    /\ inactive' = stored'
    /\ selection' = {} /\ knownItems' = {} /\ live' = {}
    /\ rec' = [p \in Runs |-> Idle]
    /\ calm' = "no"
    /\ UNCHANGED <<registry, away>>

\* A day goes by.
DayPasses ==
    LET Older(age) == IF age = None THEN None ELSE Min({age + 1, Grace})
    IN  /\ UnderWay = {}
        /\ inactive' = [i \in Items |-> Older(inactive[i])]
        /\ stored' = [i \in Items |-> Older(stored[i])]
        /\ away' = [i \in Items |-> IF i \in selection THEN 0 ELSE Older(away[i])]
        /\ UNCHANGED <<running, selection, registry, knownItems, live, rec, early, calm>>

SensorsNext ==
    \/ \E p \in Runs :
        \/ Removed(p) \/ Saved(p) \/ CleanUp(p)
        \/ \E selected \in Selections : Update(p, selected) \/ Start(p, selected)
    \/ \E flush \in BOOLEAN : Stop(flush)
    \/ DayPasses

SensorsSpec == SensorsInit /\ [][SensorsNext]_sensorsVars

-----------------------------------------------------------------------------
(* Properties.                                                             *)

\* Every variable has its type, and no more items are selected than the cap.
SensorsTypeOK ==
    /\ running \in BOOLEAN
    /\ selection \subseteq Items /\ Cardinality(selection) <= ItemCap
    /\ registry \subseteq Items /\ knownItems \subseteq Items /\ live \subseteq Enabled
    /\ inactive \in [Items -> Ages] /\ stored \in [Items -> Ages]
    /\ rec \in [Runs -> [at : {"idle", "removing", "saving"},
                         kind : {"none", "setup", "update", "force"},
                         selected : SUBSET Items, todo : SUBSET Items,
                         item : Items \cup {None}, changed : BOOLEAN,
                         payload : [Items -> Ages]]]
    /\ away \in [Items -> 0..Grace]
    /\ early \subseteq Items
    /\ calm \in {"no", "grace", "force"}

\* A reconciliation that ran alone repairs whatever those that overlapped, or a
\* stop half way, left behind: every selected item has its sensors, every other
\* one in the registry is stamped, or gone after the button, and none is in the
\* registry without being provided.
Reconciled ==
    running /\ UnderWay = {} /\ calm # "no" =>
        /\ selection \subseteq registry
        /\ \A i \in selection : inactive[i] = None
        /\ \A i \in registry \ selection : calm = "grace" /\ inactive[i] # None
        /\ knownItems = registry /\ live = registry \cap Enabled

\* Without the button no sensor leaves the registry before its item was out of the
\* selection for the whole grace period, over restarts and with reconciliations
\* that overlap, unless its stamp was early.
GraceHonoured ==
    [][\A p \in Runs : rec'[p] # rec[p] /\ rec'[p].kind # "force" =>
        \A i \in registry \ registry' : away[i] = Grace \/ i \in early]_sensorsVars
=============================================================================
