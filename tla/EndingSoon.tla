----------------------------- MODULE EndingSoon -----------------------------
(***************************************************************************)
(* The ending-soon notices of one eBay config entry (coordinator.py): the  *)
(* timers rebuilt from every payload, the set of keys already fired, the   *)
(* task that saves that set to the Home Assistant store, and the awaits in *)
(* between, over several lives of the entry (set-up, unload, crash).       *)
(*                                                                         *)
(* A key is (kind, item, threshold, end time).  A payload gives each item  *)
(* its end time, NoEnd when it is absent or has none.  The unit of time is *)
(* a whole second: the last fraction of a second, in which an item that    *)
(* has not ended is no longer "active", is abstracted.                     *)
(***************************************************************************)
EXTENDS Integers, SequencesExt

CONSTANTS
    Kinds,          \* event kinds with timers: watching, bidding
    Items,          \* item ids
    Ends,           \* end times an item may be listed with
    Thresholds,     \* configurable ending-soon thresholds
    Retention,      \* time a fired key is kept after its end time
    MaxTime,        \* bound: last instant of the clock
    MaxLives,       \* bound: set-ups of the entry
    MaxCrashes      \* bound: crashes of Home Assistant

ASSUME EndingSoonAssumption ==
    /\ Ends \subseteq Nat \ {0}
    /\ Thresholds \subseteq Nat \ {0}
    /\ Retention \in Nat
    /\ MaxTime \in Nat /\ MaxLives \in Nat /\ MaxCrashes \in Nat

NoEnd == 0
Slot == Kinds \X Items
Key == [slot : Slot, thr : Thresholds, end : Ends]
Payload == [Slot -> Ends \cup {NoEnd}]
NoPayload == [s \in Slot |-> NoEnd]

VARIABLES
    now,        \* the clock
    phase,      \* "down", "first" (first refresh), "running", "unloading", "saving"
    threshold,  \* ending_soon_threshold_seconds of this life
    data,       \* self.data: the payload the coordinator last published
    payload,    \* the payload a refresh past its fetch is about to publish
    refresh,    \* "idle", "fetching", "flushing", "syncing"
    scheduled,  \* keys of _scheduled
    fired,      \* _fired_ending_soon
    history,    \* _recent_history_ending_soon
    callbacks,  \* kinds of _event_callbacks
    dirty,      \* _fired_ending_soon_dirty
    saving,     \* _ending_soon_fired_save_task is not done
    writes,     \* saves issued and not yet on disk, with who awaits each
    store,      \* the keys on disk
    notified,   \* history variable: notices the event entity got, per key
    lives,      \* set-ups so far
    crashes,    \* crashes so far
    hasty,      \* history variable: unloads whose save reached the disk before
                \* one issued earlier
    disturbed   \* history variable: a timer or a registration ran between the
                \* rebuild of the latest refresh and its publication

outside == <<now, store, lives, crashes, hasty>>
timers == <<scheduled, fired, history, dirty, saving, notified>>
vars == <<now, phase, threshold, data, payload, refresh, scheduled, fired, history,
          callbacks, dirty, saving, writes, store, notified, lives, crashes, hasty, disturbed>>

-----------------------------------------------------------------------------
(* What a rebuild does with the keys of a payload, cbs being the kinds     *)
(* that have a callback.                                                   *)

KeyOf(s, e) == [slot |-> s, thr |-> threshold, end |-> e]

\* Keys of the items that have not ended: the loop's "wanted".
WantedAll(p) == {KeyOf(s, p[s]) : s \in Slot}

Wanted(p) == {KeyOf(s, p[s]) : s \in {t \in Slot : p[t] > now}}

\* 0 < seconds left <= threshold
Active(k) == now < k.end /\ k.end <= now + threshold

Prune(keys) == {k \in keys : now < k.end + Retention}

\* Keys a rebuild emits at once.
ImmediateAgain(p) == {k \in Wanted(p) : Active(k)}

Immediate(p) == {k \in Wanted(p) : Active(k) /\ k \notin Prune(fired)}

\* _emit returns TRUE only where a callback received the event; only then is
\* the key marked fired.
MarkedAlways(keys, cbs) == keys

Delivered(keys, cbs) == {k \in keys : k.slot[1] \in cbs}

Marked(keys, cbs) == Delivered(keys, cbs)

FiredAfter(p, cbs) == Prune(fired) \cup Marked(Immediate(p), cbs)

\* Timers after a rebuild: the wanted keys still to come due, and those that
\* were already there; the rest are cancelled.
TimersKept(p) == scheduled \cup {k \in Wanted(p) : Active(k) => k \in scheduled}

Timers(p) == {k \in Wanted(p) : Active(k) => k \in scheduled}

Save(keys, by) == [keys |-> keys, by |-> by]

\* The first change of the fired set starts the save task, which serializes
\* at once what the set holds then.
FirstSnapshots(p, cbs) ==
    IF Prune(fired) # fired
    THEN {Prune(fired)}
    ELSE {fired \cup {k} : k \in Marked(Immediate(p), cbs) \ fired}

TaskWrites(snapshots) ==
    IF saving \/ snapshots = {}
    THEN {writes}
    ELSE {Append(writes, Save(snap, "task")) : snap \in snapshots}

Notices(keys) == [k \in Key |-> IF k \in keys THEN notified[k] + 1 ELSE notified[k]]

\* _rebuild_ending_soon_timers, but for the save it may start (TaskWrites).
Rebuild(p, cbs) ==
    /\ scheduled' = Timers(p)
    /\ fired' = FiredAfter(p, cbs)
    /\ history' = (history \cup Immediate(p)) \cap Wanted(p)
    /\ dirty' = (dirty \/ FirstSnapshots(p, cbs) # {})
    /\ saving' = (saving \/ FirstSnapshots(p, cbs) # {})
    /\ notified' = Notices(Delivered(Immediate(p), cbs))

-----------------------------------------------------------------------------
(* The life of the entry.                                                  *)

Forget ==
    /\ data' = NoPayload /\ payload' = NoPayload
    /\ refresh' = "idle"
    /\ scheduled' = {} /\ fired' = {} /\ history' = {} /\ callbacks' = {}
    /\ dirty' = FALSE /\ saving' = FALSE
    /\ disturbed' = FALSE

Init ==
    /\ now = 0
    /\ phase = "down"
    /\ threshold \in Thresholds
    /\ data = NoPayload /\ payload = NoPayload
    /\ refresh = "idle"
    /\ scheduled = {} /\ fired = {} /\ history = {} /\ callbacks = {}
    /\ dirty = FALSE /\ saving = FALSE
    /\ writes = <<>> /\ store = {}
    /\ notified = [k \in Key |-> 0]
    /\ lives = 0 /\ crashes = 0 /\ hasty = 0
    /\ disturbed = FALSE

Tick ==
    /\ now < MaxTime
    /\ now' = now + 1
    /\ UNCHANGED <<phase, threshold, data, payload, refresh, callbacks, writes, store,
                   lives, crashes, hasty, disturbed, timers>>

\* async_setup_entry up to the first refresh: the stored keys are loaded and
\* pruned, and a pruned set is written back before set-up goes on.
Setup ==
    /\ phase = "down"
    /\ lives < MaxLives
    /\ phase' = "first"
    /\ lives' = lives + 1
    /\ threshold' \in Thresholds
    /\ store' = Prune(store)
    /\ fired' = Prune(store)
    /\ refresh' = "fetching"
    /\ UNCHANGED <<now, data, payload, scheduled, history, callbacks, dirty, saving,
                   writes, notified, crashes, hasty, disturbed>>

\* async_shutdown, first thing of async_unload_entry: timers, callbacks and the
\* save task are cancelled.  A save already in a worker thread still lands; one
\* that waits for a thread is dropped with its task.
Orphan(w) == IF w.by = "task" THEN [w EXCEPT !.by = "orphan"] ELSE w

Unload ==
    /\ phase = "running"
    /\ phase' = "unloading"
    /\ scheduled' = {} /\ callbacks' = {}
    /\ saving' = FALSE
    /\ \/ writes' = [i \in DOMAIN writes |-> Orphan(writes[i])]
       \/ \E i \in DOMAIN writes : writes[i].by = "task" /\ writes' = RemoveAt(writes, i)
    /\ UNCHANGED <<outside, threshold, data, payload, refresh, fired, history, dirty,
                   notified, disturbed>>

UnloadSaveIfDirty ==
    /\ phase = "unloading"
    /\ phase' = "saving"
    /\ writes' = Append(writes, Save(IF dirty THEN fired ELSE store, "unload"))
    /\ UNCHANGED <<outside, threshold, data, payload, refresh, callbacks, timers,
                   disturbed>>

\* The keys are serialized after the save of the repair streaks was awaited.
UnloadSave ==
    /\ phase = "unloading"
    /\ phase' = "saving"
    /\ writes' = Append(writes, Save(fired, "unload"))
    /\ UNCHANGED <<outside, threshold, data, payload, refresh, callbacks, timers,
                   disturbed>>

\* Home Assistant is killed, or stops (it does not unload its entries then).
Crash ==
    /\ crashes < MaxCrashes
    /\ crashes' = crashes + 1
    /\ phase' = "down"
    /\ writes' = <<>>
    /\ Forget
    /\ UNCHANGED <<now, threshold, store, notified, lives, hasty>>

-----------------------------------------------------------------------------
(* The refresh.                                                            *)

RefreshStart ==
    /\ phase = "running"
    /\ refresh = "idle"
    /\ refresh' = "fetching"
    /\ UNCHANGED <<outside, phase, threshold, data, payload, callbacks, timers, writes,
                   disturbed>>

\* EbayError or EbayAuthError: the payload is not touched.  A failing first
\* refresh fails the set-up.
FetchFails ==
    /\ refresh = "fetching"
    /\ IF phase = "first"
       THEN /\ phase' = "down"
            /\ Forget
       ELSE /\ refresh' = "idle"
            /\ UNCHANGED <<phase, data, payload, callbacks, scheduled, fired, history,
                           dirty, saving, disturbed>>
    /\ UNCHANGED <<outside, threshold, writes, notified>>

\* A payload arrives: everything from the rebuild to the await of the flush.
FetchDone ==
    /\ refresh = "fetching"
    /\ \E p \in Payload :
        /\ payload' = p
        /\ Rebuild(p, callbacks)
        /\ \E ws \in TaskWrites(FirstSnapshots(p, callbacks)) :
              writes' = IF dirty' THEN Append(ws, Save(fired', "refresh")) ELSE ws
    /\ refresh' = IF dirty' THEN "flushing" ELSE "syncing"
    /\ disturbed' = FALSE
    /\ UNCHANGED <<outside, phase, threshold, data, callbacks>>

\* async_sync_repair_issues returns (it awaits a save when a streak changed) and
\* Home Assistant assigns self.data.
Publish ==
    /\ refresh = "syncing"
    /\ refresh' = "idle"
    /\ data' = payload
    /\ payload' = NoPayload
    /\ phase' = IF phase = "first" THEN "running" ELSE phase
    /\ UNCHANGED <<outside, threshold, callbacks, timers, writes, disturbed>>

InWindow == refresh \in {"flushing", "syncing"}

-----------------------------------------------------------------------------
(* Event entities, timers and saves.                                       *)

RegisterOnly(kind) ==
    /\ phase = "running"
    /\ kind \notin callbacks
    /\ callbacks' = callbacks \cup {kind}
    /\ UNCHANGED <<outside, phase, threshold, data, payload, refresh, timers, writes,
                   disturbed>>

\* register_event_callback: the rebuild reads the payload published last.
Register(kind) ==
    /\ phase = "running"
    /\ kind \notin callbacks
    /\ callbacks' = callbacks \cup {kind}
    /\ Rebuild(data, callbacks')
    /\ writes' \in TaskWrites(FirstSnapshots(data, callbacks'))
    /\ disturbed' = (disturbed \/ InWindow)
    /\ UNCHANGED <<outside, phase, threshold, data, payload, refresh>>

Unregister(kind) ==
    /\ kind \in callbacks
    /\ callbacks' = callbacks \ {kind}
    /\ UNCHANGED <<outside, phase, threshold, data, payload, refresh, timers, writes,
                   disturbed>>

\* The timer's item is no longer listed with the timer's end time.
Stale(k) == data[k.slot] # k.end

Fire(k) ==
    LET live == k \notin fired /\ ~Stale(k) /\ Active(k)
        emitted == IF live THEN {k} ELSE {}
        marked == Marked(emitted, callbacks)
    IN  /\ k \in scheduled
        /\ k.end <= now + k.thr
        /\ scheduled' = scheduled \ {k}
        /\ history' = history \cup emitted
        /\ fired' = fired \cup marked
        /\ notified' = Notices(Delivered(emitted, callbacks))
        /\ dirty' = (dirty \/ marked # {})
        /\ saving' = (saving \/ marked # {})
        /\ writes' \in TaskWrites({fired \cup marked : m \in marked})
        /\ disturbed' = (disturbed \/ InWindow)
        /\ UNCHANGED <<outside, phase, threshold, data, payload, refresh, callbacks>>

\* A save is on disk and the coroutine that awaits it goes on: the flush
\* clears the dirty flag, whatever was marked in the meantime.  Each save is a
\* Store of its own, so they may reach the disk in any order.
SaveLands(i) ==
    LET by == writes[i].by
    IN  /\ store' = writes[i].keys
        /\ IF by = "unload"
           THEN /\ phase' = "down"
                /\ Forget
                /\ writes' = LET rest == RemoveAt(writes, i)
                             IN  [j \in DOMAIN rest |-> [rest[j] EXCEPT !.by = "orphan"]]
                /\ hasty' = IF i > 1 THEN hasty + 1 ELSE hasty
           ELSE /\ dirty' = (dirty /\ by = "orphan")
                /\ saving' = (saving /\ by # "task")
                /\ refresh' = IF by = "refresh" THEN "syncing" ELSE refresh
                /\ writes' = RemoveAt(writes, i)
                /\ UNCHANGED <<phase, data, payload, scheduled, fired, history,
                               callbacks, hasty, disturbed>>
        /\ UNCHANGED <<now, threshold, notified, lives, crashes>>

Next ==
    \/ Tick \/ Setup \/ Unload \/ UnloadSave \/ Crash
    \/ RefreshStart \/ FetchFails \/ FetchDone \/ Publish
    \/ \E kind \in Kinds : Register(kind) \/ Unregister(kind)
    \/ \E k \in Key : Fire(k)
    \/ \E i \in DOMAIN writes : SaveLands(i)

Spec == Init /\ [][Next]_vars

-----------------------------------------------------------------------------
(* Properties.                                                             *)

\* Every variable has its type: the shape of the coordinator's state.
TypeOK ==
    /\ now \in Nat /\ lives \in Nat /\ crashes \in Nat /\ hasty \in Nat
    /\ phase \in {"down", "first", "running", "unloading", "saving"}
    /\ refresh \in {"idle", "fetching", "flushing", "syncing"}
    /\ threshold \in Thresholds
    /\ data \in Payload /\ payload \in Payload
    /\ scheduled \subseteq Key /\ fired \subseteq Key /\ history \subseteq Key
    /\ store \subseteq Key
    /\ callbacks \subseteq Kinds
    /\ dirty \in BOOLEAN /\ saving \in BOOLEAN /\ disturbed \in BOOLEAN
    /\ notified \in [Key -> Nat]
    /\ writes \in Seq([keys : SUBSET Key, by : {"task", "refresh", "unload", "orphan"}])

\* An item never has two timers pending, whatever end times it was listed with:
\* a rebuild cancels the timer of the former end time.
OneTimerPerItem ==
    \A k, l \in scheduled : k.slot = l.slot => k = l

\* A key that this life may still notify.
Unspent(k) == phase # "down" /\ k \notin fired /\ now < k.end

\* One life of the entry gives the automation at most one notice per key,
\* between immediate emission, timer, late registration and pruning: a notice
\* goes to an unspent key and spends it, and only a new life makes a key unspent.
OnceLifetime == [][
    \A k \in Key :
        /\ notified'[k] # notified[k] =>
              /\ Unspent(k) /\ ~Unspent(k)'
              /\ notified'[k] = notified[k] + 1 /\ lives' = lives
        /\ Unspent(k)' /\ ~Unspent(k) => lives' = lives + 1]_vars

\* Only a crash can repeat a notice, or an unload that did not wait for an earlier
\* save, whose older set then replaces its own on disk: any other unload hands
\* every fired key to the next set-up, in whatever order saves reach the disk.
OnceUnlessCrash == \A k \in Key : notified[k] <= crashes + hasty + 1

\* A key is suppressed, in memory, on disk or in a save in flight, only if the
\* event entity got its notice: an emission nobody heard is not marked.
SuppressedWasTold ==
    \A k \in fired \cup store \cup UNION {writes[i].keys : i \in DOMAIN writes} :
        notified[k] > 0

\* While no refresh is between its rebuild and its publication, each listed
\* item that has not ended and whose kind is heard was notified or has a timer,
\* unless a timer or a registration ran inside the latest such window.
Covered ==
    phase = "running" /\ ~InWindow /\ ~disturbed =>
        \A k \in Wanted(data) : k.slot[1] \in callbacks => k \in fired \cup scheduled
=============================================================================
