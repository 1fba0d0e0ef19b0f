--------------------------- MODULE EntryLifecycle ---------------------------
(***************************************************************************)
(* The life of the config entries (__init__.py): set-up, with its first    *)
(* refresh and the platforms awaited; the update listener that reloads an  *)
(* entry when its configuration changed; unload, removal and restart; and  *)
(* the registry of rate-limit trackers, one per developer keyset, shared   *)
(* by the entries that use it.                                             *)
(*                                                                         *)
(* Home Assistant is external: it holds a lock per entry over set-up,      *)
(* unload, reload and removal, runs an update listener from the end of a   *)
(* set-up to the end of an unload, and updates entries at any time.        *)
(***************************************************************************)
EXTENDS Integers, FiniteSets

CONSTANTS
    Entries,
    Keysets,        \* developer keysets: environment and client id
    Options,        \* values of the options
    DefaultOptions, \* DEFAULT_OPTIONS
    Migrated,       \* entries that an older version left without the core scope
    None,           \* no keyset
    MaxUpdates      \* bound: changes of configuration

ASSUME EntryLifecycleAssumption ==
    /\ IsFiniteSet(Entries) /\ IsFiniteSet(Keysets)
    /\ Migrated \subseteq Entries
    /\ DefaultOptions \in Options
    /\ None \notin Keysets
    /\ MaxUpdates \in Nat

\* The reload-relevant part of an entry; generation counts reauthorizations.
Config == [keyset : Keysets, options : Options, generation : 0..MaxUpdates]
NoConfig == [keyset |-> None]
NewConfig(k) == [keyset |-> k, options |-> DefaultOptions, generation |-> 0]

\* An upper bound of the trackers alive: one per keyset, one per client.
Trackers == 1..(Cardinality(Keysets) + Cardinality(Entries))

VARIABLES
    stage,      \* where each entry is; see Stages
    config,     \* entry.data and entry.options, or NoConfig
    core,       \* the entries with the core scope granted
    client,     \* what the client and coordinator of each entry were built from, or NoConfig
    held,       \* the tracker that client holds, 0 without a client
    loaded,     \* _loaded_config
    reloads,    \* the entries with a reload that waits for their lock
    registry,   \* rate_limit_trackers: per keyset, its tracker (0: none) and entries
    updates,    \* changes of configuration so far
    missed,     \* history variable: entries updated while being set up
    moved       \* history variable: entries whose keyset was changed

entryVars == <<stage, config, core, updates, moved>>
runVars == <<client, held, loaded, missed>>
vars == <<entryVars, runVars, reloads, registry>>

\* "absent": not configured.  "down": to be set up now.  "retry" and "error":
\* the set-up failed, and is or is not tried again (SETUP_RETRY, SETUP_ERROR).
\* "stuck": the platforms refused to unload (FAILED_UNLOAD).
Stages == {"absent", "down", "retry", "error", "refreshing", "forwarding", "loaded",
           "reloading", "removing", "stuck"}
SettingUp(e) == stage[e] \in {"refreshing", "forwarding"}
HasClient(e) == client[e] # NoConfig
Listening(e) == HasClient(e) /\ ~SettingUp(e)

-----------------------------------------------------------------------------
(* The tracker registry.                                                   *)

Unused == Trackers \ ({registry[k].tracker : k \in Keysets} \cup {held[e] : e \in Entries})

\* async_get_rate_limit_tracker
Got(k) == IF registry[k].tracker # 0 THEN registry[k].tracker
          ELSE CHOOSE t \in Unused : TRUE

Joined(e, k) ==
    [registry EXCEPT ![k] = [tracker |-> Got(k), entries |-> @.entries \cup {e}]]

NoTracker == [tracker |-> 0, entries |-> {}]

ReleasedAll(e, k) == [registry EXCEPT ![k] = NoTracker]

ReleasedNot(e, k) == registry

\* async_release_rate_limit_tracker: the last entry to leave drops the tracker.
Released(e, k) ==
    [registry EXCEPT ![k] = IF @.entries \subseteq {e} THEN NoTracker
                            ELSE [@ EXCEPT !.entries = registry[k].entries \ {e}]]

\* A set-up begins at once, or by the timer of Home Assistant if no reload waits.
SetupBegins(e) == stage[e] = "down" \/ (stage[e] = "retry" /\ e \notin reloads)

-----------------------------------------------------------------------------
Init ==
    /\ stage = [e \in Entries |-> IF e \in Migrated THEN "down" ELSE "absent"]
    /\ \E k \in Keysets :
          config = [e \in Entries |-> IF e \in Migrated THEN NewConfig(k) ELSE NoConfig]
    /\ core = Entries \ Migrated
    /\ client = [e \in Entries |-> NoConfig] /\ loaded = [e \in Entries |-> NoConfig]
    /\ held = [e \in Entries |-> 0]
    /\ reloads = {}
    /\ registry = [k \in Keysets |-> NoTracker]
    /\ updates = 0
    /\ missed = {} /\ moved = {}

\* The onboarding flow creates the entry.
Create(e, k) ==
    /\ stage[e] = "absent"
    /\ stage' = [stage EXCEPT ![e] = "down"]
    /\ config' = [config EXCEPT ![e] = NewConfig(k)]
    /\ UNCHANGED <<core, updates, moved, runVars, reloads, registry>>

\* async_setup_entry, up to the first await that matters.
BeginSetup(e) ==
    /\ SetupBegins(e)
    /\ e \in core
    /\ stage' = [stage EXCEPT ![e] = "refreshing"]
    /\ client' = [client EXCEPT ![e] = config[e]]
    /\ loaded' = [loaded EXCEPT ![e] = config[e]]
    /\ held' = [held EXCEPT ![e] = Got(config[e].keyset)]
    /\ registry' = Joined(e, config[e].keyset)
    /\ missed' = missed \ {e}
    /\ UNCHANGED <<config, core, updates, moved, reloads>>

\* Without the core scope: ConfigEntryAuthFailed.
RefuseSetup(e) ==
    /\ SetupBegins(e)
    /\ e \notin core
    /\ stage' = [stage EXCEPT ![e] = "error"]
    /\ UNCHANGED <<config, core, updates, moved, runVars, reloads, registry>>

\* The first refresh is done: the snapshot is taken again, with the options that
\* were read before it.
FirstRefreshDone(e) ==
    /\ stage[e] = "refreshing"
    /\ stage' = [stage EXCEPT ![e] = "forwarding"]
    /\ loaded' = [loaded EXCEPT ![e] = [config[e] EXCEPT !.options = client[e].options]]
    /\ UNCHANGED <<config, core, updates, moved, client, held, missed, reloads, registry>>

\* The client of e stops and its reference is released, under the keyset that
\* the entry has by then.
Drop(e) ==
    /\ client' = [client EXCEPT ![e] = NoConfig]
    /\ loaded' = [loaded EXCEPT ![e] = NoConfig]
    /\ missed' = missed \ {e}
    /\ held' = [held EXCEPT ![e] = 0]
    /\ registry' = Released(e, config[e].keyset)

\* It fails: ConfigEntryNotReady is tried again, ConfigEntryAuthFailed is not.
FirstRefreshFails(e) ==
    /\ stage[e] = "refreshing"
    /\ \E failed \in {"retry", "error"} : stage' = [stage EXCEPT ![e] = failed]
    /\ Drop(e)
    /\ UNCHANGED <<config, core, updates, moved, reloads>>

\* The platforms are set up; the update listener is registered last.
SetupDone(e) ==
    /\ stage[e] = "forwarding"
    /\ stage' = [stage EXCEPT ![e] = "loaded"]
    /\ UNCHANGED <<config, core, updates, moved, runVars, reloads, registry>>

-----------------------------------------------------------------------------
(* Updates of an entry.                                                    *)

ChangedOptions(old, new) == old.options # new.options

ChangedForgetful(old, new) == old.options # new.options \/ old.keyset # new.keyset

ChangedAlways(old, new) == TRUE

\* _config_snapshot_changed
Changed(old, new) == old # new

\* _async_update_listener: a reload is asked for when the snapshot differs.
Listener(e, new) ==
    IF Listening(e) /\ Changed(loaded[e], new)
    THEN /\ loaded' = [loaded EXCEPT ![e] = new]
         /\ reloads' = IF stage[e] = "stuck" THEN reloads ELSE reloads \cup {e}
    ELSE UNCHANGED <<loaded, reloads>>

Update(e, new) ==
    /\ updates < MaxUpdates
    /\ updates' = updates + 1
    /\ config' = [config EXCEPT ![e] = new]
    /\ missed' = IF SettingUp(e) THEN missed \cup {e} ELSE missed
    /\ Listener(e, new)
    /\ UNCHANGED <<stage, client, held, registry>>

\* The options flow saves.
SaveOptions(e, options) ==
    /\ stage[e] # "absent" /\ options # config[e].options
    /\ Update(e, [config[e] EXCEPT !.options = options])
    /\ UNCHANGED <<core, moved>>

\* A reauthorization ends, possibly with the credentials of another keyset.
Reauthorize(e, k) ==
    /\ stage[e] # "absent"
    /\ Update(e, [config[e] EXCEPT !.keyset = k, !.generation = @ + 1])
    /\ core' = core \cup {e}
    /\ moved' = IF k # config[e].keyset THEN moved \cup {e} ELSE moved

\* A routine token refresh writes the token, which the snapshot leaves out.
RefreshToken(e) ==
    /\ stage[e] = "loaded"
    /\ Listener(e, config[e])
    /\ UNCHANGED <<entryVars, client, held, missed, registry>>

\* The user reloads the entry, or the site id repair does.
AskReload(e) ==
    /\ stage[e] \in {"loaded", "retry", "error"}
    /\ reloads' = reloads \cup {e}
    /\ UNCHANGED <<entryVars, runVars, registry>>

-----------------------------------------------------------------------------
(* Unload, reload, removal, restart.                                       *)

\* A reload takes the lock; it unloads the entry first if it is loaded.
BeginReload(e) ==
    /\ e \in reloads
    /\ stage[e] \in {"loaded", "retry", "error"}
    /\ stage' = [stage EXCEPT ![e] = IF @ = "loaded" THEN "reloading" ELSE "down"]
    /\ reloads' = reloads \ {e}
    /\ UNCHANGED <<config, core, updates, moved, runVars, registry>>

\* The end of async_unload_entry, after the stores and the platforms.
ReloadUnloaded(e) ==
    /\ stage[e] = "reloading"
    /\ stage' = [stage EXCEPT ![e] = "down"]
    /\ Drop(e)
    /\ UNCHANGED <<config, core, updates, moved, reloads>>

\* async_unload_platforms returns False: nothing is released, and Home Assistant
\* reloads the entry no more.
UnloadRefused(e) ==
    /\ stage[e] = "reloading"
    /\ stage' = [stage EXCEPT ![e] = "stuck"]
    /\ reloads' = reloads \ {e}
    /\ UNCHANGED <<config, core, updates, moved, runVars, registry>>

BeginRemove(e) ==
    /\ stage[e] \in {"loaded", "retry", "error", "stuck"}
    /\ stage' = [stage EXCEPT ![e] = "removing"]
    /\ UNCHANGED <<config, core, updates, moved, runVars, reloads, registry>>

\* async_remove_entry, after async_unload_entry: the release is made once more.
Removed(e) ==
    /\ stage[e] = "removing"
    /\ stage' = [stage EXCEPT ![e] = "absent"]
    /\ reloads' = reloads \ {e}
    /\ Drop(e)
    /\ config' = [config EXCEPT ![e] = NoConfig]
    /\ core' = core \cup {e}
    /\ UNCHANGED <<updates, moved>>

\* Home Assistant restarts: the entries are kept, and set up again.
Restart ==
    /\ stage' = [e \in Entries |-> IF stage[e] = "absent" THEN "absent" ELSE "down"]
    /\ held' = [e \in Entries |-> 0]
    /\ reloads' = {}
    /\ registry' = [k \in Keysets |-> NoTracker]
    /\ client' = [e \in Entries |-> NoConfig] /\ loaded' = [e \in Entries |-> NoConfig]
    /\ missed' = {} /\ moved' = {}
    /\ UNCHANGED <<config, core, updates>>

Proceed(e) ==
    \/ BeginSetup(e) \/ RefuseSetup(e)
    \/ FirstRefreshDone(e) \/ FirstRefreshFails(e) \/ SetupDone(e)
    \/ BeginReload(e) \/ ReloadUnloaded(e) \/ UnloadRefused(e) \/ Removed(e)

Next ==
    \/ \E e \in Entries :
        \/ Proceed(e)
        \/ \E options \in Options : SaveOptions(e, options)
        \/ \E k \in Keysets : Create(e, k) \/ Reauthorize(e, k)
        \/ RefreshToken(e) \/ AskReload(e) \/ BeginRemove(e)
    \/ Restart

\* What is begun goes on: requests have a time-out, Home Assistant tries again.
Spec == Init /\ [][Next]_vars /\ \A e \in Entries : WF_vars(Proceed(e))

-----------------------------------------------------------------------------
(* Properties.                                                             *)

\* Every variable has its type; only a client holds a tracker.
TypeOK ==
    /\ stage \in [Entries -> Stages]
    /\ config \in [Entries -> Config \cup {NoConfig}]
    /\ client \in [Entries -> Config \cup {NoConfig}]
    /\ loaded \in [Entries -> Config \cup {NoConfig}]
    /\ core \in SUBSET Entries /\ missed \in SUBSET Entries /\ moved \in SUBSET Entries
    /\ held \in [Entries -> {0} \cup Trackers]
    /\ reloads \in SUBSET Entries
    /\ registry \in [Keysets -> [tracker : {0} \cup Trackers, entries : SUBSET Entries]]
    /\ updates \in 0..MaxUpdates

\* The clients of one keyset share one tracker, however entries come, go, fail
\* and change their keyset around them (KeysetTrackers).
Promised == INSTANCE KeysetTrackers WITH
                keyset <- [e \in Entries |-> client[e].keyset],
                tracker <- [e \in Entries |-> IF HasClient(e) THEN held[e] ELSE None]
TrackerShared == Promised!Spec

\* A loaded entry with no reload to come runs its configuration, or was updated
\* while it was being set up: no update is overlooked.
RunsItsConfig ==
    \A e \in Entries :
        stage[e] = "loaded" /\ e \notin reloads \cup missed => client[e] = config[e]

\* An entry that is not there leaves no reference behind, unless its keyset was
\* changed.
NoReferenceLeft ==
    \A k \in Keysets : \A e \in registry[k].entries : HasClient(e) \/ e \in moved

\* A routine token refresh asks for no reload, unless the entry was updated while
\* it was being set up.
NoReloadStorm ==
    [][\A e \in Entries \ missed : RefreshToken(e) => reloads' \subseteq reloads]_vars

\* A change of a running entry takes effect, or the set-up it needs fails.
TakesEffect ==
    \A e \in Entries :
        stage[e] = "loaded" /\ client[e] # config[e] /\ e \notin missed
            ~> client[e] = config[e] \/ stage[e] \in {"retry", "error", "stuck"}
=============================================================================
