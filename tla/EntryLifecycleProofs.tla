------------------------- MODULE EntryLifecycleProofs -------------------------
(***************************************************************************)
(* Proofs about EntryLifecycle, for any number of entries, keysets, values *)
(* of the options and changes of configuration: no reference is left       *)
(* behind, a loaded entry runs its configuration, a token refresh reloads  *)
(* nothing, and the registry implements KeysetTrackers.                    *)
(***************************************************************************)
EXTENDS EntryLifecycle, FiniteSetTheorems, TLAPS

Slot == [tracker : {0} \cup Trackers, entries : SUBSET Entries]

\* A stage tells whether the entry is configured, and whether it has a client.
Staged(e) ==
    /\ stage[e] = "absent" <=> config[e] = NoConfig
    /\ stage[e] \in {"absent", "down", "retry", "error"} => ~HasClient(e)
    /\ stage[e] \in {"refreshing", "forwarding", "loaded", "reloading", "stuck"} => HasClient(e)
    /\ config[e] # NoConfig => config[e].generation <= updates
    /\ HasClient(e) <=> held[e] # 0

Types == TypeOK /\ \A e \in Entries : Staged(e)

\* No configuration is none, and each has a keyset.
LEMMA ConfigFacts ==
    /\ NoConfig \notin Config /\ NoConfig.keyset = None
    /\ \A c \in Config : c.keyset \in Keysets /\ c.keyset # None
    /\ \A k \in Keysets : NewConfig(k) \in Config /\ NewConfig(k).generation = 0
BY EntryLifecycleAssumption DEF Config, NoConfig, NewConfig

\* There are trackers enough: a keyset without one finds one that nobody holds.
LEMMA SomeUnused ==
    ASSUME TypeOK, NEW k \in Keysets, registry[k].tracker = 0
    PROVE  Unused # {}
<1> DEFINE Others == Keysets \ {k}
           kept == [j \in Others |-> registry[j].tracker]
           own == [e \in Entries |-> held[e]]
           Kept == {registry[j].tracker : j \in Others}
           Own == {held[e] : e \in Entries}
<1>1. IsFiniteSet(Others) /\ Cardinality(Others) = Cardinality(Keysets) - 1
    BY FS_RemoveElement, EntryLifecycleAssumption
<1>2. kept \in Surjection(Others, Kept) /\ own \in Surjection(Entries, Own)
    BY DEF Surjection
<1> HIDE DEF Others, kept, own, Kept, Own
<1>3. /\ IsFiniteSet(Kept) /\ Cardinality(Kept) <= Cardinality(Others)
      /\ IsFiniteSet(Own) /\ Cardinality(Own) <= Cardinality(Entries)
    BY <1>1, <1>2, FS_Surjection, EntryLifecycleAssumption
<1>4. /\ Cardinality(Keysets) \in Nat /\ Cardinality(Entries) \in Nat
      /\ Cardinality(Kept) \in Nat /\ Cardinality(Own) \in Nat
      /\ Cardinality(Kept \cap Own) \in Nat
    BY <1>3, FS_CardinalityType, FS_Intersection, EntryLifecycleAssumption
<1>5. IsFiniteSet(Kept \cup Own)
      /\ Cardinality(Kept \cup Own) < Cardinality(Keysets) + Cardinality(Entries)
    <2>1. /\ IsFiniteSet(Kept \cup Own)
          /\ Cardinality(Kept \cup Own) =
                Cardinality(Kept) + Cardinality(Own) - Cardinality(Kept \cap Own)
        BY <1>3, FS_Union, Zenon
    <2> QED BY <1>1, <1>3, <1>4, <2>1
<1>6. Cardinality(Trackers) = Cardinality(Keysets) + Cardinality(Entries)
    BY <1>1, <1>4, FS_Interval, FS_CardinalityType DEF Trackers
<1>7. ~(Trackers \subseteq Kept \cup Own)
    <2>1. Cardinality(Kept \cup Own) \in Nat /\ Cardinality(Trackers) \in Nat
        BY <1>4, <1>5, <1>6, FS_CardinalityType
    <2> QED BY <1>5, <1>6, <2>1, FS_Subset
<1>8. PICK t \in Trackers : t \notin Kept /\ t \notin Own
    BY <1>7
<1>9. t \in Unused
    BY <1>8, <1>4 DEF Unused, Trackers, Kept, Own, Others
<1> QED BY <1>9

\* The tracker of a keyset is the one registered, or one not used yet.
LEMMA GotTypes ==
    ASSUME TypeOK, NEW k \in Keysets
    PROVE  /\ Got(k) \in Trackers
           /\ registry[k].tracker # 0 => Got(k) = registry[k].tracker
           /\ registry[k].tracker = 0 => Got(k) \in Unused
<1>1. registry[k] \in Slot
    BY DEF TypeOK, Slot
<1>2. CASE registry[k].tracker = 0
    <2>1. Got(k) \in Unused
        BY <1>2, SomeUnused DEF Got
    <2> QED BY <1>2, <2>1 DEF Unused
<1>3. CASE registry[k].tracker # 0
    BY <1>1, <1>3 DEF Got, Slot
<1> QED BY <1>2, <1>3

\* 0 is no tracker.
LEMMA TrackersPositive == 0 \notin Trackers
<1>1. Cardinality(Keysets) + Cardinality(Entries) \in Int
    BY FS_CardinalityType, EntryLifecycleAssumption
<1> QED BY <1>1 DEF Trackers

\* What a set-up, and a client that goes, make of the registry.
LEMMA JoinedTypes ==
    ASSUME TypeOK, NEW e \in Entries, NEW k \in Keysets
    PROVE  /\ Joined(e, k) \in [Keysets -> Slot]
           /\ Joined(e, k)[k].tracker = Got(k)
           /\ Joined(e, k)[k].entries = registry[k].entries \cup {e}
           /\ \A j \in Keysets \ {k} : Joined(e, k)[j] = registry[j]
<1>1. registry \in [Keysets -> Slot]
    BY DEF TypeOK, Slot
<1> QED BY <1>1, GotTypes DEF Joined, Slot

\* A release drops one reference, and the tracker with the last.
LEMMA ReleasedTypes ==
    ASSUME TypeOK, NEW e \in Entries, NEW k \in Keysets
    PROVE  /\ Released(e, k) \in [Keysets -> Slot]
           /\ Released(e, k)[k].entries = registry[k].entries \ {e}
           /\ \/ Released(e, k)[k].tracker = registry[k].tracker
              \/ Released(e, k)[k].tracker = 0 /\ registry[k].entries \subseteq {e}
           /\ \A j \in Keysets \ {k} : Released(e, k)[j] = registry[j]
<1>1. registry \in [Keysets -> Slot]
    BY DEF TypeOK, Slot
<1> QED BY <1>1 DEF Released, NoTracker, Slot

\* What Drop leaves: no client, and nothing else changed.
LEMMA DropTypes ==
    ASSUME TypeOK, NEW e \in Entries, config[e] # NoConfig, Drop(e)
    PROVE  /\ client' \in [Entries -> Config \cup {NoConfig}]
           /\ loaded' \in [Entries -> Config \cup {NoConfig}]
           /\ held' \in [Entries -> {0} \cup Trackers]
           /\ registry' \in [Keysets -> Slot]
           /\ missed' \in SUBSET Entries
           /\ client'[e] = NoConfig /\ held'[e] = 0
           /\ \A other \in Entries \ {e} :
                client'[other] = client[other] /\ held'[other] = held[other]
                    /\ loaded'[other] = loaded[other]
           /\ config[e].keyset \in Keysets
<1>1. config[e].keyset \in Keysets
    BY ConfigFacts DEF TypeOK
<1>2. registry' \in [Keysets -> Slot]
    BY <1>1, ReleasedTypes DEF Drop
<1> QED BY <1>1, <1>2 DEF TypeOK, Drop

\* An update of the configuration of e to new.
LEMMA UpdateTypes ==
    ASSUME Types, NEW e \in Entries, config[e] # NoConfig,
           NEW new \in Config, new.generation <= updates + 1, Update(e, new),
           core' \in SUBSET Entries, moved' \in SUBSET Entries
    PROVE  Types'
<1>1. /\ config' = [config EXCEPT ![e] = new]
      /\ UNCHANGED <<stage, client, held, registry>>
      /\ updates' = updates + 1 /\ updates < MaxUpdates
      /\ missed' \in SUBSET Entries
    BY DEF Update, Types, TypeOK
<1>2. loaded' \in [Entries -> Config \cup {NoConfig}] /\ reloads' \in SUBSET Entries
    BY DEF Update, Listener, Types, TypeOK
<1>3. updates \in 0..MaxUpdates /\ updates' \in 0..MaxUpdates
    BY <1>1, EntryLifecycleAssumption DEF Types, TypeOK
<1>4. TypeOK'
    BY <1>1, <1>2, <1>3 DEF Types, TypeOK
<1>5. ASSUME NEW other \in Entries PROVE Staged(other)'
    <2>1. config'[other] = (IF other = e THEN new ELSE config[other])
        BY <1>1 DEF Types, TypeOK
    <2>2. config[other] \in Config \cup {NoConfig}
        BY DEF Types, TypeOK
    <2>3. config[other] # NoConfig => config[other].generation \in Int
        BY <2>2 DEF Config
    <2> QED BY <1>1, <1>3, <2>1, <2>3, ConfigFacts DEF Types, Staged, HasClient
<1> QED BY <1>4, <1>5 DEF Types

\* Every step keeps the types.
LEMMA TypeStep == Types /\ [Next]_vars => Types'
<1> SUFFICES ASSUME Types, [Next]_vars PROVE Types'
    OBVIOUS
<1>a. /\ TypeOK
      /\ \A i \in Entries : config[i] \in Config \cup {NoConfig} /\ Staged(i)
      /\ \A i \in Entries : config[i] # NoConfig => config[i].keyset \in Keysets
    BY ConfigFacts DEF Types, TypeOK
\* A step that only moves one entry from stage to stage, with a client or not.
<1>b. ASSUME NEW e \in Entries, NEW new \in Stages, stage' = [stage EXCEPT ![e] = new],
             UNCHANGED <<config, core, updates, moved, runVars, registry>>,
             reloads' \in SUBSET Entries, new # "absent", stage[e] # "absent",
             new \in {"down", "retry", "error"} => ~HasClient(e),
             new \notin {"down", "retry", "error", "removing"} => HasClient(e)
      PROVE  Types'
    <2>1. TypeOK'
        BY <1>a, <1>b DEF TypeOK, runVars
    <2>2. ASSUME NEW other \in Entries PROVE Staged(other)'
        <3>1. stage'[other] = IF other = e THEN new ELSE stage[other]
            BY <1>a, <1>b DEF TypeOK
        <3> QED BY <1>a, <1>b, <3>1 DEF Staged, HasClient, runVars, Stages
    <2> QED BY <2>1, <2>2 DEF Types
\* A step in which the client of one entry goes.
<1>c. ASSUME NEW e \in Entries, config[e] # NoConfig, Drop(e),
             NEW new \in {"down", "retry", "error"}, stage' = [stage EXCEPT ![e] = new],
             UNCHANGED <<config, core, updates, moved, reloads>>
      PROVE  Types'
    <2>1. TypeOK'
        BY <1>a, <1>c, DropTypes DEF TypeOK, Slot, Stages
    <2>2. ASSUME NEW other \in Entries PROVE Staged(other)'
        <3>1. stage'[other] = IF other = e THEN new ELSE stage[other]
            BY <1>a, <1>c DEF TypeOK
        <3>2. /\ other = e => client'[other] = NoConfig /\ held'[other] = 0
              /\ other # e => client'[other] = client[other] /\ held'[other] = held[other]
            BY <1>a, <1>c, DropTypes
        <3> QED BY <1>a, <1>c, <3>1, <3>2 DEF Staged, HasClient
    <2> QED BY <2>1, <2>2 DEF Types
<1>1. ASSUME NEW e \in Entries, NEW k \in Keysets, Create(e, k) PROVE Types'
    <2>1. /\ stage' = [stage EXCEPT ![e] = "down"]
          /\ config' = [config EXCEPT ![e] = NewConfig(k)]
          /\ stage[e] = "absent"
          /\ UNCHANGED <<core, updates, moved, runVars, reloads, registry>>
        BY <1>1 DEF Create
    <2>2. TypeOK'
        BY <1>a, <2>1, ConfigFacts DEF TypeOK, runVars, Stages
    <2>3. ASSUME NEW other \in Entries PROVE Staged(other)'
        <3>1. /\ stage'[other] = IF other = e THEN "down" ELSE stage[other]
              /\ config'[other] = IF other = e THEN NewConfig(k) ELSE config[other]
            BY <1>a, <2>1 DEF TypeOK
        <3>2. updates \in Nat
            BY <1>a DEF TypeOK
        <3> QED BY <1>a, <2>1, <3>1, <3>2, ConfigFacts DEF Staged, HasClient, runVars
    <2> QED BY <2>2, <2>3 DEF Types
<1>2. ASSUME NEW e \in Entries, BeginSetup(e) PROVE Types'
    <2> DEFINE k == config[e].keyset
    <2>1. /\ stage[e] \in {"down", "retry"}
          /\ stage' = [stage EXCEPT ![e] = "refreshing"]
          /\ client' = [client EXCEPT ![e] = config[e]]
          /\ loaded' = [loaded EXCEPT ![e] = config[e]]
          /\ held' = [held EXCEPT ![e] = Got(k)]
          /\ registry' = Joined(e, k)
          /\ missed' = missed \ {e}
          /\ UNCHANGED <<config, core, updates, moved, reloads>>
        BY <1>2 DEF BeginSetup, SetupBegins
    <2>2. config[e] \in Config /\ k \in Keysets
        BY <1>a, <2>1 DEF Staged
    <2> HIDE DEF k
    <2>3. Got(k) \in Trackers /\ registry' \in [Keysets -> Slot]
        BY <1>a, <2>1, <2>2, GotTypes, JoinedTypes
    <2>4. TypeOK'
        BY <1>a, <2>1, <2>2, <2>3 DEF TypeOK, Slot, Stages
    <2>5. ASSUME NEW other \in Entries PROVE Staged(other)'
        <3>1. /\ stage'[other] = IF other = e THEN "refreshing" ELSE stage[other]
              /\ client'[other] = IF other = e THEN config[e] ELSE client[other]
              /\ held'[other] = IF other = e THEN Got(k) ELSE held[other]
            BY <1>a, <2>1 DEF TypeOK
        <3> QED BY <1>a, <2>1, <2>2, <2>3, <3>1, ConfigFacts, TrackersPositive DEF Staged, HasClient
    <2> QED BY <2>4, <2>5 DEF Types
<1>3. ASSUME NEW e \in Entries, RefuseSetup(e) PROVE Types'
    <2>1. ~HasClient(e) /\ stage[e] # "absent"
        BY <1>3, <1>a DEF RefuseSetup, SetupBegins, Staged
    <2> QED BY <1>3, <1>a, <1>b, <2>1 DEF RefuseSetup, TypeOK, Stages
<1>4. ASSUME NEW e \in Entries, FirstRefreshDone(e) PROVE Types'
    <2>1. /\ stage' = [stage EXCEPT ![e] = "forwarding"] /\ stage[e] = "refreshing"
          /\ loaded' = [loaded EXCEPT ![e] = [config[e] EXCEPT !.options = client[e].options]]
          /\ UNCHANGED <<config, core, updates, moved, client, held, missed, reloads, registry>>
        BY <1>4 DEF FirstRefreshDone
    <2>2. config[e] \in Config /\ client[e] \in Config
        BY <1>a, <2>1 DEF Staged, HasClient, TypeOK
    <2>3. [config[e] EXCEPT !.options = client[e].options] \in Config
        BY <2>2 DEF Config
    <2>4. TypeOK'
        BY <1>a, <2>1, <2>3 DEF TypeOK, Stages
    <2>5. ASSUME NEW other \in Entries PROVE Staged(other)'
        <3>1. stage'[other] = IF other = e THEN "forwarding" ELSE stage[other]
            BY <1>a, <2>1 DEF TypeOK
        <3> QED BY <1>a, <2>1, <3>1 DEF Staged, HasClient
    <2> QED BY <2>4, <2>5 DEF Types
<1>5. ASSUME NEW e \in Entries, FirstRefreshFails(e) PROVE Types'
    <2>1. config[e] # NoConfig
        BY <1>5, <1>a DEF FirstRefreshFails, Staged
    <2> QED BY <1>5, <1>c, <2>1 DEF FirstRefreshFails
<1>6. ASSUME NEW e \in Entries, SetupDone(e) PROVE Types'
    <2>1. HasClient(e)
        BY <1>6, <1>a DEF SetupDone, Staged
    <2> QED BY <1>6, <1>a, <1>b, <2>1 DEF SetupDone, TypeOK, Stages
<1>7. ASSUME NEW e \in Entries, NEW options \in Options, SaveOptions(e, options) PROVE Types'
    <2>1. config[e] \in Config /\ config[e] # NoConfig /\ config[e].generation <= updates
        BY <1>7, <1>a DEF SaveOptions, Staged
    <2>2. /\ [config[e] EXCEPT !.options = options] \in Config
          /\ [config[e] EXCEPT !.options = options].generation = config[e].generation
          /\ config[e].generation \in Int
        BY <2>1 DEF Config
    <2>3. [config[e] EXCEPT !.options = options].generation <= updates + 1
        BY <2>1, <2>2, <1>a DEF TypeOK
    <2>4. core' \in SUBSET Entries /\ moved' \in SUBSET Entries
        BY <1>7, <1>a DEF SaveOptions, TypeOK
    <2> QED BY <1>7, <2>1, <2>2, <2>3, <2>4, UpdateTypes DEF SaveOptions
<1>8. ASSUME NEW e \in Entries, NEW k \in Keysets, Reauthorize(e, k) PROVE Types'
    <2> DEFINE new == [config[e] EXCEPT !.keyset = k, !.generation = config[e].generation + 1]
    <2>1. config[e] \in Config /\ config[e] # NoConfig /\ config[e].generation <= updates
        BY <1>8, <1>a DEF Reauthorize, Staged
    <2>2. Update(e, new) /\ updates < MaxUpdates
        BY <1>8 DEF Reauthorize, Update
    <2>3. /\ new.generation = config[e].generation + 1
          /\ config[e].generation \in 0..MaxUpdates /\ updates \in 0..MaxUpdates
        BY <2>1, <1>a DEF Config, TypeOK
    <2>4. config[e].generation + 1 \in 0..MaxUpdates /\ new.generation <= updates + 1
        BY <2>1, <2>2, <2>3, EntryLifecycleAssumption
    <2>5. new \in Config
        BY <2>1, <2>4 DEF Config
    <2>6. core' \in SUBSET Entries /\ moved' \in SUBSET Entries
        BY <1>8, <1>a DEF Reauthorize, TypeOK
    <2> HIDE DEF new
    <2> QED BY <2>1, <2>2, <2>4, <2>5, <2>6, UpdateTypes
<1>9. ASSUME NEW e \in Entries, RefreshToken(e) PROVE Types'
    <2>1. loaded' \in [Entries -> Config \cup {NoConfig}] /\ reloads' \in SUBSET Entries
        BY <1>9, <1>a DEF RefreshToken, Listener, TypeOK
    <2>2. UNCHANGED <<stage, config, core, updates, moved, client, held, missed, registry>>
        BY <1>9 DEF RefreshToken, entryVars
    <2> QED BY <1>a, <2>1, <2>2 DEF Types, TypeOK, Staged, HasClient
<1>10. ASSUME NEW e \in Entries, AskReload(e) PROVE Types'
    BY <1>a, <1>10 DEF AskReload, Types, TypeOK, Staged, HasClient, entryVars, runVars
<1>11. ASSUME NEW e \in Entries, BeginReload(e) PROVE Types'
    <2> DEFINE new == IF stage[e] = "loaded" THEN "reloading" ELSE "down"
    <2>1. stage' = [stage EXCEPT ![e] = new] /\ stage[e] \in {"loaded", "retry", "error"}
          /\ reloads' = reloads \ {e} /\ UNCHANGED <<config, core, updates, moved, runVars, registry>>
        BY <1>11 DEF BeginReload
    <2>2. stage[e] = "loaded" => HasClient(e)
        BY <1>a DEF Staged
    <2>3. stage[e] # "loaded" => ~HasClient(e)
        BY <1>a, <2>1 DEF Staged
    <2>4. new \in Stages /\ reloads' \in SUBSET Entries
        BY <1>a, <2>1 DEF Stages, TypeOK
    <2> QED BY <1>b, <2>1, <2>2, <2>3, <2>4
<1>12. ASSUME NEW e \in Entries, ReloadUnloaded(e) PROVE Types'
    <2>1. config[e] # NoConfig
        BY <1>12, <1>a DEF ReloadUnloaded, Staged
    <2> QED BY <1>12, <1>c, <2>1 DEF ReloadUnloaded
<1>13. ASSUME NEW e \in Entries, UnloadRefused(e) PROVE Types'
    <2>1. HasClient(e)
        BY <1>13, <1>a DEF UnloadRefused, Staged
    <2> QED BY <1>13, <1>a, <1>b, <2>1 DEF UnloadRefused, TypeOK, Stages
<1>14. ASSUME NEW e \in Entries, BeginRemove(e) PROVE Types'
    BY <1>14, <1>a, <1>b DEF BeginRemove, TypeOK, Stages
<1>15. ASSUME NEW e \in Entries, Removed(e) PROVE Types'
    <2>1. /\ stage' = [stage EXCEPT ![e] = "absent"] /\ Drop(e)
          /\ config' = [config EXCEPT ![e] = NoConfig] /\ UNCHANGED <<updates, moved>>
          /\ reloads' = reloads \ {e} /\ core' = core \cup {e}
        BY <1>15 DEF Removed
    <2>2. config[e] # NoConfig
        BY <1>15, <1>a DEF Removed, Staged
    <2>3. TypeOK'
        BY <1>a, <2>1, <2>2, DropTypes DEF TypeOK, Slot, Stages
    <2>4. ASSUME NEW other \in Entries PROVE Staged(other)'
        <3>1. /\ stage'[other] = IF other = e THEN "absent" ELSE stage[other]
              /\ config'[other] = IF other = e THEN NoConfig ELSE config[other]
            BY <1>a, <2>1 DEF TypeOK
        <3>2. /\ other = e => client'[other] = NoConfig /\ held'[other] = 0
              /\ other # e => client'[other] = client[other] /\ held'[other] = held[other]
            BY <1>a, <2>1, <2>2, DropTypes
        <3> QED BY <1>a, <2>1, <3>1, <3>2 DEF Staged, HasClient
    <2> QED BY <2>3, <2>4 DEF Types
<1>16. CASE Restart
    <2>1. TypeOK'
        BY <1>a, <1>16 DEF Restart, TypeOK, NoTracker, Stages
    <2> QED BY <1>a, <1>16, <2>1 DEF Types, Restart, Staged, HasClient
<1>17. CASE UNCHANGED vars
    BY <1>17 DEF vars, entryVars, runVars, Types, TypeOK, Staged, HasClient
<1> QED BY <1>1, <1>2, <1>3, <1>4, <1>5, <1>6, <1>7, <1>8, <1>9, <1>10, <1>11, <1>12,
           <1>13, <1>14, <1>15, <1>16, <1>17 DEF Next, Proceed

\* The types hold at first.
LEMMA InitTypes == Init => Types
<1> SUFFICES ASSUME Init PROVE Types
    OBVIOUS
<1>1. PICK k \in Keysets :
        config = [e \in Entries |-> IF e \in Migrated THEN NewConfig(k) ELSE NoConfig]
    BY DEF Init
<1>2. TypeOK
    BY <1>1, ConfigFacts, EntryLifecycleAssumption DEF Init, TypeOK, Stages, NoTracker
<1>3. \A e \in Entries : Staged(e)
    BY <1>1, ConfigFacts DEF Init, Staged, HasClient
<1> QED BY <1>2, <1>3 DEF Types

\* Every state is well typed, and a tracker is found for every client.
THEOREM TypeCorrect == Spec => []TypeOK
<1>1. Types => TypeOK
    BY DEF Types
<1> QED BY <1>1, InitTypes, TypeStep, PTL DEF Spec

-----------------------------------------------------------------------------
\* To the clients and the registry, a step is one of these: a set-up begins, a
\* client goes, Home Assistant restarts, or nothing happens.
Quiet ==
    /\ UNCHANGED <<client, held, registry>> /\ moved \subseteq moved'
    /\ \A e \in Entries : HasClient(e) => config'[e].keyset = config[e].keyset \/ e \in moved'

Leaves(e) ==
    /\ Drop(e) /\ config[e] # NoConfig /\ moved' = moved
    /\ \A other \in Entries \ {e} : config'[other] = config[other]

\* Every step is of one of these kinds.
LEMMA StepKinds ==
    ASSUME Types, [Next]_vars
    PROVE  \/ Quiet \/ Restart
           \/ \E e \in Entries : BeginSetup(e) \/ Leaves(e)
<1>a. /\ TypeOK
      /\ \A i \in Entries : config[i] \in Config \cup {NoConfig} /\ Staged(i)
    BY DEF Types, TypeOK
<1>b. ASSUME UNCHANGED <<client, held, registry, config, moved>> PROVE Quiet
    BY <1>b DEF Quiet
<1>1. ASSUME NEW e \in Entries, NEW k \in Keysets, Create(e, k) PROVE Quiet
    <2>1. ~HasClient(e)
        BY <1>1, <1>a DEF Create, Staged
    <2> QED BY <1>1, <1>a, <2>1 DEF Create, Quiet, runVars, TypeOK
<1>2. ASSUME NEW e \in Entries, NEW options \in Options, SaveOptions(e, options) PROVE Quiet
    <2> DEFINE new == [config[e] EXCEPT !.options = options]
    <2>1. /\ config' = [config EXCEPT ![e] = new]
          /\ UNCHANGED <<client, held, registry, moved>> /\ stage[e] # "absent"
        BY <1>2 DEF SaveOptions, Update
    <2>2. new.keyset = config[e].keyset
        BY <1>a, <2>1 DEF Staged, Config
    <2> HIDE DEF new
    <2> QED BY <1>a, <2>1, <2>2 DEF Quiet, TypeOK
<1>3. ASSUME NEW e \in Entries, NEW k \in Keysets, Reauthorize(e, k) PROVE Quiet
    <2> DEFINE new == [config[e] EXCEPT !.keyset = k, !.generation = config[e].generation + 1]
    <2>1. /\ config' = [config EXCEPT ![e] = new]
          /\ UNCHANGED <<client, held, registry>> /\ stage[e] # "absent"
          /\ moved' = IF k # config[e].keyset THEN moved \cup {e} ELSE moved
        BY <1>3 DEF Reauthorize, Update
    <2>2. new.keyset = k
        BY <1>a, <2>1 DEF Staged, Config
    <2> HIDE DEF new
    <2> QED BY <1>a, <2>1, <2>2 DEF Quiet, TypeOK
<1>4. ASSUME NEW e \in Entries, FirstRefreshFails(e) \/ ReloadUnloaded(e) \/ Removed(e)
      PROVE  Leaves(e)
    <2>1. stage[e] \in {"refreshing", "reloading", "removing"}
        BY <1>4 DEF FirstRefreshFails, ReloadUnloaded, Removed
    <2>2. config[e] # NoConfig
        BY <1>a, <2>1 DEF Staged
    <2> QED BY <1>4, <1>a, <2>2 DEF FirstRefreshFails, ReloadUnloaded, Removed, Leaves, TypeOK
<1>5. ASSUME NEW e \in Entries,
             \/ RefuseSetup(e) \/ FirstRefreshDone(e) \/ SetupDone(e) \/ BeginReload(e)
             \/ UnloadRefused(e) \/ RefreshToken(e) \/ AskReload(e) \/ BeginRemove(e)
      PROVE  Quiet
    BY <1>5, <1>b DEF RefuseSetup, FirstRefreshDone, SetupDone, BeginReload, UnloadRefused,
                      RefreshToken, AskReload, BeginRemove, entryVars, runVars
<1> QED BY <1>1, <1>2, <1>3, <1>4, <1>5, <1>b DEF Next, Proceed, vars, entryVars, runVars

\* A client is among the entries of its keyset's tracker, and holds it; an entry is
\* there only with its client, unless its keyset was changed; trackers are apart.
Bound(e) ==
    /\ HasClient(e) => /\ e \in registry[client[e].keyset].entries
                       /\ held[e] = registry[client[e].keyset].tracker
                       /\ e \in moved \/ client[e].keyset = config[e].keyset
    /\ \A k \in Keysets : e \in registry[k].entries =>
            e \in moved \/ (HasClient(e) /\ client[e].keyset = k)
Apart == \A j, k \in Keysets :
            j # k => registry[j].tracker # registry[k].tracker \/ registry[j].tracker = 0
Refs == Apart /\ \A e \in Entries : Bound(e)

\* Every step keeps the registry true to the clients.
LEMMA RefsStep == Types /\ Refs /\ [Next]_vars => Refs'
<1> SUFFICES ASSUME Types, Refs, [Next]_vars PROVE Refs'
    OBVIOUS
<1>a. /\ TypeOK /\ registry \in [Keysets -> Slot]
      /\ \A i \in Entries : Staged(i) /\ Bound(i)
      /\ \A i \in Entries : HasClient(i) => client[i].keyset \in Keysets
    BY ConfigFacts DEF Types, TypeOK, Refs, Slot, HasClient
<1>1. CASE Quiet
    BY <1>1, <1>a DEF Quiet, Refs, Apart, Bound, HasClient
<1>2. ASSUME NEW e \in Entries, BeginSetup(e) PROVE Refs'
    <2> DEFINE k == config[e].keyset
    <2>1. /\ stage[e] \in {"down", "retry"}
          /\ client' = [client EXCEPT ![e] = config[e]]
          /\ held' = [held EXCEPT ![e] = Got(k)]
          /\ registry' = Joined(e, k)
          /\ UNCHANGED <<config, moved>>
        BY <1>2 DEF BeginSetup, SetupBegins
    <2>2. config[e] \in Config /\ config[e] # NoConfig /\ k \in Keysets /\ ~HasClient(e)
        BY <1>a, <2>1, ConfigFacts DEF Staged, TypeOK
    <2>3. client'[e].keyset = k /\ held'[e] = Got(k)
        BY <1>a, <2>1 DEF TypeOK
    <2>4. \A i \in Entries \ {e} : client'[i] = client[i] /\ held'[i] = held[i]
        BY <1>a, <2>1 DEF TypeOK
    <2> HIDE DEF k
    <2>5. /\ registry'[k].tracker = Got(k)
          /\ registry'[k].entries = registry[k].entries \cup {e}
          /\ \A j \in Keysets \ {k} : registry'[j] = registry[j]
        BY <1>a, <2>1, <2>2, JoinedTypes
    <2>6. /\ Got(k) # 0
          /\ registry[k].tracker = Got(k) \/ \A j \in Keysets : registry[j].tracker # Got(k)
        BY <1>a, <2>2, GotTypes, TrackersPositive DEF Unused
    <2>7. Apart'
        BY <2>2, <2>5, <2>6 DEF Refs, Apart
    <2>8. Bound(e)'
        <3>1. \A j \in Keysets : e \in registry'[j].entries => j = k \/ e \in moved
            BY <1>a, <2>2, <2>5 DEF Bound
        <3>2. HasClient(e)'
            BY <1>a, <2>1, <2>2 DEF HasClient, TypeOK
        <3>3. k = config[e].keyset
            BY DEF k
        <3> QED BY <2>1, <2>2, <2>3, <2>5, <3>1, <3>2, <3>3 DEF Bound
    <2>9. ASSUME NEW i \in Entries \ {e} PROVE Bound(i)'
        <3>1. \A j \in Keysets : i \in registry'[j].entries <=> i \in registry[j].entries
            BY <2>2, <2>5
        <3>2. ASSUME HasClient(i) PROVE registry'[client[i].keyset].tracker = held[i]
            <4>1. held[i] = registry[client[i].keyset].tracker /\ held[i] # 0
                BY <1>a, <3>2 DEF Bound, Staged
            <4> QED BY <1>a, <2>2, <2>5, <3>2, <4>1, GotTypes
        <3> QED BY <1>a, <2>1, <2>4, <3>1, <3>2 DEF Bound, HasClient
    <2> QED BY <2>7, <2>8, <2>9 DEF Refs
<1>3. ASSUME NEW e \in Entries, Leaves(e) PROVE Refs'
    <2> DEFINE k == config[e].keyset
    <2>1. /\ registry' = Released(e, k) /\ moved' = moved /\ config[e] # NoConfig
          /\ \A i \in Entries \ {e} : config'[i] = config[i]
        BY <1>3 DEF Leaves, Drop
    <2>2. /\ k \in Keysets /\ ~HasClient(e)'
          /\ \A i \in Entries \ {e} : client'[i] = client[i] /\ held'[i] = held[i]
        BY <1>3, <1>a, <2>1, DropTypes DEF Leaves, HasClient
    <2>a. HasClient(e) => e \in moved \/ client[e].keyset = k
        BY <1>a DEF Bound
    <2> HIDE DEF k
    <2>3. /\ registry'[k].entries = registry[k].entries \ {e}
          /\ \/ registry'[k].tracker = registry[k].tracker
             \/ registry'[k].tracker = 0 /\ registry[k].entries \subseteq {e}
          /\ \A j \in Keysets \ {k} : registry'[j] = registry[j]
        BY <1>a, <2>1, <2>2, ReleasedTypes
    <2>4. Apart'
        BY <1>a, <2>2, <2>3 DEF Refs, Apart
    <2>5. Bound(e)'
        BY <1>a, <2>1, <2>2, <2>3, <2>a DEF Bound
    <2>6. ASSUME NEW i \in Entries \ {e} PROVE Bound(i)'
        <3>1. \A j \in Keysets : i \in registry'[j].entries <=> i \in registry[j].entries
            BY <2>2, <2>3
        <3>2. ASSUME HasClient(i) PROVE registry'[client[i].keyset].tracker = held[i]
            <4>1. /\ held[i] = registry[client[i].keyset].tracker
                  /\ i \in registry[client[i].keyset].entries
                BY <1>a, <3>2 DEF Bound
            <4> QED BY <1>a, <2>2, <2>3, <3>2, <4>1
        <3> QED BY <1>a, <2>1, <2>2, <3>1, <3>2 DEF Bound, HasClient
    <2> QED BY <2>4, <2>5, <2>6 DEF Refs
<1>4. CASE Restart
    BY <1>4 DEF Restart, Refs, Apart, Bound, HasClient, NoTracker
<1> QED BY <1>1, <1>2, <1>3, <1>4, StepKinds

\* No client and no reference at first.
LEMMA InitRefs == Init => Refs
BY DEF Init, Refs, Apart, Bound, HasClient, NoTracker

\* An entry that has gone has left the registry, unless its keyset was changed.
THEOREM ReferencesLeft == Spec => []NoReferenceLeft
<1>1. Types /\ Refs => NoReferenceLeft
    <2> SUFFICES ASSUME Types, Refs, NEW k \in Keysets, NEW e \in registry[k].entries
                 PROVE  HasClient(e) \/ e \in moved
        BY DEF NoReferenceLeft
    <2>1. e \in Entries
        BY DEF Types, TypeOK
    <2> QED BY <2>1 DEF Refs, Bound
<1> QED BY <1>1, InitTypes, TypeStep, InitRefs, RefsStep, PTL DEF Spec

-----------------------------------------------------------------------------
(* The snapshots.                                                          *)

\* Unless e was updated while being set up: its client and its snapshot are of its
\* configuration as long as it is set up; then the snapshot stays so, and the client
\* until a reload is asked for.
Snapped(e) ==
    e \notin missed =>
        /\ SettingUp(e) => client[e] = config[e]
        /\ SettingUp(e) \/ stage[e] = "loaded" => loaded[e] = config[e]
        /\ stage[e] = "loaded" /\ e \notin reloads => client[e] = config[e]
Snaps == \A e \in Entries : Snapped(e)

\* A step that leaves e alone, or only asks for a reload of it.
Spares(e) ==
    /\ stage'[e] = stage[e] /\ config'[e] = config[e]
    /\ client'[e] = client[e] /\ loaded'[e] = loaded[e]
    /\ e \in missed' <=> e \in missed
    /\ e \in reloads => e \in reloads'

\* What a step spares stays in agreement.
LEMMA SparedSnapped ==
    ASSUME NEW e \in Entries, Snapped(e), Spares(e)
    PROVE  Snapped(e)'
BY DEF Snapped, Spares, SettingUp

\* An update of e is noticed, or remembered as missed.
LEMMA UpdateSnaps ==
    ASSUME Types, Snaps, NEW e \in Entries, NEW new, Update(e, new)
    PROVE  Snaps'
<1>1. /\ config' = [config EXCEPT ![e] = new] /\ UNCHANGED <<stage, client>>
      /\ missed' = IF SettingUp(e) THEN missed \cup {e} ELSE missed
      /\ Listener(e, new)
    BY DEF Update
<1>2. ASSUME NEW i \in Entries \ {e} PROVE Spares(i)
    BY <1>1 DEF Spares, Listener, Types, TypeOK
<1>3. config'[e] = new
    BY <1>1 DEF Types, TypeOK
<1>4. Snapped(e)'
    <2>1. CASE SettingUp(e)
        BY <1>1, <2>1 DEF Snapped
    <2>2. CASE stage[e] = "loaded"
        <3>1. Listening(e)
            BY <2>2 DEF Types, Staged, Listening, SettingUp
        <3>2. CASE Changed(loaded[e], new)
            <4>1. loaded'[e] = new /\ e \in reloads'
                BY <1>1, <2>2, <3>1, <3>2 DEF Listener, Types, TypeOK
            <4> QED BY <1>1, <1>3, <2>2, <4>1 DEF Snapped, SettingUp
        <3>3. CASE ~Changed(loaded[e], new)
            <4>1. UNCHANGED <<loaded, reloads, missed>> /\ loaded[e] = new
                BY <1>1, <2>2, <3>1, <3>3 DEF Listener, Changed, SettingUp
            <4> QED BY <1>1, <1>3, <2>2, <4>1 DEF Snaps, Snapped, SettingUp
        <3> QED BY <3>2, <3>3
    <2>3. CASE ~SettingUp(e) /\ stage[e] # "loaded"
        BY <1>1, <2>3 DEF Snapped, SettingUp
    <2> QED BY <2>1, <2>2, <2>3
<1> QED BY <1>2, <1>4, SparedSnapped DEF Snaps

\* Every step keeps client, snapshot and configuration in agreement.
LEMMA SnapsStep == Types /\ Snaps /\ [Next]_vars => Snaps'
<1> SUFFICES ASSUME Types, Snaps, [Next]_vars PROVE Snaps'
    OBVIOUS
<1>a. TypeOK /\ \A i \in Entries : Staged(i) /\ Snapped(i)
    BY DEF Types, Snaps
\* What remains of a step is what it makes of the entry that it is about.
<1>b. ASSUME NEW e \in Entries, Snapped(e)', \A i \in Entries \ {e} : Spares(i) PROVE Snaps'
    BY <1>a, <1>b, SparedSnapped DEF Snaps
\* An entry that is neither set up nor loaded has no snapshot to speak of.
<1>c. ASSUME NEW e \in Entries, NEW new \in Stages \ {"refreshing", "forwarding", "loaded"},
             stage'[e] = new
      PROVE  Snapped(e)'
    BY <1>c DEF Snapped, SettingUp
<1>1. ASSUME NEW e \in Entries, NEW k \in Keysets, Create(e, k) PROVE Snaps'
    <2>1. \A i \in Entries \ {e} : Spares(i)
        BY <1>a, <1>1 DEF Create, Spares, runVars, TypeOK
    <2>2. stage'[e] = "down"
        BY <1>a, <1>1 DEF Create, TypeOK
    <2> QED BY <1>b, <1>c, <2>1, <2>2 DEF Stages
<1>2. ASSUME NEW e \in Entries, BeginSetup(e) PROVE Snaps'
    <2>1. \A i \in Entries \ {e} : Spares(i)
        BY <1>a, <1>2 DEF BeginSetup, Spares, TypeOK
    <2>2. stage'[e] = "refreshing" /\ client'[e] = config'[e] /\ loaded'[e] = config'[e]
        BY <1>a, <1>2 DEF BeginSetup, TypeOK
    <2>3. Snapped(e)'
        BY <2>2 DEF Snapped, SettingUp
    <2> QED BY <1>b, <2>1, <2>3
<1>3. ASSUME NEW e \in Entries, FirstRefreshDone(e) PROVE Snaps'
    <2> DEFINE snapshot == [config[e] EXCEPT !.options = client[e].options]
    <2>1. /\ stage' = [stage EXCEPT ![e] = "forwarding"] /\ stage[e] = "refreshing"
          /\ loaded' = [loaded EXCEPT ![e] = snapshot]
          /\ UNCHANGED <<config, client, missed, reloads>>
        BY <1>3 DEF FirstRefreshDone
    <2>2. client[e] = config[e] => snapshot = config[e]
        BY <1>a, <2>1 DEF Staged, HasClient, TypeOK, Config
    <2> HIDE DEF snapshot
    <2>3. \A i \in Entries \ {e} : Spares(i)
        BY <1>a, <2>1 DEF Spares, TypeOK
    <2>4. stage'[e] = "forwarding" /\ loaded'[e] = snapshot
        BY <1>a, <2>1 DEF TypeOK
    <2>5. Snapped(e)'
        BY <1>a, <2>1, <2>2, <2>4 DEF Snapped, SettingUp
    <2> QED BY <1>b, <2>3, <2>5
<1>4. ASSUME NEW e \in Entries, SetupDone(e) PROVE Snaps'
    <2>1. \A i \in Entries \ {e} : Spares(i)
        BY <1>a, <1>4 DEF SetupDone, Spares, runVars, TypeOK
    <2>2. stage'[e] = "loaded" /\ stage[e] = "forwarding"
          /\ UNCHANGED <<config, client, loaded, missed, reloads>>
        BY <1>a, <1>4 DEF SetupDone, runVars, TypeOK
    <2>3. Snapped(e)'
        BY <1>a, <2>2 DEF Snapped, SettingUp
    <2> QED BY <1>b, <2>1, <2>3
<1>5. ASSUME NEW e \in Entries, NEW options \in Options, SaveOptions(e, options) PROVE Snaps'
    BY <1>5, UpdateSnaps DEF SaveOptions
<1>6. ASSUME NEW e \in Entries, NEW k \in Keysets, Reauthorize(e, k) PROVE Snaps'
    BY <1>6, UpdateSnaps DEF Reauthorize
<1>7. ASSUME NEW e \in Entries, RefreshToken(e) PROVE Snaps'
    <2>1. UNCHANGED <<stage, config, client, missed>> /\ stage[e] = "loaded" /\ Listener(e, config[e])
        BY <1>7 DEF RefreshToken, entryVars
    <2>2. \A i \in Entries \ {e} : Spares(i)
        BY <1>a, <2>1 DEF Spares, Listener, TypeOK
    <2>3. \/ UNCHANGED <<loaded, reloads>>
          \/ loaded'[e] = config[e] /\ e \in reloads'
        BY <1>a, <2>1 DEF Listener, TypeOK
    <2>4. Snapped(e)'
        BY <1>a, <2>1, <2>3 DEF Snapped, SettingUp
    <2> QED BY <1>b, <2>2, <2>4
<1>8. ASSUME NEW e \in Entries, AskReload(e) PROVE Snaps'
    <2>1. \A i \in Entries : Spares(i)
        BY <1>a, <1>8 DEF AskReload, Spares, entryVars, runVars
    <2> QED BY <1>a, <2>1, SparedSnapped DEF Snaps
<1>9. ASSUME NEW e \in Entries, NEW new \in Stages \ {"refreshing", "forwarding", "loaded"},
             stage' = [stage EXCEPT ![e] = new], \A i \in Entries \ {e} : config'[i] = config[i],
             UNCHANGED runVars \/ Drop(e), reloads' \in {reloads, reloads \ {e}}
      PROVE  Snaps'
    <2>1. \A i \in Entries \ {e} : Spares(i)
        BY <1>a, <1>9 DEF Spares, runVars, Drop, TypeOK
    <2>2. stage'[e] = new
        BY <1>a, <1>9 DEF TypeOK
    <2> QED BY <1>b, <1>c, <2>1, <2>2
<1>10. ASSUME NEW e \in Entries, RefuseSetup(e) PROVE Snaps'
    BY <1>9, <1>10 DEF RefuseSetup, Stages
<1>11. ASSUME NEW e \in Entries, FirstRefreshFails(e) PROVE Snaps'
    BY <1>9, <1>11 DEF FirstRefreshFails, Stages
<1>12. ASSUME NEW e \in Entries, BeginReload(e) PROVE Snaps'
    BY <1>9, <1>12 DEF BeginReload, Stages
<1>13. ASSUME NEW e \in Entries, ReloadUnloaded(e) PROVE Snaps'
    BY <1>9, <1>13 DEF ReloadUnloaded, Stages
<1>14. ASSUME NEW e \in Entries, UnloadRefused(e) PROVE Snaps'
    BY <1>9, <1>14 DEF UnloadRefused, Stages
<1>15. ASSUME NEW e \in Entries, BeginRemove(e) PROVE Snaps'
    BY <1>9, <1>15 DEF BeginRemove, Stages
<1>16. ASSUME NEW e \in Entries, Removed(e) PROVE Snaps'
    BY <1>a, <1>9, <1>16 DEF Removed, TypeOK, Stages
<1>17. CASE Restart
    BY <1>17 DEF Restart, Snaps, Snapped, SettingUp
<1>18. CASE UNCHANGED vars
    BY <1>a, <1>18 DEF vars, entryVars, runVars, Snaps, Snapped, SettingUp
<1> QED BY <1>1, <1>2, <1>3, <1>4, <1>5, <1>6, <1>7, <1>8, <1>10, <1>11, <1>12, <1>13, <1>14,
           <1>15, <1>16, <1>17, <1>18 DEF Next, Proceed

\* Nothing is configured at first.
LEMMA InitSnaps == Init => Snaps
BY DEF Init, Snaps, Snapped, SettingUp

\* A loaded entry runs its configuration or has a reload to come, but for an update
\* during its set-up: for any number of updates at any time.
THEOREM ConfigRuns == Spec => []RunsItsConfig
<1>1. Snaps => RunsItsConfig
    BY DEF Snaps, Snapped, RunsItsConfig
<1> QED BY <1>1, InitTypes, TypeStep, InitSnaps, SnapsStep, PTL DEF Spec

\* A routine token refresh of an entry that missed no update asks for no reload.
THEOREM NoStorm == Spec => NoReloadStorm
<1>1. ASSUME Types, Snaps, NEW e \in Entries \ missed, RefreshToken(e)
      PROVE  reloads' \subseteq reloads
    BY <1>1 DEF RefreshToken, Listener, Changed, Snaps, Snapped
<1>2. Types /\ Snaps =>
        [\A e \in Entries \ missed : RefreshToken(e) => reloads' \subseteq reloads]_vars
    BY <1>1
<1> QED BY <1>2, InitTypes, TypeStep, InitSnaps, SnapsStep, PTL DEF Spec, NoReloadStorm

-----------------------------------------------------------------------------
(* The implementation of KeysetTrackers.                                   *)

\* The clients of one keyset, and they only, hold one tracker.
LEMMA Shared ==
    ASSUME Types, Refs, NEW e \in Entries, NEW k \in Keysets,
           NEW other \in Entries, HasClient(other), BeginSetup(e), k = config[e].keyset
    PROVE  client[other].keyset = k <=> held[other] = Got(k)
<1>1. /\ client[other].keyset \in Keysets /\ held[other] # 0
      /\ held[other] = registry[client[other].keyset].tracker
    BY ConfigFacts DEF Types, TypeOK, Staged, Refs, Bound, HasClient
<1>2. CASE registry[k].tracker = 0
    <2>1. Got(k) \in Unused
        BY <1>2, GotTypes DEF Types
    <2> QED BY <1>1, <1>2, <2>1 DEF Unused
<1>3. CASE registry[k].tracker # 0
    <2>1. Got(k) = registry[k].tracker
        BY <1>3, GotTypes DEF Types
    <2> QED BY <1>1, <1>3, <2>1 DEF Refs, Apart
<1> QED BY <1>2, <1>3

\* Initial states are initial states of the abstract registry.
LEMMA ImplementsInit == Init => Promised!Init
BY ConfigFacts DEF Init, Promised!Init, HasClient

\* A step is a step of the abstract registry, or a stutter.
LEMMA ImplementsStep == Types /\ Refs /\ [Next]_vars => [Promised!Next]_Promised!vars
<1> SUFFICES ASSUME Types, Refs, [Next]_vars PROVE [Promised!Next]_Promised!vars
    OBVIOUS
<1> DEFINE keyset == [i \in Entries |-> client[i].keyset]
           tracker == [i \in Entries |-> IF HasClient(i) THEN held[i] ELSE None]
<1>a. \A i \in Entries : HasClient(i) <=> keyset[i] # None
    BY ConfigFacts DEF Types, TypeOK, HasClient
<1>1. CASE Quiet
    BY <1>1 DEF Quiet, Promised!vars, HasClient
<1>2. ASSUME NEW e \in Entries, BeginSetup(e) PROVE Promised!Next
    <2> DEFINE k == config[e].keyset
    <2>1. /\ client' = [client EXCEPT ![e] = config[e]]
          /\ held' = [held EXCEPT ![e] = Got(k)]
        BY <1>2 DEF BeginSetup
    <2>2. ~HasClient(e) /\ config[e] \in Config /\ k \in Keysets
        BY <1>2, ConfigFacts DEF BeginSetup, SetupBegins, Types, TypeOK, Staged
    <2>3. HasClient(e)' /\ \A i \in Entries \ {e} : client'[i] = client[i] /\ held'[i] = held[i]
        BY <2>1, <2>2, ConfigFacts DEF Types, TypeOK, HasClient
    <2>4. keyset' = [keyset EXCEPT ![e] = k]
        BY <2>1, <2>3 DEF Types, TypeOK
    <2>5. tracker' = [tracker EXCEPT ![e] = Got(k)]
        BY <2>1, <2>3 DEF Types, TypeOK, HasClient
    <2>6. Got(k) \in Trackers
        BY <2>2, GotTypes DEF Types
    <2>7. ASSUME NEW other \in Entries, keyset[other] # None
          PROVE  keyset[other] = k <=> tracker[other] = Got(k)
        BY <1>2, <1>a, <2>2, <2>7, Shared
    <2>8. \A other \in Entries : keyset[other] # None => (keyset[other] = k <=> tracker[other] = Got(k))
        BY <2>7
    <2>9. keyset[e] = None
        BY <1>a, <2>2
    <2> HIDE DEF k
    <2>10. Promised!Start(e, k)
        BY <2>4, <2>5, <2>6, <2>8, <2>9 DEF Promised!Start
    <2>11. \E i \in Entries, j \in Keysets : Promised!Start(i, j)
        BY <2>2, <2>10, Zenon DEF Promised!Start
    <2> QED BY <2>11 DEF Promised!Next
<1>3. ASSUME NEW e \in Entries, Leaves(e) PROVE Promised!Next
    <2>1. /\ client'[e] = NoConfig
          /\ \A i \in Entries \ {e} : client'[i] = client[i] /\ held'[i] = held[i]
        BY <1>3, DropTypes DEF Leaves, Types
    <2>2. Promised!Stop({e})
        BY <2>1, ConfigFacts DEF Promised!Stop, HasClient
    <2> QED BY <2>2 DEF Promised!Next
<1>4. CASE Restart
    <2>1. \A i \in Entries : client'[i] = NoConfig
        BY <1>4 DEF Restart
    <2>2. Promised!Stop(Entries)
        BY <2>1, ConfigFacts DEF Promised!Stop, HasClient
    <2> QED BY <2>2 DEF Promised!Next
<1> QED BY <1>1, <1>2, <1>3, <1>4, StepKinds

\* The registry implements KeysetTrackers: the clients of a keyset share one tracker,
\* and no other client holds it.
THEOREM TrackersShared == Spec => TrackerShared
<1>1. Promised!Spec <=> Promised!Init /\ [][Promised!Next]_Promised!vars
    BY DEF Promised!Spec
<1> QED BY <1>1, InitTypes, TypeStep, InitRefs, RefsStep, ImplementsInit, ImplementsStep, PTL
        DEF Spec, TrackerShared
\* What the accounts have of it: at any moment two clients hold the same tracker
\* exactly when they use the same keyset, however their entries were set up, moved,
\* reloaded and removed (async_get_rate_limit_tracker).  It follows from the abstract
\* specification alone.
THEOREM TrackersAlike == Spec => []Promised!Alike
<1> DEFINE keyset == [i \in Entries |-> client[i].keyset]
           tracker == [i \in Entries |-> IF HasClient(i) THEN held[i] ELSE None]
<1>1. Promised!Init => Promised!Alike
    BY DEF Promised!Init, Promised!Alike
<1>2. Promised!Alike /\ [Promised!Next]_Promised!vars => Promised!Alike'
    <2> SUFFICES ASSUME Promised!Alike, [Promised!Next]_Promised!vars,
                        NEW a \in Entries, NEW b \in Entries,
                        keyset'[a] # None, keyset'[b] # None
                 PROVE  keyset'[a] = keyset'[b] <=> tracker'[a] = tracker'[b]
        BY DEF Promised!Alike
    <2>1. ASSUME NEW i \in Entries, NEW j \in Entries, keyset[i] # None, keyset[j] # None
          PROVE  keyset[i] = keyset[j] <=> tracker[i] = tracker[j]
        BY <2>1 DEF Promised!Alike
    <2> HIDE DEF keyset, tracker
    <2>2. ASSUME NEW e \in Entries, NEW k \in Keysets, NEW t \in Trackers,
                 keyset' = [keyset EXCEPT ![e] = k], tracker' = [tracker EXCEPT ![e] = t],
                 \A other \in Entries : keyset[other] # None => (keyset[other] = k <=> tracker[other] = t)
          PROVE  keyset'[a] = keyset'[b] <=> tracker'[a] = tracker'[b]
        <3>1. /\ keyset'[e] = k /\ tracker'[e] = t
              /\ \A i \in Entries \ {e} : keyset'[i] = keyset[i] /\ tracker'[i] = tracker[i]
            BY <2>2 DEF keyset, tracker
        <3> QED BY <2>1, <2>2, <3>1
    <2>3. ASSUME NEW stopped \in SUBSET Entries,
                 keyset' = [e \in Entries |-> IF e \in stopped THEN None ELSE keyset[e]],
                 tracker' = [e \in Entries |-> IF e \in stopped THEN None ELSE tracker[e]]
          PROVE  keyset'[a] = keyset'[b] <=> tracker'[a] = tracker'[b]
        BY <2>1, <2>3
    <2>4. CASE UNCHANGED Promised!vars
        BY <2>1, <2>4 DEF Promised!vars, keyset, tracker
    <2>5. CASE \E e \in Entries, k \in Keysets : Promised!Start(e, k)
        BY <2>2, <2>5 DEF Promised!Start, keyset, tracker
    <2>6. CASE \E stopped \in SUBSET Entries : Promised!Stop(stopped)
        BY <2>3, <2>6 DEF Promised!Stop, keyset, tracker
    <2> QED BY <2>4, <2>5, <2>6 DEF Promised!Next
<1>3. Promised!Spec <=> Promised!Init /\ [][Promised!Next]_Promised!vars
    BY DEF Promised!Spec
<1>4. Spec => Promised!Spec
    BY TrackersShared DEF TrackerShared
<1> QED BY <1>1, <1>2, <1>3, <1>4, PTL
=============================================================================
