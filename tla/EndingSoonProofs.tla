-------------------------- MODULE EndingSoonProofs --------------------------
(***************************************************************************)
(* Proofs about EndingSoon, for every value of its constants: type         *)
(* correctness, one timer per item, one notice per key in a life of the    *)
(* entry, no key suppressed that was not told, no listed item missed, and, *)
(* with saves landing in order, no notice repeated but after a crash.      *)
(***************************************************************************)
EXTENDS EndingSoon, SequenceTheorems, TLAPS

SaveRecord == [keys : SUBSET Key, by : {"task", "refresh", "unload", "orphan"}]

\* The place in a sequence of what is at place j once the i-th element is dropped.
Was(j, i) == IF j <= i - 1 THEN j ELSE j + 1

\* Dropping one element of a sequence moves the later ones by one place.
LEMMA RemoveAtShifts ==
    ASSUME NEW S, NEW s \in Seq(S), NEW i \in DOMAIN s
    PROVE  /\ RemoveAt(s, i) \in Seq(S)
           /\ DOMAIN RemoveAt(s, i) = 1 .. Len(s) - 1
           /\ \A j \in 1 .. Len(s) - 1 :
                Was(j, i) \in DOMAIN s /\ RemoveAt(s, i)[j] = s[Was(j, i)]
<1> DEFINE a == SubSeq(s, 1, i - 1)
           b == SubSeq(s, i + 1, Len(s))
<1>1. /\ i \in 1 .. Len(s) /\ Len(s) \in Nat
      /\ \A j \in 1 .. Len(s) : s[j] \in S
  BY LenProperties, ElementOfSeq
<1>2. /\ a \in Seq(S) /\ Len(a) = i - 1
      /\ \A j \in 1 .. i - 1 : a[j] = s[j]
  BY <1>1, SubSeqProperties
<1>3. /\ b \in Seq(S) /\ Len(b) = Len(s) - i
      /\ \A j \in 1 .. Len(s) - i : b[j] = s[i + j]
  BY <1>1, SubSeqProperties
<1> HIDE DEF a, b
<1>4. /\ a \o b \in Seq(S)
      /\ Len(a \o b) = Len(a) + Len(b)
      /\ \A j \in 1 .. Len(a) + Len(b) :
            (a \o b)[j] = IF j <= Len(a) THEN a[j] ELSE b[j - Len(a)]
  BY <1>2, <1>3, ConcatProperties
<1> DEFINE r == a \o b
<1>5. r \in Seq(S) /\ Len(r) = Len(s) - 1
  BY <1>1, <1>2, <1>3, <1>4
<1>6. ASSUME NEW j \in 1 .. Len(s) - 1
      PROVE  r[j] = s[IF j <= i - 1 THEN j ELSE j + 1]
  <2>1. r[j] = IF j <= i - 1 THEN a[j] ELSE b[j - (i - 1)]
    <3>1. j \in 1 .. Len(a) + Len(b) /\ Len(a) = i - 1
      BY <1>1, <1>2, <1>3
    <3>2. (a \o b)[j] = IF j <= Len(a) THEN a[j] ELSE b[j - Len(a)]
      BY <3>1, <1>4, Zenon
    <3>3. QED BY <3>1, <3>2
  <2>2. CASE j <= i - 1
    BY <2>1, <2>2, <1>1, <1>2
  <2>3. CASE ~(j <= i - 1)
    <3>1. j - (i - 1) \in 1 .. Len(s) - i /\ i + (j - (i - 1)) = j + 1
      BY <2>3, <1>1
    <3>2. b[j - (i - 1)] = s[j + 1]
      BY <3>1, <1>3
    <3>3. QED BY <2>1, <2>3, <3>2
  <2>4. QED BY <2>2, <2>3
<1> HIDE DEF r
<1>7. \A j \in 1 .. Len(s) - 1 : Was(j, i) \in DOMAIN s /\ r[j] = s[Was(j, i)]
  <2>1. \A j \in 1 .. Len(s) - 1 : Was(j, i) \in 1 .. Len(s)
    BY <1>1 DEF Was
  <2>2. DOMAIN s = 1 .. Len(s)
    BY LenProperties
  <2>3. QED BY <2>1, <2>2, <1>6 DEF Was
<1>8. DOMAIN r = 1 .. Len(s) - 1
  BY <1>5, LenProperties
<1>9. RemoveAt(s, i) = r
  BY DEF RemoveAt, a, b, r
<1>10. QED BY <1>5, <1>7, <1>8, <1>9

\* Dropping one save of a sequence of saves leaves a sequence of those saves.
LEMMA RemoveAtSaves ==
    ASSUME NEW S, NEW s \in Seq(S), NEW i \in DOMAIN s
    PROVE  /\ RemoveAt(s, i) \in Seq(S)
           /\ \A j \in DOMAIN RemoveAt(s, i) : \E m \in DOMAIN s : RemoveAt(s, i)[j] = s[m]
<1>1. /\ RemoveAt(s, i) \in Seq(S)
      /\ DOMAIN RemoveAt(s, i) = 1 .. Len(s) - 1
      /\ \A j \in 1 .. Len(s) - 1 :
            Was(j, i) \in DOMAIN s /\ RemoveAt(s, i)[j] = s[Was(j, i)]
  BY RemoveAtShifts
<1>2. ASSUME NEW j \in DOMAIN RemoveAt(s, i)
      PROVE  \E m \in DOMAIN s : RemoveAt(s, i)[j] = s[m]
  <2>1. Was(j, i) \in DOMAIN s /\ RemoveAt(s, i)[j] = s[Was(j, i)]
    BY <1>1, Zenon
  <2> QED BY <2>1, Zenon
<1> QED BY <1>1, <1>2

-----------------------------------------------------------------------------
(* Type correctness.                                                       *)

\* The keys of the items a payload lists as not ended are keys.
LEMMA WantedAreKeys ==
    ASSUME TypeOK, NEW p \in Payload
    PROVE  Wanted(p) \subseteq Key
BY EndingSoonAssumption DEF TypeOK, Payload, Wanted, KeyOf, Key, NoEnd

\* What a rebuild leaves in memory has the right shape.
LEMMA RebuildTypes ==
    ASSUME TypeOK, NEW p \in Payload, NEW cbs, Rebuild(p, cbs)
    PROVE  /\ scheduled' \subseteq Key /\ fired' \subseteq Key /\ history' \subseteq Key
           /\ dirty' \in BOOLEAN /\ saving' \in BOOLEAN
           /\ notified' \in [Key -> Nat]
           /\ FirstSnapshots(p, cbs) \subseteq SUBSET Key
<1>1. Wanted(p) \subseteq Key
  BY WantedAreKeys
<1>2. /\ fired \subseteq Key /\ Prune(fired) \subseteq Key
      /\ Immediate(p) \subseteq Key /\ Marked(Immediate(p), cbs) \subseteq Key
  BY <1>1 DEF TypeOK, Prune, Immediate, Marked, Delivered
<1>3. scheduled' \subseteq Key /\ fired' \subseteq Key /\ history' \subseteq Key
  BY <1>1, <1>2 DEF Rebuild, Timers, FiredAfter
<1>4. dirty' \in BOOLEAN /\ saving' \in BOOLEAN
  BY DEF Rebuild, TypeOK
<1>5. notified' \in [Key -> Nat]
  BY DEF Rebuild, Notices, TypeOK
<1>6. FirstSnapshots(p, cbs) \subseteq SUBSET Key
  BY <1>2 DEF FirstSnapshots
<1>7. QED BY <1>3, <1>4, <1>5, <1>6

\* Starting the save task leaves a sequence of saves.
LEMMA TaskWritesTypes ==
    ASSUME writes \in Seq(SaveRecord),
           NEW snapshots \in SUBSET SUBSET Key, NEW ws \in TaskWrites(snapshots)
    PROVE  ws \in Seq(SaveRecord)
<1>1. \A snap \in snapshots : Save(snap, "task") \in SaveRecord
  BY DEF Save, SaveRecord
<1>2. \A snap \in snapshots : Append(writes, Save(snap, "task")) \in Seq(SaveRecord)
  BY <1>1, AppendProperties
<1>3. QED BY <1>2 DEF TaskWrites

\* Relabelling saves as orphans leaves a sequence of saves.
LEMMA OrphansTypes ==
    ASSUME NEW s \in Seq(SaveRecord)
    PROVE  /\ [j \in DOMAIN s |-> [s[j] EXCEPT !.by = "orphan"]] \in Seq(SaveRecord)
           /\ [j \in DOMAIN s |-> Orphan(s[j])] \in Seq(SaveRecord)
<1>1. Len(s) \in Nat /\ DOMAIN s = 1 .. Len(s) /\ \A j \in 1 .. Len(s) : s[j] \in SaveRecord
  BY LenProperties, ElementOfSeq
<1>2. \A w \in SaveRecord : /\ [w EXCEPT !.by = "orphan"] \in SaveRecord
                            /\ Orphan(w) \in SaveRecord
  BY DEF SaveRecord, Orphan
<1>3. \A t : t \in [1 .. Len(s) -> SaveRecord] => t \in Seq(SaveRecord)
  BY <1>1, SeqDef
<1>4. /\ [j \in DOMAIN s |-> [s[j] EXCEPT !.by = "orphan"]] \in [1 .. Len(s) -> SaveRecord]
      /\ [j \in DOMAIN s |-> Orphan(s[j])] \in [1 .. Len(s) -> SaveRecord]
  BY <1>1, <1>2
<1>5. QED BY <1>3, <1>4

\* Every state of an entry's ending-soon notices is well typed.
THEOREM TypeCorrect == Spec => []TypeOK
<1>0. << >> \in Seq(SaveRecord)
  BY EmptySeq
<1>1. Init => TypeOK
  <2> SUFFICES ASSUME Init PROVE TypeOK
    OBVIOUS
  <2>1. writes \in Seq(SaveRecord)
    BY <1>0 DEF Init
  <2>2. data \in Payload /\ payload \in Payload
    BY DEF Init, NoPayload, Payload
  <2>3. QED BY <2>1, <2>2 DEF Init, TypeOK, SaveRecord
<1>2. TypeOK /\ [Next]_vars => TypeOK'
  <2> SUFFICES ASSUME TypeOK, [Next]_vars PROVE TypeOK'
    OBVIOUS
  <2> USE DEF SaveRecord
  <2>a. NoPayload \in Payload
    BY DEF NoPayload, Payload
  <2>b. Prune(store) \subseteq Key
    BY DEF Prune, TypeOK
  <2>1. CASE Tick
    BY <2>1 DEF Tick, timers, TypeOK
  <2>2. CASE Setup
    BY <2>2, <2>b DEF Setup, TypeOK
  <2>3. CASE Unload
    <3>1. writes' \in Seq(SaveRecord)
      <4>1. CASE writes' = [i \in DOMAIN writes |-> Orphan(writes[i])]
        BY <4>1, OrphansTypes DEF TypeOK
      <4>2. CASE \E i \in DOMAIN writes : writes' = RemoveAt(writes, i)
        BY <4>2, RemoveAtSaves DEF TypeOK
      <4>3. QED BY <2>3, <4>1, <4>2 DEF Unload
    <3>2. QED BY <2>3, <3>1 DEF Unload, outside, TypeOK
  <2>4. CASE UnloadSave
    <3>1. Save(fired, "unload") \in SaveRecord
      BY DEF Save, TypeOK
    <3>2. writes' \in Seq(SaveRecord)
      BY <2>4, <3>1, AppendProperties DEF UnloadSave, TypeOK
    <3>3. QED BY <2>4, <3>2 DEF UnloadSave, outside, timers, TypeOK
  <2>5. CASE Crash
    <3>1. writes' \in Seq(SaveRecord)
      BY <1>0, <2>5 DEF Crash
    <3>2. /\ phase' = "down" /\ crashes' = crashes + 1
          /\ Forget
          /\ UNCHANGED <<now, threshold, store, notified, lives, hasty>>
      BY <2>5 DEF Crash
    <3>3. /\ data' \in Payload /\ payload' \in Payload
          /\ scheduled' \subseteq Key /\ fired' \subseteq Key /\ history' \subseteq Key
      BY <2>a, <3>2 DEF Forget
    <3>4. /\ callbacks' \subseteq Kinds
          /\ dirty' \in BOOLEAN /\ saving' \in BOOLEAN /\ disturbed' \in BOOLEAN
          /\ refresh' = "idle"
      BY <3>2 DEF Forget
    <3>5. /\ now' \in Nat /\ lives' \in Nat /\ crashes' \in Nat /\ hasty' \in Nat
          /\ threshold' \in Thresholds /\ store' \subseteq Key
          /\ notified' \in [Key -> Nat]
      BY <3>2 DEF TypeOK
    <3>6. QED BY <3>1, <3>2, <3>3, <3>4, <3>5 DEF TypeOK
  <2>6. CASE RefreshStart
    BY <2>6 DEF RefreshStart, outside, timers, TypeOK
  <2>7. CASE FetchFails
    BY <2>7, <2>a DEF FetchFails, Forget, outside, TypeOK
  <2>8. CASE FetchDone
    <3>1. PICK p \in Payload :
             /\ payload' = p
             /\ Rebuild(p, callbacks)
             /\ \E ws \in TaskWrites(FirstSnapshots(p, callbacks)) :
                   writes' = IF dirty' THEN Append(ws, Save(fired', "refresh")) ELSE ws
      BY <2>8 DEF FetchDone
    <3>2. /\ scheduled' \subseteq Key /\ fired' \subseteq Key /\ history' \subseteq Key
          /\ dirty' \in BOOLEAN /\ saving' \in BOOLEAN
          /\ notified' \in [Key -> Nat]
          /\ FirstSnapshots(p, callbacks) \subseteq SUBSET Key
      BY <3>1, RebuildTypes
    <3>3. PICK ws \in TaskWrites(FirstSnapshots(p, callbacks)) :
             writes' = IF dirty' THEN Append(ws, Save(fired', "refresh")) ELSE ws
      BY <3>1
    <3>4. ws \in Seq(SaveRecord)
      BY <3>2, <3>3, TaskWritesTypes DEF TypeOK
    <3>5. Save(fired', "refresh") \in SaveRecord
      BY <3>2 DEF Save
    <3>6. writes' \in Seq(SaveRecord)
      BY <3>3, <3>4, <3>5, AppendProperties
    <3>7. QED BY <2>8, <3>1, <3>2, <3>6 DEF FetchDone, outside, TypeOK
  <2>9. CASE Publish
    BY <2>9, <2>a DEF Publish, outside, timers, TypeOK
  <2>10. ASSUME NEW kind \in Kinds, Register(kind) PROVE TypeOK'
    <3>1. data \in Payload
      BY DEF TypeOK
    <3>2. Rebuild(data, callbacks')
      BY <2>10 DEF Register
    <3>3. /\ scheduled' \subseteq Key /\ fired' \subseteq Key /\ history' \subseteq Key
          /\ dirty' \in BOOLEAN /\ saving' \in BOOLEAN
          /\ notified' \in [Key -> Nat]
          /\ FirstSnapshots(data, callbacks') \subseteq SUBSET Key
      BY <3>1, <3>2, RebuildTypes
    <3>4. writes' \in TaskWrites(FirstSnapshots(data, callbacks'))
      BY <2>10 DEF Register
    <3>5. writes' \in Seq(SaveRecord)
      BY <3>3, <3>4, TaskWritesTypes DEF TypeOK
    <3>6. callbacks' \subseteq Kinds /\ disturbed' \in BOOLEAN
      BY <2>10 DEF Register, InWindow, TypeOK
    <3>7. QED BY <2>10, <3>3, <3>5, <3>6 DEF Register, outside, TypeOK
  <2>11. ASSUME NEW kind \in Kinds, Unregister(kind) PROVE TypeOK'
    BY <2>11 DEF Unregister, outside, timers, TypeOK
  <2>12. ASSUME NEW k \in Key, Fire(k) PROVE TypeOK'
    <3> DEFINE live == k \notin fired /\ ~Stale(k) /\ Active(k)
               emitted == IF live THEN {k} ELSE {}
               marked == Marked(emitted, callbacks)
    <3>1. emitted \subseteq Key /\ marked \subseteq Key
      BY DEF Marked, Delivered
    <3> HIDE DEF emitted
    <3>2. /\ scheduled' = scheduled \ {k}
          /\ history' = history \cup emitted
          /\ fired' = fired \cup marked
          /\ notified' = Notices(Delivered(emitted, callbacks))
          /\ dirty' = (dirty \/ marked # {})
          /\ saving' = (saving \/ marked # {})
          /\ writes' \in TaskWrites({fired \cup marked : m \in marked})
          /\ disturbed' = (disturbed \/ InWindow)
          /\ UNCHANGED <<outside, phase, threshold, data, payload, refresh, callbacks>>
      BY <2>12 DEF Fire, emitted
    <3> HIDE DEF marked
    <3>3. {fired \cup marked : m \in marked} \in SUBSET SUBSET Key
      BY <3>1 DEF TypeOK
    <3>4. writes' \in Seq(SaveRecord)
      BY <3>2, <3>3, TaskWritesTypes DEF TypeOK
    <3>5. notified' \in [Key -> Nat]
      BY <3>2 DEF Notices, TypeOK
    <3>6. QED BY <3>1, <3>2, <3>4, <3>5 DEF outside, InWindow, TypeOK
  <2>13. ASSUME NEW i \in DOMAIN writes, SaveLands(i) PROVE TypeOK'
    <3>1. writes \in Seq(SaveRecord)
      BY DEF TypeOK
    <3>2. RemoveAt(writes, i) \in Seq(SaveRecord)
      BY <3>1, RemoveAtSaves
    <3>3. store' \subseteq Key
      <4>1. writes[i] \in SaveRecord
        <5>1. DOMAIN writes = 1 .. Len(writes)
          BY <3>1, LenProperties
        <5>2. QED BY <3>1, <5>1, ElementOfSeq
      <4>2. QED BY <2>13, <4>1 DEF SaveLands
    <3>4. writes' \in Seq(SaveRecord)
      BY <2>13, <3>2, OrphansTypes DEF SaveLands
    <3>5. CASE writes[i].by = "unload"
      <4>1. hasty' \in Nat /\ phase' = "down" /\ refresh' = "idle"
        BY <2>13, <3>5 DEF SaveLands, Forget, TypeOK
      <4>2. UNCHANGED <<now, threshold, notified, lives, crashes>>
        BY <2>13 DEF SaveLands
      <4>3. Forget
        BY <2>13, <3>5 DEF SaveLands
      <4> QED BY <2>a, <3>3, <3>4, <4>1, <4>2, <4>3 DEF Forget, TypeOK
    <3>6. CASE writes[i].by # "unload"
      BY <2>13, <3>3, <3>4, <3>6 DEF SaveLands, TypeOK
    <3>7. QED BY <3>5, <3>6
  <2>14. CASE UNCHANGED vars
    BY <2>14 DEF vars, TypeOK
  <2>15. QED
    BY <2>1, <2>2, <2>3, <2>4, <2>5, <2>6, <2>7, <2>8, <2>9, <2>10, <2>11, <2>12, <2>13,
       <2>14 DEF Next
<1>3. QED BY <1>1, <1>2, PTL DEF Spec

-----------------------------------------------------------------------------
(* One timer per item.                                                     *)

\* A rebuild leaves one timer per item, since a payload gives an item one end.
LEMMA RebuildOneTimer ==
    ASSUME NEW p, NEW cbs, Rebuild(p, cbs)
    PROVE  OneTimerPerItem'
<1>1. \A k, l \in Wanted(p) : k.slot = l.slot => k = l
  BY DEF Wanted, KeyOf
<1>2. QED BY <1>1 DEF Rebuild, Timers, OneTimerPerItem

\* An item never has two timers pending, in any behaviour of the entry.
THEOREM OneTimer == Spec => []OneTimerPerItem
<1>1. Init => OneTimerPerItem
  BY DEF Init, OneTimerPerItem
<1>2. OneTimerPerItem /\ [Next]_vars => OneTimerPerItem'
  <2> SUFFICES ASSUME OneTimerPerItem, [Next]_vars PROVE OneTimerPerItem'
    OBVIOUS
  <2>1. ASSUME scheduled' \subseteq scheduled PROVE OneTimerPerItem'
    BY <2>1 DEF OneTimerPerItem
  <2>2. CASE FetchDone
    BY <2>2, RebuildOneTimer DEF FetchDone
  <2>3. ASSUME NEW kind \in Kinds, Register(kind) PROVE OneTimerPerItem'
    BY <2>3, RebuildOneTimer DEF Register
  <2>4. CASE Tick \/ Setup \/ Unload \/ UnloadSave \/ Crash
    BY <2>1, <2>4 DEF Tick, Setup, Unload, UnloadSave, Crash, Forget, timers
  <2>5. CASE RefreshStart \/ FetchFails \/ Publish
    BY <2>1, <2>5 DEF RefreshStart, FetchFails, Publish, Forget, timers
  <2>6. ASSUME NEW kind \in Kinds, Unregister(kind) PROVE OneTimerPerItem'
    BY <2>1, <2>6 DEF Unregister, timers
  <2>7. ASSUME NEW k \in Key, Fire(k) PROVE OneTimerPerItem'
    BY <2>1, <2>7 DEF Fire
  <2>8. ASSUME NEW i \in DOMAIN writes, SaveLands(i) PROVE OneTimerPerItem'
    BY <2>1, <2>8 DEF SaveLands, Forget
  <2>9. CASE UNCHANGED vars
    BY <2>1, <2>9 DEF vars
  <2>10. QED BY <2>2, <2>3, <2>4, <2>5, <2>6, <2>7, <2>8, <2>9 DEF Next
<1>3. QED BY <1>1, <1>2, PTL DEF Spec

-----------------------------------------------------------------------------
(* One notice per key in a life: what a step may do to the notices of a    *)
(* key, and what follows for their number over the lives of the entry.     *)

\* Event entities are there only while the entry runs.
HeardRunning == callbacks # {} => phase = "running"

\* What OnceLifetime says of one step and one key.
Frugal(k) ==
    /\ notified'[k] # notified[k] =>
          /\ Unspent(k) /\ ~Unspent(k)'
          /\ notified'[k] = notified[k] + 1 /\ lives' = lives
    /\ Unspent(k)' /\ ~Unspent(k) => lives' = lives + 1

\* Event entities come after the first refresh and go when the entry is unloaded.
LEMMA HeardStep == HeardRunning /\ [Next]_vars => HeardRunning'
<1> SUFFICES ASSUME HeardRunning, [Next]_vars PROVE HeardRunning'
  OBVIOUS
<1>1. CASE Tick \/ Setup \/ Unload \/ UnloadSave \/ Crash
  BY <1>1 DEF HeardRunning, Tick, Setup, Unload, UnloadSave, Crash, Forget
<1>2. CASE RefreshStart \/ FetchFails \/ FetchDone \/ Publish
  BY <1>2 DEF HeardRunning, RefreshStart, FetchFails, FetchDone, Publish, Forget
<1>3. ASSUME NEW kind \in Kinds, Register(kind) \/ Unregister(kind) PROVE HeardRunning'
  BY <1>3 DEF HeardRunning, Register, Unregister
<1>4. ASSUME NEW k \in Key, Fire(k) PROVE HeardRunning'
  BY <1>4 DEF HeardRunning, Fire
<1>5. ASSUME NEW i \in DOMAIN writes, SaveLands(i) PROVE HeardRunning'
  BY <1>5 DEF HeardRunning, SaveLands, Forget
<1>6. CASE UNCHANGED vars
  BY <1>6 DEF HeardRunning, vars
<1> QED BY <1>1, <1>2, <1>3, <1>4, <1>5, <1>6 DEF Next

\* Notices that go to unspent keys, which are marked in the same step, while every
\* other fired key stays marked until it has ended.
LEMMA NoticesFrugal ==
    ASSUME TypeOK, NEW keys, notified' = Notices(keys), UNCHANGED <<phase, now, lives>>,
           \A k \in keys : Unspent(k) /\ k \in fired',
           NEW k \in Key, k \in fired /\ now < k.end => k \in fired'
    PROVE  Frugal(k)
<1>1. notified'[k] = IF k \in keys THEN notified[k] + 1 ELSE notified[k]
  BY DEF Notices
<1>2. CASE k \in keys
  BY <1>1, <1>2 DEF Frugal, Unspent
<1>3. CASE k \notin keys
  BY <1>1, <1>3 DEF Frugal, Unspent
<1> QED BY <1>2, <1>3

\* A rebuild notifies only unspent keys and marks the ones it notifies; pruning
\* forgets only keys that have ended.
LEMMA RebuildFrugal ==
    ASSUME TypeOK, NEW p \in Payload, NEW cbs, Rebuild(p, cbs),
           phase # "down" \/ cbs = {}, UNCHANGED <<phase, now, lives>>, NEW k \in Key
    PROVE  Frugal(k)
<1>1. now \in Nat /\ Retention \in Nat /\ \A l \in Key : l.end \in Nat
  BY EndingSoonAssumption DEF TypeOK, Key
<1>2. \A l \in Key : l \in fired /\ now < l.end => l \in Prune(fired)
  BY <1>1 DEF Prune
<1>3. fired' = Prune(fired) \cup Delivered(Immediate(p), cbs)
  BY DEF Rebuild, FiredAfter, Marked
<1>4. ASSUME NEW l \in Delivered(Immediate(p), cbs)
      PROVE  Unspent(l) /\ l \in fired'
  <2>1. l \in Key
    BY WantedAreKeys DEF Delivered, Immediate
  <2>2. phase # "down" /\ now < l.end /\ l \notin Prune(fired)
    BY DEF Delivered, Immediate, Active
  <2> QED BY <1>2, <1>3, <2>1, <2>2 DEF Unspent
<1>5. notified' = Notices(Delivered(Immediate(p), cbs))
  BY DEF Rebuild
<1>6. k \in fired /\ now < k.end => k \in fired'
  BY <1>2, <1>3
<1> QED BY <1>4, <1>5, <1>6, NoticesFrugal

\* A timer notifies its key only if it is unspent, and marks it.
LEMMA FireFrugal ==
    ASSUME TypeOK, HeardRunning, NEW t \in Key, Fire(t), NEW k \in Key
    PROVE  Frugal(k)
<1> DEFINE emitted == IF t \notin fired /\ ~Stale(t) /\ Active(t) THEN {t} ELSE {}
<1>1. /\ fired' = fired \cup Delivered(emitted, callbacks)
      /\ notified' = Notices(Delivered(emitted, callbacks))
      /\ UNCHANGED <<phase, now, lives>>
  BY DEF Fire, Marked, outside
<1>2. \A l \in Delivered(emitted, callbacks) : Unspent(l) /\ l \in fired'
  BY <1>1 DEF HeardRunning, Delivered, Active, Unspent
<1> HIDE DEF emitted
<1>3. k \in fired => k \in fired'
  BY <1>1
<1> QED BY <1>1, <1>2, <1>3, NoticesFrugal

\* Every step of the entry is frugal with every key.
LEMMA FrugalStep ==
    ASSUME TypeOK, HeardRunning, [Next]_vars, NEW k \in Key
    PROVE  Frugal(k)
\* A step that notifies nobody and makes no key unspent.
<1>a. ASSUME notified' = notified, Unspent(k)' => Unspent(k) PROVE Frugal(k)
  BY <1>a DEF Frugal
<1>1. CASE Tick
  <2>1. now \in Nat /\ k.end \in Nat
    BY EndingSoonAssumption DEF TypeOK, Key
  <2>2. Unspent(k)' => Unspent(k)
    BY <1>1, <2>1 DEF Tick, Unspent, timers
  <2> QED BY <1>1, <1>a, <2>2 DEF Tick, timers
<1>2. CASE Setup
  BY <1>2 DEF Setup, Frugal
<1>3. CASE Unload \/ UnloadSave
  BY <1>3, <1>a DEF Unload, UnloadSave, Unspent, outside, timers
<1>4. CASE Crash
  BY <1>4, <1>a DEF Crash, Unspent
<1>5. CASE RefreshStart \/ Publish
  <2>1. phase # "down" \/ phase' = "down"
    BY <1>5 DEF RefreshStart, Publish
  <2> QED BY <1>5, <1>a, <2>1 DEF RefreshStart, Publish, Unspent, outside, timers
<1>6. CASE FetchFails
  BY <1>6, <1>a DEF FetchFails, Forget, Unspent, outside
<1>7. CASE FetchDone
  <2>1. PICK p \in Payload : Rebuild(p, callbacks)
    BY <1>7 DEF FetchDone
  <2>2. UNCHANGED <<phase, now, lives>>
    BY <1>7 DEF FetchDone, outside
  <2> QED BY <2>1, <2>2, RebuildFrugal DEF HeardRunning
<1>8. ASSUME NEW kind \in Kinds, Register(kind) PROVE Frugal(k)
  <2>1. data \in Payload /\ Rebuild(data, callbacks') /\ phase = "running"
    BY <1>8 DEF Register, TypeOK
  <2>2. UNCHANGED <<phase, now, lives>>
    BY <1>8 DEF Register, outside
  <2> QED BY <2>1, <2>2, RebuildFrugal
<1>9. ASSUME NEW kind \in Kinds, Unregister(kind) PROVE Frugal(k)
  BY <1>9, <1>a DEF Unregister, Unspent, outside, timers
<1>10. ASSUME NEW t \in Key, Fire(t) PROVE Frugal(k)
  BY <1>10, FireFrugal
<1>11. ASSUME NEW i \in DOMAIN writes, SaveLands(i) PROVE Frugal(k)
  BY <1>11, <1>a DEF SaveLands, Forget, Unspent
<1>12. CASE UNCHANGED vars
  BY <1>12, <1>a DEF vars, Unspent
<1> QED
  BY <1>1, <1>2, <1>3, <1>4, <1>5, <1>6, <1>7, <1>8, <1>9, <1>10, <1>11, <1>12 DEF Next

\* One life of the entry gives at most one notice per key: a notice spends its key,
\* and only a new life makes a key unspent.
THEOREM OncePerLife == Spec => OnceLifetime
<1>1. Init => HeardRunning
  BY DEF Init, HeardRunning
<1>2. TypeOK /\ HeardRunning /\ [Next]_vars => \A k \in Key : Frugal(k)
  BY FrugalStep
<1>3. TypeOK /\ HeardRunning /\ [Next]_vars =>
        [\A k \in Key :
            /\ notified'[k] # notified[k] =>
                  /\ Unspent(k) /\ ~Unspent(k)'
                  /\ notified'[k] = notified[k] + 1 /\ lives' = lives
            /\ Unspent(k)' /\ ~Unspent(k) => lives' = lives + 1]_vars
  BY <1>2 DEF Frugal
<1> QED BY <1>1, <1>3, HeardStep, TypeCorrect, PTL DEF Spec, OnceLifetime

\* A key got no more notices than the entry has had lives, and fewer while it is
\* unspent.
NoticeBudget == \A k \in Key : notified[k] <= lives /\ (Unspent(k) => notified[k] < lives)

\* Over all its lives, whatever crashes between them and in whatever order the saves
\* reach the disk, the entry gives no more notices of a key than it was set up.
THEOREM NoMoreThanLives == Spec => []NoticeBudget
<1>1. Init => HeardRunning /\ NoticeBudget
  BY DEF Init, HeardRunning, NoticeBudget, Unspent
<1>2. ASSUME TypeOK, HeardRunning, NoticeBudget, [Next]_vars
      PROVE  NoticeBudget'
  <2>1. lives \in Nat /\ lives' \in {lives, lives + 1}
    <3>1. CASE Tick \/ Setup \/ Unload \/ UnloadSave \/ Crash
      BY <1>2, <3>1 DEF Tick, Setup, Unload, UnloadSave, Crash, outside, TypeOK
    <3>2. CASE RefreshStart \/ FetchFails \/ FetchDone \/ Publish
      BY <1>2, <3>2 DEF RefreshStart, FetchFails, FetchDone, Publish, outside, TypeOK
    <3>3. ASSUME NEW kind \in Kinds, Register(kind) \/ Unregister(kind)
          PROVE  lives \in Nat /\ lives' = lives
      BY <1>2, <3>3 DEF Register, Unregister, outside, TypeOK
    <3>4. ASSUME NEW k \in Key, Fire(k) PROVE lives \in Nat /\ lives' = lives
      BY <1>2, <3>4 DEF Fire, outside, TypeOK
    <3>5. ASSUME NEW i \in DOMAIN writes, SaveLands(i)
          PROVE  lives \in Nat /\ lives' = lives
      BY <1>2, <3>5 DEF SaveLands, TypeOK
    <3>6. CASE UNCHANGED vars
      BY <1>2, <3>6 DEF vars, TypeOK
    <3> QED BY <1>2, <3>1, <3>2, <3>3, <3>4, <3>5, <3>6 DEF Next
  <2>2. ASSUME NEW k \in Key
        PROVE  notified'[k] <= lives' /\ (Unspent(k)' => notified'[k] < lives')
    <3>1. notified[k] \in Nat
      BY <1>2 DEF TypeOK
    <3>2. Frugal(k)
      BY <1>2, FrugalStep
    <3>3. notified[k] <= lives /\ (Unspent(k) => notified[k] < lives)
      BY <1>2 DEF NoticeBudget
    <3>4. CASE notified'[k] # notified[k]
      <4>1. Unspent(k) /\ ~Unspent(k)' /\ notified'[k] = notified[k] + 1 /\ lives' = lives
        BY <3>2, <3>4 DEF Frugal
      <4> QED BY <2>1, <3>1, <3>3, <4>1
    <3>5. CASE notified'[k] = notified[k]
      <4>1. Unspent(k)' => Unspent(k) \/ lives' = lives + 1
        BY <3>2 DEF Frugal
      <4> QED BY <2>1, <3>1, <3>3, <3>5, <4>1
    <3> QED BY <3>4, <3>5
  <2> QED BY <2>2 DEF NoticeBudget
<1> QED BY <1>1, <1>2, HeardStep, TypeCorrect, PTL DEF Spec

-----------------------------------------------------------------------------
(* No key is suppressed that was not told.                                  *)

Told(keys) == \A k \in keys : notified[k] > 0

ToldInv ==
    /\ Told(fired) /\ Told(store)
    /\ \A i \in DOMAIN writes : Told(writes[i].keys)

\* Notices are never taken back, and the keys that got one were told.
LEMMA NoticesTold ==
    ASSUME TypeOK, NEW keys \in SUBSET Key, notified' = Notices(keys)
    PROVE  /\ \A k \in Key : notified[k] > 0 => notified'[k] > 0
           /\ \A k \in keys : notified'[k] > 0
<1>1. \A k \in Key : notified[k] \in Nat
  BY DEF TypeOK
<1>2. \A k \in Key : notified'[k] = IF k \in keys THEN notified[k] + 1 ELSE notified[k]
  BY DEF Notices
<1>3. QED BY <1>1, <1>2

\* After a rebuild the fired keys, and what the save task may serialize, were told.
LEMMA RebuildTold ==
    ASSUME TypeOK, Told(fired), NEW p \in Payload, NEW cbs, Rebuild(p, cbs)
    PROVE  /\ Told(fired)'
           /\ \A k \in Key : notified[k] > 0 => notified'[k] > 0
           /\ \A snap \in FirstSnapshots(p, cbs) : \A k \in snap : notified'[k] > 0
<1>1. Wanted(p) \subseteq Key
  BY WantedAreKeys
<1>2. Delivered(Immediate(p), cbs) \in SUBSET Key
  BY <1>1 DEF Immediate, Delivered
<1>3. notified' = Notices(Delivered(Immediate(p), cbs))
  BY DEF Rebuild
<1>4. /\ \A k \in Key : notified[k] > 0 => notified'[k] > 0
      /\ \A k \in Delivered(Immediate(p), cbs) : notified'[k] > 0
  BY <1>2, <1>3, NoticesTold
<1>5. \A k \in fired : notified'[k] > 0
  BY <1>4 DEF Told, TypeOK
<1>6. Told(fired)'
  BY <1>4, <1>5 DEF Told, Rebuild, FiredAfter, Prune, Marked
<1>7. \A snap \in FirstSnapshots(p, cbs) : \A k \in snap : notified'[k] > 0
  BY <1>4, <1>5 DEF FirstSnapshots, Prune, Marked
<1>8. QED BY <1>4, <1>6, <1>7

\* Saves issued by the save task hold told keys if the snapshots do.
LEMMA TaskWritesTold ==
    ASSUME TypeOK, ToldInv, NEW snapshots \in SUBSET SUBSET Key,
           NEW ws \in TaskWrites(snapshots),
           \A k \in Key : notified[k] > 0 => notified'[k] > 0,
           \A snap \in snapshots : \A k \in snap : notified'[k] > 0
    PROVE  \A i \in DOMAIN ws : \A k \in ws[i].keys : notified'[k] > 0
<1>1. writes \in Seq(SaveRecord)
  BY DEF TypeOK, SaveRecord
<1>2. DOMAIN writes = 1 .. Len(writes) /\ Len(writes) \in Nat
      /\ \A i \in DOMAIN writes : writes[i].keys \subseteq Key
  <2>1. /\ DOMAIN writes = 1 .. Len(writes) /\ Len(writes) \in Nat
        /\ \A i \in 1 .. Len(writes) : writes[i] \in SaveRecord
    BY <1>1, LenProperties, ElementOfSeq
  <2>2. QED BY <2>1 DEF SaveRecord
<1>3. \A i \in DOMAIN writes : \A k \in writes[i].keys : notified'[k] > 0
  BY <1>2 DEF ToldInv, Told
<1>4. ASSUME NEW snap \in snapshots, ws = Append(writes, Save(snap, "task"))
      PROVE  \A i \in DOMAIN ws : \A k \in ws[i].keys : notified'[k] > 0
  <2>1. Save(snap, "task") \in SaveRecord /\ Save(snap, "task").keys = snap
    BY DEF Save, SaveRecord
  <2>2. /\ ws \in Seq(SaveRecord) /\ Len(ws) = Len(writes) + 1
        /\ \A i \in 1 .. Len(writes) : ws[i] = writes[i]
        /\ ws[Len(writes) + 1] = Save(snap, "task")
    BY <1>1, <1>4, <2>1, AppendProperties
  <2>3. DOMAIN ws = 1 .. Len(writes) + 1
    BY <2>2, LenProperties
  <2>4. \A i \in DOMAIN ws : i \in DOMAIN writes \/ i = Len(writes) + 1
    BY <1>2, <2>3
  <2>5. QED BY <1>2, <1>3, <2>1, <2>2, <2>4
<1>5. QED BY <1>3, <1>4 DEF TaskWrites

\* A suppressed key, in memory, on disk or in flight, is one the user was told.
THEOREM SuppressedTold == Spec => []SuppressedWasTold
<1>1. Init => ToldInv
  BY DEF Init, ToldInv, Told
<1>2. TypeOK /\ ToldInv /\ [Next]_vars => ToldInv'
  <2> SUFFICES ASSUME TypeOK, ToldInv, [Next]_vars PROVE ToldInv'
    OBVIOUS
  <2> USE DEF Told
  <2>a. writes \in Seq(SaveRecord) /\ fired \subseteq Key /\ store \subseteq Key
    BY DEF TypeOK, SaveRecord
  <2>1. ASSUME fired' \subseteq fired \cup store, store' \subseteq store,
               notified' = notified, writes' = writes
        PROVE  ToldInv'
    BY <2>1 DEF ToldInv
  <2>2. CASE Tick \/ Setup \/ RefreshStart \/ Publish \/ FetchFails
    BY <2>1, <2>2
    DEF Tick, Setup, RefreshStart, Publish, FetchFails, Forget, Prune, outside, timers
  <2>3. CASE Crash
    BY <2>3 DEF Crash, Forget, ToldInv
  <2>4. ASSUME NEW kind \in Kinds, Unregister(kind) PROVE ToldInv'
    BY <2>1, <2>4 DEF Unregister, outside, timers
  <2>5. CASE UNCHANGED vars
    BY <2>1, <2>5 DEF vars
  <2>6. CASE Unload
    <3>1. \A i \in DOMAIN writes' : \E m \in DOMAIN writes : writes'[i].keys = writes[m].keys
      <4>1. CASE writes' = [i \in DOMAIN writes |-> Orphan(writes[i])]
        <5>1. \A w \in SaveRecord : Orphan(w).keys = w.keys
          BY DEF Orphan, SaveRecord
        <5>2. \A i \in DOMAIN writes : writes[i] \in SaveRecord
          BY <2>a, LenProperties, ElementOfSeq
        <5>3. QED BY <4>1, <5>1, <5>2
      <4>2. CASE \E i \in DOMAIN writes : writes' = RemoveAt(writes, i)
        <5>1. PICK i \in DOMAIN writes : writes' = RemoveAt(writes, i)
          BY <4>2
        <5>2. \A j \in DOMAIN writes' : \E m \in DOMAIN writes : writes'[j] = writes[m]
          BY <2>a, <5>1, RemoveAtSaves
        <5>3. QED BY <5>2
      <4>3. \/ writes' = [i \in DOMAIN writes |-> Orphan(writes[i])]
            \/ \E i \in DOMAIN writes : writes' = RemoveAt(writes, i)
        BY <2>6 DEF Unload
      <4>4. QED BY <4>1, <4>2, <4>3
    <3>2. fired' = fired /\ store' = store /\ notified' = notified
      BY <2>6 DEF Unload, outside
    <3>3. QED BY <3>1, <3>2 DEF ToldInv
  <2>7. CASE UnloadSave
    <3>1. Save(fired, "unload") \in SaveRecord /\ Save(fired, "unload").keys = fired
      BY <2>a DEF Save, SaveRecord
    <3>2. /\ writes' \in Seq(SaveRecord) /\ Len(writes') = Len(writes) + 1
          /\ \A i \in 1 .. Len(writes) : writes'[i] = writes[i]
          /\ writes'[Len(writes) + 1] = Save(fired, "unload")
      BY <2>7, <2>a, <3>1, AppendProperties DEF UnloadSave
    <3>3. \A i \in DOMAIN writes' : i \in DOMAIN writes \/ i = Len(writes) + 1
      BY <2>a, <3>2, LenProperties
    <3>4. fired' = fired /\ store' = store /\ notified' = notified
      BY <2>7 DEF UnloadSave, outside, timers
    <3>5. \A i \in DOMAIN writes : i \in 1 .. Len(writes)
      BY <2>a, LenProperties
    <3>6. QED BY <3>1, <3>2, <3>3, <3>4, <3>5 DEF ToldInv
  <2>8. CASE FetchDone
    <3>1. PICK p \in Payload :
             /\ Rebuild(p, callbacks)
             /\ \E ws \in TaskWrites(FirstSnapshots(p, callbacks)) :
                   writes' = IF dirty' THEN Append(ws, Save(fired', "refresh")) ELSE ws
      BY <2>8 DEF FetchDone
    <3>2. PICK ws \in TaskWrites(FirstSnapshots(p, callbacks)) :
             writes' = IF dirty' THEN Append(ws, Save(fired', "refresh")) ELSE ws
      BY <3>1
    <3>3. FirstSnapshots(p, callbacks) \in SUBSET SUBSET Key /\ fired' \subseteq Key
      BY <3>1, RebuildTypes
    <3>4. /\ Told(fired)'
          /\ \A k \in Key : notified[k] > 0 => notified'[k] > 0
          /\ \A snap \in FirstSnapshots(p, callbacks) : \A k \in snap : notified'[k] > 0
      BY <3>1, RebuildTold DEF ToldInv
    <3>5. \A i \in DOMAIN ws : \A k \in ws[i].keys : notified'[k] > 0
      BY <3>3, <3>4, TaskWritesTold
    <3>6. ws \in Seq(SaveRecord)
      BY <2>a, <3>3, TaskWritesTypes
    <3>7. \A i \in DOMAIN writes' : \A k \in writes'[i].keys : notified'[k] > 0
      <4>1. CASE ~dirty'
        BY <3>2, <3>5, <4>1
      <4>2. CASE dirty'
        <5>1. Save(fired', "refresh") \in SaveRecord /\ Save(fired', "refresh").keys = fired'
          BY <3>3 DEF Save, SaveRecord
        <5>2. /\ writes' \in Seq(SaveRecord) /\ Len(writes') = Len(ws) + 1
              /\ \A i \in 1 .. Len(ws) : writes'[i] = ws[i]
              /\ writes'[Len(ws) + 1] = Save(fired', "refresh")
          BY <3>2, <3>6, <4>2, <5>1, AppendProperties
        <5>3. DOMAIN ws = 1 .. Len(ws) /\ Len(ws) \in Nat
          BY <3>6, LenProperties
        <5>4. \A i \in DOMAIN writes' : i \in DOMAIN ws \/ i = Len(ws) + 1
          BY <5>2, <5>3, LenProperties
        <5>5. QED BY <3>4, <3>5, <5>1, <5>2, <5>3, <5>4
      <4>3. QED BY <4>1, <4>2
    <3>8. store' = store
      BY <2>8 DEF FetchDone, outside
    <3>9. QED BY <2>a, <3>4, <3>7, <3>8 DEF ToldInv
  <2>9. CASE \E kind \in Kinds : Register(kind)
    <3>1. PICK kind \in Kinds : Register(kind)
      BY <2>9
    <3>2. /\ data \in Payload /\ Rebuild(data, callbacks')
          /\ writes' \in TaskWrites(FirstSnapshots(data, callbacks'))
          /\ store' = store
      BY <3>1 DEF Register, outside, TypeOK
    <3>3. FirstSnapshots(data, callbacks') \in SUBSET SUBSET Key
      BY <3>2, RebuildTypes
    <3>4. /\ Told(fired)'
          /\ \A k \in Key : notified[k] > 0 => notified'[k] > 0
          /\ \A snap \in FirstSnapshots(data, callbacks') : \A k \in snap : notified'[k] > 0
      BY <3>2, RebuildTold DEF ToldInv
    <3>5. \A i \in DOMAIN writes' : \A k \in writes'[i].keys : notified'[k] > 0
      BY <3>2, <3>3, <3>4, TaskWritesTold
    <3>6. QED BY <2>a, <3>2, <3>4, <3>5 DEF ToldInv
  <2>10. ASSUME NEW k \in Key, Fire(k) PROVE ToldInv'
    <3> DEFINE emitted == IF k \notin fired /\ ~Stale(k) /\ Active(k) THEN {k} ELSE {}
               marked == Marked(emitted, callbacks)
    <3>1. emitted \subseteq Key /\ marked \in SUBSET Key
      BY DEF Marked, Delivered
    <3>2. /\ fired' = fired \cup marked
          /\ notified' = Notices(marked)
          /\ writes' \in TaskWrites({fired \cup marked : m \in marked})
          /\ store' = store
      BY <2>10 DEF Fire, Marked, outside
    <3> HIDE DEF emitted, marked
    <3>3. /\ \A l \in Key : notified[l] > 0 => notified'[l] > 0
          /\ \A l \in marked : notified'[l] > 0
      BY <3>1, <3>2, NoticesTold
    <3>4. \A l \in fired \cup marked : notified'[l] > 0
      BY <2>a, <3>3 DEF ToldInv
    <3>5. {fired \cup marked : m \in marked} \in SUBSET SUBSET Key
      BY <2>a, <3>1
    <3>6. \A snap \in {fired \cup marked : m \in marked} : \A l \in snap : notified'[l] > 0
      BY <3>4
    <3>7. \A i \in DOMAIN writes' : \A l \in writes'[i].keys : notified'[l] > 0
      BY <3>2, <3>3, <3>5, <3>6, TaskWritesTold
    <3>8. QED BY <2>a, <3>2, <3>3, <3>4, <3>7 DEF ToldInv
  <2>11. ASSUME NEW i \in DOMAIN writes, SaveLands(i) PROVE ToldInv'
    <3>1. /\ RemoveAt(writes, i) \in Seq(SaveRecord)
          /\ \A j \in DOMAIN RemoveAt(writes, i) :
                \E m \in DOMAIN writes : RemoveAt(writes, i)[j] = writes[m]
      BY <2>a, RemoveAtSaves
    <3>2. \A j \in DOMAIN writes' : \E m \in DOMAIN writes : writes'[j].keys = writes[m].keys
      <4> DEFINE rest == RemoveAt(writes, i)
      <4>1. \A j \in DOMAIN rest : rest[j] \in SaveRecord
        BY <3>1, LenProperties, ElementOfSeq
      <4> HIDE DEF rest
      <4>2. \A w \in SaveRecord : [w EXCEPT !.by = "orphan"].keys = w.keys
        BY DEF SaveRecord
      <4>3. \/ writes' = [j \in DOMAIN rest |-> [rest[j] EXCEPT !.by = "orphan"]]
            \/ writes' = rest
        BY <2>11 DEF SaveLands, rest
      <4>4. \A j \in DOMAIN rest : \E m \in DOMAIN writes : rest[j] = writes[m]
        BY <3>1 DEF rest
      <4>5. CASE writes' = [j \in DOMAIN rest |-> [rest[j] EXCEPT !.by = "orphan"]]
        <5>1. ASSUME NEW j \in DOMAIN rest PROVE writes'[j].keys = rest[j].keys
          BY <4>1, <4>2, <4>5
        <5>2. DOMAIN writes' = DOMAIN rest
          BY <4>5
        <5>3. QED BY <4>4, <5>1, <5>2, Zenon
      <4>6. CASE writes' = rest
        BY <4>4, <4>6, Zenon
      <4>7. QED BY <4>3, <4>5, <4>6
    <3>3. store' = writes[i].keys /\ notified' = notified /\ fired' \subseteq fired
      BY <2>11 DEF SaveLands, Forget
    <3>4. QED BY <3>2, <3>3 DEF ToldInv
  <2>12. QED
    BY <2>2, <2>3, <2>4, <2>5, <2>6, <2>7, <2>8, <2>9, <2>10, <2>11 DEF Next
<1>3. ToldInv => SuppressedWasTold
  BY DEF ToldInv, Told, SuppressedWasTold
<1>4. QED BY <1>1, <1>2, <1>3, TypeCorrect, PTL DEF Spec

-----------------------------------------------------------------------------
(* A listed item that is heard of is fired or has its timer.  The invariant *)
(* looks at the payload of a refresh between its rebuild and its            *)
(* publication too, and knows that one save at most is awaited by it.       *)

\* The keys of a payload that the entry must not forget.
Kept(p) == \A k \in Wanted(p) : k.slot[1] \in callbacks => k \in fired \cup scheduled

Awaited ==
    /\ phase = "down" => refresh = "idle"
    /\ \A i \in DOMAIN writes : writes[i].by = "refresh" => refresh = "flushing"
    /\ \A i, j \in DOMAIN writes : writes[i].by = "refresh" /\ writes[j].by = "refresh" => i = j

Coverage ==
    ~disturbed => /\ phase = "running" /\ ~InWindow => Kept(data)
                  /\ phase \in {"first", "running"} /\ InWindow => Kept(payload)

\* A rebuild forgets none of the keys it was made for.
LEMMA RebuildKeeps ==
    ASSUME NEW p, NEW cbs, Rebuild(p, cbs)
    PROVE  \A k \in Wanted(p) : k.slot[1] \in cbs => k \in fired' \cup scheduled'
<1> SUFFICES ASSUME NEW k \in Wanted(p), k.slot[1] \in cbs, k \notin scheduled'
             PROVE  k \in fired'
  OBVIOUS
<1>1. Active(k)
  BY DEF Rebuild, Timers
<1>2. k \in Prune(fired) \/ k \in Immediate(p)
  BY <1>1 DEF Immediate
<1> QED BY <1>2 DEF Rebuild, FiredAfter, Marked, Delivered

\* What the end of a save that nobody at the entry awaits, and the saves appended,
\* leave of the saves awaited by the refresh.
LEMMA AppendAwaited ==
    ASSUME NEW w \in Seq(SaveRecord), NEW save \in SaveRecord
    PROVE  /\ Append(w, save) \in Seq(SaveRecord)
           /\ DOMAIN w = 1 .. Len(w) /\ Len(w) \in Nat
           /\ DOMAIN Append(w, save) = 1 .. Len(w) + 1
           /\ \A i \in DOMAIN w : Append(w, save)[i] = w[i]
           /\ Append(w, save)[Len(w) + 1] = save
<1>1. /\ Append(w, save) \in Seq(SaveRecord) /\ Len(Append(w, save)) = Len(w) + 1
      /\ \A i \in 1 .. Len(w) : Append(w, save)[i] = w[i]
      /\ Append(w, save)[Len(w) + 1] = save
  BY AppendProperties
<1>2. DOMAIN w = 1 .. Len(w) /\ Len(w) \in Nat
      /\ DOMAIN Append(w, save) = 1 .. Len(Append(w, save))
  BY <1>1, LenProperties
<1> QED BY <1>1, <1>2

\* The save task's writes are the former ones and perhaps one of its own.
LEMMA TaskWritesAre ==
    ASSUME writes \in Seq(SaveRecord), NEW snapshots \in SUBSET SUBSET Key,
           NEW ws \in TaskWrites(snapshots)
    PROVE  /\ ws \in Seq(SaveRecord)
           /\ DOMAIN writes \subseteq DOMAIN ws
           /\ \A i \in DOMAIN ws : \/ i \in DOMAIN writes /\ ws[i] = writes[i]
                                   \/ ws[i].by = "task" /\ ws[i].keys \in snapshots
<1>1. CASE ws = writes
  BY <1>1
<1>2. ASSUME NEW snap \in snapshots, ws = Append(writes, Save(snap, "task"))
      PROVE  /\ ws \in Seq(SaveRecord)
             /\ DOMAIN writes \subseteq DOMAIN ws
             /\ \A i \in DOMAIN ws : \/ i \in DOMAIN writes /\ ws[i] = writes[i]
                                     \/ ws[i].by = "task" /\ ws[i].keys \in snapshots
  <2>1. /\ Save(snap, "task") \in SaveRecord
        /\ Save(snap, "task").by = "task" /\ Save(snap, "task").keys = snap
    BY DEF Save, SaveRecord
  <2>2. /\ ws \in Seq(SaveRecord) /\ DOMAIN writes = 1 .. Len(writes) /\ Len(writes) \in Nat
        /\ DOMAIN ws = 1 .. Len(writes) + 1
        /\ \A i \in DOMAIN writes : ws[i] = writes[i]
        /\ ws[Len(writes) + 1] = Save(snap, "task")
    BY <1>2, <2>1, AppendAwaited
  <2> QED BY <2>1, <2>2
<1> QED BY <1>1, <1>2 DEF TaskWrites

\* The saves after a save task perhaps began, and the refresh awaits nothing.
LEMMA TaskAwaited ==
    ASSUME TypeOK, Awaited, NEW snapshots \in SUBSET SUBSET Key,
           NEW ws \in TaskWrites(snapshots)
    PROVE  \A i \in DOMAIN ws : ws[i].by = "refresh" => i \in DOMAIN writes /\ ws[i] = writes[i]
<1>1. writes \in Seq(SaveRecord)
  BY DEF TypeOK, SaveRecord
<1> QED BY <1>1, TaskWritesAre

\* No save is awaited after the step that was not awaited before it.
LEMMA SameAwaited ==
    ASSUME Awaited, refresh' = refresh, phase' = "down" => phase = "down",
           \A i \in DOMAIN writes' :
               writes'[i].by = "refresh" => i \in DOMAIN writes /\ writes[i].by = "refresh"
    PROVE  Awaited'
BY DEF Awaited

\* The saves the drop of one leaves are awaited as before, the dropped one not at all.
LEMMA RemovedAwaited ==
    ASSUME Awaited, writes \in Seq(SaveRecord), NEW i \in DOMAIN writes,
           NEW rest, rest = RemoveAt(writes, i)
    PROVE  /\ \A j, l \in DOMAIN rest : rest[j].by = "refresh" /\ rest[l].by = "refresh" => j = l
           /\ \A j \in DOMAIN rest :
                rest[j].by = "refresh" => refresh = "flushing" /\ writes[i].by # "refresh"
<1>1. DOMAIN writes = 1 .. Len(writes) /\ Len(writes) \in Nat
  BY LenProperties
<1>2. /\ DOMAIN rest = 1 .. Len(writes) - 1
      /\ \A j \in DOMAIN rest : Was(j, i) \in DOMAIN writes /\ rest[j] = writes[Was(j, i)]
  BY RemoveAtShifts
<1>3. \A j \in DOMAIN rest : Was(j, i) # i
  BY <1>1, <1>2 DEF Was
<1>4. \A j, l \in DOMAIN rest : Was(j, i) = Was(l, i) => j = l
  BY <1>1, <1>2 DEF Was
<1> HIDE DEF Was
<1>5. ASSUME NEW j \in DOMAIN rest, NEW l \in DOMAIN rest,
             rest[j].by = "refresh", rest[l].by = "refresh"
      PROVE  j = l
  <2>1. Was(j, i) \in DOMAIN writes /\ rest[j] = writes[Was(j, i)]
    BY <1>2, Zenon
  <2>2. Was(l, i) \in DOMAIN writes /\ rest[l] = writes[Was(l, i)]
    BY <1>2, Zenon
  <2>3. Was(j, i) = Was(l, i)
    BY <1>5, <2>1, <2>2 DEF Awaited
  <2> QED BY <1>4, <2>3
<1>6. ASSUME NEW j \in DOMAIN rest, rest[j].by = "refresh"
      PROVE  refresh = "flushing" /\ writes[i].by # "refresh"
  <2>1. Was(j, i) \in DOMAIN writes /\ rest[j] = writes[Was(j, i)] /\ Was(j, i) # i
    BY <1>2, <1>3, Zenon
  <2> QED BY <1>6, <2>1 DEF Awaited
<1> QED BY <1>5, <1>6

\* A refresh awaits one save at most, and only while it flushes.
LEMMA AwaitedStep == TypeOK /\ Awaited /\ [Next]_vars => Awaited'
<1> SUFFICES ASSUME TypeOK, Awaited, [Next]_vars PROVE Awaited'
  OBVIOUS
<1>a. writes \in Seq(SaveRecord) /\ fired \subseteq Key
  BY DEF TypeOK, SaveRecord
<1>1. CASE Tick
  BY <1>1, SameAwaited DEF Tick, timers
<1>2. CASE Setup
  BY <1>2 DEF Setup, Awaited
<1>3. CASE Unload
  <2>1. refresh' = refresh /\ phase' # "down"
    BY <1>3 DEF Unload
  <2>2. CASE writes' = [i \in DOMAIN writes |-> Orphan(writes[i])]
    <3>1. \A w : Orphan(w).by = "refresh" => w.by = "refresh"
      <4> SUFFICES ASSUME NEW w, Orphan(w).by = "refresh" PROVE w.by = "refresh"
        OBVIOUS
      <4> QED BY DEF Orphan
    <3> QED BY <2>1, <2>2, <3>1, SameAwaited
  <2>3. CASE \E i \in DOMAIN writes : writes' = RemoveAt(writes, i)
    <3>1. PICK i \in DOMAIN writes : writes' = RemoveAt(writes, i)
      BY <2>3
    <3> QED BY <1>a, <2>1, <3>1, RemovedAwaited DEF Awaited
  <2> QED BY <1>3, <2>2, <2>3 DEF Unload
<1>4. CASE UnloadSave
  <2>1. Save(fired, "unload") \in SaveRecord /\ Save(fired, "unload").by = "unload"
    BY <1>a DEF Save, SaveRecord
  <2>2. writes' = Append(writes, Save(fired, "unload")) /\ refresh' = refresh /\ phase' = "saving"
    BY <1>4 DEF UnloadSave
  <2>3. /\ DOMAIN writes = 1 .. Len(writes) /\ Len(writes) \in Nat
        /\ DOMAIN writes' = 1 .. Len(writes) + 1
        /\ \A i \in DOMAIN writes : writes'[i] = writes[i]
        /\ writes'[Len(writes) + 1] = Save(fired, "unload")
    BY <1>a, <2>1, <2>2, AppendAwaited
  <2>4. ASSUME NEW i \in DOMAIN writes', writes'[i].by = "refresh"
        PROVE  i \in DOMAIN writes /\ writes[i].by = "refresh"
    <3>1. i # Len(writes) + 1
      BY <2>1, <2>3, <2>4
    <3>2. i \in DOMAIN writes
      BY <2>3, <3>1
    <3> QED BY <2>3, <2>4, <3>2
  <2> QED BY <2>2, <2>4, SameAwaited
<1>5. CASE Crash
  BY <1>5 DEF Crash, Forget, Awaited
<1>6. CASE RefreshStart
  BY <1>6 DEF RefreshStart, Awaited
<1>7. CASE FetchFails
  BY <1>7 DEF FetchFails, Forget, Awaited
<1>8. CASE FetchDone
  <2>1. PICK p \in Payload :
           /\ Rebuild(p, callbacks)
           /\ \E ws \in TaskWrites(FirstSnapshots(p, callbacks)) :
                 writes' = IF dirty' THEN Append(ws, Save(fired', "refresh")) ELSE ws
    BY <1>8 DEF FetchDone
  <2>2. PICK ws \in TaskWrites(FirstSnapshots(p, callbacks)) :
           writes' = IF dirty' THEN Append(ws, Save(fired', "refresh")) ELSE ws
    BY <2>1
  <2>3. FirstSnapshots(p, callbacks) \in SUBSET SUBSET Key /\ fired' \subseteq Key
    BY <2>1, RebuildTypes
  <2>4. ws \in Seq(SaveRecord)
    BY <1>a, <2>3, TaskWritesTypes
  <2>5. \A i \in DOMAIN ws : ws[i].by # "refresh"
    <3>1. \A i \in DOMAIN ws :
             ws[i].by = "refresh" => i \in DOMAIN writes /\ ws[i] = writes[i]
      BY <2>3, TaskAwaited
    <3>2. refresh = "fetching"
      BY <1>8 DEF FetchDone
    <3> QED BY <3>1, <3>2 DEF Awaited
  <2>6. /\ phase' = phase /\ phase # "down"
        /\ refresh' = IF dirty' THEN "flushing" ELSE "syncing"
    BY <1>8 DEF FetchDone, Awaited
  <2>7. CASE dirty'
    <3>1. Save(fired', "refresh") \in SaveRecord
      BY <2>3 DEF Save, SaveRecord
    <3>2. /\ DOMAIN ws = 1 .. Len(ws) /\ Len(ws) \in Nat
          /\ DOMAIN writes' = 1 .. Len(ws) + 1
          /\ \A i \in DOMAIN ws : writes'[i] = ws[i]
      BY <2>2, <2>4, <2>7, <3>1, AppendAwaited
    <3>3. \A i \in DOMAIN writes' : i \in DOMAIN ws \/ i = Len(ws) + 1
      BY <3>2
    <3>4. \A i \in DOMAIN writes' : writes'[i].by = "refresh" => i = Len(ws) + 1
      BY <2>5, <3>2, <3>3
    <3> QED BY <2>6, <2>7, <3>4 DEF Awaited
  <2>8. CASE ~dirty'
    BY <2>2, <2>5, <2>6, <2>8 DEF Awaited
  <2> QED BY <2>7, <2>8
<1>9. CASE Publish
  BY <1>9 DEF Publish, Awaited
<1>10. ASSUME NEW kind \in Kinds, Register(kind) PROVE Awaited'
  <2>1. /\ data \in Payload /\ Rebuild(data, callbacks')
        /\ writes' \in TaskWrites(FirstSnapshots(data, callbacks'))
        /\ refresh' = refresh /\ phase' = phase
    BY <1>10 DEF Register, TypeOK
  <2>2. FirstSnapshots(data, callbacks') \in SUBSET SUBSET Key
    BY <2>1, RebuildTypes
  <2>3. \A i \in DOMAIN writes' :
           writes'[i].by = "refresh" => i \in DOMAIN writes /\ writes'[i] = writes[i]
    BY <2>1, <2>2, TaskAwaited
  <2> QED BY <2>1, <2>3, SameAwaited
<1>11. ASSUME NEW kind \in Kinds, Unregister(kind) PROVE Awaited'
  BY <1>11, SameAwaited DEF Unregister
<1>12. ASSUME NEW k \in Key, Fire(k) PROVE Awaited'
  <2> DEFINE emitted == IF k \notin fired /\ ~Stale(k) /\ Active(k) THEN {k} ELSE {}
             marked == Marked(emitted, callbacks)
  <2>1. /\ writes' \in TaskWrites({fired \cup marked : m \in marked})
        /\ refresh' = refresh /\ phase' = phase
    BY <1>12 DEF Fire
  <2>2. marked \subseteq Key
    BY DEF Marked, Delivered
  <2> HIDE DEF marked
  <2>3. {fired \cup marked : m \in marked} \in SUBSET SUBSET Key
    BY <1>a, <2>2
  <2>4. \A i \in DOMAIN writes' :
           writes'[i].by = "refresh" => i \in DOMAIN writes /\ writes'[i] = writes[i]
    BY <2>1, <2>3, TaskAwaited
  <2> QED BY <2>1, <2>4, SameAwaited
<1>13. ASSUME NEW i \in DOMAIN writes, SaveLands(i) PROVE Awaited'
  <2> DEFINE rest == RemoveAt(writes, i)
  <2>1. /\ \A j, l \in DOMAIN rest : rest[j].by = "refresh" /\ rest[l].by = "refresh" => j = l
        /\ \A j \in DOMAIN rest :
              rest[j].by = "refresh" => refresh = "flushing" /\ writes[i].by # "refresh"
    BY <1>a, RemovedAwaited
  <2>2. rest \in Seq(SaveRecord)
    BY <1>a, RemoveAtSaves
  <2>3. \A j \in DOMAIN rest : rest[j] \in SaveRecord
    BY <2>2, LenProperties, ElementOfSeq
  <2>4. CASE writes[i].by = "unload"
    <3>1. writes' = [j \in DOMAIN rest |-> [rest[j] EXCEPT !.by = "orphan"]] /\ refresh' = "idle"
      BY <1>13, <2>4 DEF SaveLands, Forget
    <3> HIDE DEF rest
    <3>2. \A j \in DOMAIN writes' : writes'[j].by # "refresh"
      BY <2>3, <3>1 DEF SaveRecord
    <3> QED BY <3>1, <3>2 DEF Awaited
  <2>5. CASE writes[i].by # "unload"
    <3>1. /\ writes' = rest /\ phase' = phase
          /\ refresh' = IF writes[i].by = "refresh" THEN "syncing" ELSE refresh
      BY <1>13, <2>5 DEF SaveLands
    <3> HIDE DEF rest
    <3>2. phase = "down" => writes[i].by # "refresh"
      BY DEF Awaited
    <3> QED BY <2>1, <3>1, <3>2 DEF Awaited
  <2> QED BY <2>4, <2>5
<1>14. CASE UNCHANGED vars
  BY <1>14 DEF vars, Awaited
<1> QED
  BY <1>1, <1>2, <1>3, <1>4, <1>5, <1>6, <1>7, <1>8, <1>9, <1>10, <1>11, <1>12, <1>13,
     <1>14 DEF Next

\* A step that changes neither the payloads nor what is heard, fired or scheduled,
\* and closes no window, forgets no key.
LEMMA QuietCoverage ==
    ASSUME Coverage, UNCHANGED <<fired, scheduled, data, payload, disturbed, threshold, now>>,
           callbacks' \subseteq callbacks,
           phase' \in {"first", "running"} => phase' = phase /\ (InWindow' <=> InWindow)
    PROVE  Coverage'
<1>1. Wanted(data)' = Wanted(data) /\ Wanted(payload)' = Wanted(payload)
  BY DEF Wanted, KeyOf
<1>2. Kept(data) => Kept(data)'
  BY <1>1 DEF Kept
<1>3. Kept(payload) => Kept(payload)'
  BY <1>1 DEF Kept
<1> QED BY <1>2, <1>3 DEF Coverage

\* While no refresh is between its rebuild and its publication, an item that has
\* not ended and whose kind is heard was told of or has its timer.
LEMMA CoverageStep == TypeOK /\ Awaited /\ Coverage /\ [Next]_vars => Coverage'
<1> SUFFICES ASSUME TypeOK, Awaited, Coverage, [Next]_vars PROVE Coverage'
  OBVIOUS
<1>1. CASE Tick
  <2>1. Wanted(data)' \subseteq Wanted(data) /\ Wanted(payload)' \subseteq Wanted(payload)
    <3>1. now' = now + 1 /\ threshold' = threshold /\ data' = data /\ payload' = payload
      BY <1>1 DEF Tick
    <3>2. now \in Nat /\ \A s \in Slot : data[s] \in Nat /\ payload[s] \in Nat
      <4>1. data \in [Slot -> Ends \cup {0}] /\ payload \in [Slot -> Ends \cup {0}] /\ now \in Nat
        BY DEF TypeOK, Payload, NoEnd
      <4>2. Ends \cup {0} \subseteq Nat
        BY EndingSoonAssumption
      <4> QED BY <4>1, <4>2
    <3> QED BY <3>1, <3>2 DEF Wanted, KeyOf
  <2>2. /\ UNCHANGED <<fired, scheduled, callbacks, phase, disturbed>>
        /\ InWindow' <=> InWindow
    BY <1>1 DEF Tick, timers, InWindow
  <2>3. (Kept(data) => Kept(data)') /\ (Kept(payload) => Kept(payload)')
    BY <2>1, <2>2 DEF Kept
  <2> QED BY <2>2, <2>3 DEF Coverage
<1>2. CASE Setup
  BY <1>2 DEF Setup, InWindow, Coverage
<1>3. CASE Unload
  BY <1>3 DEF Unload, Coverage
<1>4. CASE UnloadSave
  BY <1>4 DEF UnloadSave, Coverage
<1>5. CASE Crash
  BY <1>5 DEF Crash, Coverage
<1>6. CASE RefreshStart
  BY <1>6, QuietCoverage DEF RefreshStart, InWindow, outside, timers
<1>7. CASE FetchFails
  <2>1. CASE phase = "first"
    BY <1>7, <2>1 DEF FetchFails, Coverage
  <2>2. CASE phase # "first"
    BY <1>7, <2>2, QuietCoverage DEF FetchFails, InWindow, outside
  <2> QED BY <2>1, <2>2
<1>8. CASE FetchDone
  <2>1. PICK p \in Payload : payload' = p /\ Rebuild(p, callbacks)
    BY <1>8 DEF FetchDone
  <2>2. /\ InWindow'
        /\ callbacks' = callbacks /\ now' = now /\ threshold' = threshold
    BY <1>8 DEF FetchDone, InWindow, outside
  <2>3. Wanted(payload)' = Wanted(p)
    BY <2>1, <2>2 DEF Wanted, KeyOf
  <2>4. \A k \in Wanted(p) : k.slot[1] \in callbacks => k \in fired' \cup scheduled'
    BY <2>1, RebuildKeeps
  <2>5. Kept(payload)'
    BY <2>2, <2>3, <2>4 DEF Kept
  <2> QED BY <2>2, <2>5 DEF Coverage
<1>9. CASE Publish
  <2>1. /\ InWindow /\ ~InWindow'
        /\ data' = payload
        /\ phase' = IF phase = "first" THEN "running" ELSE phase
        /\ UNCHANGED <<now, threshold, callbacks, fired, scheduled, disturbed>>
    BY <1>9 DEF Publish, InWindow, outside, timers
  <2>2. Wanted(data)' = Wanted(payload)
    BY <2>1 DEF Wanted, KeyOf
  <2>3. Kept(payload) => Kept(data)'
    BY <2>1, <2>2 DEF Kept
  <2> QED BY <2>1, <2>3 DEF Coverage
<1>10. ASSUME NEW kind \in Kinds, Register(kind) PROVE Coverage'
  <2>1. /\ Rebuild(data, callbacks')
        /\ phase = "running"
        /\ disturbed' = (disturbed \/ InWindow)
        /\ UNCHANGED <<now, phase, threshold, data, payload, refresh>>
    BY <1>10 DEF Register, outside
  <2>2. \A k \in Wanted(data) : k.slot[1] \in callbacks' => k \in fired' \cup scheduled'
    BY <2>1, RebuildKeeps
  <2>3. Wanted(data)' = Wanted(data) /\ (InWindow' <=> InWindow)
    BY <2>1 DEF Wanted, KeyOf, InWindow
  <2>4. Kept(data)'
    BY <2>2, <2>3 DEF Kept
  <2> QED BY <2>1, <2>3, <2>4 DEF Coverage
<1>11. ASSUME NEW kind \in Kinds, Unregister(kind) PROVE Coverage'
  BY <1>11, QuietCoverage DEF Unregister, InWindow, outside, timers
<1>12. ASSUME NEW k \in Key, Fire(k) PROVE Coverage'
  <2> DEFINE emitted == IF k \notin fired /\ ~Stale(k) /\ Active(k) THEN {k} ELSE {}
  <2>1. /\ k.end <= now + k.thr
        /\ scheduled' = scheduled \ {k}
        /\ fired' = fired \cup Delivered(emitted, callbacks)
        /\ disturbed' = (disturbed \/ InWindow)
        /\ UNCHANGED <<now, phase, threshold, data, payload, refresh, callbacks>>
    BY <1>12 DEF Fire, Marked, outside
  <2>2. /\ Wanted(data)' = Wanted(data) /\ (InWindow' <=> InWindow)
    BY <2>1 DEF Wanted, KeyOf, InWindow
  <2>3. ASSUME k \in Wanted(data), k.slot[1] \in callbacks PROVE k \in fired'
    <3>1. k.thr = threshold /\ ~Stale(k) /\ k.end > now
      BY <2>3 DEF Wanted, KeyOf, Stale
    <3>2. Active(k)
      BY <2>1, <3>1, EndingSoonAssumption DEF Active, TypeOK, Key
    <3>3. k \notin fired => k \in Delivered(emitted, callbacks)
      BY <2>3, <3>1, <3>2 DEF Delivered
    <3> QED BY <2>1, <3>3
  <2> HIDE DEF emitted
  <2>4. Kept(data) => Kept(data)'
    BY <2>1, <2>2, <2>3 DEF Kept
  <2> QED BY <2>1, <2>2, <2>4 DEF Coverage
<1>13. ASSUME NEW i \in DOMAIN writes, SaveLands(i) PROVE Coverage'
  <2>1. CASE writes[i].by = "unload"
    BY <1>13, <2>1 DEF SaveLands, Coverage
  <2>2. CASE writes[i].by # "unload"
    <3>1. /\ UNCHANGED <<fired, scheduled, data, payload, disturbed, threshold, now, callbacks,
                         phase>>
          /\ refresh' = IF writes[i].by = "refresh" THEN "syncing" ELSE refresh
      BY <1>13, <2>2 DEF SaveLands
    <3>2. InWindow' <=> InWindow
      BY <3>1 DEF InWindow, Awaited
    <3> QED BY <3>1, <3>2, QuietCoverage
  <2> QED BY <2>1, <2>2
<1>14. CASE UNCHANGED vars
  BY <1>14, QuietCoverage DEF vars, InWindow
<1> QED
  BY <1>1, <1>2, <1>3, <1>4, <1>5, <1>6, <1>7, <1>8, <1>9, <1>10, <1>11, <1>12, <1>13,
     <1>14 DEF Next

\* Each listed item that has not ended and whose kind is heard was told of or has
\* its timer, while no refresh is between its rebuild and its publication.
THEOREM NothingMissed == Spec => []Covered
<1>1. Init => Awaited /\ Coverage
  BY DEF Init, Awaited, Coverage
<1>2. TypeOK /\ (Awaited /\ Coverage) /\ [Next]_vars => (Awaited /\ Coverage)'
  BY AwaitedStep, CoverageStep
<1>3. Coverage => Covered
  BY DEF Coverage, Covered, Kept
<1>4. QED BY <1>1, <1>2, <1>3, TypeCorrect, PTL DEF Spec

-----------------------------------------------------------------------------
(* An unload whose save lands after all earlier ones hands every key that   *)
(* has used up its notices to the next life: the key stays in the fired    *)
(* set while there is one; when there is none, or it was just read, it is  *)
(* on disk and in every save under way; and no save issued after the one   *)
(* of the unload is without it.  An unload whose save overtakes an earlier *)
(* one allows every key one notice more, so that none is used up.          *)

Allowed == crashes + hasty + 1

Spent(k) == notified[k] = Allowed /\ now < k.end

Suppressed(k) ==
    /\ phase # "down" => k \in fired
    /\ phase \in {"down", "first"} => k \in store /\ \A j \in DOMAIN writes : k \in writes[j].keys
    /\ \A u, j \in DOMAIN writes : writes[u].by = "unload" /\ u <= j => k \in writes[j].keys

UnloadAwaited == \A i \in DOMAIN writes : writes[i].by = "unload" => phase = "saving"

HandedOver == \A k \in Key : notified[k] <= Allowed /\ (Spent(k) => Suppressed(k))

\* A rebuild notifies no spent key, marks the keys it notifies, and keeps those
\* that have not ended in the fired set and in what its save task serializes.
LEMMA RebuildHands ==
    ASSUME TypeOK, HandedOver, NEW p \in Payload, NEW cbs, Rebuild(p, cbs),
           phase # "down", NEW k \in Key, UNCHANGED <<phase, now, crashes, hasty>>
    PROVE  /\ notified'[k] <= Allowed'
           /\ Spent(k)' => k \in fired' /\ (cbs = {} => Spent(k))
           /\ k \in fired /\ now < k.end => \A snap \in FirstSnapshots(p, cbs) : k \in snap
<1>1. /\ Allowed \in Nat /\ now \in Nat /\ notified[k] \in Nat /\ k.end \in Nat
      /\ Retention \in Nat
  <2>1. crashes \in Nat /\ hasty \in Nat /\ now \in Nat /\ notified[k] \in Nat
    BY DEF TypeOK
  <2>2. k.end \in Nat /\ Retention \in Nat
    BY EndingSoonAssumption DEF Key
  <2> QED BY <2>1, <2>2 DEF Allowed
<1>0. Allowed' = Allowed
  BY DEF Allowed
<1>2. notified[k] <= Allowed /\ (Spent(k) => k \in fired)
  BY DEF HandedOver, Suppressed
<1>3. notified'[k] = IF k \in Delivered(Immediate(p), cbs)
                     THEN notified[k] + 1 ELSE notified[k]
  BY DEF Rebuild, Notices
<1>4. k \in fired /\ now < k.end => k \in Prune(fired)
  BY <1>1 DEF Prune
<1>5. fired' = Prune(fired) \cup Delivered(Immediate(p), cbs)
  BY DEF Rebuild, FiredAfter, Marked
<1>6. CASE k \in Delivered(Immediate(p), cbs)
  <2>1. k \notin Prune(fired) /\ now < k.end /\ cbs # {}
    BY <1>6 DEF Delivered, Immediate, Active
  <2>2. ~Spent(k) /\ k \notin fired
    BY <1>2, <1>4, <2>1
  <2>3. notified[k] # Allowed
    BY <2>1, <2>2 DEF Spent
  <2> QED BY <1>0, <1>1, <1>2, <1>3, <1>5, <1>6, <2>1, <2>2, <2>3
<1>7. CASE k \notin Delivered(Immediate(p), cbs)
  <2>1. notified'[k] = notified[k]
    BY <1>3, <1>7
  <2>2. Spent(k)' => Spent(k) /\ now < k.end
    BY <1>0, <2>1 DEF Spent
  <2>3. k \in fired /\ now < k.end => \A snap \in FirstSnapshots(p, cbs) : k \in snap
    BY <1>4 DEF FirstSnapshots
  <2> QED BY <1>0, <1>2, <1>4, <1>5, <2>1, <2>2, <2>3
<1> QED BY <1>6, <1>7

\* A step that notifies nobody spends no key.
LEMMA QuietSpends ==
    ASSUME TypeOK, HandedOver, UNCHANGED <<notified, crashes, hasty>>,
           now' = now \/ now' = now + 1, NEW k \in Key
    PROVE  notified'[k] <= Allowed' /\ (Spent(k)' => Spent(k) /\ Suppressed(k))
<1>1. now \in Nat /\ k.end \in Nat
  BY EndingSoonAssumption DEF TypeOK, Key
<1>2. Allowed' = Allowed
  BY DEF Allowed
<1>3. Spent(k)' => Spent(k)
  BY <1>1, <1>2 DEF Spent
<1> QED BY <1>2, <1>3 DEF HandedOver

\* A key stays suppressed where the fired set, the store and the saves stay and the
\* entry goes neither down nor up.
LEMMA QuietSuppresses ==
    ASSUME TypeOK, HandedOver, UNCHANGED <<notified, crashes, hasty, fired, store, writes>>,
           now' = now \/ now' = now + 1,
           phase' # "down" => phase # "down",
           phase' \in {"down", "first"} => phase' = phase
    PROVE  HandedOver'
<1>1. ASSUME NEW k \in Key
      PROVE  notified'[k] <= Allowed' /\ (Spent(k)' => Suppressed(k)')
  <2>1. notified'[k] <= Allowed' /\ (Spent(k)' => Suppressed(k))
    BY QuietSpends
  <2>2. Suppressed(k) => Suppressed(k)'
    BY DEF Suppressed
  <2> QED BY <2>1, <2>2
<1> QED BY <1>1 DEF HandedOver

\* What a fetch that ends appends to the saves.
LEMMA FetchAppends ==
    ASSUME TypeOK, NEW p \in Payload, Rebuild(p, callbacks),
           NEW ws \in TaskWrites(FirstSnapshots(p, callbacks)),
           writes' = IF dirty' THEN Append(ws, Save(fired', "refresh")) ELSE ws
    PROVE  \A i \in DOMAIN writes' :
              \/ i \in DOMAIN writes /\ writes'[i] = writes[i]
              \/ /\ writes'[i].by # "unload"
                 /\ writes'[i].keys \in FirstSnapshots(p, callbacks) \cup {fired'}
<1>1. FirstSnapshots(p, callbacks) \in SUBSET SUBSET Key /\ fired' \subseteq Key
  BY RebuildTypes
<1>2. writes \in Seq(SaveRecord)
  BY DEF TypeOK, SaveRecord
<1>3. /\ ws \in Seq(SaveRecord)
      /\ \A i \in DOMAIN ws :
            \/ i \in DOMAIN writes /\ ws[i] = writes[i]
            \/ ws[i].by = "task" /\ ws[i].keys \in FirstSnapshots(p, callbacks)
  BY <1>1, <1>2, TaskWritesAre
<1>4. CASE dirty'
  <2>1. /\ Save(fired', "refresh") \in SaveRecord
        /\ Save(fired', "refresh").by = "refresh" /\ Save(fired', "refresh").keys = fired'
    BY <1>1 DEF Save, SaveRecord
  <2>2. /\ DOMAIN ws = 1 .. Len(ws) /\ Len(ws) \in Nat
        /\ DOMAIN writes' = 1 .. Len(ws) + 1
        /\ \A i \in DOMAIN ws : writes'[i] = ws[i]
        /\ writes'[Len(ws) + 1] = Save(fired', "refresh")
    BY <1>3, <1>4, <2>1, AppendAwaited
  <2>3. \A i \in DOMAIN writes' : i \in DOMAIN ws \/ i = Len(ws) + 1
    BY <2>2
  <2> QED BY <1>3, <2>1, <2>2, <2>3
<1>5. CASE ~dirty'
  BY <1>3, <1>5
<1> QED BY <1>4, <1>5

\* A save awaited by an unload is one the entry's unload under way awaits.
LEMMA UnloadAwaitedStep ==
    TypeOK /\ UnloadAwaited /\ [Next]_vars => UnloadAwaited'
<1> SUFFICES ASSUME TypeOK, UnloadAwaited, [Next]_vars PROVE UnloadAwaited'
  OBVIOUS
<1>a. writes \in Seq(SaveRecord) /\ fired \subseteq Key
  BY DEF TypeOK, SaveRecord
\* None of the saves is new, and the phase is left alone.
<1>b. ASSUME phase' = phase,
             \A i \in DOMAIN writes' : writes'[i].by = "unload" =>
                 \E j \in DOMAIN writes : writes[j].by = "unload"
      PROVE  UnloadAwaited'
  BY <1>b DEF UnloadAwaited
<1>1. CASE Tick \/ RefreshStart
  BY <1>1, <1>b DEF Tick, RefreshStart
<1>2. CASE Setup \/ FetchFails \/ Publish
  BY <1>2 DEF Setup, FetchFails, Publish, UnloadAwaited, outside, timers
<1>3. CASE Unload
  <2>1. phase = "running"
    BY <1>3 DEF Unload
  <2>2. \A i \in DOMAIN writes : writes[i].by # "unload"
    BY <2>1 DEF UnloadAwaited
  <2>3. CASE writes' = [i \in DOMAIN writes |-> Orphan(writes[i])]
    <3>1. \A w \in SaveRecord : w.by # "unload" => Orphan(w).by # "unload"
      BY DEF Orphan, SaveRecord
    <3>2. \A i \in DOMAIN writes : writes[i] \in SaveRecord
      BY <1>a, LenProperties, ElementOfSeq
    <3> QED BY <2>2, <2>3, <3>1, <3>2 DEF UnloadAwaited
  <2>4. CASE \E i \in DOMAIN writes : writes' = RemoveAt(writes, i)
    <3>1. PICK i \in DOMAIN writes : writes' = RemoveAt(writes, i)
      BY <2>4
    <3>2. \A j \in DOMAIN writes' : \E m \in DOMAIN writes : writes'[j] = writes[m]
      BY <1>a, <3>1, RemoveAtSaves
    <3> QED BY <2>2, <3>2 DEF UnloadAwaited
  <2> QED BY <1>3, <2>3, <2>4 DEF Unload
<1>4. CASE UnloadSave
  BY <1>4 DEF UnloadSave, UnloadAwaited
<1>5. CASE Crash
  BY <1>5 DEF Crash, UnloadAwaited
<1>6. CASE FetchDone
  <2>1. PICK p \in Payload :
           /\ Rebuild(p, callbacks)
           /\ \E ws \in TaskWrites(FirstSnapshots(p, callbacks)) :
                 writes' = IF dirty' THEN Append(ws, Save(fired', "refresh")) ELSE ws
    BY <1>6 DEF FetchDone
  <2>2. \A i \in DOMAIN writes' :
           \/ i \in DOMAIN writes /\ writes'[i] = writes[i]
           \/ writes'[i].by # "unload"
    BY <2>1, FetchAppends
  <2>3. phase' = phase
    BY <1>6 DEF FetchDone
  <2> QED BY <2>2, <2>3, <1>b
<1>7. ASSUME NEW kind \in Kinds, Register(kind) PROVE UnloadAwaited'
  <2>1. /\ data \in Payload /\ Rebuild(data, callbacks')
        /\ writes' \in TaskWrites(FirstSnapshots(data, callbacks'))
        /\ phase' = phase
    BY <1>7 DEF Register, TypeOK
  <2>2. FirstSnapshots(data, callbacks') \in SUBSET SUBSET Key
    BY <2>1, RebuildTypes
  <2>3. \A i \in DOMAIN writes' :
           \/ i \in DOMAIN writes /\ writes'[i] = writes[i]
           \/ writes'[i].by = "task"
    BY <1>a, <2>1, <2>2, TaskWritesAre
  <2> QED BY <2>1, <2>3, <1>b
<1>8. ASSUME NEW kind \in Kinds, Unregister(kind) PROVE UnloadAwaited'
  BY <1>8, <1>b DEF Unregister
<1>9. ASSUME NEW k \in Key, Fire(k) PROVE UnloadAwaited'
  <2> DEFINE emitted == IF k \notin fired /\ ~Stale(k) /\ Active(k) THEN {k} ELSE {}
             marked == Marked(emitted, callbacks)
  <2>1. writes' \in TaskWrites({fired \cup marked : m \in marked}) /\ phase' = phase
    BY <1>9 DEF Fire
  <2>2. marked \subseteq Key
    BY DEF Marked, Delivered
  <2> HIDE DEF marked
  <2>3. {fired \cup marked : m \in marked} \in SUBSET SUBSET Key
    BY <1>a, <2>2
  <2>4. \A i \in DOMAIN writes' :
           \/ i \in DOMAIN writes /\ writes'[i] = writes[i]
           \/ writes'[i].by = "task"
    BY <1>a, <2>1, <2>3, TaskWritesAre
  <2> QED BY <2>1, <2>4, <1>b
<1>10. ASSUME NEW i \in DOMAIN writes, SaveLands(i) PROVE UnloadAwaited'
  <2> DEFINE rest == RemoveAt(writes, i)
  <2>1. /\ rest \in Seq(SaveRecord)
        /\ \A j \in DOMAIN rest : \E m \in DOMAIN writes : rest[j] = writes[m]
    BY <1>a, RemoveAtSaves
  <2>2. \A j \in DOMAIN rest : rest[j] \in SaveRecord
    BY <2>1, LenProperties, ElementOfSeq
  <2>3. CASE writes[i].by = "unload"
    <3>1. writes' = [j \in DOMAIN rest |-> [rest[j] EXCEPT !.by = "orphan"]]
      BY <1>10, <2>3 DEF SaveLands
    <3> HIDE DEF rest
    <3>2. \A j \in DOMAIN writes' : writes'[j].by # "unload"
      BY <2>2, <3>1 DEF SaveRecord
    <3> QED BY <3>2 DEF UnloadAwaited
  <2>4. CASE writes[i].by # "unload"
    <3>1. writes' = rest /\ phase' = phase
      BY <1>10, <2>4 DEF SaveLands
    <3> QED BY <2>1, <3>1, <1>b
  <2> QED BY <2>3, <2>4
<1>11. CASE UNCHANGED vars
  BY <1>11, <1>b DEF vars
<1> QED BY <1>1, <1>2, <1>3, <1>4, <1>5, <1>6, <1>7, <1>8, <1>9, <1>10, <1>11 DEF Next

\* A save that lands hands over what it holds, unless it is the save of an unload
\* and overtakes an earlier one.
LEMMA LandingHands ==
    ASSUME TypeOK, UnloadAwaited, HandedOver,
           NEW i \in DOMAIN writes, SaveLands(i), writes[i].by = "unload" => i = 1
    PROVE  HandedOver'
<1> DEFINE rest == RemoveAt(writes, i)
<1>1. writes \in Seq(SaveRecord)
  BY DEF TypeOK, SaveRecord
<1>2. DOMAIN writes = 1 .. Len(writes) /\ Len(writes) \in Nat
  BY <1>1, LenProperties
<1>3. /\ rest \in Seq(SaveRecord)
      /\ DOMAIN rest = 1 .. Len(writes) - 1
      /\ \A j \in 1 .. Len(writes) - 1 : Was(j, i) \in DOMAIN writes /\ rest[j] = writes[Was(j, i)]
  BY <1>1, RemoveAtShifts
<1>4. \A j \in DOMAIN rest : rest[j] \in SaveRecord
  BY <1>3, LenProperties, ElementOfSeq
<1> HIDE DEF rest
<1>5. \A j \in DOMAIN rest : Was(j, i) \in DOMAIN writes /\ rest[j] = writes[Was(j, i)]
  BY <1>3, Zenon
<1>6. \A u, j \in DOMAIN rest : u <= j => Was(u, i) <= Was(j, i)
  BY <1>2, <1>3 DEF Was
<1>7. \A m \in DOMAIN writes : 1 <= m
  BY <1>2
<1>8. /\ store' = writes[i].keys
      /\ UNCHANGED <<now, notified, crashes, hasty>>
  BY <1>1 DEF SaveLands
<1>9. ASSUME NEW k \in Key
      PROVE  notified'[k] <= Allowed' /\ (Spent(k)' => Suppressed(k)')
  <2>1. notified'[k] <= Allowed' /\ (Spent(k)' => Suppressed(k))
    BY <1>8, QuietSpends
  <2>2. ASSUME Suppressed(k), writes[i].by = "unload" PROVE Suppressed(k)'
    <3>1. phase' = "down" /\ writes' = [j \in DOMAIN rest |-> [rest[j] EXCEPT !.by = "orphan"]]
      BY <2>2 DEF SaveLands, rest
    <3>2. \A w \in SaveRecord : /\ [w EXCEPT !.by = "orphan"].keys = w.keys
                              /\ [w EXCEPT !.by = "orphan"].by # "unload"
      BY DEF SaveRecord
    <3>3. \A m \in DOMAIN writes : k \in writes[m].keys
      BY <1>2, <1>7, <2>2 DEF Suppressed
    <3>4. ASSUME NEW j \in DOMAIN rest
          PROVE  k \in writes'[j].keys /\ writes'[j].by # "unload"
      <4>1. rest[j] \in SaveRecord /\ writes'[j] = [rest[j] EXCEPT !.by = "orphan"]
        BY <1>4, <3>1
      <4>2. Was(j, i) \in DOMAIN writes /\ rest[j] = writes[Was(j, i)]
        BY <1>5, Zenon
      <4>3. k \in rest[j].keys
        BY <3>3, <4>2
      <4> QED BY <3>2, <4>1, <4>3
    <3>5. DOMAIN writes' = DOMAIN rest
      BY <3>1
    <3> QED BY <1>8, <3>1, <3>3, <3>4, <3>5 DEF Suppressed
  <2>3. ASSUME Suppressed(k), writes[i].by # "unload" PROVE Suppressed(k)'
    <3>1. writes' = rest /\ phase' = phase /\ fired' = fired
      BY <2>3 DEF SaveLands, rest
    <3>2. phase \in {"down", "first"} =>
             k \in store' /\ \A j \in DOMAIN rest : k \in rest[j].keys
      <4> SUFFICES ASSUME phase \in {"down", "first"}
                   PROVE  k \in store' /\ \A j \in DOMAIN rest : k \in rest[j].keys
        OBVIOUS
      <4>1. \A m \in DOMAIN writes : k \in writes[m].keys
        BY <2>3 DEF Suppressed
      <4>2. ASSUME NEW j \in DOMAIN rest PROVE k \in rest[j].keys
        <5>1. Was(j, i) \in DOMAIN writes /\ rest[j] = writes[Was(j, i)]
          BY <1>5, Zenon
        <5> QED BY <4>1, <5>1
      <4> QED BY <1>8, <4>1, <4>2
    <3>3. ASSUME NEW u \in DOMAIN rest, NEW j \in DOMAIN rest, rest[u].by = "unload", u <= j
          PROVE  k \in rest[j].keys
      <4>1. Was(u, i) \in DOMAIN writes /\ rest[u] = writes[Was(u, i)]
        BY <1>5, Zenon
      <4>2. Was(j, i) \in DOMAIN writes /\ rest[j] = writes[Was(j, i)]
        BY <1>5, Zenon
      <4>3. Was(u, i) <= Was(j, i)
        BY <1>6, <3>3
      <4>4. k \in writes[Was(j, i)].keys
        BY <2>3, <3>3, <4>1, <4>2, <4>3 DEF Suppressed
      <4> QED BY <4>2, <4>4
    <3> QED BY <2>3, <3>1, <3>2, <3>3 DEF Suppressed
  <2> QED BY <2>1, <2>2, <2>3
<1> QED BY <1>9 DEF HandedOver

\* The save of an unload that overtakes an earlier one leaves no key used up.
LEMMA OvertakingHands ==
    ASSUME TypeOK, HandedOver,
           NEW i \in DOMAIN writes, SaveLands(i), writes[i].by = "unload", i # 1
    PROVE  HandedOver'
<1>1. writes \in Seq(SaveRecord) /\ crashes \in Nat /\ hasty \in Nat
  BY DEF TypeOK, SaveRecord
<1>2. i \in Nat /\ i > 1
  BY <1>1, LenProperties
<1>3. hasty' = hasty + 1 /\ notified' = notified /\ crashes' = crashes
  BY <1>2 DEF SaveLands
<1>4. ASSUME NEW k \in Key
      PROVE  notified'[k] <= Allowed' /\ ~Spent(k)'
  <2>1. notified[k] <= Allowed /\ notified[k] \in Nat
    BY DEF HandedOver, TypeOK
  <2>2. Allowed \in Nat /\ Allowed' = Allowed + 1
    BY <1>1, <1>3 DEF Allowed
  <2>3. notified'[k] = notified[k]
    BY <1>3
  <2> QED BY <2>1, <2>2, <2>3 DEF Spent
<1> QED BY <1>4 DEF HandedOver

\* The end of a fetch hands over what it marks, prunes and saves.
LEMMA FetchHands ==
    ASSUME TypeOK, Awaited, HeardRunning, UnloadAwaited, HandedOver, FetchDone
    PROVE  HandedOver'
<1>1. PICK p \in Payload :
         /\ Rebuild(p, callbacks)
         /\ \E ws \in TaskWrites(FirstSnapshots(p, callbacks)) :
               writes' = IF dirty' THEN Append(ws, Save(fired', "refresh")) ELSE ws
  BY DEF FetchDone
<1>2. /\ UNCHANGED <<now, phase, crashes, hasty, store, callbacks>>
      /\ phase # "down"
  BY DEF FetchDone, outside, Awaited
<1>3. \A i \in DOMAIN writes' :
         \/ i \in DOMAIN writes /\ writes'[i] = writes[i]
         \/ /\ writes'[i].by # "unload"
            /\ writes'[i].keys \in FirstSnapshots(p, callbacks) \cup {fired'}
  BY <1>1, FetchAppends
<1>4. ASSUME NEW k \in Key
      PROVE  notified'[k] <= Allowed' /\ (Spent(k)' => Suppressed(k)')
  <2>1. /\ notified'[k] <= Allowed'
        /\ Spent(k)' => k \in fired' /\ (callbacks = {} => Spent(k))
        /\ k \in fired /\ now < k.end => \A snap \in FirstSnapshots(p, callbacks) : k \in snap
    BY <1>1, <1>2, RebuildHands
  <2>2. ASSUME Spent(k)', phase = "running" PROVE Suppressed(k)'
    <3>1. \A i \in DOMAIN writes' : writes'[i].by # "unload"
      BY <1>3, <2>2 DEF UnloadAwaited
    <3> QED BY <1>2, <2>1, <2>2, <3>1 DEF Suppressed
  <2>3. ASSUME Spent(k)', phase # "running" PROVE Suppressed(k)'
    <3>1. k \in fired' /\ Suppressed(k) /\ now < k.end
      BY <2>1, <2>3 DEF HeardRunning, HandedOver, Spent
    <3>2. \A snap \in FirstSnapshots(p, callbacks) \cup {fired'} : k \in snap
      BY <1>2, <2>1, <3>1 DEF Suppressed
    <3>3. \A i \in DOMAIN writes' :
             \/ i \in DOMAIN writes /\ writes'[i] = writes[i]
             \/ writes'[i].by # "unload" /\ k \in writes'[i].keys
      BY <1>3, <3>2
    <3> QED BY <1>2, <3>1, <3>3 DEF Suppressed
  <2> QED BY <2>1, <2>2, <2>3
<1> QED BY <1>4 DEF HandedOver

\* A timer that comes due notifies no spent key.
LEMMA FireHands ==
    ASSUME TypeOK, HeardRunning, UnloadAwaited, HandedOver, NEW k \in Key, Fire(k)
    PROVE  HandedOver'
<1> DEFINE emitted == IF k \notin fired /\ ~Stale(k) /\ Active(k) THEN {k} ELSE {}
           marked == Delivered(emitted, callbacks)
<1>1. /\ fired' = fired \cup marked
      /\ notified' = Notices(marked)
      /\ writes' \in TaskWrites({fired \cup marked : m \in marked})
      /\ UNCHANGED <<now, phase, store, crashes, hasty, callbacks>>
  BY DEF Fire, Marked, outside
<1>2. marked \subseteq {k} /\ \A l \in marked : now < l.end /\ l \notin fired /\ callbacks # {}
  BY DEF Delivered, Active
<1> HIDE DEF marked
<1>3. CASE marked = {}
  <2>1. writes' = writes
    BY <1>1, <1>3 DEF TaskWrites
  <2>2. notified' = notified
    BY <1>1, <1>3 DEF Notices, TypeOK
  <2> QED BY <1>1, <1>3, <2>1, <2>2, QuietSuppresses
<1>4. CASE marked # {}
  <2>1. phase = "running"
    BY <1>2, <1>4 DEF HeardRunning
  <2>2. \A i \in DOMAIN writes' : writes'[i].by # "unload"
    <3>1. {fired \cup marked : m \in marked} \in SUBSET SUBSET Key /\ writes \in Seq(SaveRecord)
      BY <1>2 DEF TypeOK, SaveRecord
    <3>2. \A i \in DOMAIN writes' :
             \/ i \in DOMAIN writes /\ writes'[i] = writes[i]
             \/ writes'[i].by = "task"
      BY <1>1, <3>1, TaskWritesAre
    <3> QED BY <2>1, <3>2 DEF UnloadAwaited
  <2>3. ASSUME NEW l \in Key
        PROVE  notified'[l] <= Allowed' /\ (Spent(l)' => Suppressed(l)')
    <3>1. Allowed \in Nat /\ Allowed' = Allowed /\ notified[l] \in Nat
      BY <1>1 DEF TypeOK, Allowed
    <3>2. notified[l] <= Allowed /\ (Spent(l) => l \in fired)
      BY <2>1 DEF HandedOver, Suppressed
    <3>3. notified'[l] = IF l \in marked THEN notified[l] + 1 ELSE notified[l]
      BY <1>1 DEF Notices
    <3>4. l \in marked => notified[l] # Allowed
      BY <1>2, <3>2 DEF Spent
    <3>5. notified'[l] <= Allowed'
      BY <1>1, <3>1, <3>2, <3>3, <3>4
    <3>6. Spent(l)' => l \in fired'
      BY <1>1, <3>1, <3>2, <3>3 DEF Spent
    <3> QED BY <1>1, <2>1, <2>2, <3>5, <3>6 DEF Suppressed
  <2> QED BY <2>3 DEF HandedOver
<1> QED BY <1>3, <1>4

\* Each step hands a key that has used up its notices to where the next one looks.
LEMMA HandedOverStep ==
    TypeOK /\ Awaited /\ HeardRunning /\ UnloadAwaited /\ HandedOver /\ [Next]_vars
        => HandedOver'
<1> SUFFICES ASSUME TypeOK, Awaited, HeardRunning, UnloadAwaited, HandedOver, [Next]_vars
             PROVE  HandedOver'
  OBVIOUS
<1>a. writes \in Seq(SaveRecord) /\ fired \subseteq Key
  BY DEF TypeOK, SaveRecord
<1>1. CASE Tick
  BY <1>1, QuietSuppresses DEF Tick, timers
<1>2. CASE Setup
  <2>1. /\ UNCHANGED <<now, notified, crashes, hasty, writes>>
        /\ phase = "down" /\ phase' = "first"
        /\ store' = Prune(store) /\ fired' = Prune(store)
    BY <1>2 DEF Setup
  <2>2. ASSUME NEW k \in Key
        PROVE  notified'[k] <= Allowed' /\ (Spent(k)' => Suppressed(k)')
    <3>1. notified'[k] <= Allowed' /\ (Spent(k)' => Spent(k) /\ Suppressed(k))
      BY <2>1, QuietSpends
    <3>2. ASSUME Spent(k), Suppressed(k) PROVE Suppressed(k)'
      <4>1. k \in store /\ now < k.end /\ \A j \in DOMAIN writes : k \in writes[j].keys
        BY <2>1, <3>2 DEF Spent, Suppressed
      <4>2. k.end \in Nat /\ Retention \in Nat /\ now \in Nat
        BY EndingSoonAssumption DEF Key, TypeOK
      <4>3. k \in Prune(store)
        BY <4>1, <4>2 DEF Prune
      <4> QED BY <2>1, <4>1, <4>3 DEF Suppressed
    <3> QED BY <3>1, <3>2
  <2> QED BY <2>2 DEF HandedOver
<1>3. CASE Unload
  <2>1. /\ UNCHANGED <<now, notified, crashes, hasty, fired>>
        /\ phase = "running" /\ phase' = "unloading"
    BY <1>3 DEF Unload, outside
  <2>2. \A i \in DOMAIN writes' : writes'[i].by # "unload"
    <3>1. UnloadAwaited'
      BY <1>3, UnloadAwaitedStep DEF Next
    <3> QED BY <2>1, <3>1 DEF UnloadAwaited
  <2>3. ASSUME NEW k \in Key
        PROVE  notified'[k] <= Allowed' /\ (Spent(k)' => Suppressed(k)')
    <3>1. notified'[k] <= Allowed' /\ (Spent(k)' => Spent(k) /\ Suppressed(k))
      BY <2>1, QuietSpends
    <3> QED BY <2>1, <2>2, <3>1 DEF Suppressed
  <2> QED BY <2>3 DEF HandedOver
<1>4. CASE UnloadSave
  <2>1. /\ UNCHANGED <<now, notified, crashes, hasty, fired, store>>
        /\ phase = "unloading" /\ phase' = "saving"
        /\ writes' = Append(writes, Save(fired, "unload"))
    BY <1>4 DEF UnloadSave, outside, timers
  <2>2. Save(fired, "unload") \in SaveRecord /\ Save(fired, "unload").keys = fired
    BY <1>a DEF Save, SaveRecord
  <2>3. /\ DOMAIN writes = 1 .. Len(writes) /\ Len(writes) \in Nat
        /\ DOMAIN writes' = 1 .. Len(writes) + 1
        /\ \A i \in DOMAIN writes : writes'[i] = writes[i]
        /\ writes'[Len(writes) + 1] = Save(fired, "unload")
    BY <1>a, <2>1, <2>2, AppendAwaited
  <2>4. \A i \in DOMAIN writes : writes[i].by # "unload"
    BY <2>1 DEF UnloadAwaited
  <2>5. \A u, j \in DOMAIN writes' :
           writes'[u].by = "unload" /\ u <= j => writes'[j].keys = fired
    <3> SUFFICES ASSUME NEW u \in DOMAIN writes', NEW j \in DOMAIN writes',
                        writes'[u].by = "unload", u <= j
                 PROVE  writes'[j].keys = fired
      OBVIOUS
    <3>1. u \notin DOMAIN writes
      BY <2>3, <2>4
    <3>2. j = Len(writes) + 1
      BY <2>3, <3>1
    <3> QED BY <2>2, <2>3, <3>2
  <2>6. ASSUME NEW k \in Key
        PROVE  notified'[k] <= Allowed' /\ (Spent(k)' => Suppressed(k)')
    <3>1. notified'[k] <= Allowed' /\ (Spent(k)' => Spent(k) /\ Suppressed(k))
      BY <2>1, QuietSpends
    <3>2. Suppressed(k) => k \in fired
      BY <2>1 DEF Suppressed
    <3>3. k \in fired => Suppressed(k)'
      BY <2>1, <2>5 DEF Suppressed
    <3> QED BY <3>1, <3>2, <3>3
  <2> QED BY <2>6 DEF HandedOver
<1>5. CASE Crash
  <2>1. crashes' = crashes + 1 /\ hasty' = hasty /\ notified' = notified
    BY <1>5 DEF Crash
  <2>2. ASSUME NEW k \in Key PROVE notified'[k] <= Allowed' /\ ~Spent(k)'
    <3>1. /\ notified[k] <= Allowed /\ notified[k] \in Nat
          /\ Allowed \in Nat /\ Allowed' = Allowed + 1
      BY <2>1 DEF HandedOver, TypeOK, Allowed
    <3>2. notified'[k] < Allowed'
      BY <2>1, <3>1
    <3>3. notified'[k] \in Nat /\ Allowed' \in Nat
      BY <2>1, <3>1
    <3> QED BY <3>2, <3>3 DEF Spent
  <2> QED BY <2>2 DEF HandedOver
<1>6. CASE RefreshStart
  BY <1>6, QuietSuppresses DEF RefreshStart, outside, timers
<1>7. CASE FetchFails
  <2>1. CASE phase = "first"
    <3>1. /\ UNCHANGED <<now, notified, crashes, hasty, store, writes>>
          /\ phase' = "down"
      BY <1>7, <2>1 DEF FetchFails, outside
    <3>2. ASSUME NEW k \in Key
          PROVE  notified'[k] <= Allowed' /\ (Spent(k)' => Suppressed(k)')
      <4>1. notified'[k] <= Allowed' /\ (Spent(k)' => Suppressed(k))
        BY <3>1, QuietSpends
      <4>2. Suppressed(k) => Suppressed(k)'
        BY <2>1, <3>1 DEF Suppressed
      <4> QED BY <4>1, <4>2
    <3> QED BY <3>2 DEF HandedOver
  <2>2. CASE phase # "first"
    BY <1>7, <2>2, QuietSuppresses DEF FetchFails, outside
  <2> QED BY <2>1, <2>2
<1>8. CASE FetchDone
  BY <1>8, FetchHands
<1>9. CASE Publish
  <2>1. /\ UNCHANGED <<now, notified, crashes, hasty, fired, store, writes>>
        /\ phase' = IF phase = "first" THEN "running" ELSE phase
    BY <1>9 DEF Publish, outside, timers
  <2>2. phase # "down"
    BY <1>9 DEF Publish, Awaited
  <2> QED BY <2>1, <2>2, QuietSuppresses
<1>10. ASSUME NEW kind \in Kinds, Register(kind) PROVE HandedOver'
  <2>1. /\ data \in Payload /\ Rebuild(data, callbacks')
        /\ UNCHANGED <<now, phase, crashes, hasty>> /\ phase = "running"
    BY <1>10 DEF Register, outside, TypeOK
  <2>2. \A i \in DOMAIN writes' : writes'[i].by # "unload"
    <3>1. UnloadAwaited'
      BY <1>10, UnloadAwaitedStep DEF Next
    <3> QED BY <2>1, <3>1 DEF UnloadAwaited
  <2>3. ASSUME NEW k \in Key
        PROVE  notified'[k] <= Allowed' /\ (Spent(k)' => Suppressed(k)')
    <3>1. notified'[k] <= Allowed' /\ (Spent(k)' => k \in fired')
      BY <2>1, RebuildHands
    <3> QED BY <2>1, <2>2, <3>1 DEF Suppressed
  <2> QED BY <2>3 DEF HandedOver
<1>11. ASSUME NEW kind \in Kinds, Unregister(kind) PROVE HandedOver'
  BY <1>11, QuietSuppresses DEF Unregister, outside, timers
<1>12. ASSUME NEW k \in Key, Fire(k) PROVE HandedOver'
  BY <1>12, FireHands
<1>13. ASSUME NEW i \in DOMAIN writes, SaveLands(i) PROVE HandedOver'
  BY <1>13, LandingHands, OvertakingHands
<1>14. CASE UNCHANGED vars
  BY <1>14, QuietSuppresses DEF vars
<1> QED
  BY <1>1, <1>2, <1>3, <1>4, <1>5, <1>6, <1>7, <1>8, <1>9, <1>10, <1>11, <1>12, <1>13,
     <1>14 DEF Next

\* A key is notified at most once more than Home Assistant crashed or an unload
\* ended before an earlier save, over any number of set-ups, unloads and failed
\* set-ups, whatever the order in which saves land.
THEOREM OncePerCrash == Spec => []OnceUnlessCrash
<1>1. Init => Awaited /\ HeardRunning /\ UnloadAwaited /\ HandedOver
  BY DEF Init, Awaited, HeardRunning, UnloadAwaited, HandedOver, Spent, Allowed
<1>2. TypeOK /\ (Awaited /\ HeardRunning /\ UnloadAwaited /\ HandedOver) /\ [Next]_vars
         => (Awaited /\ HeardRunning /\ UnloadAwaited /\ HandedOver)'
  BY AwaitedStep, HeardStep, UnloadAwaitedStep, HandedOverStep
<1>3. HandedOver => OnceUnlessCrash
  BY DEF HandedOver, OnceUnlessCrash, Allowed
<1>4. QED BY <1>1, <1>2, <1>3, TypeCorrect, PTL DEF Spec
=============================================================================
