------------------------- MODULE RepairStreaksProofs -------------------------
(***************************************************************************)
(* Proofs about RepairStreaks: what an issue says of the answers before it *)
(* and what the answers say of the issue, for any number of sections,      *)
(* conditions, and any threshold.                                          *)
(***************************************************************************)
EXTENDS RepairStreaks, TLAPS

USE RepairStreaksAssumption

(***************************************************************************)
(* The counters.                                                           *)
(***************************************************************************)

\* A counter that takes one more stops at the threshold.
LEMMA OneMore ==
    ASSUME NEW n \in 0..Threshold
    PROVE  /\ Min({n + 1, Threshold}) \in 0..Threshold
           /\ n < Threshold => Min({n + 1, Threshold}) = n + 1
           /\ n = Threshold => Min({n + 1, Threshold}) = Threshold
<1> DEFINE least(x) == x \in {n + 1, Threshold} /\ \A y \in {n + 1, Threshold} : x <= y
<1>1. \E x \in {n + 1, Threshold} : \A y \in {n + 1, Threshold} : x <= y
  <2>1. CASE n < Threshold
    BY <2>1
  <2>2. CASE n = Threshold
    BY <2>2
  <2> QED BY <2>1, <2>2
<1>2. /\ Min({n + 1, Threshold}) \in {n + 1, Threshold}
      /\ \A y \in {n + 1, Threshold} : Min({n + 1, Threshold}) <= y
  BY <1>1, Zenon DEF Min
<1> QED BY <1>2

\* A counter that gives one back stops at zero.
LEMMA OneLess ==
    ASSUME NEW n \in 0..Threshold
    PROVE  /\ Max({n - 1, 0}) \in 0..Threshold
           /\ n = 0 => Max({n - 1, 0}) = 0
           /\ n > 0 => Max({n - 1, 0}) = n - 1
<1>1. \E x \in {n - 1, 0} : \A y \in {n - 1, 0} : x >= y
  <2>1. CASE n = 0
    BY <2>1
  <2>2. CASE n > 0
    BY <2>2
  <2> QED BY <2>1, <2>2
<1>2. /\ Max({n - 1, 0}) \in {n - 1, 0}
      /\ \A y \in {n - 1, 0} : Max({n - 1, 0}) >= y
  BY <1>1, Zenon DEF Max
<1> QED BY <1>2

(***************************************************************************)
(* The inductive invariant.                                                *)
(***************************************************************************)

Stages == [at : {"idle", "fetching", "saving"}, sections : SUBSET Sections, payload : Payload]
Saving == refresh.at = "saving"

\* A refresh under way has forgotten what its sections used to report.
Forgotten ==
    refresh.at = "fetching" => \A c \in refresh.payload.failed : ~Observed(c, refresh.sections)

\* Unless a refresh saves them, storage and the registry's file hold what memory
\* does, and otherwise a streak in memory is ahead of storage by one answer at most.
InStep ==
    /\ ~Saving => stored = streak /\ kept = issues
    /\ \A c \in Conditions : streak[c] <= stored[c] + 1

\* The failures that partial issues in force speak of are listed in the payload that
\* the next answer starts from, but for the sections it asks for.
Listed(failed, but) == \A c \in issues \cap Partial : On(c) /\ ~Observed(c, but) => c \in failed
Known ==
    /\ data # None /\ ~Saving => Listed(data.failed, {})
    /\ refresh.at = "fetching" => Listed(refresh.payload.failed, refresh.sections)
    /\ Saving => Listed(refresh.payload.failed, {})

\* A streak counts no more answers than failed in a row and no fewer than surely
\* failed in a row.
Between ==
    \A c \in Conditions : /\ sure[c] <= streak[c]
                          /\ c \notin revived => streak[c] <= run[c]

IInv == TypeOK /\ Forgotten /\ InStep /\ Known /\ Between /\ NoFalseAlarm /\ AlarmRaised

\* No streak and no issue at first.
LEMMA InitInv == Init => IInv
<1> SUFFICES ASSUME Init PROVE IInv
  OBVIOUS
<1>1. None0 \in [Conditions -> 0..Threshold] /\ \A c \in Conditions : None0[c] = 0
  BY DEF None0
<1>2. Idle \in Stages /\ Idle.at = "idle"
  BY DEF Idle, NoPayload, Payload, Stages
<1>3. TypeOK
  BY <1>1, <1>2 DEF Init, TypeOK, Stages
<1>5. Forgotten /\ InStep /\ Known
  BY <1>1, <1>2 DEF Init, Forgotten, InStep, Saving, Known
<1>6. Between /\ NoFalseAlarm /\ AlarmRaised
  BY <1>1 DEF Init, Between, NoFalseAlarm, AlarmRaised
<1> QED BY <1>3, <1>5, <1>6 DEF IInv

(***************************************************************************)
(* The steps but for an answer.                                            *)
(***************************************************************************)

\* No refresh is a stage.
LEMMA IdleStage == Idle \in Stages /\ Idle.at = "idle"
BY DEF Idle, NoPayload, Payload, Stages

\* A refresh that begins keeps the invariant.
LEMMA BeginInv ==
    ASSUME IInv, NEW sections \in SUBSET Sections, Begin(sections)
    PROVE  IInv'
<1> DEFINE base == IF data = None THEN NoPayload
                   ELSE [data EXCEPT !.failed = {c \in @ : ~Observed(c, sections)}]
           new == [at |-> "fetching", sections |-> sections, payload |-> base]
<1>1. base \in Payload /\ \A c \in base.failed : ~Observed(c, sections)
  BY DEF IInv, TypeOK, Payload, NoPayload
<1>2. new \in Stages /\ new.at = "fetching" /\ new.sections = sections /\ new.payload = base
  BY <1>1 DEF Stages
<1>3. refresh.at = "idle" /\ refresh' = new
  BY IdleStage DEF Begin
<1>a. Listed(base.failed, sections)
  <2>1. CASE data = None
    BY <2>1 DEF Begin, Listed, On, Observed
  <2>2. CASE data # None
    <3>1. Listed(data.failed, {})
      BY <1>3, <2>2 DEF IInv, Known, Saving
    <3>2. \A c \in data.failed : ~Observed(c, sections) => c \in base.failed
      BY <2>2 DEF IInv, TypeOK, Payload
    <3> QED BY <3>1, <3>2 DEF Listed, Observed
  <2> QED BY <2>1, <2>2
<1> HIDE DEF base, new
<1>4. TypeOK'
  BY <1>2, <1>3 DEF IInv, TypeOK, Begin, history, Stages
<1>5. Forgotten'
  BY <1>1, <1>2, <1>3 DEF Forgotten, Observed
<1>7. InStep'
  BY <1>2, <1>3 DEF IInv, InStep, Begin, Saving
<1>8. Known'
  <2>1. data # None => Listed(data.failed, {})
    BY <1>3 DEF IInv, Known, Saving
  <2> QED BY <1>2, <1>3, <1>a, <2>1 DEF Known, Saving, Listed, On, Observed, Begin
<1>9. Between' /\ NoFalseAlarm' /\ AlarmRaised'
  BY DEF IInv, Between, NoFalseAlarm, AlarmRaised, Begin, history
<1> QED BY <1>4, <1>5, <1>7, <1>8, <1>9 DEF IInv

\* A refresh that fails changes no streak.
LEMMA FailInv ==
    ASSUME IInv, Fail
    PROVE  IInv'
<1>2. refresh.at = "fetching" /\ refresh' = Idle
  BY DEF Fail
<1>3. TypeOK'
  BY <1>2, IdleStage DEF IInv, TypeOK, Fail, history, Stages
<1>4. Forgotten' /\ InStep'
  BY <1>2, IdleStage DEF IInv, Forgotten, InStep, Fail, Saving
<1>6. Known'
  BY <1>2, IdleStage DEF IInv, Known, Saving, Listed, On, Observed, Fail
<1>7. Between' /\ NoFalseAlarm' /\ AlarmRaised'
  BY DEF IInv, Between, NoFalseAlarm, AlarmRaised, Fail, history
<1> QED BY <1>3, <1>4, <1>6, <1>7 DEF IInv

\* A refresh that publishes saves streaks and issues, which keeps the invariant.
LEMMA PublishInv ==
    ASSUME IInv, Publish
    PROVE  IInv'
<1>2. Saving /\ refresh' = Idle /\ data' = refresh.payload
  BY DEF Publish, Saving
<1>3. refresh.payload \in Payload
  BY DEF IInv, TypeOK
<1>4. TypeOK'
  BY <1>2, <1>3, IdleStage DEF IInv, TypeOK, Publish, history, Stages
<1>5. Forgotten'
  BY <1>2, IdleStage DEF Forgotten
<1>6. Known'
  BY <1>2, IdleStage DEF IInv, Known, Saving, Listed, On, Observed, Publish
<1>7. \A c \in Conditions : streak'[c] <= stored'[c] + 1
  BY DEF IInv, TypeOK, Publish
<1>8. InStep'
  BY <1>7 DEF InStep, Publish
<1>9. Between' /\ NoFalseAlarm' /\ AlarmRaised'
  BY DEF IInv, Between, NoFalseAlarm, AlarmRaised, Publish, history
<1> QED BY <1>4, <1>5, <1>6, <1>8, <1>9 DEF IInv

\* A reload reads the streaks that were saved.
LEMMA ReloadInv ==
    ASSUME IInv, NEW options \in Options, Reload(options)
    PROVE  IInv'
<1>1. refresh.at = "idle" /\ refresh' = refresh /\ data' = None
  BY IdleStage DEF Reload
<1>2. stored = streak /\ kept = issues
  BY <1>1 DEF IInv, InStep, Saving
<1>3. TypeOK'
  BY DEF IInv, TypeOK, Reload, history
<1>4. Forgotten' /\ InStep' /\ Known'
  BY <1>1, <1>2 DEF IInv, Forgotten, InStep, Known, Saving, Reload
<1>5. Between' /\ NoFalseAlarm' /\ AlarmRaised'
  BY <1>2 DEF IInv, Between, NoFalseAlarm, AlarmRaised, Reload, history
<1> QED BY <1>3, <1>4, <1>5 DEF IInv

\* A crash loses one answer at most.
LEMMA CrashInv ==
    ASSUME IInv, Crash
    PROVE  IInv'
<1>3. \A c \in Conditions :
        /\ sure'[c] \in 0..Threshold
        /\ stored[c] < streak[c] => sure'[c] < Threshold /\ (sure'[c] = sure[c] - 1 \/ sure'[c] = 0)
        /\ ~(stored[c] < streak[c]) => sure'[c] = sure[c]
  <2> TAKE c \in Conditions
  <2>1. sure[c] \in 0..Threshold
    BY DEF IInv, TypeOK
  <2>2. sure'[c] = IF stored[c] < streak[c] THEN Max({sure[c] - 1, 0}) ELSE sure[c]
    BY DEF Crash
  <2> QED BY <2>1, <2>2, OneLess
<1>4. sure' = [c \in Conditions |-> sure'[c]]
  BY DEF Crash
<1>5. sure' \in [Conditions -> 0..Threshold]
  BY <1>3, <1>4
<1>6. TypeOK'
  BY <1>5, IdleStage DEF IInv, TypeOK, Crash, Stages
<1>7. Forgotten' /\ InStep' /\ Known'
  <2>1. \A c \in Conditions : stored'[c] <= stored'[c] + 1
    BY <1>6 DEF TypeOK
  <2>2. refresh'.at = "idle" /\ data' = None
    BY IdleStage DEF Crash
  <2>3. stored' = stored /\ streak' = stored /\ kept' = kept /\ issues' = kept
    BY DEF Crash
  <2> QED BY <2>1, <2>2, <2>3 DEF Forgotten, InStep, Known, Saving
<1>8. \A c \in Conditions :
        /\ sure'[c] <= streak'[c]
        /\ c \notin revived' => streak'[c] <= run'[c]
  <2> TAKE c \in Conditions
  <2>1. /\ streak[c] \in 0..Threshold /\ stored[c] \in 0..Threshold
        /\ sure[c] \in 0..Threshold /\ run[c] \in 0..Threshold
    BY DEF IInv, TypeOK
  <2>2. streak'[c] = stored[c] /\ run'[c] = run[c] /\ streak[c] <= stored[c] + 1
    BY DEF Crash, IInv, InStep
  <2>3. sure[c] <= streak[c] /\ (c \notin revived => streak[c] <= run[c])
    BY DEF IInv, Between
  <2>4. c \notin revived' => c \notin revived /\ ~(stored[c] > streak[c])
    BY DEF Crash
  <2>5. sure'[c] <= streak'[c]
    <3>1. CASE stored[c] < streak[c]
      BY <1>3, <2>1, <2>2, <2>3, <3>1
    <3>2. CASE ~(stored[c] < streak[c])
      BY <1>3, <2>1, <2>2, <2>3, <3>2
    <3> QED BY <3>1, <3>2
  <2>6. c \notin revived' => streak'[c] <= run'[c]
    BY <2>1, <2>2, <2>3, <2>4
  <2> QED BY <2>5, <2>6
<1>9. NoFalseAlarm'
  BY DEF IInv, NoFalseAlarm, Crash
<1>10. AlarmRaised'
  BY <1>3 DEF IInv, AlarmRaised, TypeOK, Crash
<1> QED BY <1>6, <1>7, <1>8, <1>9, <1>10 DEF IInv, Between

(***************************************************************************)
(* An answer.                                                              *)
(***************************************************************************)

\* Outcome of the calls for each condition, as Next gives it to Answer.
Given(outcome, sections) ==
    /\ outcome \in [Conditions -> {"ok", "persistent", "transient", "unclassified"}]
    /\ \A c \in Conditions : IF Observed(c, sections) THEN outcome[c] \in Outcomes(c)
                             ELSE outcome[c] = "ok"

\* What merging says of a condition whose section was asked for: it is among the
\* failures exactly if its calls failed, and transient only among them.
LEMMA MergedFacts ==
    ASSUME NEW base \in Payload, NEW sections \in SUBSET Sections, NEW outcome,
           Given(outcome, sections),
           \A c \in base.failed : ~Observed(c, sections)
    PROVE  LET payload == Merged(base, sections, outcome)
           IN  /\ payload \in Payload
               /\ payload.transient \subseteq payload.failed
               /\ base.failed \subseteq payload.failed
               /\ \A c \in Conditions : Observed(c, sections) =>
                    /\ c \in payload.failed <=> outcome[c] # "ok"
                    /\ outcome[c] = "transient" => c \in payload.transient
                    /\ outcome[c] = "persistent" => c \notin payload.transient
<1> DEFINE failed == base.failed \cup {c \in Conditions : Observed(c, sections) /\ outcome[c] # "ok"}
           unchanged(c) == ~Observed(c, sections) \/ outcome[c] = "unclassified"
           transient == {c \in failed \cap Classified :
                            IF unchanged(c) THEN c \in base.transient ELSE outcome[c] = "transient"}
           payload == Merged(base, sections, outcome)
<1>1. payload = [failed |-> failed, transient |-> transient]
  BY DEF Merged
<1>2. failed \subseteq Conditions /\ transient \subseteq Classified
  BY DEF Payload
<1>3. payload \in Payload /\ payload.failed = failed /\ payload.transient = transient
  BY <1>1, <1>2 DEF Payload
<1>4. ASSUME NEW c \in Conditions, Observed(c, sections)
      PROVE  /\ c \in failed <=> outcome[c] # "ok"
             /\ outcome[c] = "transient" => c \in transient
             /\ outcome[c] = "persistent" => c \notin transient
  <2>1. c \in failed <=> outcome[c] # "ok"
    BY <1>4
  <2>2. outcome[c] = "transient" => c \in Classified
    BY <1>4 DEF Given, Outcomes
  <2> QED BY <1>4, <2>1, <2>2
<1> QED BY <1>3, <1>4

\* An answer moves each streak as it moves the two that bound it.
LEMMA AnswerInv ==
    ASSUME IInv, NEW outcome, Given(outcome, refresh.sections), Answer(outcome)
    PROVE  IInv'
<1> DEFINE sections == refresh.sections
           payload == Merged(refresh.payload, sections, outcome)
           Count(counts, c, counted) ==
             IF ~On(c) \/ (Observed(c, sections) /\ outcome[c] = "ok") THEN 0
             ELSE IF Observed(c, sections) /\ counted THEN Min({counts[c] + 1, Threshold})
             ELSE counts[c]
           new == [refresh EXCEPT !.at = "saving", !.payload = payload]
<1>1. /\ refresh.at = "fetching"
      /\ refresh' = new
      /\ streak' = [c \in Conditions |-> Bumped(c, sections, payload)]
      /\ issues' = Desired(sections, payload, streak')
      /\ run' = [c \in Conditions |-> Count(run, c, outcome[c] # "transient")]
      /\ sure' = [c \in Conditions |-> Count(sure, c, outcome[c] = "persistent")]
      /\ revived' = {c \in revived : On(c) /\ (Observed(c, sections) => c \in payload.failed)}
      /\ dropped' = {c \in dropped : On(c) /\ (~Observed(c, sections) \/ Transient(c, payload))}
      /\ UNCHANGED <<enabled, stored, kept, data>>
  BY DEF Answer
<1>2. refresh \in Stages /\ sections \in SUBSET Sections /\ refresh.payload \in Payload
  BY DEF IInv, TypeOK, Stages
<1>3. \A c \in refresh.payload.failed : ~Observed(c, sections)
  BY <1>1 DEF IInv, Forgotten
<1>b. Listed(refresh.payload.failed, sections)
  BY <1>1 DEF IInv, Known
<1>4. /\ payload \in Payload
      /\ payload.transient \subseteq payload.failed
      /\ refresh.payload.failed \subseteq payload.failed
      /\ \A c \in Conditions : Observed(c, sections) =>
           /\ c \in payload.failed <=> outcome[c] # "ok"
           /\ outcome[c] = "transient" => c \in payload.transient
           /\ outcome[c] = "persistent" => c \notin payload.transient
  <2> HIDE DEF payload, sections
  <2>1. Given(outcome, sections)
    BY DEF sections
  <2> QED BY <1>2, <1>3, <2>1, MergedFacts DEF payload
<1> HIDE DEF payload
<1>5. new \in Stages /\ new.at = "saving" /\ new.payload = payload
  BY <1>2, <1>4 DEF Stages
<1> HIDE DEF new, sections
<1>6. stored = streak /\ kept = issues
  BY <1>1 DEF IInv, InStep, Saving
<1>7. ASSUME NEW c \in Conditions
      PROVE  /\ streak'[c] \in 0..Threshold /\ run'[c] \in 0..Threshold /\ sure'[c] \in 0..Threshold
             /\ streak'[c] <= streak[c] + 1
             /\ sure'[c] <= streak'[c]
             /\ c \notin revived' => streak'[c] <= run'[c]
             /\ c \in issues' \ revived' => run'[c] = Threshold
             /\ c \notin dropped' /\ sure'[c] = Threshold => c \in issues'
  <2>1. /\ streak[c] \in 0..Threshold /\ run[c] \in 0..Threshold /\ sure[c] \in 0..Threshold
        /\ sure[c] <= streak[c] /\ (c \notin revived => streak[c] <= run[c])
    BY DEF IInv, TypeOK, Between
  <2>2. /\ c \in issues \ revived => run[c] = Threshold
        /\ c \notin dropped /\ sure[c] = Threshold => c \in issues
    BY DEF IInv, NoFalseAlarm, AlarmRaised
  <2>3. /\ streak'[c] = Bumped(c, sections, payload)
        /\ run'[c] = Count(run, c, outcome[c] # "transient")
        /\ sure'[c] = Count(sure, c, outcome[c] = "persistent")
    BY <1>1
  <2>4. outcome[c] \in {"ok", "persistent", "transient", "unclassified"}
    BY DEF Given
  <2>5. c \in payload.transient => c \in payload.failed
    BY <1>4
  <2>6. CASE ~On(c)
    <3>1. streak'[c] = 0 /\ run'[c] = 0 /\ sure'[c] = 0
      BY <2>3, <2>6 DEF Bumped
    <3>2. c \notin issues'
      BY <1>1, <2>6 DEF Desired
    <3> QED BY <2>1, <3>1, <3>2
  <2>7. CASE On(c) /\ ~Observed(c, sections)
    <3>1. streak'[c] = streak[c] /\ run'[c] = run[c] /\ sure'[c] = sure[c]
      BY <2>3, <2>7 DEF Bumped
    <3>2. c \in revived' <=> c \in revived
      BY <1>1, <2>7
    <3>3. c \in issues' <=> c \in issues
      <4>1. c \in issues \cap Partial => c \in payload.failed
        BY <1>b, <1>4, <2>7 DEF Listed
      <4> QED BY <1>1, <2>7, <4>1 DEF Desired
    <3>4. c \in dropped' <=> c \in dropped
      BY <1>1, <2>7
    <3> QED BY <2>1, <2>2, <3>1, <3>2, <3>3, <3>4
  <2>8. CASE On(c) /\ Observed(c, sections) /\ outcome[c] = "ok"
    <3>1. c \notin payload.failed /\ ~Transient(c, payload)
      BY <1>4, <2>5, <2>8 DEF Transient
    <3>2. streak'[c] = 0 /\ run'[c] = 0 /\ sure'[c] = 0
      BY <2>3, <2>8, <3>1 DEF Bumped
    <3>3. c \notin issues'
      BY <1>1, <2>8, <3>1 DEF Desired
    <3> QED BY <2>1, <3>2, <3>3
  <2>9. CASE On(c) /\ Observed(c, sections) /\ outcome[c] # "ok" /\ Transient(c, payload)
    <3>1. c \in payload.failed /\ outcome[c] # "persistent"
      BY <1>4, <2>9 DEF Transient
    <3>2. /\ streak'[c] = streak[c] /\ sure'[c] = sure[c]
          /\ run'[c] = run[c] \/ run'[c] = Min({run[c] + 1, Threshold})
      BY <2>3, <2>9, <3>1 DEF Bumped
    <3>3. run'[c] \in 0..Threshold /\ run'[c] >= run[c]
      BY <2>1, <3>2, OneMore
    <3>4. c \in revived' <=> c \in revived
      BY <1>1, <2>9, <3>1
    <3>5. (c \in issues' <=> c \in issues) /\ (c \in dropped' <=> c \in dropped)
      BY <1>1, <2>9, <3>1 DEF Desired
    <3> QED BY <2>1, <2>2, <3>2, <3>3, <3>4, <3>5
  <2>10. CASE On(c) /\ Observed(c, sections) /\ outcome[c] # "ok" /\ ~Transient(c, payload)
    <3>1. c \in payload.failed /\ outcome[c] # "transient"
      BY <1>4, <2>10 DEF Transient
    <3>2. /\ streak'[c] = Min({streak[c] + 1, Threshold})
          /\ run'[c] = Min({run[c] + 1, Threshold})
          /\ sure'[c] = sure[c] \/ sure'[c] = Min({sure[c] + 1, Threshold})
      BY <2>3, <2>10, <3>1 DEF Bumped
    <3>3. /\ streak'[c] \in 0..Threshold /\ run'[c] \in 0..Threshold /\ sure'[c] \in 0..Threshold
          /\ streak'[c] <= streak[c] + 1 /\ sure'[c] <= streak'[c]
          /\ streak[c] <= run[c] => streak'[c] <= run'[c]
      <4> DEFINE capped(n) == IF n = Threshold THEN Threshold ELSE n + 1
      <4>1. \A n \in 0..Threshold : Min({n + 1, Threshold}) = capped(n) /\ capped(n) \in 0..Threshold
        BY OneMore
      <4>2. /\ streak'[c] = capped(streak[c]) /\ run'[c] = capped(run[c])
            /\ sure'[c] = sure[c] \/ sure'[c] = capped(sure[c])
        BY <2>1, <3>2, <4>1
      <4> QED BY <2>1, <4>2
    <3>4. c \in revived' <=> c \in revived
      BY <1>1, <2>10, <3>1
    <3>5. c \in issues' <=> streak'[c] = Threshold
      BY <1>1, <2>10, <3>1 DEF Desired
    <3> QED BY <2>1, <3>3, <3>4, <3>5
  <2> QED BY <2>6, <2>7, <2>8, <2>9, <2>10
<1>8. TypeOK'
  <2>1. /\ streak' \in [Conditions -> 0..Threshold]
        /\ run' \in [Conditions -> 0..Threshold] /\ sure' \in [Conditions -> 0..Threshold]
    <3>1. /\ streak' = [c \in Conditions |-> streak'[c]] /\ run' = [c \in Conditions |-> run'[c]]
          /\ sure' = [c \in Conditions |-> sure'[c]]
      BY <1>1
    <3>2. \A c \in Conditions : /\ streak'[c] \in 0..Threshold /\ run'[c] \in 0..Threshold
                                /\ sure'[c] \in 0..Threshold
      BY ONLY <1>7
    <3> HIDE DEF Count
    <3> QED BY ONLY <3>1, <3>2
  <2>2. refresh' \in Stages
    BY <1>1, <1>5
  <2>3. issues' \subseteq Conditions /\ revived' \subseteq Conditions /\ dropped' \subseteq Conditions
    BY <1>1 DEF IInv, TypeOK, Desired
  <2> QED BY <1>1, <2>1, <2>2, <2>3 DEF IInv, TypeOK, Stages
<1>9. Forgotten'
  BY <1>1, <1>5 DEF Forgotten
<1>10. InStep'
  <2>1. Saving'
    BY <1>1, <1>5 DEF Saving
  <2>2. \A c \in Conditions : streak'[c] <= stored'[c] + 1
    BY <1>1, <1>6, <1>7
  <2> QED BY <2>1, <2>2 DEF InStep
<1>c. Known'
  <2>1. refresh'.at = "saving" /\ refresh'.payload = payload
    BY <1>1, <1>5
  <2>2. \A c \in issues' \cap Partial : c \in payload.failed
    BY <1>1 DEF Desired
  <2> QED BY <2>1, <2>2 DEF Known, Saving, Listed
<1>11. Between' /\ NoFalseAlarm' /\ AlarmRaised'
  BY <1>7, <1>8 DEF TypeOK, Between, NoFalseAlarm, AlarmRaised
<1> QED BY <1>8, <1>9, <1>10, <1>c, <1>11 DEF IInv

(***************************************************************************)
(* The theorems.                                                           *)
(***************************************************************************)

\* Every step keeps the invariant.
LEMMA StepInv == IInv /\ [Next]_vars => IInv'
<1> SUFFICES ASSUME IInv, [Next]_vars PROVE IInv'
  OBVIOUS
<1>1. ASSUME NEW sections \in SUBSET Sections, Begin(sections) PROVE IInv'
  BY <1>1, BeginInv
<1>2. CASE Fail
  BY <1>2, FailInv
<1>3. CASE Publish
  BY <1>3, PublishInv
<1>4. ASSUME NEW outcome \in [Conditions -> {"ok", "persistent", "transient", "unclassified"}],
             \A c \in Conditions : IF Observed(c, refresh.sections)
                                   THEN outcome[c] \in Outcomes(c) ELSE outcome[c] = "ok",
             Answer(outcome)
      PROVE  IInv'
  <2>1. Given(outcome, refresh.sections)
    BY <1>4 DEF Given
  <2> QED BY <1>4, <2>1, AnswerInv
<1>5. ASSUME NEW options \in Options, Reload(options) PROVE IInv'
  BY <1>5, ReloadInv
<1>6. CASE Crash
  BY <1>6, CrashInv
<1>7. CASE UNCHANGED vars
  BY <1>7 DEF vars, history, IInv, TypeOK, Forgotten, InStep, Known, Listed, On, Saving,
              Between, NoFalseAlarm, AlarmRaised, Observed
<1> QED BY <1>1, <1>2, <1>3, <1>4, <1>5, <1>6, <1>7 DEF Next

\* The invariant holds in every state of the streaks.
LEMMA Invariance == Spec => []IInv
BY InitInv, StepInv, PTL DEF Spec

\* Every variable keeps its type.
THEOREM TypeCorrect == Spec => []TypeOK
<1>1. IInv => TypeOK
  BY DEF IInv
<1> QED BY <1>1, Invariance, PTL

\* An issue stands only for Threshold failures in a row, whatever sections are
\* refreshed in between, whatever failures freeze the streak, over reloads and
\* crashes, but for a crash that lost the answer which cleared it.
THEOREM IssuesTrue == Spec => []NoFalseAlarm
<1>1. IInv => NoFalseAlarm
  BY DEF IInv
<1> QED BY <1>1, Invariance, PTL

\* Threshold sure failures in a row have their issue, and a crash costs no finding
\* but the last.
THEOREM IssuesRaised == Spec => []AlarmRaised
<1>1. IInv => AlarmRaised
  BY DEF IInv
<1> QED BY <1>1, Invariance, PTL
=============================================================================
