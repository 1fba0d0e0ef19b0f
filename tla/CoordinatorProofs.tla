-------------------------- MODULE CoordinatorProofs --------------------------
(***************************************************************************)
(* Proofs about SectionSchedule and about ItemSensors: what the coordina-  *)
(* tor asks eBay for and records of the answer, and the sensors that       *)
(* follow its updates.  Of the schedule: types, the failures that stay     *)
(* shown, the missing scopes that are left alone, and that no stamp is     *)
(* lost.  Of the sensors: the right selection, types, the grace period,    *)
(* and what one reconciliation alone repairs.                              *)
(***************************************************************************)
EXTENDS SectionSchedule, ItemSensors, FiniteSetTheorems, TLAPS

\* Ageing keeps stamps well formed and touches neither set.
LEMMA AgedTypes ==
    ASSUME NEW d \in Stamps
    PROVE  /\ Aged(d) \in Stamps
           /\ Aged(d).failed = d.failed /\ Aged(d).shown = d.shown
           /\ \A s \in Sections : /\ Aged(d).attempt[s] = Older(d.attempt[s])
                                  /\ Aged(d).success[s] = Older(d.success[s])
<1>1. \A age \in AgeOrNever : Older(age) \in AgeOrNever
    BY SectionScheduleAssumption DEF Older, AgeOrNever, Age, Never
<1>2. /\ d.success \in [Sections -> AgeOrNever] /\ d.attempt \in [Sections -> AgeOrNever]
      /\ d.failed \in SUBSET Sections /\ d.shown \in SUBSET Sections
    BY DEF Stamps
<1>3. Aged(d) = [success |-> [s \in Sections |-> Older(d.success[s])],
                 attempt |-> [s \in Sections |-> Older(d.attempt[s])],
                 failed |-> d.failed, shown |-> d.shown]
    BY DEF Aged
<1> QED BY <1>1, <1>2, <1>3 DEF Stamps

\* Merging an answer gives well formed stamps, in which the sections that failed
\* are shown if they were before.
LEMMA MergedTypes ==
    ASSUME NEW base \in Stamps, NEW due \in SUBSET Sections,
           NEW bad \in SUBSET due, NEW incomplete \in SUBSET due
    PROVE  /\ Merged(base, due, bad, incomplete) \in Stamps
           /\ base.failed \subseteq base.shown =>
                Merged(base, due, bad, incomplete).failed
                    \subseteq Merged(base, due, bad, incomplete).shown
<1>1. 0 \in AgeOrNever
    BY SectionScheduleAssumption DEF AgeOrNever, Age
<1>2. /\ base.success \in [Sections -> AgeOrNever]
      /\ base.attempt \in [Sections -> AgeOrNever]
      /\ base.failed \in SUBSET Sections /\ base.shown \in SUBSET Sections
    BY DEF Stamps
<1>3. Scopeless \subseteq Sections
    BY SectionScheduleAssumption
<1> QED BY <1>1, <1>2, <1>3 DEF Merged, Stamps

\* Before the first payload nothing failed.
LEMMA NoStampsTypes == NoStamps \in Stamps /\ NoStamps.failed \subseteq NoStamps.shown
BY DEF NoStamps, Stamps, AgeOrNever, Never

\* What a refresh that begins leaves: a well formed flight with the stamps of
\* self.data as its base, or none.
LEMMA BeginTypes ==
    ASSUME TypeOK, NEW f \in Starters, NEW due \in SUBSET Sections, Begin(f, due)
    PROVE  /\ flight' \in [Starters -> [busy : BOOLEAN, due : SUBSET Sections, base : Stamps]]
           /\ untilPoll' \in 0..PollInterval \cup {NoTimer}
           /\ \/ flight' = flight
              \/ /\ flight' = [flight EXCEPT ![f] = [busy |-> TRUE, due |-> due, base |-> data]]
                 /\ untilPoll' = NoTimer
<1>1. [busy |-> TRUE, due |-> due, base |-> data]
            \in [busy : BOOLEAN, due : SUBSET Sections, base : Stamps]
    BY DEF TypeOK
<1>2. PollInterval \in 0..PollInterval
    BY SectionScheduleAssumption
<1>3. CASE due = {} /\ known
    BY <1>2, <1>3 DEF Begin, TypeOK
<1>4. CASE ~(due = {} /\ known)
    BY <1>1, <1>4 DEF Begin, TypeOK
<1> QED BY <1>3, <1>4

\* It consumes the force flags and the request held back.
LEMMA BeginFlags ==
    ASSUME NEW f, NEW due, Begin(f, due)
    PROVE  forced' = FALSE /\ forceSections' = {} /\ debounced' = FALSE
BY DEF Begin

\* A refresh that ends leaves a well formed flight and schedule.
LEMMA EndTypes ==
    ASSUME TypeOK, NEW f \in Starters, NEW next \in 0..PollInterval \cup {NoTimer}, End(f, next)
    PROVE  /\ flight' \in [Starters -> [busy : BOOLEAN, due : SUBSET Sections, base : Stamps]]
           /\ untilPoll' \in 0..PollInterval \cup {NoTimer}
BY NoStampsTypes DEF End, TypeOK, NoFlight

\* What a requested refresh does: it begins, or leaves its flags.
LEMMA RequestTypes ==
    ASSUME TypeOK, NEW sections \in SUBSET Sections, Request(sections)
    PROVE  /\ data' = data /\ known' = known /\ sincePress' = 0
           /\ \/ ~Locked /\ Begin("manual", sections)
              \/ /\ flight' = flight /\ untilPoll' = untilPoll
                 /\ forceSections' = sections /\ forced' = TRUE /\ debounced' = ~Locked
BY DEF Request

\* The times a refresh that ends may set.
LEMMA TimerTypes == PollInterval \in 0..PollInterval /\ 0 \in 0..PollInterval
BY SectionScheduleAssumption

\* What a new coordinator starts with.
LEMMA FreshTypes ==
    /\ NoStamps \in Stamps
    /\ [f \in Starters |-> NoFlight]
            \in [Starters -> [busy : BOOLEAN, due : SUBSET Sections, base : Stamps]]
    /\ 0 \in 0..PollInterval \cup {NoTimer} /\ Never \in AgeOrNever
BY NoStampsTypes, TimerTypes DEF NoFlight, AgeOrNever, Never

\* Every step keeps the types.
LEMMA TypeStep == TypeOK /\ [Next]_vars => TypeOK'
<1> SUFFICES ASSUME TypeOK, [Next]_vars PROVE TypeOK'
    OBVIOUS
<1> USE DEF TypeOK
<1>1. CASE Tick
    <2>1. data' \in Stamps
        BY <1>1, AgedTypes DEF Tick
    <2>2. flight' \in [Starters -> [busy : BOOLEAN, due : SUBSET Sections, base : Stamps]]
        BY <1>1, AgedTypes DEF Tick
    <2>3. sincePress' \in AgeOrNever
        <3>1. \A age \in AgeOrNever : Older(age) \in AgeOrNever
            BY SectionScheduleAssumption DEF Older, AgeOrNever, Age, Never
        <3> QED BY <1>1, <3>1 DEF Tick
    <2>4. untilPoll' \in 0..PollInterval \cup {NoTimer}
        <3>1. untilPoll \in 0..PollInterval \cup {NoTimer}
            OBVIOUS
        <3>2. untilPoll' = IF untilPoll > 0 THEN untilPoll - 1 ELSE untilPoll
            BY <1>1 DEF Tick
        <3>3. PollInterval \in Nat
            BY SectionScheduleAssumption
        <3> HIDE DEF TypeOK
        <3> QED BY <3>1, <3>2, <3>3 DEF NoTimer
    <2> QED BY <1>1, <2>1, <2>2, <2>3, <2>4 DEF Tick
<1>2. CASE Poll
    <2>1. (IF forced THEN forceSections ELSE Due) \in SUBSET Sections
        BY DEF Due
    <2>2. Begin("poll", IF forced THEN forceSections ELSE Due)
        BY <1>2 DEF Poll
    <2>3. /\ flight' \in [Starters -> [busy : BOOLEAN, due : SUBSET Sections, base : Stamps]]
          /\ untilPoll' \in 0..PollInterval \cup {NoTimer}
        BY <2>1, <2>2, BeginTypes DEF Starters
    <2> QED BY <1>2, <2>2, <2>3, BeginFlags DEF Poll
<1>3. ASSUME NEW sections \in Buttons, Press(sections) PROVE TypeOK'
    <2>1. /\ sections \cap Sections \in SUBSET Sections
          /\ Request(sections \cap Sections)
        BY <1>3 DEF Press
    <2>2. 0 \in AgeOrNever
        BY SectionScheduleAssumption DEF AgeOrNever, Age
    <2>3. CASE Begin("manual", sections \cap Sections)
        <3>1. /\ flight' \in [Starters -> [busy : BOOLEAN, due : SUBSET Sections, base : Stamps]]
              /\ untilPoll' \in 0..PollInterval \cup {NoTimer}
            BY <2>1, <2>3, BeginTypes DEF Starters
        <3> QED BY <2>1, <2>2, <2>3, <3>1, RequestTypes, BeginFlags
    <2>4. CASE ~Begin("manual", sections \cap Sections)
        BY <2>1, <2>2, <2>4, RequestTypes
    <2> QED BY <2>3, <2>4
<1>4. ASSUME NEW f \in Starters, FetchDone(f) PROVE TypeOK'
    <2>1. flight[f].base \in Stamps /\ flight[f].due \in SUBSET Sections
        OBVIOUS
    <2>2. data' \in Stamps
        <3>1. PICK bad \in SUBSET flight[f].due :
                \E incomplete \in SUBSET ((flight[f].due \ bad) \cap Lenient) :
                    data' = Merged(flight[f].base, flight[f].due, bad, incomplete)
            BY <1>4 DEF FetchDone
        <3>2. PICK incomplete \in SUBSET flight[f].due :
                data' = Merged(flight[f].base, flight[f].due, bad, incomplete)
            BY <3>1
        <3> QED BY <2>1, <3>2, MergedTypes
    <2>3. End(f, PollInterval)
        BY <1>4 DEF FetchDone
    <2>4. /\ flight' \in [Starters -> [busy : BOOLEAN, due : SUBSET Sections, base : Stamps]]
          /\ untilPoll' \in 0..PollInterval \cup {NoTimer}
        BY <2>3, EndTypes, TimerTypes
    <2> QED BY <1>4, <2>2, <2>3, <2>4 DEF FetchDone, End
<1>5. ASSUME NEW f \in Starters, FetchFails(f) \/ FetchRefused(f) PROVE TypeOK'
    <2>1. PICK next \in 0..PollInterval \cup {NoTimer} : End(f, next)
        BY <1>5, TimerTypes DEF FetchFails, FetchRefused
    <2>2. /\ flight' \in [Starters -> [busy : BOOLEAN, due : SUBSET Sections, base : Stamps]]
          /\ untilPoll' \in 0..PollInterval \cup {NoTimer}
        BY <2>1, EndTypes
    <2> QED BY <1>5, <2>1, <2>2 DEF FetchFails, FetchRefused, End
<1>6. CASE Debounced
    <2>1. forceSections \in SUBSET Sections /\ Begin("manual", forceSections)
        BY <1>6 DEF Debounced
    <2>2. /\ flight' \in [Starters -> [busy : BOOLEAN, due : SUBSET Sections, base : Stamps]]
          /\ untilPoll' \in 0..PollInterval \cup {NoTimer}
        BY <2>1, BeginTypes DEF Starters
    <2> QED BY <1>6, <2>1, <2>2, BeginFlags DEF Debounced
<1>7. CASE Reload
    BY <1>7, FreshTypes DEF Reload
<1>8. CASE UNCHANGED vars
    BY <1>8 DEF vars
<1> QED BY <1>1, <1>2, <1>3, <1>4, <1>5, <1>6, <1>7, <1>8 DEF Next

\* Every state of the schedule is well typed.
THEOREM TypeCorrect == Spec => []TypeOK
<1>1. Init => TypeOK
    BY FreshTypes DEF Init, TypeOK
<1> QED BY <1>1, TypeStep, PTL DEF Spec

-----------------------------------------------------------------------------
\* Not only self.data: the payload each refresh started from shows its failures.
ShownInv ==
    /\ FailureShown
    /\ \A f \in Starters : flight[f].base.failed \subseteq flight[f].base.shown

\* Every step keeps the failures of all these payloads shown.
LEMMA ShownStep == TypeOK /\ ShownInv /\ [Next]_vars => ShownInv'
<1> SUFFICES ASSUME TypeOK, ShownInv, [Next]_vars PROVE ShownInv'
    OBVIOUS
<1> USE DEF ShownInv, FailureShown
<1>1. CASE Tick
    BY <1>1, AgedTypes DEF Tick, TypeOK
<1>2. CASE Poll
    <2>1. (IF forced THEN forceSections ELSE Due) \in SUBSET Sections
        BY DEF Due, TypeOK
    <2> QED BY <1>2, <2>1, BeginTypes DEF Poll, Starters, TypeOK
<1>3. ASSUME NEW sections \in Buttons, Press(sections) PROVE ShownInv'
    <2>1. /\ sections \cap Sections \in SUBSET Sections
          /\ Request(sections \cap Sections)
        BY <1>3 DEF Press
    <2>2. data' = data /\ known' = known
        BY <2>1, RequestTypes
    <2>3. CASE Begin("manual", sections \cap Sections)
        BY <2>1, <2>2, <2>3, BeginTypes DEF Starters, TypeOK
    <2>4. CASE ~Begin("manual", sections \cap Sections)
        BY <2>1, <2>4, RequestTypes
    <2> QED BY <2>3, <2>4
<1>4. ASSUME NEW f \in Starters, FetchDone(f) PROVE ShownInv'
    <2>1. flight[f].base \in Stamps /\ flight[f].due \in SUBSET Sections
        BY DEF TypeOK
    <2>2. FailureShown'
        <3>1. PICK bad \in SUBSET flight[f].due :
                \E incomplete \in SUBSET ((flight[f].due \ bad) \cap Lenient) :
                    data' = Merged(flight[f].base, flight[f].due, bad, incomplete)
            BY <1>4 DEF FetchDone
        <3>2. PICK incomplete \in SUBSET flight[f].due :
                data' = Merged(flight[f].base, flight[f].due, bad, incomplete)
            BY <3>1
        <3> QED BY <2>1, <3>2, MergedTypes
    <2> QED BY <1>4, <2>2, NoStampsTypes DEF FetchDone, End, NoFlight, TypeOK
<1>5. ASSUME NEW f \in Starters, FetchFails(f) \/ FetchRefused(f) PROVE ShownInv'
    BY <1>5, NoStampsTypes DEF FetchFails, FetchRefused, End, NoFlight, TypeOK
<1>6. CASE Debounced
    <2>1. forceSections \in SUBSET Sections /\ Begin("manual", forceSections)
        BY <1>6 DEF Debounced, TypeOK
    <2> QED BY <1>6, <2>1, BeginTypes DEF Debounced, Starters, TypeOK
<1>7. CASE Reload
    BY <1>7, NoStampsTypes DEF Reload, NoFlight
<1>8. CASE UNCHANGED vars
    BY <1>8 DEF vars
<1> QED BY <1>1, <1>2, <1>3, <1>4, <1>5, <1>6, <1>7, <1>8 DEF Next

\* A failure stays shown until its section is attempted again, for any sections,
\* buttons and intervals.
THEOREM FailuresStayShown == Spec => []FailureShown
<1>1. Init => ShownInv
    BY NoStampsTypes DEF Init, ShownInv, FailureShown, NoFlight
<1>2. ShownInv => FailureShown
    BY DEF ShownInv
<1> QED BY <1>1, <1>2, ShownStep, TypeCorrect, PTL DEF Spec

-----------------------------------------------------------------------------
\* Stamps in which a section without its scope was never fetched and, if it was
\* attempted, failed and is shown.
ScopeStamps(d) ==
    \A s \in Scopeless :
        /\ d.success[s] = Never
        /\ d.attempt[s] # Never => s \in d.failed \cap d.shown

\* It is so for self.data and for the payload each refresh started from; before
\* the first payload nothing was attempted; a refresh not under way asks nothing.
ScopeInv ==
    /\ ScopeStamps(data)
    /\ \A f \in Starters : ScopeStamps(flight[f].base) /\ (~Busy(f) => flight[f].due = {})
    /\ ~known => \A s \in Sections : data.attempt[s] = Never

\* Ageing and merging keep stamps so.
LEMMA ScopeStampsKept ==
    ASSUME NEW d \in Stamps, ScopeStamps(d)
    PROVE  /\ ScopeStamps(Aged(d))
           /\ \A due \in SUBSET Sections : \A bad \in SUBSET due : \A incomplete :
                due \cap Scopeless \subseteq bad
                    => ScopeStamps(Merged(d, due, bad, incomplete))
<1>1. Scopeless \subseteq Sections
    BY SectionScheduleAssumption
<1>2. ScopeStamps(Aged(d))
    <2>1. Older(Never) = Never
        BY DEF Older
    <2>2. ASSUME NEW s \in Scopeless
          PROVE  /\ Aged(d).success[s] = Never
                 /\ Aged(d).attempt[s] # Never => s \in d.failed \cap d.shown
        <3>1. /\ Aged(d).success[s] = Older(d.success[s])
              /\ Aged(d).attempt[s] = Older(d.attempt[s])
            BY <1>1, AgedTypes
        <3> QED BY <2>1, <3>1 DEF ScopeStamps
    <2>3. Aged(d).failed = d.failed /\ Aged(d).shown = d.shown
        BY AgedTypes
    <2> QED BY <2>2, <2>3 DEF ScopeStamps
<1>3. ASSUME NEW due \in SUBSET Sections, NEW bad \in SUBSET due, NEW incomplete,
             due \cap Scopeless \subseteq bad
      PROVE  ScopeStamps(Merged(d, due, bad, incomplete))
    BY <1>1, <1>3 DEF ScopeStamps, Merged
<1> QED BY <1>2, <1>3

\* A new coordinator asked for nothing yet.
LEMMA ScopeFresh ==
    /\ \A s \in Scopeless : NoStamps.success[s] = Never
    /\ \A s \in Sections : NoStamps.attempt[s] = Never
    /\ \A s \in Scopeless : NoStamps.attempt[s] = Never
    /\ NoFlight.base = NoStamps /\ NoFlight.due = {} /\ NoFlight.busy = FALSE
BY SectionScheduleAssumption DEF NoStamps, NoFlight

\* Every step keeps ScopeInv.
LEMMA ScopeStep ==
    ASSUME TypeOK, ScopeInv, [Next]_vars PROVE ScopeInv'
<1> USE DEF ScopeInv, Busy
<1>1. CASE Tick
    <2>1. \A s \in Sections : data.attempt[s] = Never => Aged(data).attempt[s] = Never
        BY AgedTypes DEF TypeOK, Older
    <2> QED BY <1>1, <2>1, ScopeStampsKept DEF Tick, TypeOK
<1>2. CASE Poll
    <2>1. (IF forced THEN forceSections ELSE Due) \in SUBSET Sections
        BY DEF Due, TypeOK
    <2> QED BY <1>2, <2>1, BeginTypes DEF Poll, Starters, TypeOK
<1>3. ASSUME NEW sections \in Buttons, Press(sections) PROVE ScopeInv'
    <2>1. /\ sections \cap Sections \in SUBSET Sections
          /\ Request(sections \cap Sections)
        BY <1>3 DEF Press
    <2>2. data' = data /\ known' = known
        BY <2>1, RequestTypes
    <2>3. CASE Begin("manual", sections \cap Sections)
        BY <2>1, <2>2, <2>3, BeginTypes DEF Starters, TypeOK
    <2>4. CASE ~Begin("manual", sections \cap Sections)
        BY <2>1, <2>4, RequestTypes
    <2> QED BY <2>3, <2>4
<1>4. ScopeStamps(NoStamps)
    BY SectionScheduleAssumption DEF ScopeStamps, NoStamps
<1>5. ASSUME NEW f \in Starters, FetchDone(f) PROVE ScopeInv'
    <2>1. flight[f].base \in Stamps /\ flight[f].due \in SUBSET Sections
        BY DEF TypeOK
    <2>2. ScopeStamps(data')
        <3>1. PICK bad \in SUBSET flight[f].due :
                /\ flight[f].due \cap Scopeless \subseteq bad
                /\ \E incomplete \in SUBSET ((flight[f].due \ bad) \cap Lenient) :
                      data' = Merged(flight[f].base, flight[f].due, bad, incomplete)
            BY <1>5 DEF FetchDone
        <3> QED BY <2>1, <3>1, ScopeStampsKept
    <2>3. ScopeStamps(data)'
        BY <2>2 DEF ScopeStamps
    <2> QED BY <1>4, <1>5, <2>3 DEF FetchDone, End, NoFlight, TypeOK
<1>6. ASSUME NEW f \in Starters, FetchFails(f) \/ FetchRefused(f) PROVE ScopeInv'
    BY <1>4, <1>6 DEF FetchFails, FetchRefused, End, NoFlight, TypeOK, ScopeStamps
<1>7. CASE Debounced
    <2>1. forceSections \in SUBSET Sections /\ Begin("manual", forceSections)
        BY <1>7 DEF Debounced, TypeOK
    <2> QED BY <1>7, <2>1, BeginTypes DEF Debounced, Starters, TypeOK
<1>8. CASE Reload
    BY <1>8, ScopeFresh DEF Reload, ScopeInv, ScopeStamps, Busy
<1>9. CASE UNCHANGED vars
    BY <1>9 DEF vars, ScopeStamps
<1> QED BY <1>1, <1>2, <1>3, <1>5, <1>6, <1>7, <1>8, <1>9 DEF Next

\* The schedule asks for a section without its scope only before its first
\* attempt, for any sections, buttons and intervals.
THEOREM ScopesLeftAlone == Spec => ScopeNotRetried
<1> DEFINE LeftAlone == \A s \in Scopeless : Asks(s) => data.attempt[s] = Never
<1>1. Init => ScopeInv
    BY SectionScheduleAssumption DEF Init, ScopeInv, ScopeStamps, NoStamps, NoFlight, Busy
<1>2. TypeOK /\ ScopeInv /\ [Next]_vars => ScopeInv'
    BY ScopeStep
<1>3. ASSUME TypeOK, ScopeInv, [Next]_vars PROVE [LeftAlone]_vars
    <2>1. SUFFICES ASSUME NEW s \in Scopeless, Asks(s), data.attempt[s] # Never
                   PROVE  FALSE
        OBVIOUS
    <2>2. s \in Sections /\ Interval[s] \in 1..Cap
        BY SectionScheduleAssumption
    <2>3. ~forced /\ ~Busy("poll") /\ s \in flight'["poll"].due
        BY <2>1 DEF Asks
    <2>4. s \notin flight["poll"].due
        BY <1>3, <2>3 DEF ScopeInv, Starters
    <2>5. s \notin Due
        BY <1>3, <2>1, <2>2, SectionScheduleAssumption DEF Due, ScopeInv, ScopeStamps, Never
    <2>6. CASE Tick
        BY <1>3, <2>3, <2>4, <2>6 DEF Tick, TypeOK, Starters
    <2>7. CASE Poll
        <3>1. Due \in SUBSET Sections
            BY DEF Due, TypeOK
        <3> QED BY <1>3, <2>3, <2>4, <2>5, <2>7, <3>1, BeginTypes DEF Poll, Starters, TypeOK
    <2>8. ASSUME NEW sections \in SUBSET Sections, Begin("manual", sections) PROVE FALSE
        <3>1. flight'["poll"] = flight["poll"]
            BY <1>3, <2>8, BeginTypes DEF Starters, TypeOK
        <3> QED BY <2>3, <2>4, <3>1
    <2>9. ASSUME NEW sections \in Buttons, Press(sections) PROVE FALSE
        <3>1. /\ sections \cap Sections \in SUBSET Sections
              /\ Request(sections \cap Sections)
            BY <2>9 DEF Press
        <3>2. flight' = flight \/ Begin("manual", sections \cap Sections)
            BY <1>3, <3>1, RequestTypes
        <3> QED BY <2>3, <2>4, <2>8, <3>1, <3>2
    <2>10. CASE Debounced
        BY <1>3, <2>8, <2>10 DEF Debounced, TypeOK
    <2>11. ASSUME NEW f \in Starters, NEW next, End(f, next) PROVE FALSE
        BY <1>3, <2>3, <2>4, <2>11 DEF End, NoFlight, Starters, TypeOK
    <2>12. CASE Reload
        BY <2>3, <2>12 DEF Reload, NoFlight, Starters
    <2>13. CASE UNCHANGED vars
        BY <2>3, <2>4, <2>13 DEF vars
    <2> QED BY <1>3, <2>6, <2>7, <2>9, <2>10, <2>11, <2>12, <2>13
            DEF Next, FetchDone, FetchFails, FetchRefused
<1>4. Spec => [][LeftAlone]_vars
    BY <1>1, <1>2, <1>3, TypeCorrect, PTL DEF Spec
<1> QED BY <1>4 DEF ScopeNotRetried

-----------------------------------------------------------------------------
\* A refresh under way is alone, the schedule is down, no request is held back, and
\* self.data is still what it started from.
AloneInv ==
    \A f \in Starters : Busy(f) =>
        /\ flight[f].base = data
        /\ untilPoll = NoTimer /\ ~debounced
        /\ \A g \in Starters : Busy(g) => g = f

\* A refresh that begins while none is under way is alone.
LEMMA BeginAlone ==
    ASSUME TypeOK, ~Locked, data' = data,
           NEW f \in Starters, NEW due \in SUBSET Sections, Begin(f, due)
    PROVE  AloneInv'
<1>1. \A g \in Starters : ~flight[g].busy
    BY DEF Locked, Busy
<1>2. debounced' = FALSE
    BY BeginFlags
<1>3. \/ flight' = flight
      \/ /\ flight' = [flight EXCEPT ![f] = [busy |-> TRUE, due |-> due, base |-> data]]
         /\ untilPoll' = NoTimer
    BY BeginTypes
<1> QED BY <1>1, <1>2, <1>3 DEF AloneInv, Busy, TypeOK

\* Every step keeps a refresh under way alone.
LEMMA AloneStep ==
    ASSUME TypeOK, AloneInv, [Next]_vars PROVE AloneInv'
<1> USE DEF AloneInv, Busy
<1>1. CASE Tick
    BY <1>1 DEF Tick, TypeOK, NoTimer
<1>2. CASE Poll
    <2>1. (IF forced THEN forceSections ELSE Due) \in SUBSET Sections
        BY DEF Due, TypeOK
    <2> QED BY <1>2, <2>1, BeginAlone DEF Poll, Starters
<1>3. ASSUME NEW sections \in Buttons, Press(sections) PROVE AloneInv'
    <2>1. /\ sections \cap Sections \in SUBSET Sections
          /\ Request(sections \cap Sections)
        BY <1>3 DEF Press
    <2>2. CASE ~Locked /\ Begin("manual", sections \cap Sections)
        BY <2>1, <2>2, RequestTypes, BeginAlone DEF Starters
    <2>3. CASE /\ flight' = flight /\ untilPoll' = untilPoll
               /\ debounced' = ~Locked /\ data' = data
        BY <2>3 DEF Locked
    <2> QED BY <2>1, <2>2, <2>3, RequestTypes
<1>4. ASSUME NEW f \in Starters, NEW next, End(f, next) PROVE AloneInv'
    BY <1>4 DEF End, NoFlight, TypeOK
<1>5. CASE Debounced
    <2>1. ~Locked
        BY <1>5 DEF Debounced, Locked
    <2>2. forceSections \in SUBSET Sections /\ Begin("manual", forceSections) /\ data' = data
        BY <1>5 DEF Debounced, TypeOK
    <2> QED BY <2>1, <2>2, BeginAlone DEF Starters
<1>6. CASE Reload
    BY <1>6 DEF Reload, NoFlight
<1>7. CASE UNCHANGED vars
    BY <1>7 DEF vars
<1> QED BY <1>1, <1>2, <1>3, <1>4, <1>5, <1>6, <1>7 DEF Next, FetchDone, FetchFails, FetchRefused

\* No refresh overwrites the stamps of another, whatever buttons are pressed while
\* one is under way: a requested refresh waits for the lock of the debouncer.
THEOREM StampsNotLost == Spec => NoStampLost
<1> DEFINE Kept ==
        known' => \A s \in Sections :
            /\ data.attempt[s] # Never => data'.attempt[s] \in 0..Older(data.attempt[s])
            /\ data.success[s] # Never => data'.success[s] \in 0..Older(data.success[s])
<1>1. Init => AloneInv
    BY DEF Init, AloneInv, Busy, NoFlight
<1>2. TypeOK /\ AloneInv /\ [Next]_vars => AloneInv'
    BY AloneStep
<1>3. ASSUME TypeOK, AloneInv, [Next]_vars PROVE [Kept]_vars
    <2>1. \A age \in AgeOrNever : age # Never =>
            age \in 0..Older(age) /\ Older(age) \in 0..Older(age) /\ 0 \in 0..Older(age)
        BY SectionScheduleAssumption DEF Older, AgeOrNever, Age, Never
    <2>2. \A s \in Sections : data.attempt[s] \in AgeOrNever /\ data.success[s] \in AgeOrNever
        BY <1>3 DEF TypeOK, Stamps
    <2>3. CASE data' = data
        BY <2>1, <2>2, <2>3
    <2>4. CASE Tick
        <3>1. data' = Aged(data) /\ data \in Stamps
            BY <1>3, <2>4 DEF Tick, TypeOK
        <3> QED BY <2>1, <2>2, <3>1, AgedTypes
    <2>5. ASSUME NEW f \in Starters, FetchDone(f) PROVE Kept
        <3>1. flight[f].base = data
            BY <1>3, <2>5 DEF FetchDone, End, AloneInv
        <3>2. PICK due, bad, incomplete : data' = Merged(data, due, bad, incomplete)
            BY <2>5, <3>1 DEF FetchDone
        <3>3. \A s \in Sections :
                /\ data'.attempt[s] = 0 \/ data'.attempt[s] = data.attempt[s]
                /\ data'.success[s] = 0 \/ data'.success[s] = data.success[s]
            BY <3>2 DEF Merged
        <3> QED BY <2>1, <2>2, <3>3
    <2>6. CASE Reload
        BY <2>6 DEF Reload
    <2> QED BY <1>3, <2>3, <2>4, <2>5, <2>6
            DEF Next, Poll, Press, Request, Debounced, FetchFails, FetchRefused, vars
<1>4. Spec => [][Kept]_vars
    BY <1>1, <1>2, <1>3, TypeCorrect, PTL DEF Spec
<1> QED BY <1>4 DEF NoStampLost

(***************************************************************************)
(* The sensors of items: the selection.                                    *)
(***************************************************************************)

USE ItemSensorsAssumption

\* An item comes before another by its priority, then by its number.
Precedes(priority, i, j) ==
    priority[i] < priority[j] \/ (priority[i] = priority[j] /\ i < j)

Rank(held, priority, i) == Cardinality({k \in held : Precedes(priority, k, i)})

\* Two items have different numbers of items before them.
LEMMA RanksDiffer ==
    ASSUME NEW held, IsFiniteSet(held), held \subseteq Nat,
           NEW priority \in [held -> Nat], NEW i \in held, NEW j \in held, i # j
    PROVE  Rank(held, priority, i) # Rank(held, priority, j)
<1> DEFINE before(k) == {l \in held : Precedes(priority, l, k)}
<1>1. ASSUME NEW k \in held, NEW l \in held, Precedes(priority, k, l)
      PROVE  Cardinality(before(k)) # Cardinality(before(l))
  <2>1. ASSUME NEW m \in before(k)
        PROVE  m \in before(l)
    <3>1. /\ m \in Nat /\ k \in Nat /\ l \in Nat /\ m \in held
          /\ priority[m] \in Nat /\ priority[k] \in Nat /\ priority[l] \in Nat
      BY <2>1
    <3>2. Precedes(priority, m, k)
      BY <2>1
    <3>3. Precedes(priority, m, l)
      BY <1>1, <3>1, <3>2 DEF Precedes
    <3> QED BY <3>1, <3>3
  <2>2. k \in before(l) /\ k \notin before(k)
    BY <1>1 DEF Precedes
  <2> HIDE DEF before
  <2>3. IsFiniteSet(before(l))
    BY FS_Subset DEF before
  <2> QED BY <2>1, <2>2, <2>3, FS_Subset
<1>2. Precedes(priority, i, j) \/ Precedes(priority, j, i)
  BY DEF Precedes
<1> QED BY <1>1, <1>2 DEF Rank

\* What is selected of the items held: the first of them, in the order of their
\* priorities and numbers, up to the cap.  Nothing selected comes after something
\* that is not, the cap is used up if there are items enough, and an item is left
\* out only for the sake of the cap (_select_item_entities).
THEOREM SelectionRight ==
    ASSUME NEW held \in SUBSET Items, NEW priority \in [held -> Priorities]
    PROVE  /\ Selected(priority) \subseteq held
           /\ Cardinality(Selected(priority)) <= ItemCap
           /\ Cardinality(held) <= ItemCap => Selected(priority) = held
           /\ Cardinality(held) > ItemCap => Cardinality(Selected(priority)) = ItemCap
           /\ \A i \in Selected(priority), j \in held \ Selected(priority) :
                 Precedes(priority, i, j)
<1> DEFINE rank == [i \in held |-> Rank(held, priority, i)]
           chosen == {i \in held : rank[i] < ItemCap}
           place == [i \in chosen |-> rank[i]]
<1>1. IsFiniteSet(held) /\ held \subseteq Nat /\ priority \in [held -> Nat]
  <2>1. IsFiniteSet(Items)
    OBVIOUS
  <2>2. IsFiniteSet(held)
    BY ONLY <2>1, FS_Subset, held \in SUBSET Items
  <2>3. Priorities \subseteq Nat
    BY DEF Priorities
  <2> QED BY <2>2, <2>3
<1>2. /\ Cardinality(held) \in Nat
      /\ \A i \in held : rank[i] \in Nat /\ rank[i] < Cardinality(held)
  <2>1. Cardinality(held) \in Nat
    BY <1>1, FS_CardinalityType
  <2>2. ASSUME NEW i \in held PROVE rank[i] \in Nat /\ rank[i] < Cardinality(held)
    <3> DEFINE before == {k \in held : Precedes(priority, k, i)}
    <3>1. before \subseteq held /\ i \notin before
      BY <1>1 DEF Precedes
    <3> HIDE DEF before
    <3>2. /\ IsFiniteSet(before) /\ Cardinality(before) <= Cardinality(held)
          /\ Cardinality(before) # Cardinality(held)
      BY <1>1, <3>1, FS_Subset
    <3>3. Cardinality(before) \in Nat
      BY <3>2, FS_CardinalityType
    <3>4. rank[i] = Cardinality(before)
      BY DEF Rank, before
    <3> HIDE DEF rank
    <3> QED BY <2>1, <3>2, <3>3, <3>4
  <2> QED BY <2>1, <2>2
<1>3. \A i, j \in held : rank[i] = rank[j] => i = j
  <2> SUFFICES ASSUME NEW i \in held, NEW j \in held, i # j
               PROVE  rank[i] # rank[j]
    OBVIOUS
  <2> QED BY <1>1, RanksDiffer
<1>4. Selected(priority) = chosen /\ DOMAIN rank = held
  BY DEF Selected, Precedes, Rank
<1>5. ItemCap \in Nat
  OBVIOUS
<1>6. \A i \in chosen, j \in held \ chosen : Precedes(priority, i, j)
  <2> SUFFICES ASSUME NEW i \in chosen, NEW j \in held \ chosen PROVE Precedes(priority, i, j)
    OBVIOUS
  <2> DEFINE before(k) == {l \in held : Precedes(priority, l, k)}
  <2>1. i \in held /\ rank[i] < ItemCap /\ ~(rank[j] < ItemCap)
    OBVIOUS
  <2>2. /\ i \in Nat /\ j \in Nat /\ i # j
        /\ priority[i] \in Nat /\ priority[j] \in Nat
    BY <1>1, <2>1
  <2>3. ASSUME Precedes(priority, j, i) PROVE FALSE
    <3>1. \A l \in before(j) : l \in before(i)
      <4> SUFFICES ASSUME NEW l \in before(j) PROVE Precedes(priority, l, i)
        OBVIOUS
      <4>1. l \in held /\ l \in Nat /\ priority[l] \in Nat /\ Precedes(priority, l, j)
        BY <1>1
      <4> QED BY <2>2, <2>3, <4>1 DEF Precedes
    <3> HIDE DEF before
    <3>2. IsFiniteSet(before(i)) /\ before(j) \subseteq before(i)
      BY <1>1, <3>1, FS_Subset DEF before
    <3>3. Cardinality(before(j)) <= Cardinality(before(i))
      BY <3>2, FS_Subset
    <3>4. rank[i] = Cardinality(before(i)) /\ rank[j] = Cardinality(before(j))
      BY <2>1 DEF Rank, before
    <3> HIDE DEF rank
    <3> QED BY <1>2, <1>5, <2>1, <3>3, <3>4
  <2> QED BY <2>2, <2>3 DEF Precedes
<1> HIDE DEF rank
<1>7. IsFiniteSet(chosen) /\ chosen \subseteq held
  BY <1>1, FS_Subset
<1>8. CASE Cardinality(held) <= ItemCap
  <2>1. \A i \in held : rank[i] < ItemCap
    BY <1>2, <1>5, <1>8
  <2>2. chosen = held
    BY <2>1
  <2> HIDE DEF chosen
  <2>3. ~(Cardinality(held) > ItemCap)
    BY <1>2, <1>5, <1>8
  <2> QED BY <1>4, <1>6, <1>8, <2>2, <2>3
<1>9. CASE Cardinality(held) > ItemCap
  <2>0. \A n \in Nat : IsFiniteSet(0..(n - 1)) /\ Cardinality(0..(n - 1)) = n
    BY FS_Interval
  <2>1. IsFiniteSet(0..(ItemCap - 1)) /\ Cardinality(0..(ItemCap - 1)) = ItemCap
    BY <1>5, <2>0
  <2>2. place \in Surjection(chosen, 0..(ItemCap - 1)) /\ place \in Injection(chosen, 0..(ItemCap - 1))
    <3>1. rank \in Injection(held, 0..(Cardinality(held) - 1))
      <4>1. rank \in [held -> 0..(Cardinality(held) - 1)]
        BY <1>2, <1>4 DEF rank
      <4> QED BY <1>3, <4>1 DEF Injection, IsInjective
    <3>2. /\ IsFiniteSet(0..(Cardinality(held) - 1))
          /\ Cardinality(0..(Cardinality(held) - 1)) = Cardinality(held)
      BY <1>2, <2>0
    <3>3. rank \in Surjection(held, 0..(Cardinality(held) - 1))
      BY <3>1, <3>2, FS_Injection
    <3>4. \A n \in 0..(Cardinality(held) - 1) : \E i \in held : rank[i] = n
      BY <3>3 DEF Surjection
    <3>5. \A n \in 0..(ItemCap - 1) : \E i \in chosen : place[i] = n
      <4> SUFFICES ASSUME NEW n \in 0..(ItemCap - 1) PROVE \E i \in chosen : rank[i] = n
        OBVIOUS
      <4>1. n \in 0..(Cardinality(held) - 1) /\ n < ItemCap
        BY <1>2, <1>5, <1>9
      <4> QED BY <3>4, <4>1
    <3>6. \A i \in chosen : place[i] \in 0..(ItemCap - 1)
      BY <1>2, <1>5
    <3>7. \A i, j \in chosen : place[i] = place[j] => i = j
      BY <1>3
    <3> HIDE DEF chosen
    <3>8. place \in [chosen -> 0..(ItemCap - 1)]
      BY <3>6
    <3> HIDE DEF place
    <3> QED BY <3>5, <3>7, <3>8 DEF Injection, IsInjective, Surjection
  <2> HIDE DEF place, chosen
  <2>3. Cardinality(chosen) = ItemCap
    BY <2>1, <2>2, FS_Injection
  <2>4. ~(Cardinality(held) <= ItemCap) /\ Cardinality(chosen) <= ItemCap
    BY <1>2, <1>5, <1>9, <2>3
  <2> QED BY <1>4, <1>6, <1>7, <2>3, <2>4
<1>10. Cardinality(held) <= ItemCap \/ Cardinality(held) > ItemCap
  BY <1>2, <1>5
<1> QED BY <1>8, <1>9, <1>10

\* Every selection the program may make is of items, and no larger than the cap.
LEMMA SelectionsCapped ==
    ASSUME NEW selected \in Selections
    PROVE  selected \subseteq Items /\ Cardinality(selected) <= ItemCap
<1>1. PICK held \in SUBSET Items : \E priority \in [held -> Priorities] : selected = Selected(priority)
  BY DEF Selections
<1>2. PICK priority \in [held -> Priorities] : selected = Selected(priority)
  BY <1>1
<1> QED BY <1>2, SelectionRight

(***************************************************************************)
(* The inductive invariant.                                                *)
(***************************************************************************)

Reconciliations ==
    [at : {"idle", "removing", "saving"}, kind : {"none", "setup", "update", "force"},
     selected : SUBSET Items, todo : SUBSET Items, item : Items \cup {None},
     changed : BOOLEAN, payload : [Items -> Ages]]

\* A stamp that is not early is no older than the absence of its item, which is
\* selected no more.
StampsTrue ==
    \A i \in Items : inactive[i] # None =>
        i \in early \/ (inactive[i] <= away[i] /\ i \notin selection)

\* What is known is in the registry but for the items whose removal is awaited;
\* those enabled among them, and no others, have an entity.
Provided ==
    /\ \A i \in knownItems \ registry : \E p \in Runs : rec[p].at = "removing" /\ rec[p].item = i
    /\ live \subseteq registry \cap Enabled
    /\ knownItems \cap registry \cap Enabled \subseteq live

\* A reconciliation leaves the items alone that it took for selected, and awaits a
\* removal for one it has looked at.
Orderly ==
    \A p \in Runs :
        /\ rec[p].todo \cap rec[p].selected = {}
        /\ rec[p].at = "removing" => /\ rec[p].changed /\ rec[p].item \in Items
                                     /\ rec[p].item \notin rec[p].todo
        /\ rec[p].at = "saving" => rec[p].todo = {}

\* A reconciliation that runs alone works for the present selection; the other
\* items of the registry it has yet to look at, or else has stamped.
Halfway(p) ==
    /\ \A q \in Runs \ {p} : rec[q] = Idle
    /\ rec[p].selected = selection
    /\ rec[p].kind = "force" <=> calm = "force"
    /\ \A i \in selection : inactive[i] = None
    /\ \A i \in registry \ selection :
            \/ i \in rec[p].todo
            \/ rec[p].kind # "force" /\ inactive[i] # None /\ inactive[i] # Grace
    /\ rec[p].at = "removing" => rec[p].item \notin registry

\* What a reconciliation that ran alone leaves behind.
Repaired ==
    /\ selection \subseteq registry
    /\ \A i \in selection : inactive[i] = None
    /\ \A i \in registry \ selection : calm = "grace" /\ inactive[i] # None
    /\ knownItems = registry /\ live = registry \cap Enabled

Repairing ==
    calm # "no" => IF UnderWay = {} THEN Repaired ELSE \A p \in UnderWay : Halfway(p)

SensorsInv ==
    /\ SensorsTypeOK /\ StampsTrue /\ Provided /\ Orderly /\ Repairing

\* Before the first set-up there are no sensors and no stamps.
LEMMA SensorsInvInit == SensorsInit => SensorsInv
<1> SUFFICES ASSUME SensorsInit PROVE SensorsInv
  OBVIOUS
<1>1. Blank \in [Items -> Ages] /\ \A i \in Items : Blank[i] = None
  BY DEF Blank, Ages
<1>2. Idle \in Reconciliations /\ Idle.at = "idle" /\ Idle.todo = {}
  BY <1>1 DEF Idle, Reconciliations
<1>3. Cardinality({}) <= ItemCap
  BY FS_EmptySet
<1>4. rec \in [Runs -> Reconciliations] /\ \A p \in Runs : rec[p].at = "idle" /\ rec[p].todo = {}
  BY <1>2 DEF SensorsInit
<1>5. SensorsTypeOK
  <2>1. away \in [Items -> 0..Grace]
    BY DEF SensorsInit
  <2>2. /\ running \in BOOLEAN /\ selection \subseteq Items /\ Cardinality(selection) <= ItemCap
        /\ registry \subseteq Items /\ knownItems \subseteq Items /\ live \subseteq Enabled
        /\ early \subseteq Items /\ calm \in {"no", "grace", "force"}
    BY <1>3 DEF SensorsInit
  <2>3. inactive \in [Items -> Ages] /\ stored \in [Items -> Ages]
    BY <1>1 DEF SensorsInit
  <2> QED BY <1>4, <2>1, <2>2, <2>3 DEF SensorsTypeOK, Reconciliations
<1>6. StampsTrue /\ Provided /\ Orderly /\ Repairing
  BY <1>1, <1>4 DEF SensorsInit, StampsTrue, Provided, Orderly, Repairing
<1> QED BY <1>5, <1>6 DEF SensorsInv

(***************************************************************************)
(* The end of a reconciliation.                                            *)
(***************************************************************************)

\* A place where no reconciliation runs.
LEMMA IdleFacts ==
    /\ Blank \in [Items -> Ages]
    /\ Idle \in Reconciliations
    /\ Idle.at = "idle" /\ Idle.kind = "none" /\ Idle.todo = {} /\ Idle.selected = {}
BY DEF Blank, Ages, Idle, Reconciliations

\* The end of a reconciliation adds sensors and takes none away.
LEMMA AddKeeps ==
    ASSUME SensorsInv, NEW p \in Runs, NEW r \in Reconciliations, NEW since,
           Add(p, r, since), rec[p].at # "removing"
    PROVE  /\ registry' \subseteq Items /\ knownItems' \subseteq Items /\ live' \subseteq Enabled
           /\ rec' = [rec EXCEPT ![p] = Idle] /\ rec' \in [Runs -> Reconciliations]
           /\ registry \subseteq registry'
           /\ Provided' /\ Orderly'
<1>1. /\ registry \subseteq Items /\ knownItems \subseteq Items /\ live \subseteq Enabled
      /\ rec \in [Runs -> Reconciliations]
  BY DEF SensorsInv, SensorsTypeOK, Reconciliations
<1>2. r.selected \subseteq Items
  BY DEF Reconciliations
<1>3. rec' = [rec EXCEPT ![p] = Idle] /\ rec' \in [Runs -> Reconciliations]
  BY <1>1, IdleFacts DEF Add
<1>4. rec'[p] = Idle /\ \A q \in Runs \ {p} : rec'[q] = rec[q]
  BY <1>1, <1>3
<1>5. Orderly'
  BY <1>4, IdleFacts DEF SensorsInv, Orderly
<1>6. registry \subseteq registry' /\ registry' \subseteq Items
  BY <1>1, <1>2 DEF Add
<1>7. knownItems' \subseteq Items /\ live' \subseteq Enabled
  BY <1>1, <1>2 DEF Add
<1>8. live' \subseteq registry' \cap Enabled /\ knownItems' \cap registry' \cap Enabled \subseteq live'
  BY DEF SensorsInv, Provided, Add
<1>9. ASSUME NEW i \in knownItems' \ registry'
      PROVE  \E q \in Runs : rec'[q].at = "removing" /\ rec'[q].item = i
  <2>1. i \in knownItems \ registry
    BY DEF Add
  <2>2. PICK q \in Runs : rec[q].at = "removing" /\ rec[q].item = i
    BY <2>1 DEF SensorsInv, Provided
  <2> QED BY <1>4, <2>2
<1>10. Provided'
  BY <1>8, <1>9 DEF Provided
<1> QED BY <1>3, <1>5, <1>6, <1>7, <1>10

\* When it ran alone, everything is repaired.
LEMMA AddRepairs ==
    ASSUME NEW p \in Runs, NEW r, NEW since, Add(p, r, since),
           Provided', knownItems \subseteq registry,
           r.selected = selection', inactive' = since,
           calm' \in {"grace", "force"}, r.kind = "force" <=> calm' = "force",
           \A i \in selection' : since[i] = None,
           \A i \in registry \ selection' :
                r.kind # "force" /\ since[i] # None /\ since[i] # Grace
    PROVE  Repaired'
<1>1. knownItems' = knownItems \cup selection' \cup registry /\ registry' = registry \cup selection'
  BY DEF Add
<1>2. knownItems' = registry'
  BY <1>1
<1>3. live' = registry' \cap Enabled
  BY <1>2 DEF Provided
<1>4. \A i \in registry' \ selection' : calm' = "grace" /\ inactive'[i] # None
  BY <1>1
<1> QED BY <1>1, <1>2, <1>3, <1>4 DEF Repaired

(***************************************************************************)
(* The loop over the candidates.                                           *)
(***************************************************************************)

\* What holds when the loop begins or goes on: the stamps it works on are those
\* there are, but for items that it does not look at.
Continues(p, r, since, kept) ==
    /\ r \in Reconciliations /\ since \in [Items -> Ages]
    /\ r.todo \cap r.selected = {}
    /\ \A i \in r.todo : since[i] = inactive[i]
    /\ \A i \in Items : since[i] # None =>
            since[i] = inactive[i] /\ away'[i] = away[i] /\ (i \in selection' => i \in early)
    /\ kept \subseteq knownItems
    /\ rec[p].at = "removing" => r.changed /\ rec[p].item \notin kept

\* As Halfway, of the loop's arguments.
Alone(p, r, since) ==
    /\ \A q \in Runs \ {p} : rec[q] = Idle
    /\ r.selected = selection'
    /\ r.kind = "force" <=> calm' = "force"
    /\ \A i \in selection' : since[i] = None
    /\ \A i \in registry \ selection' :
            \/ i \in r.todo
            \/ r.kind # "force" /\ since[i] # None /\ since[i] # Grace

Stamped(since, done) == [i \in Items |-> IF i \in done /\ since[i] = None THEN 0 ELSE since[i]]
Gone(r, since, done) == {i \in done : r.kind = "force" \/ Stamped(since, done)[i] = Grace}
Awaited(r, since, done) == Gone(r, since, done) \cap registry \cap live
StampsLeft(r, since, done) ==
    [i \in Items |-> IF i \in Gone(r, since, done) \ Awaited(r, since, done)
                     THEN None ELSE Stamped(since, done)[i]]
Further(r, since, done) ==
    [r EXCEPT !.changed = @ \/ Gone(r, since, done) # {} \/ Stamped(since, done) # since,
              !.todo = @ \ done]

\* The loop with its parts named.
LoopBy(p, r, since, kept, done) ==
    /\ Cardinality(Awaited(r, since, done)) <= 1
    /\ Awaited(r, since, done) = {} => done = r.todo
    /\ Stamp(StampsLeft(r, since, done))
    /\ IF Awaited(r, since, done) = {} /\ ~Further(r, since, done).changed
       THEN Add(p, r, StampsLeft(r, since, done))
       ELSE /\ registry' = registry \ Gone(r, since, done)
            /\ live' = live \ Gone(r, since, done)
            /\ knownItems' = kept \ (Gone(r, since, done) \ Awaited(r, since, done))
            /\ rec' = [rec EXCEPT ![p] =
                        IF Awaited(r, since, done) = {}
                        THEN [Further(r, since, done) EXCEPT !.at = "saving",
                                                             !.payload = StampsLeft(r, since, done)]
                        ELSE [Further(r, since, done) EXCEPT !.at = "removing",
                                                             !.item = CHOOSE i \in Awaited(r, since, done) : TRUE]]

\* Loop in terms of the operators above: some candidates are looked at.
LEMMA LoopParts ==
    ASSUME NEW p, NEW r, NEW since, NEW kept, Loop(p, r, since, kept)
    PROVE  \E done \in SUBSET r.todo : LoopBy(p, r, since, kept, done)
BY DEF Loop, LoopBy, Stamped, Gone, Awaited, StampsLeft, Further

\* The removal that is awaited is that of the only such item.
LEMMA OneAwaited ==
    ASSUME NEW S, IsFiniteSet(S), S # {}, Cardinality(S) <= 1
    PROVE  S = {CHOOSE i \in S : TRUE}
<1>1. Cardinality(S) = 1
  BY FS_CardinalityType, FS_EmptySet
<1>2. PICK x : S = {x}
  BY <1>1, FS_Singleton
<1> QED BY <1>2

\* What the loop leaves of the stamps.
LEMMA StampsLeftFacts ==
    ASSUME SensorsInv, NEW r, NEW since, NEW p, NEW kept, Continues(p, r, since, kept),
           NEW done \in SUBSET r.todo
    PROVE  /\ Stamped(since, done) \in [Items -> Ages]
           /\ StampsLeft(r, since, done) \in [Items -> Ages]
           /\ done \subseteq Items
           /\ \A i \in Items \ done : StampsLeft(r, since, done)[i] = since[i]
           /\ \A i \in done : \/ StampsLeft(r, since, done)[i] = since[i]
                              \/ StampsLeft(r, since, done)[i] = None
                              \/ StampsLeft(r, since, done)[i] = 0 /\ since[i] = None
           /\ \A i \in done \ Gone(r, since, done) :
                    /\ r.kind # "force"
                    /\ StampsLeft(r, since, done)[i] # None
                    /\ StampsLeft(r, since, done)[i] # Grace
<1>1. since \in [Items -> Ages] /\ done \subseteq Items
  BY DEF Continues, Reconciliations
<1>2. 0 \in Ages /\ 0 # None /\ None \in Ages
  BY DEF Ages, SensorsInv
<1>3. Stamped(since, done) \in [Items -> Ages]
  BY <1>1, <1>2 DEF Stamped
<1>4. StampsLeft(r, since, done) \in [Items -> Ages]
  BY <1>2, <1>3 DEF StampsLeft
<1>5. Gone(r, since, done) \subseteq done
  BY DEF Gone
<1>6. \A i \in Items \ done : StampsLeft(r, since, done)[i] = since[i]
  BY <1>5 DEF StampsLeft, Stamped
<1>7. \A i \in done : \/ StampsLeft(r, since, done)[i] = since[i]
                      \/ StampsLeft(r, since, done)[i] = None
                      \/ StampsLeft(r, since, done)[i] = 0 /\ since[i] = None
  BY <1>1 DEF StampsLeft, Stamped
<1>8. ASSUME NEW i \in done \ Gone(r, since, done)
      PROVE  /\ r.kind # "force"
             /\ StampsLeft(r, since, done)[i] # None
             /\ StampsLeft(r, since, done)[i] # Grace
  <2>1. i \in Items /\ r.kind # "force" /\ Stamped(since, done)[i] # Grace
    BY <1>1, <1>8 DEF Gone
  <2>2. StampsLeft(r, since, done)[i] = Stamped(since, done)[i]
    BY <2>1 DEF StampsLeft
  <2>3. Stamped(since, done)[i] # None
    BY <1>2, <2>1 DEF Stamped
  <2> QED BY <2>1, <2>2, <2>3
<1> QED BY <1>1, <1>3, <1>4, <1>6, <1>7, <1>8

\* The stamps stay true.
LEMMA LoopStamps ==
    ASSUME SensorsInv, NEW r, NEW since, NEW p, NEW kept, Continues(p, r, since, kept),
           NEW done \in SUBSET r.todo, Stamp(StampsLeft(r, since, done)),
           away' \in [Items -> 0..Grace]
    PROVE  /\ inactive' \in [Items -> Ages] /\ early' \subseteq Items
           /\ StampsTrue'
<1> DEFINE left == StampsLeft(r, since, done)
<1>1. /\ left \in [Items -> Ages] /\ done \subseteq Items
      /\ \A i \in Items : left[i] = since[i] \/ left[i] = None
                        \/ (left[i] = 0 /\ since[i] = None /\ i \in done)
  BY StampsLeftFacts
<1>2. inactive' = left /\ early' \subseteq Items
  BY DEF Stamp
<1> HIDE DEF left
<1>3. ASSUME NEW i \in Items, inactive'[i] # None, i \notin early'
      PROVE  inactive'[i] <= away'[i] /\ i \notin selection'
  <2>1. i \notin early /\ ~(inactive[i] = None /\ i \in selection')
    BY <1>2, <1>3 DEF Stamp, left
  <2>2. CASE left[i] = since[i]
    <3>1. since[i] = inactive[i] /\ away'[i] = away[i] /\ i \notin selection'
      BY <1>2, <1>3, <2>1, <2>2 DEF Continues
    <3>2. inactive[i] <= away[i]
      BY <1>2, <1>3, <2>1, <2>2, <3>1 DEF SensorsInv, StampsTrue
    <3> QED BY <1>2, <2>2, <3>1, <3>2
  <2>3. CASE left[i] = 0 /\ since[i] = None /\ i \in done
    <3>1. inactive[i] = None
      BY <2>3 DEF Continues
    <3> QED BY <1>2, <2>1, <2>3, <3>1
  <2> QED BY <1>1, <1>2, <1>3, <2>2, <2>3
<1> QED BY <1>1, <1>2, <1>3 DEF StampsTrue

\* The types of the variables that the loop leaves alone.
Surroundings ==
    /\ running \in BOOLEAN /\ stored \in [Items -> Ages]
    /\ selection \subseteq Items /\ Cardinality(selection) <= ItemCap
    /\ away \in [Items -> 0..Grace] /\ calm \in {"no", "grace", "force"}

\* The loop came to its end and nothing has changed.
LEMMA LoopEnds ==
    ASSUME SensorsInv, Surroundings',
           NEW p \in Runs, NEW r, NEW since, NEW kept, Continues(p, r, since, kept),
           calm' # "no" => Alone(p, r, since),
           NEW done \in SUBSET r.todo, LoopBy(p, r, since, kept, done),
           Awaited(r, since, done) = {}, ~Further(r, since, done).changed
    PROVE  SensorsInv'
<1> DEFINE left == StampsLeft(r, since, done)
<1>1. Add(p, r, left) /\ Stamp(left) /\ done = r.todo
  BY DEF LoopBy
<1>2. r \in Reconciliations
  BY DEF Continues
<1>3. /\ ~r.changed /\ Gone(r, since, done) = {} /\ Stamped(since, done) = since
  BY <1>2 DEF Further, Reconciliations
<1>4. left = since
  <2>1. since \in [Items -> Ages]
    BY DEF Continues
  <2> QED BY <1>3, <2>1 DEF StampsLeft
<1>5. rec[p].at # "removing"
  BY <1>3 DEF Continues
<1>6. /\ inactive' \in [Items -> Ages] /\ early' \subseteq Items /\ StampsTrue'
  BY <1>1, LoopStamps DEF Surroundings
<1>7. /\ registry' \subseteq Items /\ knownItems' \subseteq Items /\ live' \subseteq Enabled
      /\ rec' = [rec EXCEPT ![p] = Idle] /\ rec' \in [Runs -> Reconciliations]
      /\ Provided' /\ Orderly'
  BY <1>1, <1>2, <1>5, AddKeeps
<1>8. SensorsTypeOK'
  BY <1>6, <1>7 DEF Surroundings, SensorsTypeOK, Reconciliations
<1>9. ASSUME calm' # "no"
      PROVE  Repaired' /\ UnderWay' = {}
  <2>1. Alone(p, r, since)
    BY <1>9
  <2>2. rec \in [Runs -> Reconciliations]
    BY DEF SensorsInv, SensorsTypeOK, Reconciliations
  <2>3. UnderWay' = {}
    BY <1>7, <2>1, <2>2 DEF Alone, UnderWay
  <2>4. knownItems \subseteq registry
    <3>1. \A q \in Runs : rec[q].at # "removing"
      BY <1>5, <2>1, IdleFacts DEF Alone
    <3> QED BY <3>1 DEF SensorsInv, Provided
  <2>5. \A i \in r.todo : left[i] # None /\ left[i] # Grace /\ r.kind # "force"
    BY <1>1, <1>3, StampsLeftFacts
  <2>6. \A i \in registry \ selection' : r.kind # "force" /\ since[i] # None /\ since[i] # Grace
    BY <1>4, <2>1, <2>5 DEF Alone
  <2>7. inactive' = since
    BY <1>1, <1>4 DEF Stamp
  <2>8. calm' \in {"grace", "force"}
    BY <1>9 DEF Surroundings, SensorsInv
  <2>9. /\ r.selected = selection' /\ (r.kind = "force" <=> calm' = "force")
        /\ \A i \in selection' : since[i] = None
    BY <2>1 DEF Alone
  <2>10. Add(p, r, since)
    BY <1>1, <1>4
  <2>11. Repaired'
    BY <1>7, <2>4, <2>6, <2>7, <2>8, <2>9, <2>10, AddRepairs
  <2> QED BY <2>3, <2>11
<1>10. Repairing'
  BY <1>9 DEF Repairing
<1> QED BY <1>6, <1>7, <1>8, <1>10 DEF SensorsInv

\* The loop awaits a removal or the saving.
LEMMA LoopAwaits ==
    ASSUME SensorsInv, Surroundings',
           NEW p \in Runs, NEW r, NEW since, NEW kept, Continues(p, r, since, kept),
           calm' # "no" => Alone(p, r, since),
           NEW done \in SUBSET r.todo, LoopBy(p, r, since, kept, done),
           ~(Awaited(r, since, done) = {} /\ ~Further(r, since, done).changed)
    PROVE  SensorsInv'
<1> DEFINE left == StampsLeft(r, since, done)
           gone == Gone(r, since, done)
           awaited == Awaited(r, since, done)
           further == Further(r, since, done)
           new == IF awaited = {}
                  THEN [further EXCEPT !.at = "saving", !.payload = left]
                  ELSE [further EXCEPT !.at = "removing", !.item = CHOOSE i \in awaited : TRUE]
<1>1. /\ Cardinality(awaited) <= 1 /\ (awaited = {} => done = r.todo) /\ Stamp(left)
      /\ registry' = registry \ gone /\ live' = live \ gone /\ knownItems' = kept \ (gone \ awaited)
      /\ rec' = [rec EXCEPT ![p] = new]
  BY DEF LoopBy
<1>2. r \in Reconciliations /\ r.todo \cap r.selected = {} /\ r.todo \subseteq Items
  BY DEF Continues, Reconciliations
<1>3. /\ inactive' \in [Items -> Ages] /\ early' \subseteq Items /\ StampsTrue'
  BY <1>1, LoopStamps DEF Surroundings
<1>4. left \in [Items -> Ages] /\ inactive' = left
  BY <1>1, StampsLeftFacts DEF Stamp
<1>5. /\ registry \subseteq Items /\ knownItems \subseteq Items /\ live \subseteq Enabled
      /\ rec \in [Runs -> Reconciliations] /\ IsFiniteSet(Items)
  BY DEF SensorsInv, SensorsTypeOK, Reconciliations
<1>6. /\ gone \subseteq done /\ awaited \subseteq gone /\ awaited \subseteq Items /\ gone \subseteq Items
  BY <1>2 DEF Gone, Awaited
<1>7. awaited # {} => awaited = {CHOOSE i \in awaited : TRUE}
  <2>1. IsFiniteSet(awaited)
    BY <1>5, <1>6, FS_Subset
  <2> QED BY <1>1, <2>1, OneAwaited
<1>8. /\ further \in Reconciliations
      /\ further.todo = r.todo \ done /\ further.selected = r.selected /\ further.kind = r.kind
      /\ gone # {} => further.changed
  BY <1>2 DEF Further, Reconciliations
<1> HIDE DEF left, gone, awaited, further
<1>9. /\ new \in Reconciliations
      /\ new.todo = r.todo \ done /\ new.selected = r.selected /\ new.kind = r.kind
      /\ new.at \in {"saving", "removing"}
      /\ new.at = "saving" => awaited = {} /\ new.todo = {}
      /\ new.at = "removing" => /\ awaited = {new.item} /\ new.changed
  <2>1. CASE awaited = {}
    <3>1. new = [further EXCEPT !.at = "saving", !.payload = left]
      BY <2>1
    <3> QED BY <1>1, <1>4, <1>8, <2>1, <3>1 DEF Reconciliations
  <2>2. CASE awaited # {}
    <3>1. new = [further EXCEPT !.at = "removing", !.item = CHOOSE i \in awaited : TRUE]
      BY <2>2
    <3>2. (CHOOSE i \in awaited : TRUE) \in Items
      BY <1>6, <1>7, <2>2
    <3> QED BY <1>6, <1>7, <1>8, <2>2, <3>1, <3>2 DEF Reconciliations
  <2> QED BY <2>1, <2>2
<1> HIDE DEF new
<1>10. /\ rec' \in [Runs -> Reconciliations] /\ rec'[p] = new
       /\ \A q \in Runs \ {p} : rec'[q] = rec[q]
  BY <1>1, <1>5, <1>9
<1>11. SensorsTypeOK'
  <2>1. kept \subseteq knownItems
    BY DEF Continues
  <2> QED BY <1>1, <1>3, <1>5, <1>10, <2>1 DEF Surroundings, SensorsTypeOK, Reconciliations
<1>12. Orderly'
  <2>1. ASSUME NEW q \in Runs
        PROVE  /\ rec'[q].todo \cap rec'[q].selected = {}
               /\ rec'[q].at = "removing" => /\ rec'[q].changed /\ rec'[q].item \in Items
                                             /\ rec'[q].item \notin rec'[q].todo
               /\ rec'[q].at = "saving" => rec'[q].todo = {}
    <3>1. CASE q = p
      BY <1>2, <1>6, <1>9, <1>10, <3>1
    <3>2. CASE q # p
      BY <1>10, <3>2 DEF SensorsInv, Orderly
    <3> QED BY <3>1, <3>2
  <2> QED BY <2>1 DEF Orderly
<1>13. Provided'
  <2>1. kept \subseteq knownItems /\ (rec[p].at = "removing" => rec[p].item \notin kept)
    BY DEF Continues
  <2>2. ASSUME NEW i \in knownItems' \ registry'
        PROVE  \E q \in Runs : rec'[q].at = "removing" /\ rec'[q].item = i
    <3>1. i \in kept /\ (i \in gone => i \in awaited)
      BY <1>1, <2>2
    <3>2. CASE i \in awaited
      BY <1>9, <1>10, <3>2
    <3>3. CASE i \notin awaited
      <4>1. i \in knownItems \ registry
        BY <1>1, <2>1, <2>2, <3>1, <3>3
      <4>2. PICK q \in Runs : rec[q].at = "removing" /\ rec[q].item = i
        BY <4>1 DEF SensorsInv, Provided
      <4>3. q # p
        BY <2>1, <3>1, <4>2
      <4> QED BY <1>10, <4>2, <4>3
    <3> QED BY <3>2, <3>3
  <2>3. live' \subseteq registry' \cap Enabled /\ knownItems' \cap registry' \cap Enabled \subseteq live'
    BY <1>1, <2>1 DEF SensorsInv, Provided
  <2> QED BY <2>2, <2>3 DEF Provided
<1>14. ASSUME calm' # "no"
       PROVE  p \in UnderWay' /\ \A q \in UnderWay' : Halfway(q)'
  <2>1. Alone(p, r, since)
    BY <1>14
  <2>2. p \in UnderWay' /\ \A q \in UnderWay' : q = p
    BY <1>9, <1>10, <2>1, IdleFacts DEF Alone, UnderWay
  <2>3. \A q \in Runs \ {p} : rec'[q] = Idle
    BY <1>10, <2>1 DEF Alone
  <2>4. new.selected = selection' /\ (new.kind = "force" <=> calm' = "force")
    BY <1>9, <2>1 DEF Alone
  <2>5. /\ \A i \in Items \ done : left[i] = since[i]
        /\ \A i \in done \ gone : r.kind # "force" /\ left[i] # None /\ left[i] # Grace
    BY StampsLeftFacts DEF left, gone
  <2>6. \A i \in selection' : inactive'[i] = None
    <3>1. selection' \subseteq Items /\ selection' \cap done = {}
      BY <1>2, <2>1 DEF Surroundings, Alone
    <3> QED BY <1>4, <2>1, <2>5, <3>1 DEF Alone
  <2>7. ASSUME NEW i \in registry' \ selection'
        PROVE  \/ i \in new.todo
               \/ (new.kind # "force" /\ inactive'[i] # None /\ inactive'[i] # Grace)
    <3>1. i \in registry \ selection' /\ i \notin gone /\ i \in Items
      BY <1>1, <1>5, <2>7
    <3>2. CASE i \in done
      BY <1>4, <1>9, <2>5, <3>1, <3>2
    <3>3. CASE i \notin done
      BY <1>4, <1>9, <2>1, <2>5, <3>1, <3>3 DEF Alone
    <3> QED BY <3>2, <3>3
  <2>8. new.at = "removing" => new.item \notin registry'
    BY <1>1, <1>6, <1>9
  <2>9. Halfway(p)'
    BY <1>10, <2>3, <2>4, <2>6, <2>7, <2>8 DEF Halfway
  <2> QED BY <2>2, <2>9
<1>15. Repairing'
  BY <1>14 DEF Repairing
<1> QED BY <1>3, <1>11, <1>12, <1>13, <1>15 DEF SensorsInv

\* A reconciliation that goes on, to its next await or its end, keeps the invariant.
LEMMA LoopInv ==
    ASSUME SensorsInv, Surroundings',
           NEW p \in Runs, NEW r, NEW since, NEW kept, Continues(p, r, since, kept),
           calm' # "no" => Alone(p, r, since), Loop(p, r, since, kept)
    PROVE  SensorsInv'
<1>1. PICK done \in SUBSET r.todo : LoopBy(p, r, since, kept, done)
  BY LoopParts
<1>2. CASE Awaited(r, since, done) = {} /\ ~Further(r, since, done).changed
  BY <1>1, <1>2, LoopEnds
<1>3. CASE ~(Awaited(r, since, done) = {} /\ ~Further(r, since, done).changed)
  BY <1>1, <1>3, LoopAwaits
<1> QED BY <1>2, <1>3

(***************************************************************************)
(* The steps.                                                              *)
(***************************************************************************)

\* What Begin asks of the step it is part of: an item that comes back is absent no
\* more.
Comes ==
    \A i \in Items \ selection' : away'[i] = away[i]

Beginning(kind) ==
    [Idle EXCEPT !.kind = kind, !.selected = selection', !.todo = Candidates(selection'),
                 !.changed = Popped(selection') # inactive]

\* A reconciliation begins with the stamps of the present selection popped.
LEMMA ReconcileContinues ==
    ASSUME SensorsInv, Surroundings', Comes,
           NEW p \in Runs, NEW kind \in {"setup", "update", "force"}, Reconcile(p, kind)
    PROVE  /\ Continues(p, Beginning(kind), Popped(selection'), knownItems)
           /\ calm' # "no" => Alone(p, Beginning(kind), Popped(selection'))
           /\ Loop(p, Beginning(kind), Popped(selection'), knownItems)
           /\ rec[p] = Idle /\ Beginning(kind).kind = kind
<1> DEFINE r == Beginning(kind)
           since == Popped(selection')
<1>1. /\ inactive \in [Items -> Ages] /\ None \in Ages
      /\ registry \subseteq Items /\ knownItems \subseteq Items /\ selection' \subseteq Items
  BY DEF SensorsInv, SensorsTypeOK, Surroundings, Ages
<1>2. since \in [Items -> Ages]
  BY <1>1 DEF Popped
<1>3. \A i \in Items : since[i] = IF i \in selection' THEN None ELSE inactive[i]
  BY DEF Popped
<1>4. /\ r.kind = kind /\ r.selected = selection' /\ r.todo = (knownItems \cup registry) \ selection'
      /\ r.changed = (since # inactive)
  BY DEF Beginning, Idle, Candidates
<1>5. r \in Reconciliations
  <2>1. Candidates(selection') \in SUBSET Items
    BY <1>1 DEF Candidates
  <2>2. (since # inactive) \in BOOLEAN
    OBVIOUS
  <2> QED BY <1>1, <2>1, <2>2, IdleFacts DEF Beginning, Reconciliations
<1>6. rec[p] = Idle /\ Loop(p, r, since, knownItems)
  BY DEF Reconcile, Beginning
<1> HIDE DEF r, since
<1>7. Continues(p, r, since, knownItems)
  BY <1>1, <1>2, <1>3, <1>4, <1>5, <1>6, IdleFacts DEF Continues, Comes
<1>8. ASSUME calm' # "no"
      PROVE  Alone(p, r, since)
  <2>1. UnderWay = {} /\ (kind = "force" <=> calm' = "force")
    BY <1>8 DEF Reconcile
  <2>2. \A q \in Runs : rec[q] = Idle
    BY <2>1 DEF UnderWay
  <2> QED BY <1>1, <1>3, <1>4, <2>1, <2>2 DEF Alone
<1> QED BY <1>4, <1>6, <1>7, <1>8 DEF r, since

\* The begin of a reconciliation keeps the invariant.
LEMMA ReconcileInv ==
    ASSUME SensorsInv, Surroundings', Comes,
           NEW p \in Runs, NEW kind \in {"setup", "update", "force"}, Reconcile(p, kind)
    PROVE  SensorsInv'
BY ReconcileContinues, LoopInv

\* A reconciliation goes on without the item whose removal it awaited.
LEMMA RemovedContinues ==
    ASSUME SensorsInv, NEW p \in Runs, Removed(p)
    PROVE  /\ Surroundings'
           /\ Continues(p, [rec[p] EXCEPT !.item = None], [inactive EXCEPT ![rec[p].item] = None],
                        knownItems \ {rec[p].item})
           /\ calm' # "no" => Alone(p, [rec[p] EXCEPT !.item = None],
                                    [inactive EXCEPT ![rec[p].item] = None])
<1> DEFINE r == [rec[p] EXCEPT !.item = None]
           since == [inactive EXCEPT ![rec[p].item] = None]
<1>1. /\ inactive \in [Items -> Ages] /\ None \in Ages /\ rec[p] \in Reconciliations
      /\ rec[p].at = "removing" /\ UNCHANGED <<running, selection, stored, away, calm>>
  BY DEF SensorsInv, SensorsTypeOK, Reconciliations, Ages, Removed
<1>2. /\ rec[p].todo \cap rec[p].selected = {} /\ rec[p].changed
      /\ rec[p].item \in Items /\ rec[p].item \notin rec[p].todo
  BY <1>1 DEF SensorsInv, Orderly
<1>3. /\ r \in Reconciliations /\ r.kind = rec[p].kind /\ r.selected = rec[p].selected
      /\ r.todo = rec[p].todo /\ r.changed = rec[p].changed
  BY <1>1 DEF Reconciliations
<1>4. /\ since \in [Items -> Ages]
      /\ \A i \in Items : since[i] = IF i = rec[p].item THEN None ELSE inactive[i]
  BY <1>1
<1> HIDE DEF r, since
<1>5. Surroundings'
  BY <1>1 DEF SensorsInv, SensorsTypeOK, Surroundings
<1>6. \A i \in Items : i \in selection /\ inactive[i] # None => i \in early
  BY DEF SensorsInv, StampsTrue
<1>7. r.todo \subseteq Items
  BY <1>3 DEF Reconciliations
<1>8. Continues(p, r, since, knownItems \ {rec[p].item})
  BY <1>1, <1>2, <1>3, <1>4, <1>6, <1>7 DEF Continues
<1>9. ASSUME calm' # "no"
      PROVE  Alone(p, r, since)
  <2>1. p \in UnderWay
    BY <1>1, IdleFacts DEF UnderWay
  <2>2. Halfway(p)
    BY <1>1, <1>9, <2>1 DEF SensorsInv, Repairing
  <2>3. selection \subseteq Items /\ registry \subseteq Items
    BY DEF SensorsInv, SensorsTypeOK
  <2>4. rec[p].item \notin registry
    BY <1>1, <2>2 DEF Halfway
  <2> QED BY <1>1, <1>2, <1>3, <1>4, <2>2, <2>3, <2>4 DEF Halfway, Alone
<1> QED BY <1>5, <1>8, <1>9 DEF r, since

\* A removal that ends keeps the invariant.
LEMMA RemovedInv ==
    ASSUME SensorsInv, NEW p \in Runs, Removed(p)
    PROVE  SensorsInv'
<1>1. Loop(p, [rec[p] EXCEPT !.item = None], [inactive EXCEPT ![rec[p].item] = None],
           knownItems \ {rec[p].item})
  BY DEF Removed
<1> QED BY <1>1, RemovedContinues, LoopInv

\* Stamps that are saved, after which the reconciliation ends, keep the invariant.
LEMMA SavedInv ==
    ASSUME SensorsInv, NEW p \in Runs, Saved(p)
    PROVE  SensorsInv'
<1>1. /\ rec \in [Runs -> Reconciliations] /\ rec[p] \in Reconciliations
      /\ inactive \in [Items -> Ages] /\ early \subseteq Items /\ Surroundings
  BY DEF SensorsInv, SensorsTypeOK, Reconciliations, Surroundings
<1>2. /\ rec[p].at = "saving" /\ stored' = rec[p].payload /\ Add(p, rec[p], inactive)
      /\ UNCHANGED <<running, selection, inactive, away, early, calm>>
  BY DEF Saved
<1>3. /\ registry' \subseteq Items /\ knownItems' \subseteq Items /\ live' \subseteq Enabled
      /\ rec' = [rec EXCEPT ![p] = Idle] /\ rec' \in [Runs -> Reconciliations]
      /\ Provided' /\ Orderly'
  BY <1>1, <1>2, AddKeeps
<1>4. stored' \in [Items -> Ages]
  BY <1>1, <1>2 DEF Reconciliations
<1>5. SensorsTypeOK'
  BY <1>1, <1>2, <1>3, <1>4 DEF Surroundings, SensorsTypeOK, Reconciliations
<1>6. StampsTrue'
  BY <1>2 DEF SensorsInv, StampsTrue
<1>7. ASSUME calm' # "no"
      PROVE  Repaired' /\ UnderWay' = {}
  <2>1. p \in UnderWay
    BY <1>2, IdleFacts DEF UnderWay
  <2>2. Halfway(p)
    BY <1>2, <1>7, <2>1 DEF SensorsInv, Repairing
  <2>3. UnderWay' = {}
    BY <1>1, <1>3, <2>2 DEF Halfway, UnderWay
  <2>4. knownItems \subseteq registry
    <3>1. \A q \in Runs : rec[q].at # "removing"
      BY <1>2, <2>2, IdleFacts DEF Halfway
    <3> QED BY <3>1 DEF SensorsInv, Provided
  <2>5. rec[p].todo = {}
    BY <1>2 DEF SensorsInv, Orderly
  <2>6. \A i \in registry \ selection' :
            rec[p].kind # "force" /\ inactive[i] # None /\ inactive[i] # Grace
    BY <1>2, <2>2, <2>5 DEF Halfway
  <2>7. /\ rec[p].selected = selection' /\ (rec[p].kind = "force" <=> calm' = "force")
        /\ \A i \in selection' : inactive[i] = None
        /\ inactive' = inactive
    BY <1>2, <2>2 DEF Halfway
  <2>8. calm' \in {"grace", "force"}
    BY <1>1, <1>2, <1>7 DEF Surroundings, SensorsInv
  <2>9. Repaired'
    BY <1>2, <1>3, <2>4, <2>6, <2>7, <2>8, AddRepairs
  <2> QED BY <2>3, <2>9
<1>8. Repairing'
  BY <1>7 DEF Repairing
<1> QED BY <1>3, <1>5, <1>6, <1>8 DEF SensorsInv

\* An update keeps the invariant, whether or not it begins a reconciliation.
LEMMA UpdateInv ==
    ASSUME SensorsInv, NEW p \in Runs, NEW selected \in Selections, Update(p, selected)
    PROVE  SensorsInv'
<1>1. /\ selection' = selected /\ UNCHANGED <<running, stored>>
      /\ away' = [i \in Items |-> IF i \in selection' THEN 0 ELSE away[i]]
  BY DEF Update
<1>2. selected \subseteq Items /\ Cardinality(selected) <= ItemCap
  BY SelectionsCapped DEF SensorsInv
<1>3. away \in [Items -> 0..Grace] /\ 0 \in 0..Grace
  BY DEF SensorsInv, SensorsTypeOK
<1>4. away' \in [Items -> 0..Grace] /\ Comes
  BY <1>1, <1>3 DEF Comes
<1>5. CASE ~SettingUp
  <2>1. Reconcile(p, "update")
    BY <1>5 DEF Update
  <2>2. calm' \in {"no", "grace", "force"}
    BY <2>1 DEF Reconcile
  <2>3. Surroundings'
    BY <1>1, <1>2, <1>4, <2>2 DEF Surroundings, SensorsInv, SensorsTypeOK
  <2> QED BY <1>4, <2>1, <2>3, ReconcileInv
<1>6. CASE SettingUp
  <2>1. /\ calm' = "no" /\ early' = early \cup {i \in selected : inactive[i] # None}
        /\ UNCHANGED <<registry, knownItems, live, inactive, rec>>
    BY <1>6 DEF Update
  <2>2. SensorsTypeOK'
    BY <1>1, <1>2, <1>4, <2>1 DEF SensorsInv, SensorsTypeOK
  <2>3. StampsTrue'
    BY <1>1, <1>2, <1>4, <2>1 DEF SensorsInv, StampsTrue, Comes
  <2>4. Provided' /\ Orderly' /\ Repairing'
    BY <2>1 DEF SensorsInv, Provided, Orderly, Repairing
  <2> QED BY <2>2, <2>3, <2>4 DEF SensorsInv
<1> QED BY <1>5, <1>6

\* The clean-up button keeps the invariant.
LEMMA CleanUpInv ==
    ASSUME SensorsInv, NEW p \in Runs, CleanUp(p)
    PROVE  SensorsInv'
<1>1. Reconcile(p, "force") /\ UNCHANGED <<running, selection, stored, away>>
  BY DEF CleanUp
<1>2. calm' \in {"no", "grace", "force"}
  BY <1>1 DEF Reconcile
<1>3. Surroundings' /\ Comes
  BY <1>1, <1>2 DEF Surroundings, Comes, SensorsInv, SensorsTypeOK
<1> QED BY <1>1, <1>3, ReconcileInv

\* The set-up of the platform keeps the invariant, whatever the registry holds.
LEMMA StartInv ==
    ASSUME SensorsInv, NEW p \in Runs, NEW selected \in Selections, Start(p, selected)
    PROVE  SensorsInv'
<1>1. /\ selection' = selected /\ running' = TRUE /\ stored' = stored /\ Reconcile(p, "setup")
      /\ away' = [i \in Items |-> IF i \in selection' THEN 0 ELSE away[i]]
  BY DEF Start
<1>2. selected \subseteq Items /\ Cardinality(selected) <= ItemCap
  BY SelectionsCapped DEF SensorsInv
<1>3. away \in [Items -> 0..Grace] /\ 0 \in 0..Grace
  BY DEF SensorsInv, SensorsTypeOK
<1>4. away' \in [Items -> 0..Grace] /\ Comes
  BY <1>1, <1>3 DEF Comes
<1>5. calm' \in {"no", "grace", "force"}
  BY <1>1 DEF Reconcile
<1>6. Surroundings'
  BY <1>1, <1>2, <1>4, <1>5 DEF Surroundings, SensorsInv, SensorsTypeOK
<1> QED BY <1>1, <1>4, <1>6, ReconcileInv

\* Whatever stamps an unload or a stop loses, what is left keeps the invariant.
LEMMA StopInv ==
    ASSUME SensorsInv, NEW flush \in BOOLEAN, Stop(flush)
    PROVE  SensorsInv'
<1>1. /\ running' = FALSE /\ inactive' = stored' /\ selection' = {} /\ knownItems' = {} /\ live' = {}
      /\ rec' = [q \in Runs |-> Idle] /\ calm' = "no" /\ UNCHANGED <<registry, away>>
      /\ stored' = IF flush THEN inactive ELSE stored
  BY DEF Stop
<1>2. rec' \in [Runs -> Reconciliations] /\ \A q \in Runs : rec'[q] = Idle
  BY <1>1, IdleFacts
<1>3. stored' \in [Items -> Ages]
  BY <1>1 DEF SensorsInv, SensorsTypeOK
<1>4. Cardinality(selection') <= ItemCap
  BY <1>1, FS_EmptySet DEF SensorsInv
<1>5. early' = {i \in Items : stored'[i] # None /\ (i \in early \/ stored'[i] # inactive[i])}
  BY DEF Stop
<1>6. SensorsTypeOK'
  BY <1>1, <1>2, <1>3, <1>4, <1>5 DEF SensorsInv, SensorsTypeOK, Reconciliations
<1>7. StampsTrue'
  BY <1>1, <1>5 DEF SensorsInv, StampsTrue
<1>8. Provided' /\ Orderly' /\ Repairing'
  BY <1>1, <1>2, IdleFacts DEF Provided, Orderly, Repairing
<1> QED BY <1>6, <1>7, <1>8 DEF SensorsInv

\* An age a day later.
LEMMA OneDayMore ==
    ASSUME NEW n \in 0..Grace
    PROVE  /\ Min({n + 1, Grace}) \in 0..Grace
           /\ Min({n + 1, Grace}) = IF n < Grace THEN n + 1 ELSE Grace
<1>0. Grace \in Nat
  OBVIOUS
<1>1. \E x \in {n + 1, Grace} : \A y \in {n + 1, Grace} : x <= y
  <2>1. CASE n < Grace
    BY <1>0, <2>1
  <2>2. CASE n = Grace
    BY <1>0, <2>2
  <2> QED BY <1>0, <2>1, <2>2
<1>2. /\ Min({n + 1, Grace}) \in {n + 1, Grace}
      /\ \A y \in {n + 1, Grace} : Min({n + 1, Grace}) <= y
  BY <1>1, Zenon DEF Min
<1> QED BY <1>0, <1>2

OneOlder(age) == IF age = None THEN None ELSE Min({age + 1, Grace})

\* A day more keeps the order of ages, and a stamp a stamp.
LEMMA OlderFacts ==
    /\ \A age \in Ages : OneOlder(age) \in Ages /\ (OneOlder(age) = None <=> age = None)
    /\ \A n \in 0..Grace : OneOlder(n) \in 0..Grace
    /\ \A m, n \in 0..Grace : m <= n => OneOlder(m) <= OneOlder(n)
<1>1. None \notin 0..Grace /\ Grace \in Nat
  OBVIOUS
<1>2. \A n \in 0..Grace : /\ OneOlder(n) \in 0..Grace
                          /\ OneOlder(n) = IF n < Grace THEN n + 1 ELSE Grace
  BY <1>1, OneDayMore DEF OneOlder
<1>3. OneOlder(None) = None
  BY DEF OneOlder
<1>4. \A m, n \in 0..Grace : m <= n => OneOlder(m) <= OneOlder(n)
  BY <1>1, <1>2
<1> QED BY <1>1, <1>2, <1>3, <1>4 DEF Ages

\* Stamps and absences grow older together.
LEMMA DayInv ==
    ASSUME SensorsInv, DayPasses
    PROVE  SensorsInv'
<1>1. /\ UnderWay = {} /\ UNCHANGED <<running, selection, registry, knownItems, live, rec, early, calm>>
      /\ inactive' = [i \in Items |-> OneOlder(inactive[i])]
      /\ stored' = [i \in Items |-> OneOlder(stored[i])]
      /\ away' = [i \in Items |-> IF i \in selection THEN 0 ELSE OneOlder(away[i])]
  BY DEF DayPasses, OneOlder
<1>2. /\ 0 \in 0..Grace /\ None \notin 0..Grace
      /\ inactive \in [Items -> Ages] /\ stored \in [Items -> Ages]
      /\ away \in [Items -> 0..Grace]
  BY DEF SensorsInv, SensorsTypeOK
<1>3. /\ inactive' \in [Items -> Ages] /\ stored' \in [Items -> Ages]
      /\ away' \in [Items -> 0..Grace]
  BY <1>1, <1>2, OlderFacts
<1>4. \A i \in Items : inactive'[i] = None <=> inactive[i] = None
  BY <1>1, <1>2, OlderFacts
<1>5. SensorsTypeOK'
  BY <1>1, <1>3 DEF SensorsInv, SensorsTypeOK
<1>6. ASSUME NEW i \in Items, inactive'[i] # None, i \notin early
      PROVE  inactive'[i] <= away'[i] /\ i \notin selection'
  <2>1. inactive[i] <= away[i] /\ i \notin selection /\ inactive[i] # None
    BY <1>4, <1>6 DEF SensorsInv, StampsTrue
  <2>2. inactive[i] \in 0..Grace /\ away[i] \in 0..Grace
    BY <1>2, <2>1 DEF Ages
  <2>3. OneOlder(inactive[i]) <= OneOlder(away[i])
    BY <1>2, <2>1, <2>2, OlderFacts
  <2> QED BY <1>1, <2>1, <2>3
<1>7. StampsTrue'
  BY <1>1, <1>6 DEF StampsTrue
<1>8. Provided' /\ Orderly'
  BY <1>1 DEF SensorsInv, Provided, Orderly
<1>9. UnderWay' = {}
  BY <1>1 DEF UnderWay
<1>10. selection \subseteq Items /\ registry \subseteq Items
  BY DEF SensorsInv, SensorsTypeOK
<1>11. Repairing'
  BY <1>1, <1>4, <1>9, <1>10 DEF SensorsInv, Repairing, Repaired
<1> QED BY <1>2, <1>5, <1>7, <1>8, <1>11 DEF SensorsInv

\* Every step keeps the invariant.
LEMMA SensorsInvNext ==
    ASSUME SensorsInv, [SensorsNext]_sensorsVars
    PROVE  SensorsInv'
<1>1. ASSUME NEW p \in Runs, Removed(p)
      PROVE  SensorsInv'
  BY <1>1, RemovedInv
<1>2. ASSUME NEW p \in Runs, Saved(p)
      PROVE  SensorsInv'
  BY <1>2, SavedInv
<1>3. ASSUME NEW p \in Runs, CleanUp(p)
      PROVE  SensorsInv'
  BY <1>3, CleanUpInv
<1>4. ASSUME NEW p \in Runs, NEW selected \in Selections, Update(p, selected)
      PROVE  SensorsInv'
  BY <1>4, UpdateInv
<1>5. ASSUME NEW p \in Runs, NEW selected \in Selections, Start(p, selected)
      PROVE  SensorsInv'
  BY <1>5, StartInv
<1>6. ASSUME NEW flush \in BOOLEAN, Stop(flush)
      PROVE  SensorsInv'
  BY <1>6, StopInv
<1>7. CASE DayPasses
  BY <1>7, DayInv
<1>8. CASE UNCHANGED sensorsVars
  BY <1>8 DEF sensorsVars, SensorsInv, SensorsTypeOK, StampsTrue, Provided, Orderly, Repairing,
              Repaired, Halfway, UnderWay
<1> QED BY <1>1, <1>2, <1>3, <1>4, <1>5, <1>6, <1>7, <1>8 DEF SensorsNext

(***************************************************************************)
(* The theorems.                                                           *)
(***************************************************************************)

\* The invariant holds in every state of the sensors.
LEMMA SensorsSafe == SensorsSpec => []SensorsInv
<1>1. SensorsInit => SensorsInv
  BY SensorsInvInit
<1>2. SensorsInv /\ [SensorsNext]_sensorsVars => SensorsInv'
  BY SensorsInvNext
<1> QED BY <1>1, <1>2, PTL DEF SensorsSpec

\* Every variable has its type, and the selection is within the cap, for any items,
\* cap and grace period, and any number of reconciliations under way together.
THEOREM SensorsTyped == SensorsSpec => []SensorsTypeOK
<1>1. SensorsInv => SensorsTypeOK
  BY DEF SensorsInv
<1> QED BY <1>1, SensorsSafe, PTL

\* After a reconciliation that ran alone the sensors are those of the selection and
\* of the items in their grace period, whatever was left behind by reconciliations
\* that overlapped or by a stop half way.
THEOREM SensorsReconciled == SensorsSpec => []Reconciled
<1>1. SensorsInv => Reconciled
  BY DEF SensorsInv, Repairing, Repaired, Reconciled
<1> QED BY <1>1, SensorsSafe, PTL

\* What a loop takes out of the registry without force was stamped for the whole
\* grace period.
LEMMA LoopGrace ==
    ASSUME SensorsInv, NEW p \in Runs, NEW r, NEW since, NEW kept, Continues(p, r, since, kept),
           Loop(p, r, since, kept), rec'[p].kind # "force"
    PROVE  \A i \in registry \ registry' : away[i] = Grace \/ i \in early
<1>1. PICK done \in SUBSET r.todo : LoopBy(p, r, since, kept, done)
  BY LoopParts
<1>2. /\ rec \in [Runs -> Reconciliations] /\ r \in Reconciliations
      /\ since \in [Items -> Ages] /\ away \in [Items -> 0..Grace]
      /\ Grace \in Nat /\ None \notin Nat /\ inactive \in [Items -> Ages]
      /\ registry \subseteq Items
  BY DEF SensorsInv, SensorsTypeOK, Reconciliations, Continues
<1>3. CASE Awaited(r, since, done) = {} /\ ~Further(r, since, done).changed
  <2>1. registry \subseteq registry'
    BY <1>1, <1>3 DEF LoopBy, Add
  <2> QED BY <2>1
<1>4. CASE ~(Awaited(r, since, done) = {} /\ ~Further(r, since, done).changed)
  <2>1. registry' = registry \ Gone(r, since, done)
    BY <1>1, <1>4 DEF LoopBy
  <2>2. rec'[p].kind = r.kind
    <3>1. Further(r, since, done) \in Reconciliations /\ Further(r, since, done).kind = r.kind
      BY <1>2 DEF Further, Reconciliations
    <3>2. CASE Awaited(r, since, done) = {}
      <4>1. rec'[p] = [Further(r, since, done) EXCEPT !.at = "saving",
                                                      !.payload = StampsLeft(r, since, done)]
        BY <1>1, <1>2, <1>4, <3>2 DEF LoopBy
      <4> QED BY <3>1, <4>1 DEF Reconciliations
    <3>3. CASE Awaited(r, since, done) # {}
      <4>1. rec'[p] = [Further(r, since, done) EXCEPT !.at = "removing",
                          !.item = CHOOSE i \in Awaited(r, since, done) : TRUE]
        BY <1>1, <1>2, <1>4, <3>3 DEF LoopBy
      <4> QED BY <3>1, <4>1 DEF Reconciliations
    <3> QED BY <3>2, <3>3
  <2>3. ASSUME NEW i \in registry \ registry'
        PROVE  away[i] = Grace \/ i \in early
    <3>1. i \in done /\ i \in r.todo /\ i \in Items /\ Stamped(since, done)[i] = Grace
      BY <1>2, <2>1, <2>2, <2>3 DEF Gone
    <3>2. since[i] = inactive[i]
      BY <3>1 DEF Continues
    <3>3. CASE inactive[i] = None
      <4>1. Grace = 0
        BY <3>1, <3>2, <3>3 DEF Stamped
      <4>2. away[i] \in 0..Grace
        BY <1>2, <3>1
      <4> QED BY <4>1, <4>2
    <3>4. CASE inactive[i] # None
      <4>1. inactive[i] = Grace
        BY <3>1, <3>2, <3>4 DEF Stamped
      <4>2. i \in early \/ Grace <= away[i]
        BY <3>1, <3>4, <4>1 DEF SensorsInv, StampsTrue
      <4>3. away[i] \in 0..Grace
        BY <1>2, <3>1
      <4> QED BY <1>2, <4>2, <4>3
    <3> QED BY <3>3, <3>4
  <2> QED BY <2>3
<1> QED BY <1>3, <1>4

\* Only the loop of a reconciliation takes items out of the registry.
GraceStep ==
    \A p \in Runs : rec'[p] # rec[p] /\ rec'[p].kind # "force" =>
        \A i \in registry \ registry' : away[i] = Grace \/ i \in early

\* A reconciliation that goes on leaves the others where they are.
LEMMA OthersUnchanged ==
    ASSUME SensorsInv, NEW p, NEW r, NEW since, NEW kept, Loop(p, r, since, kept)
    PROVE  \A q \in Runs \ {p} : rec'[q] = rec[q]
<1>1. PICK done \in SUBSET r.todo : LoopBy(p, r, since, kept, done)
  BY LoopParts
<1>2. rec \in [Runs -> Reconciliations]
  BY DEF SensorsInv, SensorsTypeOK, Reconciliations
<1>3. \E new : rec' = [rec EXCEPT ![p] = new]
  BY <1>1 DEF LoopBy, Add
<1> QED BY <1>2, <1>3

\* A reconciliation that goes on removes none early.
LEMMA LoopGraceStep ==
    ASSUME SensorsInv, NEW p \in Runs, NEW r, NEW since, NEW kept, Continues(p, r, since, kept),
           Loop(p, r, since, kept)
    PROVE  GraceStep
<1>1. ASSUME rec'[p].kind # "force"
      PROVE  \A i \in registry \ registry' : away[i] = Grace \/ i \in early
  BY <1>1, LoopGrace
<1>2. \A q \in Runs \ {p} : rec'[q] = rec[q]
  BY OthersUnchanged
<1> QED BY <1>1, <1>2 DEF GraceStep

\* No step removes a sensor early.
LEMMA NextGrace ==
    ASSUME SensorsInv, SensorsInv', [SensorsNext]_sensorsVars
    PROVE  GraceStep
<1>1. ASSUME NEW p \in Runs, Removed(p)
      PROVE  GraceStep
  <2>1. Loop(p, [rec[p] EXCEPT !.item = None], [inactive EXCEPT ![rec[p].item] = None],
             knownItems \ {rec[p].item})
    BY <1>1 DEF Removed
  <2> QED BY <1>1, <2>1, RemovedContinues, LoopGraceStep
<1>2. ASSUME registry \subseteq registry'
      PROVE  GraceStep
  BY <1>2 DEF GraceStep
<1>3. ASSUME NEW p \in Runs, Saved(p)
      PROVE  GraceStep
  BY <1>2, <1>3 DEF Saved, Add
<1>4. ASSUME NEW p \in Runs, NEW kind \in {"setup", "update", "force"}, Reconcile(p, kind), Comes
      PROVE  GraceStep
  <2>1. Surroundings'
    BY DEF SensorsInv, SensorsTypeOK, Surroundings
  <2> QED BY <1>4, <2>1, ReconcileContinues, LoopGraceStep
<1>5. ASSUME NEW p \in Runs, CleanUp(p)
      PROVE  GraceStep
  BY <1>4, <1>5 DEF CleanUp, Comes
<1>6. ASSUME NEW p \in Runs, NEW selected \in Selections, Update(p, selected)
      PROVE  GraceStep
  <2>1. CASE SettingUp
    BY <1>2, <1>6, <2>1 DEF Update
  <2>2. CASE ~SettingUp
    <3>1. Comes
      BY <1>6 DEF Update, Comes
    <3> QED BY <1>4, <1>6, <2>2, <3>1 DEF Update
  <2> QED BY <2>1, <2>2
<1>7. ASSUME NEW p \in Runs, NEW selected \in Selections, Start(p, selected)
      PROVE  GraceStep
  <2>1. Comes
    BY <1>7 DEF Start, Comes
  <2> QED BY <1>4, <1>7, <2>1 DEF Start
<1>8. ASSUME NEW flush \in BOOLEAN, Stop(flush)
      PROVE  GraceStep
  BY <1>2, <1>8 DEF Stop
<1>9. CASE DayPasses
  BY <1>2, <1>9 DEF DayPasses
<1>10. CASE UNCHANGED sensorsVars
  BY <1>2, <1>10 DEF sensorsVars
<1> QED BY <1>1, <1>3, <1>5, <1>6, <1>7, <1>8, <1>9, <1>10 DEF SensorsNext

\* No item is taken out of the registry before it was out of the selection for the
\* whole grace period, unless the button was pressed or its stamp is early: for any
\* grace period, restarts, and any number of reconciliations that overlap.
THEOREM SensorsGrace == SensorsSpec => GraceHonoured
<1>1. SensorsInv /\ SensorsInv' /\ [SensorsNext]_sensorsVars => [GraceStep]_sensorsVars
  BY NextGrace
<1>2. SensorsSpec => [][GraceStep]_sensorsVars
  BY <1>1, SensorsSafe, PTL DEF SensorsSpec
<1> QED BY <1>2 DEF GraceHonoured, GraceStep
=============================================================================
