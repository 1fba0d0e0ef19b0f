--------------------------- MODULE SectionSchedule ---------------------------
(***************************************************************************)
(* Which sections of the payload a refresh asks eBay for (coordinator.py)  *)
(* and what is recorded of the answer (section_fetch.py): the scheduled    *)
(* poll, the refresh buttons with their cooldown and force flags, the time *)
(* stamps of attempts and successes, and the partial-failure list.         *)
(*                                                                         *)
(* Time is kept as ages, in ticks, up to Cap, so that the clock needs no   *)
(* bound.  A success stamp is always written together with the attempt     *)
(* stamp, hence "attempt newer than success" is "the last attempt failed", *)
(* kept as the set failed.                                                 *)
(***************************************************************************)
EXTENDS Integers

CONSTANTS
    Sections,       \* sections enabled by the options
    Lenient,        \* sections stamped as a success although a call of theirs failed
                    \* (selling: views, offers) or was cut (fulfillment, messages)
    Scopeless,      \* enabled sections whose OAuth scope was not granted
    Buttons,        \* the sets of sections the refresh buttons ask for
    Interval,       \* section_interval_minutes
    Retry,          \* section_retry_minutes
    PollInterval,   \* update_interval
    Cooldown,       \* MANUAL_REFRESH_COOLDOWN_SECONDS
    Cap             \* bound: ages above it are not told apart

ASSUME SectionScheduleAssumption ==
    /\ Lenient \subseteq Sections /\ Scopeless \subseteq Sections
    /\ Cap \in Nat
    /\ Interval \in [Sections -> 1..Cap] /\ Retry \in [Sections -> 1..Cap]
    /\ PollInterval \in Nat \ {0} /\ Cooldown \in 0..Cap

Never == -1
Age == 0..Cap
AgeOrNever == Age \cup {Never}
NoTimer == -1
Starters == {"poll", "manual"}

\* What a payload says of its sections; shown are those with a category in
\* partial_failures.
Stamps == [success : [Sections -> AgeOrNever], attempt : [Sections -> AgeOrNever],
           failed : SUBSET Sections, shown : SUBSET Sections]

VARIABLES
    known,          \* self.data is not None
    data,           \* the stamps of self.data
    flight,         \* the refreshes under way: what each asks for, and the
                    \* payload it will merge the answer into
    untilPoll,      \* time until the scheduled poll, NoTimer when unscheduled
    sincePress,     \* age of _manual_refresh_last_requested
    forced,         \* _force_full_refresh, or _force_sections is not None
    forceSections,  \* the sections forced
    debounced       \* Home Assistant holds a requested refresh back for a moment

vars == <<known, data, flight, untilPoll, sincePress, forced, forceSections, debounced>>

NoStamps == [success |-> [s \in Sections |-> Never], attempt |-> [s \in Sections |-> Never],
             failed |-> {}, shown |-> {}]
NoFlight == [busy |-> FALSE, due |-> {}, base |-> NoStamps]
Busy(f) == flight[f].busy

\* The lock of Home Assistant's debouncer, held by the poll and by a requested
\* refresh alike.
Locked == \E f \in Starters : Busy(f)

-----------------------------------------------------------------------------
\* Enabled sections due for refresh, without force.
DueAnyScope ==
    {s \in Sections :
        \/ data.success[s] = Never /\ data.attempt[s] = Never
        \/ data.success[s] >= Interval[s]
        \/ s \in data.failed /\ data.attempt[s] >= Retry[s]}

DueIgnoringRetry ==
    {s \in Sections :
        \/ data.success[s] = Never /\ data.attempt[s] = Never
        \/ data.success[s] >= Interval[s]}

Due ==
    IF ~known THEN Sections
    ELSE {s \in Sections :
            \/ data.success[s] = Never /\ data.attempt[s] = Never
            \/ data.success[s] >= Interval[s]
            \/ /\ s \in data.failed
               /\ s \notin Scopeless \cap data.shown
               /\ data.attempt[s] >= Retry[s]}

\* async_fetch_sections merges the answer into the payload the refresh started
\* from: bad sections failed, incomplete ones are stamped all the same.
MergedForgetful(base, due, bad, incomplete) ==
    [success |-> [s \in Sections |-> IF s \in due \ bad THEN 0 ELSE base.success[s]],
     attempt |-> [s \in Sections |-> IF s \in due THEN 0 ELSE base.attempt[s]],
     failed |-> (base.failed \ due) \cup bad,
     shown |-> bad \cup incomplete \cup Scopeless]

Merged(base, due, bad, incomplete) ==
    [success |-> [s \in Sections |-> IF s \in due \ bad THEN 0 ELSE base.success[s]],
     attempt |-> [s \in Sections |-> IF s \in due THEN 0 ELSE base.attempt[s]],
     failed |-> (base.failed \ due) \cup bad,
     shown |-> (base.shown \ due) \cup bad \cup incomplete \cup Scopeless]

Older(age) == IF age = Never \/ age = Cap THEN age ELSE age + 1
Aged(stamps) ==
    [success |-> [s \in Sections |-> Older(stamps.success[s])],
     attempt |-> [s \in Sections |-> Older(stamps.attempt[s])],
     failed |-> stamps.failed, shown |-> stamps.shown]

-----------------------------------------------------------------------------
Init ==
    /\ known = FALSE
    /\ data = NoStamps
    /\ flight = [f \in Starters |-> NoFlight]
    /\ untilPoll = 0
    /\ sincePress = Never
    /\ forced = FALSE /\ forceSections = {} /\ debounced = FALSE

Tick ==
    /\ data' = Aged(data)
    /\ flight' = [f \in Starters |-> [flight[f] EXCEPT !.base = Aged(@)]]
    /\ untilPoll' = IF untilPoll > 0 THEN untilPoll - 1 ELSE untilPoll
    /\ sincePress' = Older(sincePress)
    /\ UNCHANGED <<known, forced, forceSections, debounced>>

\* A refresh begins and consumes the force flags; Home Assistant takes down the
\* scheduled poll and a request held back, and schedules the next poll when it
\* ends.  With nothing to ask for it ends at once.
Begin(f, due) ==
    /\ forced' = FALSE /\ forceSections' = {} /\ debounced' = FALSE
    /\ IF due = {} /\ known
       THEN /\ untilPoll' = PollInterval
            /\ UNCHANGED flight
       ELSE /\ untilPoll' = NoTimer
            /\ flight' = [flight EXCEPT ![f] = [busy |-> TRUE, due |-> due, base |-> data]]

\* _async_update_data called by the schedule.
Poll ==
    /\ untilPoll = 0
    /\ ~Locked
    /\ Begin("poll", IF forced THEN forceSections ELSE Due)
    /\ UNCHANGED <<known, data, sincePress>>

\* The refresh requested directly, which does not wait for the poll to end.
RequestDirectly(sections) ==
    /\ sincePress' = 0
    /\ IF Busy("manual")
       THEN /\ forced' = TRUE /\ forceSections' = sections
            /\ UNCHANGED <<flight, untilPoll, debounced>>
       ELSE Begin("manual", sections)
    /\ UNCHANGED <<known, data>>

\* A refresh of these sections is requested.  During another refresh the request is
\* dropped and the flags wait for the next refresh; else it starts at once or, soon
\* after an earlier request, is held back with its flags set.
Request(sections) ==
    /\ sincePress' = 0
    /\ \/ /\ ~Locked
          /\ Begin("manual", sections)
       \/ /\ forced' = TRUE /\ forceSections' = sections
          /\ debounced' = ~Locked
          /\ UNCHANGED <<flight, untilPoll>>
    /\ UNCHANGED <<known, data>>

Cooled == sincePress = Never \/ sincePress >= Cooldown

PressUnfiltered(sections) == known /\ Cooled /\ Request(sections)

\* async_request_manual_refresh: refused during the cooldown; a disabled section is
\* left out.  No task is ever found in _refresh_task, so that a press during a
\* refresh is taken as well.
Press(sections) == known /\ Cooled /\ Request(sections \cap Sections)

\* The request held back is carried out.
Debounced ==
    /\ debounced
    /\ Begin("manual", forceSections)
    /\ UNCHANGED <<known, data, sincePress>>

\* A refresh ends; Home Assistant schedules the next poll after this time.
End(f, next) ==
    /\ Busy(f)
    /\ flight' = [flight EXCEPT ![f] = NoFlight]
    /\ untilPoll' = next
    /\ UNCHANGED <<sincePress, forced, forceSections, debounced>>

\* A payload is returned and published.  A section without its scope fails
\* without a call.
FetchDone(f) ==
    /\ known' = TRUE
    /\ End(f, PollInterval)
    /\ \E bad \in SUBSET flight[f].due :
        /\ flight[f].due \cap Scopeless \subseteq bad
        /\ \E incomplete \in SUBSET ((flight[f].due \ bad) \cap Lenient) :
              data' = Merged(flight[f].base, flight[f].due, bad, incomplete)

\* EbayError, raised as UpdateFailed: nothing is published.  A first refresh that
\* fails is tried again, by another set-up.
FetchFails(f) ==
    /\ End(f, IF known THEN PollInterval ELSE 0)
    /\ UNCHANGED <<known, data>>

\* EbayAuthError, raised as ConfigEntryAuthFailed: nothing is published and Home
\* Assistant schedules no poll; a flow asks the user to authorize again.
FetchRefused(f) ==
    /\ End(f, NoTimer)
    /\ UNCHANGED <<known, data>>

\* The entry is loaded anew, after a reauthorization or by the user: another
\* coordinator, whose first refresh comes at once.
Reload ==
    /\ known' = FALSE
    /\ data' = NoStamps
    /\ flight' = [f \in Starters |-> NoFlight]
    /\ untilPoll' = 0
    /\ sincePress' = Never
    /\ forced' = FALSE /\ forceSections' = {} /\ debounced' = FALSE

Next ==
    \/ Tick \/ Poll \/ Debounced \/ Reload
    \/ \E sections \in Buttons : Press(sections)
    \/ \E f \in Starters : FetchDone(f) \/ FetchFails(f) \/ FetchRefused(f)

\* The clock and the timers of Home Assistant run, and every request has a
\* time-out, so that a fetch ends.  Nobody need press a button or reload.
Spec ==
    /\ Init /\ [][Next]_vars
    /\ WF_vars(Tick) /\ WF_vars(Poll) /\ WF_vars(Debounced)
    /\ \A f \in Starters : WF_vars(FetchDone(f) \/ FetchFails(f) \/ FetchRefused(f))

-----------------------------------------------------------------------------
(* Properties.                                                             *)

\* Every variable has its type: stamps, flights and flags are well formed.
TypeOK ==
    /\ known \in BOOLEAN /\ forced \in BOOLEAN /\ debounced \in BOOLEAN
    /\ data \in Stamps
    /\ flight \in [Starters -> [busy : BOOLEAN, due : SUBSET Sections, base : Stamps]]
    /\ untilPoll \in 0..PollInterval \cup {NoTimer}
    /\ sincePress \in AgeOrNever
    /\ forceSections \subseteq Sections

\* A section whose last attempt failed keeps a category in partial_failures
\* until it is attempted again, over every refresh of other sections.
FailureShown == data.failed \subseteq data.shown

\* A published stamp never goes back to an older one, unless the entry is loaded
\* anew: no refresh overwrites what another recorded while it was under way,
\* whatever buttons are pressed meanwhile.
NoStampLost ==
    [][known' => \A s \in Sections :
        /\ data.attempt[s] # Never => data'.attempt[s] \in 0..Older(data.attempt[s])
        /\ data.success[s] # Never => data'.success[s] \in 0..Older(data.success[s])]_vars

\* A poll asks for s on its own account.
Asks(s) == ~forced /\ ~Busy("poll") /\ s \in flight'["poll"].due

\* A section that failed for want of its scope is not asked for again by the
\* schedule: without a button, only a restart attempts it again.
ScopeNotRetried ==
    [][\A s \in Scopeless : Asks(s) => data.attempt[s] = Never]_vars

\* Polling stopped: eBay refused the authorization, and nothing is scheduled.
Stopped == untilPoll = NoTimer /\ ~Locked /\ ~debounced

\* Every section with its scope is asked for again and again, whatever fails, unless
\* the user keeps pressing buttons (each press puts off the poll) or eBay refused
\* the authorization for good.
EachAsked ==
    \A s \in Sections \ Scopeless :
        \/ []<>(\E f \in Starters : s \in flight[f].due)
        \/ []<>(sincePress = 0)
        \/ <>[]Stopped
=============================================================================
