---------------------------- MODULE RepairStreaks ----------------------------
(***************************************************************************)
(* The repair issues about eBay's answers (repairs.py): a condition - an   *)
(* interface unavailable to the account, a call that fails in part, a      *)
(* collection cut short - becomes an issue when Threshold refreshes in a   *)
(* row, among those that asked for its section, found it.  What they found *)
(* is what section_fetch.py merged into the payload; the streaks are saved *)
(* and loaded with the entry (storage.py), Home Assistant keeps the        *)
(* issues.                                                                 *)
(*                                                                         *)
(* There is one refresh at a time: Home Assistant's debouncer holds a lock *)
(* around it.  A streak at Threshold is not told from a longer one.  Left  *)
(* out are the issues that follow one value each (reauthorization, site,   *)
(* scopes), the category trading_warning, which no section owns, a refresh *)
(* under way when the entry is unloaded, and what a failed call that its   *)
(* section swallows leaves in last_api_failure.                            *)
(***************************************************************************)
EXTENDS Naturals, FiniteSetsExt

CONSTANTS
    Sections,
    Optional,       \* sections the options may disable
    Unavailable,    \* conditions of the seller interfaces
    Partial,        \* other partial_failures categories
    Truncated,      \* conditions of truncated_collections
    Classified,     \* conditions whose failures are classified and kept in
                    \* partial_failure_details: those of the REST calls, the views of
                    \* Sell Analytics among them, and feedback's user lookup
    Owner,          \* the section of a condition, whose calls find it
    Threshold,      \* REPAIR_STREAK_THRESHOLD
    None

Conditions == Unavailable \cup Partial \cup Truncated

ASSUME RepairStreaksAssumption ==
    /\ Threshold \in Nat \ {0}
    /\ Owner \in [Conditions -> Sections] /\ Optional \subseteq Sections
    /\ Classified \subseteq (Unavailable \cup Partial) \ Truncated

\* What the calls for a condition end with.  A failure that is classified is
\* persistent by its status, or transient, or leaves no classification behind (an
\* error that is no answer); the code takes all other failures for persistent.
Outcomes(c) ==
    IF c \in Classified THEN {"ok", "persistent", "transient", "unclassified"}
                        ELSE {"ok", "persistent"}

\* failed: partial_failures and the collections marked truncated; transient:
\* those that partial_failure_details classifies so.
Payload == [failed : SUBSET Conditions, transient : SUBSET Classified]
Options == {Sections \ disabled : disabled \in SUBSET Optional}
NoPayload == [failed |-> {}, transient |-> {}]

VARIABLES
    enabled,        \* the sections the options enable
    streak,         \* _repair_streaks
    stored,         \* their copy in storage
    issues,         \* conditions with an issue in the registry
    kept,           \* those in the registry's file, written in the seconds after a
                    \* change: taken to be written when the streaks are
    data,           \* self.data, None before the first refresh
    refresh,        \* the refresh under way
    run,            \* history variable: failures in a row, but for transient ones
    sure,           \* history variable: the persistent ones of them, but for one
                    \* lost to a crash before it was saved
    revived,        \* history variable: conditions that a crash made fail again, by
                    \* losing the answer without them
    dropped         \* history variable: conditions whose issue was lost to a crash

vars == <<enabled, streak, stored, issues, kept, data, refresh,
          run, sure, revived, dropped>>
history == <<run, sure, revived, dropped>>

Idle == [at |-> "idle", sections |-> {}, payload |-> NoPayload]
None0 == [c \in Conditions |-> 0]

Init ==
    /\ enabled \in Options
    /\ streak = None0 /\ stored = None0
    /\ issues = {} /\ kept = {}
    /\ data = None
    /\ refresh = Idle
    /\ run = None0 /\ sure = None0
    /\ revived = {} /\ dropped = {}

Observed(c, sections) == Owner[c] \in sections

\* A refresh begins from the payload there is, less what the sections asked for
\* used to report; the first asks for everything.
Begin(sections) ==
    /\ refresh = Idle
    /\ sections # {} /\ sections \subseteq enabled
    /\ data = None => sections = enabled
    /\ refresh' = [at |-> "fetching", sections |-> sections,
                   payload |-> IF data = None THEN NoPayload
                               ELSE [data EXCEPT !.failed = {c \in @ : ~Observed(c, sections)}]]
    /\ UNCHANGED <<enabled, streak, stored, issues, kept, data, history>>

\* Authentication or the core calls fail: no issue is synchronised.
Fail ==
    /\ refresh.at = "fetching"
    /\ refresh' = Idle
    /\ UNCHANGED <<enabled, streak, stored, issues, kept, data, history>>

-----------------------------------------------------------------------------
\* async_fetch_sections adds what was found; merge_partial_failure_details keeps
\* the newest classification of a category that fails.
Merged(base, sections, outcome) ==
    LET failed == base.failed \cup {c \in Conditions : Observed(c, sections) /\ outcome[c] # "ok"}
        unchanged(c) == ~Observed(c, sections) \/ outcome[c] = "unclassified"
    IN  [failed |-> failed,
         transient |-> {c \in failed \cap Classified :
                            IF unchanged(c) THEN c \in base.transient ELSE outcome[c] = "transient"}]

On(c) == Owner[c] \in enabled

\* is_transient_failure_category
Transient(c, payload) == c \in payload.transient

BumpedAlways(c, sections, payload) ==
    IF ~On(c) THEN 0
    ELSE IF Transient(c, payload) THEN streak[c]
    ELSE IF c \in payload.failed THEN Min({streak[c] + 1, Threshold}) ELSE 0

\* _bump_streak, and when it is called.
Bumped(c, sections, payload) ==
    IF ~On(c) THEN 0
    ELSE IF ~Observed(c, sections) \/ Transient(c, payload) THEN streak[c]
    ELSE IF c \in payload.failed THEN Min({streak[c] + 1, Threshold}) ELSE 0

DesiredObserved(sections, payload, streaks) ==
    {c \in Conditions :
        /\ On(c) /\ Observed(c, sections) /\ ~Transient(c, payload)
        /\ c \in payload.failed /\ streaks[c] = Threshold}

\* The issues that async_sync_repair_issues keeps or creates: the rest goes.
Desired(sections, payload, streaks) ==
    {c \in Conditions :
        /\ On(c)
        /\ IF ~Observed(c, sections) \/ Transient(c, payload)
           THEN c \in issues /\ (c \in Partial => c \in payload.failed)
           ELSE c \in payload.failed /\ streaks[c] = Threshold}

\* The answer arrives and is merged, and the issues are synchronised; the
\* streaks are being saved.
Answer(outcome) ==
    LET sections == refresh.sections
        payload == Merged(refresh.payload, sections, outcome)
        streaks == [c \in Conditions |-> Bumped(c, sections, payload)]
        Count(counts, c, counted) ==
            IF ~On(c) \/ (Observed(c, sections) /\ outcome[c] = "ok") THEN 0
            ELSE IF Observed(c, sections) /\ counted THEN Min({counts[c] + 1, Threshold})
            ELSE counts[c]
    IN  /\ refresh.at = "fetching"
        /\ refresh' = [refresh EXCEPT !.at = "saving", !.payload = payload]
        /\ streak' = streaks
        /\ issues' = Desired(sections, payload, streaks)
        /\ run' = [c \in Conditions |-> Count(run, c, outcome[c] # "transient")]
        /\ sure' = [c \in Conditions |-> Count(sure, c, outcome[c] = "persistent")]
        /\ revived' = {c \in revived : On(c) /\ (Observed(c, sections) => c \in payload.failed)}
        /\ dropped' = {c \in dropped : On(c) /\ (~Observed(c, sections) \/ Transient(c, payload))}
        /\ UNCHANGED <<enabled, stored, kept, data>>

\* async_save_repair_streaks is done and the payload becomes self.data.
Publish ==
    /\ refresh.at = "saving"
    /\ stored' = streak /\ kept' = issues
    /\ data' = refresh.payload
    /\ refresh' = Idle
    /\ UNCHANGED <<enabled, streak, issues, history>>

-----------------------------------------------------------------------------
\* The entry is reloaded, perhaps with other options, or Home Assistant stopped
\* and started: a new coordinator loads the streaks.
Reload(options) ==
    /\ refresh = Idle
    /\ enabled' = options
    /\ streak' = stored
    /\ data' = None
    /\ UNCHANGED <<stored, issues, kept, refresh, history>>

Crash ==
    /\ streak' = stored
    /\ issues' = kept
    /\ revived' = revived \cup (kept \ issues) \cup {c \in Conditions : stored[c] > streak[c]}
    /\ data' = None
    /\ refresh' = Idle
    /\ dropped' = dropped \cup (issues \ kept)
    /\ sure' = [c \in Conditions |-> IF stored[c] < streak[c] THEN Max({sure[c] - 1, 0}) ELSE sure[c]]
    /\ UNCHANGED <<enabled, stored, kept, run>>

Next ==
    \/ \E sections \in SUBSET Sections : Begin(sections)
    \/ Fail \/ Publish
    \/ \E outcome \in [Conditions -> {"ok", "persistent", "transient", "unclassified"}] :
        /\ \A c \in Conditions : IF Observed(c, refresh.sections)
                                 THEN outcome[c] \in Outcomes(c) ELSE outcome[c] = "ok"
        /\ Answer(outcome)
    \/ \E options \in Options : Reload(options)
    \/ Crash

Spec == Init /\ [][Next]_vars

-----------------------------------------------------------------------------
(* Properties.                                                             *)

\* Every variable has its type.
TypeOK ==
    /\ enabled \in Options
    /\ streak \in [Conditions -> 0..Threshold] /\ stored \in [Conditions -> 0..Threshold]
    /\ issues \subseteq Conditions /\ kept \subseteq Conditions
    /\ data = None \/ data \in Payload
    /\ refresh \in [at : {"idle", "fetching", "saving"},
                    sections : SUBSET Sections, payload : Payload]
    /\ run \in [Conditions -> 0..Threshold] /\ sure \in [Conditions -> 0..Threshold]
    /\ revived \subseteq Conditions /\ dropped \subseteq Conditions

\* There is no issue about an interface or a call that did not fail Threshold
\* times in a row, in answers that count, unless a crash lost the answer that
\* cleared it: whatever sections are refreshed in between, whatever failures freeze
\* the streak, and over reloads and restarts.
NoFalseAlarm == \A c \in issues \ revived : run[c] = Threshold

\* A condition found Threshold times without fail in between has its issue, and
\* keeps it until an answer clears it; a crash costs no finding but the last.
AlarmRaised == \A c \in Conditions \ dropped : sure[c] = Threshold => c \in issues
=============================================================================
