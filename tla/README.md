# Verification of the eBay integration

TLA+ models of the Home Assistant custom component in `custom_components/ebay`,
checked with TLC, and theorems about them proved with TLAPS. Paths are relative
to `custom_components/ebay` unless they start with `docs/` or `tests/`.

The component polls eBay for one account per *config entry*, turns what it gets
into one payload, compares it with the former payload and tells automations what
changed. Nearly everything runs as coroutines of one event loop: code between two
`await`s is atomic, and everything else interleaves. The hard parts are therefore
not data races but *state kept over an await*: the payload, the fired keys, the
tokens, the cooldown, the stamps.

## 1. Inventory

| Component | State | Operations | What is hard | What makes it correct |
|---|---|---|---|---|
| **Ending-soon notices** (`coordinator.py` 432-734, `event.py`, `storage.py`) | timers `_scheduled`, keys `_fired_ending_soon`, dirty flag, save task, the keys on disk | rebuild after every fetch and registration, timer callback, save task, flush, unload | timers, registrations and saves run inside the awaits of a refresh; crash between notice and save; reload during a save | a notice per key at most once, unless a crash intervenes; nothing unheard is suppressed; nothing listed is forgotten |
| **Section schedule** (`coordinator.py` 257-430, `section_fetch.py`, `sections.py`, `button.py`) | stamps of success and attempt per section, force flags, button cooldown, `partial_failures` | poll, button press, merge of an answer, failure | a press comes while a refresh is under way and its flags wait for the next one; a section failing for ever; authorizations refused between polls | no stamp lost, failures stay visible, nothing starves |
| **Selling events** (`section_fetch.py` 296-536, `events.py`, `coordinator.py` 779-849) | payload, baseline, truncation flags | read the active list, then the unsold and sold lists; detect; next baseline | eBay goes on between the calls; truncated and failing lists; reload | events true, none repeated, none missed when lists are complete |
| **Requests, retries, tokens** (`clients/http.py`, `clients/trading.py`, `clients/resilience.py`, `oauth2.py`) | access token, `_refresh_lock`, `_token_lock`, cooldown per endpoint family and keyset | request, 401 and refresh, 429 and cooldown, transient failure and back-off, deadline | calls of one client overlap, clients share the cooldown, nested locks | bounded sends, one refresh for calls rejected together, every call ends |
| **Price, watching and bidding events** (`events.py` 335-546, `options_parse.py`) | the last payload's lists, armed price drops | compare two payloads | items, prices and bids that change, or are left unsaid, in reads that are cut short; restarts | nothing told twice; every turn of a bid told; every crossing between two reads that weigh the price told |
| **Seller operations events** (`events.py` 583-736, `seller_ops.py`) | orders, disputes, feedback and messages of the last payload | compare two payloads | cut pages, failing calls that reset a flag but keep a list | no order, dispute or message told twice |
| **Repair issues** (`repairs.py`, `storage.py`) | streak per condition, in memory and on disk, issues in Home Assistant's registry | advance, freeze, reset, raise, clear, save | refreshes of some sections only; failures that freeze a streak, in classified calls; a crash between the issue and the save | an issue exactly when the last attempts that count failed |
| **Item sensors** (`sensor.py` 789-972, `coordinator.py` 500-529, 816-844) | selection, known and inactive items, entity registry, stamps on disk | select, add, stamp, remove after the grace period, clean up | every update starts a reconciliation; they interleave at their awaits | none removed early; the sensors are those of the selection in the end |
| **Entry lifecycle and keyset registry** (`__init__.py`) | tracker per keyset with its entries, loaded snapshot | set-up, failed set-up, unload, reload on update, removal | entry data change while a set-up awaits; a keyset changes under a running client | clients of a keyset share one tracker; an entry runs its own configuration |
| **Account identity and onboarding** (`account_identity.py`, `config_flow.py`, `options_flow.py`) | identity, token scopes, options and draft of an entry; flows open | log in, verify, compare, create, reauthorize, change options | flows at the same time, identities that cannot be read, drafts that outlive their flow | one entry per account, an entry keeps its account, options within the scopes granted |
| **REST domain calls** (`clients/rest_apis.py`) | paging, feedback user cache | sequential calls over the request loop | truncation, failing pages | what is incomplete is flagged |
| **Parsers** (`parsers/`, `models.py`) | none | XML and JSON to records | conversions | - |
| **Display entities** (`sensor.py`, `binary_sensor.py`, `calendar.py`) | none of their own | views of the payload | - | - |
| **Diagnostics**, **marketplace tables** | none | redacted dump; constants | - | - |

How they interact: a *refresh* (`EbayDataUpdateCoordinator._async_update_data`)
asks the schedule for the due sections, fetches them through the request loop,
merges the answers into the former payload, detects events against the baseline,
rebuilds the ending-soon timers, saves the fired keys, updates the repair issues
and returns the payload, which Home Assistant then publishes to the entities.
Event entities register callbacks with the coordinator. Buttons request a
refresh. Each publication starts a reconciliation of the item sensors. Entries that
use the same developer keyset share a rate-limit tracker. A flow that ends writes
the entry, and the update listener reloads it when its configuration changed.

## 2. Modules

| Module | Models | EXTENDS |
|---|---|---|
| `EndingSoon` | ending-soon notices over several lives of the entry | `Integers`, `SequencesExt` |
| `EndingSoonProofs` | theorems about it | `EndingSoon`, `SequenceTheorems`, `TLAPS` |
| `SectionSchedule` | what a refresh asks for and records | `Integers` |
| `SellingEvents` | from eBay's lists to the selling events | `Integers` |
| `SellingEventsProofs` | theorems about it | `SellingEvents`, `TLAPS` |
| `RestRequest` | the request loop, tokens, locks, cooldown | `Integers` |
| `RestRequestProofs` | theorems about it | `RestRequest`, `TLAPS` |
| `KeysetTrackers` | abstract: what the tracker registry promises | none |
| `EntryLifecycle` | set-up to removal of entries and the registry; implements `KeysetTrackers` | `Integers`, `FiniteSets` |
| `EntryLifecycleProofs` | theorems about it, the refinement among them | `EntryLifecycle`, `FiniteSetTheorems`, `TLAPS` |
| `EntryFlows` | onboarding, reauthorization and options flows | none |
| `EntryFlowsProofs` | theorems about it | `EntryFlows`, `TLAPS` |
| `RepairStreaks` | from failing calls to repair issues | `Naturals`, `FiniteSetsExt` |
| `RepairStreaksProofs` | theorems about it | `RepairStreaks`, `TLAPS` |
| `ItemSensors` | selection and reconciliation of the sensors of items | `Naturals`, `FiniteSets`, `FiniteSetsExt` |
| `CoordinatorProofs` | theorems about `SectionSchedule` and `ItemSensors`, what the coordinator asks for and what follows its updates | `SectionSchedule`, `ItemSensors`, `FiniteSetTheorems`, `TLAPS` |
| `Transitions` | events of the watched, bidding, order, dispute, feedback and message lists | `Naturals`, `FiniteSets` |
| `TransitionsProofs` | theorems about it | `Transitions`, `TLAPS` |
| `MC*` | the same modules with the constants of the runs | the module |

`PROJECT.json` names, for each definition, the lines it stands for. A definition
named like another with a suffix (`MarkedAlways`, `RecheckNone`, ...) is the same
step with a plausible bug. It is used by no specification; the runs are known to
fail when it takes the place of the right one. `ItemSensors` is extended together
with `SectionSchedule` by the proofs, so the names both would have (`Spec`, `Init`,
`TypeOK`, ...) are prefixed there: `SensorsSpec`, `SensorsTypeOK`.

### EndingSoon

A key is (kind, item, threshold, end time). A payload is the end time of every
item. `refresh` says where `_async_update_data` waits: for eBay ("fetching"), for
the flush of the fired keys ("flushing"), for the repair issues and the return of
the payload ("syncing"). `phase` is the life of the entry.

| Action | Code |
|---|---|
| `Setup`, `FetchFails` in phase "first" | `async_setup_entry`: load, prune and write back the stored keys, first refresh |
| `FetchDone` | everything `_async_update_data` does after the fetch up to the await of the flush; `Rebuild` is `_rebuild_ending_soon_timers` |
| `Publish` | the return of the payload and `self.data = ...` |
| `Register`, `Unregister` | an event entity comes or goes; registering rebuilds, *from the payload published last* |
| `Fire` | the timer's callback |
| `SaveLands` | a save reaches the disk and its coroutine goes on (save task, flush or unload) |
| `Unload`, `UnloadSave` | `async_shutdown`, then the final save in `async_unload_entry` |
| `Crash` | Home Assistant is killed or stops: neither unloads an entry |

`_emit` returns TRUE only when a callback got the event, and only then is the key
marked: that is `Marked`. The first change of the set starts the save task, which
runs at once up to its first await and so serializes the set as it is after *one*
change: `FirstSnapshots` gives the possible snapshots.

### SectionSchedule

`data` is the stamps of the published payload, `flight` the refreshes under way,
begun by the schedule ("poll") or by a button ("manual"). Times are ages up to `Cap`.
`Due` is `_due_sections`, `Merged` what `async_fetch_sections` writes.

The debouncer behind `async_request_refresh` and the scheduled poll share a lock of
Home Assistant, so that a refresh has ended before another begins (`Locked`).
`Request` is a press as that lock and the debouncer leave it: it begins a refresh at
once; or sets the force flags and is held back for the debouncer's delay
(`debounced`, carried out by `Debounced`); or, during another refresh, is dropped by
the debouncer with its flags set, which the next refresh consumes, poll or press. The
guard of `async_request_manual_refresh` against a refresh under way
(`coordinator.py` 266) is no part of `Press`: it reads `_refresh_task`, which nothing
in the component assigns and which is looked up with a default of `None`.

A refresh ends in `FetchDone`, in `FetchFails` (`UpdateFailed`: nothing is published,
polls go on) or in `FetchRefused` (`ConfigEntryAuthFailed`: Home Assistant schedules no
further poll, and a press or a `Reload`, which the reauthorization ends with, is what
starts another refresh).

### SellingEvents

eBay's side (`status`, `soldList`, `unsoldList`) moves between the calls of a
refresh: `FetchListings`, `FetchUnsold`, then one of `FinishClassified`,
`FinishUnclassified` (the classification failed) and `FinishSkipped` (it was not
needed). `Answers` is a list that may be cut at `MAX_PAGES`. `Detected` is
`_detect_selling_events`, `NextBaseline` is `_baseline_payload`. Two history variables
say where a sale told as completed stands: `left` holds the ones that a cut sold list
left out, until the next refresh; `forgotten` those that a refresh then took for
gone, as it read no sold list and kept the cut one without its flag.

### RestRequest

A call is a program counter and the local variables of `_async_rest_get`; an
action goes from one await to the next, through as many lines as that takes. The
operators `Ask`, `Attempt`, `Lock` and `Recheck` are these stretches; actions join
them. `Trading` calls run the same loop with a cooldown of their own family.
Tokens are numbered; `good` is the first one eBay accepts.

### KeysetTrackers and EntryLifecycle

`KeysetTrackers` has no registry and no reference: each entry that runs has a
tracker, entries of one keyset have the same one, others have another, and a
tracker is kept as long as one of its entries runs. `EntryLifecycle` implements it
with what `__init__.py` does: `registry` is `rate_limit_trackers` with the entries
that refer to each, `Got` and `Joined` are `async_get_rate_limit_tracker`,
`Released` is `async_release_rate_limit_tracker`. The refinement mapping,
`Promised`, takes an entry's keyset from its *client*, not from its configuration.

`stage` is the state Home Assistant has an entry in. A set-up is `BeginSetup`, then
`FirstRefreshDone` or `FirstRefreshFails`, then `SetupDone`, where the update
listener is registered: three steps, because entries are updated in between.
`Listener` is `_async_update_listener`. A reload is `AskReload` or the listener,
then `BeginReload` and `ReloadUnloaded` (or `UnloadRefused`); a removal is
`BeginRemove` and `Removed`, which releases a second time, as the code does.

### EntryFlows

A flow is at its form, at eBay's consent page or comparing accounts, one entry at a
time (`todo`), since each comparison may ask eBay. `Identified` and `Compared` are
what a flow learns of an entry and concludes from it: an identity that cannot be read makes
the answer `UNKNOWN`, which neither creates an entry nor hands one over.
`SaveOptions` either saves or puts the draft aside and opens a reauthorization;
`FinishReauth` commits token, identity and draft together: the token covers the scopes
that eBay returned, perhaps fewer than were asked for (`clients/scopes.py` 97), and
nothing compares them with the draft. `End` is every other
exit of a flow, and drops the draft. `Due` is what a reauthorization would commit
now: the draft, else the live options. `behind` records the entries whose token came
to be behind in a way the code does not prevent: `Due` exceeded what an open
reauthorization had asked for (`Outrun`), by options that were saved or by a draft
that was given up, or eBay granted less than was asked for (`Track`); until the token
covers the live options again. `OptionsGranted` is about all others.

### RepairStreaks

A *condition* stands for one streak key: an interface that is unavailable, a call
that fails in part, a collection that is cut short. `Begin` and `Answer` are a
refresh, `Merged` what it leaves in `partial_failures`, `truncated_collections` and
`partial_failure_details`, `Bumped` is `_bump_streak` with the conditions under
which it is called, `Desired` the set of issues that `async_sync_repair_issues`
ends with. `Classified` are the conditions whose failures `partial_failure_details`
classifies, seller interfaces and partial failures alike (the views of Sell Analytics,
the user lookup of feedback): these may be transient, which freezes the streak and the
issue, and an error that is no answer leaves the former classification. Two refreshes
do not overlap (the lock of `SectionSchedule`). Issues and streaks are saved by
different owners: `Publish` saves both, `Crash` finds the older of each.

### ItemSensors

A reconciliation (`rec`) is `Reconcile`, any number of `Removed` and perhaps `Saved`,
one per await of `_async_reconcile_item_sensors`; `Loop` goes from one await to the
next. It works with the selection it began with, while `inactive`, `knownItems`
and the registry are shared. `Update` is the listener, `CleanUp` the clean-up button,
`Start` the set-up of the platform.

### Transitions

A behaviour follows one list. `Refresh` reads it (all of it, or some of it with the
cut flag), merges (`Current`), detects (`Detected`) and keeps it as `base`;
`Suppressed` is `suppress_incomplete` of that list. `Failure` is a failing call:
`ListFails` keeps the list and loses its flag, `FeedbackFails` keeps both or
empties the ids. `active` is `_price_drop_below_active`.

What is known of an item may be unknown: a bid is winning, outbid or unsaid (`_to_bool`
gives `None`), a price above its target, below it, or neither (no price, or another
currency). Only a flag that takes the place of its opposite is told (`Flips`), and a
price that is unknown now or was before leaves `active` as it was (`Priced`).
`weighed` records the items whose price the last read compared with the target.

## 3. Runs

### Passing

| Run | Shows | Bounds |
|---|---|---|
| `EndingSoon_notices` | `OnceLifetime`: a notice spends its key for the life of the entry, and only a new life gives it back; `OnceUnlessCrash`: one notice per key over all lives, but for one per crash and one per unload whose save overtook an earlier one; `SuppressedWasTold`: no key is marked, saved or being saved that nobody heard; `OneTimerPerItem`; `Covered`: what is listed and heard is notified or has a timer | one item with two end times next to each other, two thresholds, two lives, one crash, saves that reach the disk in any order: rescheduling, two keys fired around one save, a reload that changes the threshold, saves that overtake the one of an unload, and a save cut by a reload or a crash all happen |
| `SectionSchedule_guarded` | `NoStampLost`, `FailureShown`, `ScopeNotRetried`, and the liveness `EachAsked`: with presses during refreshes, requests held back, failing fetches, refused authorizations and reloads | three sections: one polled every time, one with a long interval and a retry delay shorter than it, one without its scope; `Cap` is the longest interval |
| `SellingEvents_disturbed` | `EventsTrue`, `EndOnce`, `AddedOnce`, `CompletedOnce`: with lists cut and classifications failing at will, no event is false, none about a listing's start or end is repeated, and no sale is told as completed twice unless it is `forgotten` | two listings, one of several units, one life of the entry; the theorems are for any number of reloads |
| `SellingEvents_reliable` | `SaleAnnounced`, `EndAnnounced`: with complete lists everything is announced in the end, a reload included | the same, one reload |
| `RestRequest_one_client` | `AttemptCeiling`, `ReplayFresh`, `OnlyUnusableReplaced`, `LocksHeld`, `CallEnds` | two calls of one client, two retries as in the code, two tokens that become unusable |
| `EntryLifecycle_shared` | `TrackerShared` (the refinement), `NoReferenceLeft`; `RunsItsConfig`, `NoReloadStorm` and the liveness `TakesEffect`: an update of a loaded entry is neither overlooked nor reloads at every token refresh | two entries, two keysets, two values of the options, two changes of configuration: enough to move an entry to the keyset of the other and back |
| `EntryFlows_accounts` | `OneEntryPerAccount`, `AccountKept`, `OptionsGranted`, `NoForgottenDraft` | two accounts, three entry ids (one from before identities were kept), two flows, one optional scope, which eBay may refuse to grant (the theorems are for any set of scopes): two onboardings of one account, a reauthorization with the wrong account, and two reauthorizations of an entry around a draft |
| `RepairStreaks_issues` | `NoFalseAlarm`, `AlarmRaised` | a seller interface and a partial failure, both classified, of two sections; the threshold of the code, 3 (a streak at the threshold is not told from a longer one), so that a streak is frozen and goes on before it is reached. A truncated collection behaves like a failure that is never transient |
| `ItemSensors_stamps` | `GraceHonoured`, `Reconciled` | three items for two places, a grace period of one day, two reconciliations: one item is pushed out by another and comes back while a removal awaits |
| `Transitions_lists` | `BidTold`, `FarewellOnce`, `AddedNew`, `OrderToldOnce`, `CrossingTold` | six lists, two items each: one read and one cut off; bids and prices known or not |

`TypeOK` is a theorem of every module; it is an invariant of a run in the first ones
only, since the runs of the others are for what is hard to see. It was checked on the
instances of all.

Two calls of a client are the real case: a poll and a button press. A third call
adds no lock and no case to `Recheck`: it compares the token with the one that was
rejected, whoever replaced it. One end time more, or one section more, would only
repeat what two do; the theorems of section 5 are for any number of them.

What the properties except, they name. `missed` (an entry updated while it was set
up), `moved` (an entry whose keyset changed), `behind`, `restarted`, `revived` and
`dropped` (a crash lost an answer, or an issue), `early` (a stamp older than the absence
of its item), `failed` (a read failed), `forgotten`, `hasty` (an unload whose save
overtook an earlier one) and `disturbed` are history variables that record one such
circumstance each, and every one is a divergence or a limit listed below.

### What the code does otherwise than said

Each of these runs checks one sentence of the repository, and fails.

| Run | Sentence | What happens |
|---|---|---|
| `SellingEvents_sale_twice` | "sold disappearance does not double fire sale completed" (`tests/test_coordinator_events.py:538`) | it does over two refreshes, when the listing is in the active list and, a moment later, in the sold list |
| `Transitions_incomplete` | "suppresses transition events during the initial startup/reload baseline and when API collections are incomplete or truncated" (`docs/advanced-usage.md:24`) | a seller's list whose first fetches fail is kept empty and flagged complete; the first fetch that succeeds announces all of it as new |

Seen while modelling, with no run of their own:

- Ending-soon: a key marked while a save is on its way starts no save of its own,
  and its dirty flag is cleared when the earlier save lands (`coordinator.py` 564);
  a crash then repeats the notice, which `OnceUnlessCrash` excepts. A timer that
  comes due between the rebuild and the publication of a payload is compared with
  the former payload and skipped as stale (`coordinator.py` 712), made up for at
  the next refresh.
- Schedule: selling is stamped as a success when its views (`section_fetch.py` 447) or
  its offers (489) fail, orders with disputes, and messages, when they are truncated
  (615, 705); `docs/reliability-and-rate-limits.md` 83 says only the attempt is, as the
  code does for truncated buying and selling lists (371, 497). A press during a refresh
  raises no error (`docs/advanced-usage.md` 40 says it does): it takes the cooldown
  and sets flags that wait for the next refresh (`coordinator.py` 266). The retry delay
  is not looked at once the last success is older than the interval
  (`coordinator.py` 316).
- Selling: `item_disappeared_unknown` is emitted when only the classification is
  incomplete (the same document, line 100, says it is suppressed). The truncation flag
  of the sold list is dropped at the next refresh while the truncated list is kept
  (`section_fetch.py` 313): a refresh that reads no sold list takes it for a whole
  one, and the sales it left out are told as completed once more when they are read
  again. `CompletedOnce` excepts these (`forgotten`) and no others. After a truncated
  payload the first complete one is suppressed as well.
- Requests: the cooldown is read before the sleep of a short one and before the
  token is awaited, so one recorded meanwhile is not seen (line 67 of the document:
  requests "fast-fail immediately"). `_last_retry_count` belongs to the client, is
  reset by every call, and counts a retry that then fails fast (`clients/http.py`
  373, 388). The token is awaited after the timeout of the attempt was computed
  (535). The view and offer calls swallow `EbayAuthError` (`section_fetch.py` 442).
- Entries: a tracker is not released when an entry changes its keyset (line 66 of
  the document), the reference under the former one stays. An update during the
  first refresh is taken into the snapshot as if it were loaded (`__init__.py` 170),
  and one before the listener is registered is not seen. A set-up that fails with
  `ConfigEntryAuthFailed` leaves no listener, so the entry waits for a reload after
  it is reauthorized.
- Flows: "Keep live options unchanged until reauth grants the new scopes"
  (`options_flow.py` 393): the draft is committed when the reauthorization ends, with
  whatever scopes eBay returned (`config_flow.py` 346). Options saved while a
  reauthorization that asked for fewer scopes is open are ahead of its token
  (`options_flow.py` 396). A second reauthorization that ends drops the draft of the
  first (`config_flow.py` 329); the first, which asked for the scopes of that draft
  and not for those of the live options, then leaves the live options ahead of the
  token it stores. It takes two optional scopes, so no run of one scope shows it: the
  attempt to prove `OptionsGranted` did.
- Repairs: a failed sold or unsold read marks its collection truncated, which
  counts for the streak. A failure without a classification keeps the former one,
  so that a streak may stay frozen. `trading_warning` belongs to no section,
  and failures of Trading calls are never classified as transient.
- Lists: two documents say that bid events are suppressed when the lists are
  incomplete (`docs/advanced-usage.md` 24, and 102 of the document on reliability).
  The code tells `outbid` and `winning` whatever was cut (`events.py` 383 is outside
  the suppression): the items that were not read keep what was known of them, so that
  what is told is true, and `BidTold` says it is told; read against those sentences it
  is a divergence. A turn from winning to outbid is not told when a payload between
  them leaves `winning` unsaid (383), and a price that is unknown, or in another
  currency, leaves the armed state as it was (465): below its target, unknown, above
  it in one read and below it again, a price is told once only. A failed orders fetch
  clears the truncation flag, so order events may repeat. A dispute that leaves the
  list and returns is told opened twice. A price above its target only in suppressed
  reads leaves the item armed, so its next fall is not told (line 104 of the
  document).

### Fairness

Fairness is stated per action and only where the environment owes it.

- `SectionSchedule`: time passes, Home Assistant calls a poll that is due and carries
  out a request it held back, and a fetch ends, with success or without (every request
  has a time-out). A press owes nothing, nor does a reload. Since each press puts off
  the poll, `EachAsked` excepts behaviours with presses for ever; and those in which
  eBay refused the authorization and nobody does anything (`Stopped` for good).
- `SellingEvents`: polls go on and six hours pass (weak); the three steps after
  the first call are strongly fair, since a refresh may be abandoned any number of
  times but not for ever at the same call. Events of eBay owe nothing.
- `RestRequest`: sleeps end, requests end by their time-out, eBay answers in *some*
  way; a lock is handed to waiters in turn (strong fairness of taking it: asyncio
  locks are first come, first served, while the model lets newcomers go first).
- `EntryLifecycle`: what Home Assistant began for an entry goes on (weak): a set-up or
  an unload awaits requests that have a time-out, a reload that was asked for takes
  the lock once it is free, and a failed set-up is tried again. Users owe nothing.
- `EndingSoon`, `EntryFlows`, `RepairStreaks`, `ItemSensors` and `Transitions` state no
  liveness property, hence no fairness.

Deadlock is checked everywhere but in `EndingSoon`, whose clock ends at `MaxTime`.

## 4. Abstractions

- **EndingSoon.** The unit of time is a second. Home Assistant starts a task at
  once, up to its first await. Disk writes do not fail, nor does the unload of the
  platforms. A refresh begun before an unload may go on during it. Every save goes
  through a `Store` object of its own (`storage.py` 52), so that saves reach the disk in
  any order. When the save of an unload overtakes an earlier one (`hasty`), the older set
  ends up on disk and a notice may be repeated. One refresh at a time, as in
  `SectionSchedule`.
- **SectionSchedule.** A payload is its stamps. A button of a disabled section asks
  for nothing and ends at once. The streak of Trading warnings is left out.
- **SellingEvents.** Counters of a listing (bids, offers, views, watchers) are left
  out. Shifts between the pages of one list are not modelled. The first payload of
  a life gives no events. After a truncated payload the first complete one gives
  none either, and becomes the baseline: nothing is promised for what ended
  meanwhile, and `EndAnnounced` is for complete lists.
- **RestRequest.** Time is a flag, *late*, that may be raised at any moment of a
  call; cooldowns are counted down in units of which `Short` is the two seconds
  that are slept out. The retry counter is a diagnostic value and left out, as is
  the branch for entries without an OAuth session.

- **EntryLifecycle.** A configuration is its keyset, its options and how often it was
  reauthorized; tokens are not part of the snapshot. Home Assistant holds the lock
  of an entry over set-up, unload, reload and removal. `updates` is bounded by
  `MaxUpdates`, reset by nothing.
- **EntryFlows.** An account stands for an environment and a durable identifier.
  Options are the optional scopes they need, tokens those they grant. Forms are
  left out. The identity of an entry that has none is read with its own token, or
  is not: both are possible at each comparison.
- **RepairStreaks.** The issues file is taken to be written when the streaks are. A
  refresh under way when the entry is unloaded, the issues that follow one value, and
  what a failed call that its section swallows leaves in `last_api_failure`, are left
  out.
- **ItemSensors.** An item stands for its sensors, a stamp for its age, and the
  clock ticks between reconciliations: the grace period is days, a reconciliation
  moments.
- **Transitions.** An item is a set of flags, of two opposite ones at most one. Events
  that compare one number and keep nothing are left out.

## 5. Proofs

`tlapm` checks these for every value of the constants that satisfies the named
assumptions: any number of items, keys, end times, thresholds, sections, buttons,
calls, clients, tokens, entries, accounts, flows, scopes, conditions, lives, reloads
and crashes, saves in any order. The assumptions are
what a model needs to mean anything (`Free` is not a call, `None` is no entry, no
account, no scope, no age, no set of ids and no list, there is a tracker for every keyset)
and the ranges of the numbers; TLC evaluates them in the runs.

Each inductive invariant below was checked by TLC, as the invariant of a run of its
module, before it was proved. Steps are proved action by action.

| Theorem | Statement | Argument |
|---|---|---|
| `EndingSoonProofs!TypeCorrect` | `Spec => []TypeOK` | one step per action; lemmas on what a rebuild, a save and the removal of a save from the sequence of saves give |
| `EndingSoonProofs!OneTimer` | `[]OneTimerPerItem` | a rebuild derives at most one key per item from a payload (`RebuildOneTimer`); every other step only removes timers |
| `EndingSoonProofs!OncePerLife` | `Spec => OnceLifetime` | from the types and `HeardRunning` (event entities are there only while the entry runs), step by step (`Frugal`): a step that notifies a key finds it unspent (the entry is up, the key is not fired and has not ended) and marks it in the same step; pruning un-marks only keys that have ended |
| `EndingSoonProofs!NoMoreThanLives` | `[]NoticeBudget`: no key gets more notices than the entry has had lives, and fewer while it is unspent | from `Frugal`: a notice spends its key, and a key becomes unspent only with a new life; the order of the saves plays no part |
| `EndingSoonProofs!SuppressedTold` | `[]SuppressedWasTold` | `ToldInv` speaks of memory, disk and every save in flight; a snapshot holds only keys fired before or marked, that is heard, in the same step |
| `EndingSoonProofs!NothingMissed` | `[]Covered` | `Coverage` adds the payload that a refresh is about to publish: it lacks nothing from its rebuild to its publication. `Awaited` says that a refresh awaits one save at most, and only while it flushes, so that no save that lands opens a window twice. A timer that comes due outside a window is that of the payload, hence not stale, hence fired |
| `EndingSoonProofs!OncePerCrash` | `[]OnceUnlessCrash`: no key gets more notices than one, one per crash and one per unload whose save overtook an earlier one | `HandedOver` follows a key that has used up its notices (`Spent`): it is in the fired set while the entry is up; it is on disk, and in every save under way, while the entry is down or in its first refresh; and it is in the save of an unload and every later one (`Suppressed`). An earlier save that lands last may lack it, but then the unload was `hasty`, which allows one notice more (`Allowed`), so that the key is not spent (`OvertakingHands`). `UnloadAwaited`: the save of an unload is under way only while the entry waits for it |
| `CoordinatorProofs!TypeCorrect` | `Spec => []TypeOK` | one step per action |
| `CoordinatorProofs!FailuresStayShown` | `[]FailureShown` | `ShownInv` adds the same of the payload each refresh under way will merge into: it may be published after others |
| `CoordinatorProofs!ScopesLeftAlone` | `Spec => ScopeNotRetried` | `ScopeInv`: in every payload, published or merged into, a section without its scope that was ever attempted is failed and shown; hence it is due only before its first attempt or, shown, not at all |
| `CoordinatorProofs!StampsNotLost` | `Spec => NoStampLost` | `AloneInv`: a refresh under way is the only one, as the lock has it, no poll is scheduled meanwhile, and the published payload is still the one it started from |
| `CoordinatorProofs!SelectionRight` | what `Selected` gives for any items and priorities: the first in order, as many as the cap allows, all if they fit | the ranks of the items are different and below their number (`RanksDiffer`), hence, by counting, all the numbers below it: those under the cap belong to as many items |
| `CoordinatorProofs!SensorsTyped`, `SensorsReconciled` | `SensorsSpec => []SensorsTypeOK`, `[]Reconciled` | one invariant, `SensorsInv`. What is known is in the registry but for the items whose removal is awaited (`Provided`); a reconciliation leaves alone what it took for selected (`Orderly`); one that runs alone works for the present selection, and what it has not stamped it has yet to look at (`Halfway`), which at its end is `Repaired` |
| `CoordinatorProofs!SensorsGrace` | `SensorsSpec => GraceHonoured` | `StampsTrue`: a stamp in memory that is not early is no older than the absence of its item; those that a stop brings back from disk are early where they differ from the ones in memory. A reconciliation removes by the age of the stamp (`LoopGrace`) |
| `SellingEventsProofs!TypeCorrect` | `Spec => []TypeOK` | with the other parts of `IInv` |
| `SellingEventsProofs!EndsOnce`, `EndsTrue`, `NewOnce` | `[]EndOnce`, `[]EventsTrue`, `[]AddedOnce` | one invariant, `IInv`. What is classified comes from eBay's lists, of which nothing goes (`Sourced`); a listing seen that a whole active list lacks is over (`Fetched`); a listing told to be gone is over and in no payload (`Ended`); one told to be new stays in the baseline until it is over, and after a reload the first whole list puts it back before anything is told (`Announced`) |
| `SellingEventsProofs!SalesOnce` | `[]CompletedOnce`, with lists cut and failing at will and over reloads | `Recorded`: a sale told to be completed, unless it is `forgotten`, is in the baseline or the baseline is flagged as cut; and, unless the classification is to be read anew, the payload holds it or the last sold list read `left` it out. The sold list that lags behind is `SellingEvents_sale_twice` |
| `RestRequestProofs!TypeCorrect`, `AttemptsBounded` | `Spec => []TypeOK`, `[]AttemptCeiling` | `Carried`: a call has sent no more than its attempts, and one less while it waits for its next (`Waiting`) |
| `RestRequestProofs!ReplaysFresh` | `[]ReplayFresh` | tokens are numbered: where a call may send again, the token it was refused for is *older* than that of its client (`Replaced`), and the one it sends no older than that |
| `RestRequestProofs!LocksGivenBack` | `[]LocksHeld` | a lock and the place of its holder in the loop determine each other (`TokenLocked`, `RefreshLocked`, `Held`) |
| `RestRequestProofs!OneRefresh` | `Spec => OnlyUnusableReplaced` | `Waiting`: a call inside the refresh was refused with the token its client still has (`Refused`); who waits for the lock looks again when it has it |
| `EntryLifecycleProofs!TypeCorrect` | `Spec => []TypeOK` | `Staged`: the stage of an entry tells whether it is configured and has a client; a client holds a tracker, so one is left for a keyset that has none (`SomeUnused`, by counting) |
| `EntryLifecycleProofs!ReferencesLeft` | `[]NoReferenceLeft` | `Refs`: an entry is in a registry record exactly when its client uses that keyset, unless its keyset was changed; the trackers of two keysets are apart |
| `EntryLifecycleProofs!ConfigRuns` | `[]RunsItsConfig` | `Snaps`: client, snapshot and configuration of an entry agree from the begin of its set-up, then client or reload, unless an update fell into the set-up |
| `EntryLifecycleProofs!NoStorm` | `Spec => NoReloadStorm` | from `Snaps`: the snapshot of a loaded entry is its configuration, and a token is no part of it |
| `EntryLifecycleProofs!TrackersShared` | `Spec => TrackerShared` | the refinement of `KeysetTrackers`: initial states map to initial states; a set-up maps to `Start`, the loss of a client to `Stop`, everything else to a stutter, by `Refs` |
| `EntryLifecycleProofs!TrackersAlike` | `Spec => []Promised!Alike`: two clients hold the same tracker exactly when they use the same keyset | of the abstract specification alone, carried over by `TrackersShared` |
| `EntryFlowsProofs!TypeCorrect` | `Spec => []TypeOK` | with `ReauthUsed`: a reauthorization is of an entry in use, and compared with no other |
| `EntryFlowsProofs!AccountsKept` | `Spec => AccountKept` | from the types: `FinishReauth` is the one step that writes the account of an entry in use, after `SAME` |
| `EntryFlowsProofs!OneEntry` | `[]OneEntryPerAccount` | `OnceInv`: an onboarding that compares has passed no *old* entry of its account; all others are canonical, and `Configured` finds them at the creation even if they came meanwhile |
| `EntryFlowsProofs!ScopesGranted` | `[]OptionsGranted` | `GrantedInv` adds: no open reauthorization asked for less than the options it would commit (`Outrun`), unless the entry is `behind`, which it also is when eBay grants fewer scopes than were asked for |
| `EntryFlowsProofs!DraftsEnd` | `[]NoForgottenDraft` | from the types, by what a step can do to a draft (`DraftKept`) |
| `RepairStreaksProofs!TypeCorrect`, `IssuesTrue`, `IssuesRaised` | `Spec => []TypeOK`, `[]NoFalseAlarm`, `[]AlarmRaised` | one invariant, `IInv`: a streak lies between the answers that surely failed in a row and those that failed in a row, transient ones not counted (`Between`); disk lags behind memory by one answer at most, which a refresh is saving (`InStep`); a refresh has forgotten what its own sections reported before (`Forgotten`), and an issue of a partial failure is one the payload still reports (`Known`) |
| `TransitionsProofs!TypeCorrect`, `BidsTold` | `Spec => []TypeOK`, `[]BidTold` | parts of `IInv`; what lasts of an item in the payload is true of it at eBay (`Lasts`); of two opposite flags an item has one at most (`KnownFacts`), so that a flag told replaces its opposite (`FlipsFacts`) |
| `TransitionsProofs!FarewellsOnce`, `OrdersOnce` | `Spec => FarewellOnce`, `Spec => OrderToldOnce` | `OverTold`: an item of the payload told to be over has ended in it; `OrderTold`: an order told of is in the last whole list, or gone, with what was told |
| `TransitionsProofs!NewsNew` | `Spec => AddedNew` | `ReadWhole`: a payload that no cut or failed read made is the last list read whole |
| `TransitionsProofs!CrossingsTold` | `Spec => CrossingTold` | `Crossed`: of the prices that the last read weighed against their targets, an armed one is below its target in the payload |

Some say more than the runs show: `EndsOnce`, `EndsTrue` and `NewOnce` hold over
reloads, `ScopesGranted` for several scopes, `OneRefresh` for calls of several
clients, `SensorsReconciled` and `SensorsGrace` for any number of reconciliations that
overlap. No theorem has a hypothesis beyond the assumptions on the constants.

Only model-checked:

- All liveness (`EachAsked`, `SaleAnnounced`, `EndAnnounced`, `CallEnds`, `TakesEffect`):
  it rests on fairness and ENABLED, which the prover does not handle.

## 6. Plan

The models of the plan are written, and every safety property of a passing run is a
theorem. What is left is liveness, which stays with TLC.

## 7. Not modelled

Parsers, tables, diagnostics and display entities have no state of their own. REST
domain calls are sequences over the modelled loop; what they hand on (complete,
cut, missing) is the input of the models above. The exchange of an authorization
code, the fallback without an OAuth session and the migration of entries run once
and alone. The race of a token refresh with a reauthorization
(`clients/http.py` 303) depends on the lock of Home Assistant's OAuth session, which
is external. The merging of item fields when views or offers fail, and the figures
of a listing, are data no property tells apart.
