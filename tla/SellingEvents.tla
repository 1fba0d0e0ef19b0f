---------------------------- MODULE SellingEvents ----------------------------
(***************************************************************************)
(* The seller's listings, from eBay's lists to the events of the "selling" *)
(* entity: the selling section of a refresh (section_fetch.py), which      *)
(* reads the active list, and the unsold and sold lists when it needs them,*)
(* one after the other while eBay goes on; the payload it merges into; the *)
(* events detected against the baseline (events.py), and the next baseline *)
(* (coordinator.py).                                                       *)
(*                                                                         *)
(* A refresh that leaves the selling section out is a stutter here: it     *)
(* carries the collections and the truncation flags over unchanged.  The   *)
(* eBay listings are the environment: an item keeps its id until it is     *)
(* over, and what was sold or ended unsold stays in its list.              *)
(***************************************************************************)
EXTENDS Integers

CONSTANTS
    Items,          \* item ids
    Multi,          \* listings of several units, which may sell and stay active
    ListCuts,       \* TRUE: the active list may be truncated at MAX_PAGES
    ClassCuts,      \* TRUE: the sold and unsold lists may be
    ClassFails,     \* TRUE: fetching these two lists may fail
    MaxRestarts,    \* bound: reloads of the entry
    MaxTold         \* bound: events of a kind counted per item

ASSUME SellingEventsAssumption ==
    /\ Multi \subseteq Items
    /\ ListCuts \in BOOLEAN /\ ClassCuts \in BOOLEAN /\ ClassFails \in BOOLEAN
    /\ MaxRestarts \in Nat
    /\ MaxTold \in Nat \ {0, 1}

EventKind == {"selling_item_added", "item_sold", "item_ended_unsold",
              "item_disappeared_unknown", "item_sale_completed"}

\* The part of a payload about selling: the listings, the classification of ids
\* as sold or unsold, and the truncation flags of both.
Payload == [items : SUBSET Items, sold : SUBSET Items, unsold : SUBSET Items,
            cutItems : BOOLEAN, cutClass : BOOLEAN]
NoPayload == [items |-> {}, sold |-> {}, unsold |-> {},
              cutItems |-> FALSE, cutClass |-> FALSE]

VARIABLES
    status,     \* eBay: "unlisted", "active" or "over", per item
    soldList,   \* eBay: the SoldList
    unsoldList, \* eBay: the UnsoldList
    known,      \* previous_payload is not None
    data,       \* self.data
    baseline,   \* previous_payload
    step,       \* "idle", or what the refresh does next: "unsold", "sold", "ready"
    draft,      \* the payload of the refresh under way
    stale,      \* SOLD_UNSOLD_REFRESH_HOURS passed since the lists were read
    restarts,   \* reloads so far
    told,       \* history variable: events emitted, per kind and item
    left,       \* history variable: sales told as completed that the last sold list
                \* read left out, cut short
    forgotten   \* history variable: those left out when a refresh that read no sold
                \* list took that one for a whole one

ebay == <<status, soldList, unsoldList>>
history == <<left, forgotten>>
vars == <<ebay, known, data, baseline, step, draft, stale, restarts, told, history>>

Listed == {i \in Items : status[i] = "active"}

-----------------------------------------------------------------------------
(* Detection.                                                              *)

\* _collection_truncated looks at both payloads.
Partial(prev, cur) == prev.cutItems \/ cur.cutItems
Incomplete(prev, cur) == prev.cutClass \/ cur.cutClass

Gone(prev, cur) == IF Partial(prev, cur) THEN {} ELSE prev.items \ cur.items

\* The listings that disappeared and are classified with this status.
GoneAs(ids, prev, cur) ==
    IF Incomplete(prev, cur) THEN {} ELSE Gone(prev, cur) \cap ids

\* _detect_selling_events, for the events about listings that come and go.
Detected(prev, cur) ==
    LET gone == Gone(prev, cur)
        sold == GoneAs(cur.sold, prev, cur)
        unsold == GoneAs(cur.unsold, prev, cur)
        added == IF Partial(prev, cur) THEN {} ELSE cur.items \ prev.items
        completed == IF Partial(prev, cur) \/ Incomplete(prev, cur) THEN {}
                     ELSE (cur.sold \ prev.sold) \ sold
    IN  {"selling_item_added"} \X added
            \cup {"item_sold"} \X sold
            \cup {"item_ended_unsold"} \X unsold
            \cup {"item_disappeared_unknown"} \X (gone \ (sold \cup unsold))
            \cup {"item_sale_completed"} \X completed

\* _baseline_payload keeps what a truncated collection leaves out.
NextBaselineKept(prev, cur) ==
    IF cur.cutItems \/ cur.cutClass THEN prev ELSE cur

NextBaseline(prev, cur) ==
    [cur EXCEPT !.items = IF cur.cutItems THEN prev.items \cup @ ELSE @,
                !.sold = IF cur.cutClass THEN prev.sold \cup @ ELSE @,
                !.unsold = IF cur.cutClass THEN (prev.unsold \ cur.sold) \cup @ ELSE @]

ClassifiedUnsoldFirst(p, sold) == [p EXCEPT !.sold = sold \ p.unsold]

\* An id in both lists is classified sold.
Classified(p, sold) == [p EXCEPT !.sold = sold, !.unsold = @ \ sold]

\* The sold and unsold lists are read when a listing disappeared, or at times.
ShouldFetchOnEnd(p) == data.items \ p.items # {}

ShouldFetch(p) == data.items \ p.items # {} \/ stale

\* What a request for a list of ids returns, truncated or not.
Answers(ids, cuts) ==
    {[ids |-> ids, cut |-> FALSE]} \cup
        (IF cuts THEN {[ids |-> seen, cut |-> TRUE] : seen \in SUBSET ids} ELSE {})

-----------------------------------------------------------------------------
Init ==
    /\ status \in [Items -> {"unlisted", "active"}]
    /\ soldList = {} /\ unsoldList = {}
    /\ known = FALSE
    /\ data = NoPayload /\ baseline = NoPayload /\ draft = NoPayload
    /\ step = "idle"
    /\ stale = TRUE
    /\ restarts = 0
    /\ told = [e \in EventKind \X Items |-> 0]
    /\ left = {} /\ forgotten = {}

(* eBay.                                                                   *)

List(i) ==
    /\ status[i] = "unlisted"
    /\ status' = [status EXCEPT ![i] = "active"]
    /\ UNCHANGED <<soldList, unsoldList, known, data, baseline, step, draft, stale,
                   restarts, told, history>>

Sell(i) ==
    /\ status[i] = "active"
    /\ soldList' = soldList \cup {i}
    /\ \/ status' = [status EXCEPT ![i] = "over"]
       \/ i \in Multi /\ i \notin soldList /\ UNCHANGED status
    /\ UNCHANGED <<unsoldList, known, data, baseline, step, draft, stale, restarts, told, history>>

EndUnsold(i) ==
    /\ status[i] = "active"
    /\ status' = [status EXCEPT ![i] = "over"]
    /\ unsoldList' = unsoldList \cup {i}
    /\ UNCHANGED <<soldList, known, data, baseline, step, draft, stale, restarts, told, history>>

(* The refresh.                                                            *)

FetchListings ==
    /\ step = "idle"
    /\ \E answer \in Answers(Listed, ListCuts) :
          draft' = [data EXCEPT
                      !.items = IF answer.cut THEN @ \cup answer.ids ELSE answer.ids,
                      !.cutItems = answer.cut,
                      !.cutClass = FALSE]
    /\ step' = IF ShouldFetch(draft') THEN "unsold" ELSE "ready"
    /\ UNCHANGED <<ebay, known, data, baseline, stale, restarts, told, history>>

FetchUnsold ==
    /\ step = "unsold"
    /\ step' = "sold"
    /\ \E answer \in Answers(unsoldList, ClassCuts) :
          draft' = [draft EXCEPT !.unsold = answer.ids, !.cutClass = answer.cut]
    /\ UNCHANGED <<ebay, known, data, baseline, stale, restarts, told, history>>

Told(kind, i) == told[<<kind, i>>]

\* There are no events before the first payload of a life.
Tell(events) ==
    told' = [e \in EventKind \X Items |->
                IF known /\ e \in events /\ told[e] < MaxTold THEN told[e] + 1
                ELSE told[e]]

PublishSwapped(p) ==
    /\ known' = TRUE
    /\ data' = p
    /\ baseline' = IF known THEN NextBaseline(baseline, p) ELSE p
    /\ Tell(Detected(baseline', p))
    /\ step' = "idle"
    /\ draft' = NoPayload

\* The payload is complete: events, baseline, self.data.
Publish(p) ==
    /\ known' = TRUE
    /\ data' = p
    /\ baseline' = IF known THEN NextBaseline(baseline, p) ELSE p
    /\ Tell(Detected(baseline, p))
    /\ step' = "idle"
    /\ draft' = NoPayload

FinishClassified ==
    /\ step = "sold"
    /\ \E answer \in Answers(soldList, ClassCuts) :
          /\ Publish([Classified(draft, answer.ids) EXCEPT !.cutClass = @ \/ answer.cut])
          /\ left' = {i \in soldList \ answer.ids : Told("item_sale_completed", i) > 0}
    /\ stale' = FALSE
    /\ UNCHANGED <<ebay, restarts, forgotten>>

FinishUnflagged ==
    /\ ClassFails
    /\ step \in {"unsold", "sold"}
    /\ Publish([draft EXCEPT !.sold = data.sold, !.unsold = data.unsold,
                             !.cutClass = FALSE])
    /\ UNCHANGED <<ebay, stale, restarts, history>>

\* The classification fails: the former one is kept, flagged as truncated.
FinishUnclassified ==
    /\ ClassFails
    /\ step \in {"unsold", "sold"}
    /\ Publish([draft EXCEPT !.sold = data.sold, !.unsold = data.unsold,
                             !.cutClass = TRUE])
    /\ UNCHANGED <<ebay, stale, restarts, history>>

FinishSkipped ==
    /\ step = "ready"
    /\ Publish(draft)
    /\ forgotten' = forgotten \cup left
    /\ UNCHANGED <<ebay, stale, restarts, left>>

\* Authentication fails, or a call that is not optional does.
Abandon ==
    /\ step # "idle"
    /\ step' = "idle"
    /\ draft' = NoPayload
    /\ UNCHANGED <<ebay, known, data, baseline, stale, restarts, told, history>>

GetStale ==
    /\ ~stale
    /\ stale' = TRUE
    /\ UNCHANGED <<ebay, known, data, baseline, step, draft, restarts, told, history>>

\* The entry is set up anew: nothing of a payload survives.
Restart ==
    /\ restarts < MaxRestarts
    /\ restarts' = restarts + 1
    /\ known' = FALSE
    /\ data' = NoPayload /\ baseline' = NoPayload /\ draft' = NoPayload
    /\ step' = "idle"
    /\ stale' = TRUE
    /\ left' = {}
    /\ UNCHANGED <<ebay, told, forgotten>>

Next ==
    \/ \E i \in Items : List(i) \/ Sell(i) \/ EndUnsold(i)
    \/ FetchListings \/ FetchUnsold
    \/ FinishClassified \/ FinishUnclassified \/ FinishSkipped
    \/ Abandon \/ GetStale \/ Restart

\* The polls go on and six hours pass; errors may come back for ever, but not
\* every refresh is abandoned at the same call.
Spec ==
    /\ Init /\ [][Next]_vars
    /\ WF_vars(FetchListings) /\ WF_vars(GetStale)
    /\ SF_vars(FetchUnsold) /\ SF_vars(FinishClassified) /\ SF_vars(FinishSkipped)

-----------------------------------------------------------------------------
(* Properties.                                                             *)

\* Every variable has its type; no id is classified both sold and unsold.
TypeOK ==
    /\ status \in [Items -> {"unlisted", "active", "over"}]
    /\ soldList \subseteq Items /\ unsoldList \subseteq Items
    /\ known \in BOOLEAN /\ stale \in BOOLEAN
    /\ data \in Payload /\ baseline \in Payload /\ draft \in Payload
    /\ data.sold \cap data.unsold = {}
    /\ step \in {"idle", "unsold", "sold", "ready"}
    /\ restarts \in 0..MaxRestarts
    /\ told \in [EventKind \X Items -> 0..MaxTold]
    /\ left \subseteq Items /\ forgotten \subseteq Items

GoneKind == {"item_sold", "item_ended_unsold", "item_disappeared_unknown"}

\* A listing's end is announced at most once, as sold, unsold or unknown: a
\* truncated list, a failed classification or a reload never repeats it.
EndOnce ==
    \A i \in Items : \A k, l \in GoneKind :
        Told(k, i) > 0 /\ Told(l, i) > 0 => k = l /\ Told(k, i) = 1

\* What an event says of a listing is true: it is over, and it sold a unit or
\* not; a listing that sold and then ended counts as sold.
EventsTrue ==
    \A i \in Items :
        /\ \A k \in GoneKind : Told(k, i) > 0 => status[i] = "over"
        /\ Told("item_sold", i) > 0 => i \in soldList
        /\ Told("item_sale_completed", i) > 0 => i \in soldList
        /\ Told("item_ended_unsold", i) > 0 => i \in unsoldList \ soldList

\* A listing is announced as new at most once.
AddedOnce == \A i \in Items : Told("selling_item_added", i) <= 1

\* A sale is announced as completed at most once, "so change events are not
\* repeated on the next poll" (coordinator.py:789), over sold lists that are cut
\* short, fail or are skipped and over reloads: unless a sold list that was cut short
\* left it out and the next refresh, which read none, took that list for a whole one
\* (section_fetch.py:313).
CompletedOnce == \A i \in Items \ forgotten : Told("item_sale_completed", i) <= 1

\* "sold disappearance does not double fire sale completed"
\* (tests/test_coordinator_events.py:538): the one sale of a listing of one unit
\* is announced once, as item_sold or as item_sale_completed.
SaleOnce ==
    \A i \in Items \ Multi :
        Told("item_sold", i) + Told("item_sale_completed", i) <= 1

\* A sale that the baseline does not hold yet is announced in the end, unless the
\* entry is set up anew in between.
SaleAnnounced ==
    \A i \in Items :
        known /\ i \in soldList /\ i \notin baseline.sold
            ~> ~known \/ Told("item_sold", i) + Told("item_sale_completed", i) > 0

\* A listing the baseline holds and that is over is announced in the end as gone.
EndAnnounced ==
    \A i \in Items :
        known /\ i \in baseline.items /\ status[i] = "over"
            ~> ~known \/ \E k \in GoneKind : Told(k, i) > 0
=============================================================================
