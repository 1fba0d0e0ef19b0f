-------------------------- MODULE SellingEventsProofs --------------------------
(***************************************************************************)
(* Proofs about SellingEvents, for any number of listings, reloads, cut    *)
(* lists and failed classifications: an end is announced once and truly, a *)
(* new listing once, and a completed sale once unless a sold list that was *)
(* cut short left it out and was taken for a whole one.                    *)
(***************************************************************************)
EXTENDS SellingEvents, TLAPS

USE SellingEventsAssumption

(***************************************************************************)
(* The inductive invariant.                                                *)
(***************************************************************************)

\* Listed once: in a payload, or announced.
Seen(i) ==
    i \in baseline.items \cup data.items \cup draft.items \/ Told("selling_item_added", i) > 0

Met == \A i \in Items : Seen(i) => status[i] # "unlisted"

\* What is classified comes from eBay's lists, of which nothing goes.
Sourced ==
    /\ data.sold \subseteq soldList /\ data.unsold \subseteq unsoldList
    /\ baseline.sold \subseteq soldList /\ baseline.unsold \subseteq unsoldList
    /\ draft.sold \subseteq soldList /\ draft.unsold \subseteq unsoldList

\* A listing seen that a whole active list leaves out is over.
Fetched ==
    step # "idle" /\ ~draft.cutItems =>
        \A i \in Items : Seen(i) /\ i \notin draft.items => status[i] = "over"

\* The lists are left unread only when nothing disappeared.
Skipped ==
    step = "ready" => /\ draft.sold = data.sold /\ draft.unsold = data.unsold
                      /\ data.items \subseteq draft.items

\* Between refreshes there is no draft; the baseline differs from the payload only
\* after a cut list.
Based ==
    /\ step = "idle" => draft = NoPayload
    /\ known /\ ~baseline.cutItems => baseline.items = data.items

\* A listing announced as gone is over and in no payload, so that it cannot be
\* found gone again.
Ended ==
    \A i \in Items : \A k \in GoneKind : Told(k, i) > 0 =>
        status[i] = "over" /\ i \notin baseline.items \cup data.items \cup draft.items

\* A listing announced as new stays in the baseline until it is over; after a
\* reload, the first list read whole puts it back before anything is announced.
Announced ==
    \A i \in Items : Told("selling_item_added", i) > 0 =>
        \/ ~known \/ baseline.cutItems
        \/ i \in baseline.items
        \/ status[i] = "over" /\ (i \notin draft.items \/ draft.cutItems)

IInv == /\ TypeOK /\ Met /\ Sourced /\ Fetched /\ Skipped /\ Based /\ Ended /\ Announced
        /\ EndOnce /\ EventsTrue /\ AddedOnce

\* A completed sale announced is in the baseline, or the sold list of that was cut
\* short, and nothing is compared with it; the payload holds it or the sold list it
\* holds was cut short, once a sold list was read.
Recorded ==
    \A i \in Items \ forgotten : Told("item_sale_completed", i) > 0 =>
        /\ known => baseline.cutClass \/ i \in baseline.sold
        /\ ~stale \/ step = "ready" => i \in data.sold \cup left

CInv == IInv /\ Recorded /\ CompletedOnce

\* Nothing is listed or told at first.
LEMMA InitInv == Init => IInv /\ Recorded /\ CompletedOnce
<1> SUFFICES ASSUME Init PROVE IInv /\ Recorded /\ CompletedOnce
  OBVIOUS
<1>1. /\ NoPayload \in Payload /\ NoPayload.items = {} /\ NoPayload.sold = {}
      /\ NoPayload.unsold = {} /\ ~NoPayload.cutItems /\ ~NoPayload.cutClass
  BY DEF NoPayload, Payload
<1>2. /\ data = NoPayload /\ baseline = NoPayload /\ draft = NoPayload
      /\ step = "idle" /\ known = FALSE /\ stale = TRUE
      /\ status \in [Items -> {"unlisted", "active"}] /\ soldList = {} /\ unsoldList = {}
      /\ restarts = 0 /\ told = [e \in EventKind \X Items |-> 0]
      /\ left = {} /\ forgotten = {}
  BY DEF Init
<1>3. told \in [EventKind \X Items -> 0..MaxTold]
  BY <1>2
<1>4. TypeOK
  <2>1. data.sold \cap data.unsold = {}
    BY <1>1, <1>2
  <2>2. data \in Payload /\ baseline \in Payload /\ draft \in Payload
    BY <1>1, <1>2
  <2>3. restarts \in 0..MaxRestarts
    BY <1>2
  <2> QED BY <1>2, <1>3, <2>1, <2>2, <2>3 DEF TypeOK
<1>5. \A k \in EventKind, i \in Items : Told(k, i) = 0
  BY <1>2 DEF Told
<1>6. GoneKind \subseteq EventKind /\ "selling_item_added" \in EventKind
      /\ "item_sale_completed" \in EventKind
  BY DEF GoneKind, EventKind
<1>7. /\ Met /\ Sourced /\ Fetched /\ Skipped /\ Based /\ Ended /\ Announced
      /\ EndOnce /\ EventsTrue /\ AddedOnce /\ Recorded /\ CompletedOnce
  BY <1>1, <1>2, <1>5, <1>6
  DEF Met, Seen, Sourced, Fetched, Skipped, Based, Ended, Announced, EndOnce, EventsTrue,
      AddedOnce, Recorded, CompletedOnce, GoneKind
<1> QED BY <1>4, <1>7 DEF IInv

(***************************************************************************)
(* eBay.                                                                   *)
(***************************************************************************)

\* What eBay does to one listing: it is active afterwards if it was not listed, and
\* over for good once it is; a sale needs an active listing.
Changes ==
    /\ status' \in [Items -> {"unlisted", "active", "over"}]
    /\ soldList' \subseteq Items /\ unsoldList' \subseteq Items
    /\ soldList \subseteq soldList' /\ unsoldList \subseteq unsoldList'
    /\ \A i \in Items : /\ status[i] # "unlisted" => status'[i] # "unlisted"
                        /\ status[i] = "over" => status'[i] = "over"
                        /\ i \in soldList' \ soldList => status[i] = "active"
    /\ UNCHANGED <<known, data, baseline, step, draft, stale, restarts, told, left, forgotten>>

\* What eBay does to a listing.
LEMMA EbayChanges ==
    ASSUME TypeOK, NEW i \in Items, List(i) \/ Sell(i) \/ EndUnsold(i)
    PROVE  Changes
BY DEF TypeOK, List, Sell, EndUnsold, Changes, history

\* What eBay does keeps the invariant: nothing goes from its lists of what is over.
LEMMA ChangesInv ==
    ASSUME IInv, Changes
    PROVE  IInv' /\ (Recorded /\ CompletedOnce => (Recorded /\ CompletedOnce)')
<1>1. TypeOK'
  BY DEF IInv, TypeOK, Changes
<1>2. Met' /\ Fetched'
  BY DEF IInv, Met, Fetched, Seen, Told, Changes
<1>3. Sourced' /\ Skipped' /\ Based'
  BY DEF IInv, Sourced, Skipped, Based, Changes
<1>4. Ended'
  BY DEF IInv, Ended, Told, Changes
<1>5. Announced'
  BY DEF IInv, Announced, Told, Changes
<1>6. EndOnce' /\ AddedOnce'
  BY DEF IInv, EndOnce, AddedOnce, Told, Changes
<1>7. EventsTrue'
  BY DEF IInv, EventsTrue, Told, Changes, GoneKind
<1>8. Recorded /\ CompletedOnce => (Recorded /\ CompletedOnce)'
  BY DEF Recorded, CompletedOnce, Told, Changes
<1> QED BY <1>1, <1>2, <1>3, <1>4, <1>5, <1>6, <1>7, <1>8 DEF IInv

(***************************************************************************)
(* The steps of a refresh before its events.                               *)
(***************************************************************************)

\* An answer is part of a list, and all of it when it is not cut.
LEMMA AnswersOf ==
    ASSUME NEW ids, NEW cuts \in BOOLEAN, NEW answer \in Answers(ids, cuts)
    PROVE  /\ answer.cut \in BOOLEAN /\ answer.ids \subseteq ids
           /\ answer.cut => cuts
           /\ ~answer.cut => answer.ids = ids
<1>1. CASE answer = [ids |-> ids, cut |-> FALSE]
  BY <1>1
<1>2. CASE cuts /\ \E seen \in SUBSET ids : answer = [ids |-> seen, cut |-> TRUE]
  BY <1>2
<1> QED BY <1>1, <1>2, Zenon DEF Answers

\* The active list: a draft whose listings are those that are active, and when it
\* is cut those of the last payload too.
LEMMA FetchListingsInv ==
    ASSUME IInv, FetchListings
    PROVE  IInv' /\ (Recorded /\ CompletedOnce => (Recorded /\ CompletedOnce)')
<1>1. PICK answer \in Answers(Listed, ListCuts) :
        draft' = [data EXCEPT !.items = IF answer.cut THEN @ \cup answer.ids ELSE answer.ids,
                              !.cutItems = answer.cut, !.cutClass = FALSE]
  BY DEF FetchListings
<1>2. /\ answer.cut \in BOOLEAN /\ answer.ids \subseteq Listed
      /\ ~answer.cut => answer.ids = Listed
  BY AnswersOf
<1>3. data \in Payload
  BY DEF IInv, TypeOK
<1>4. /\ draft' \in Payload
      /\ draft'.items = IF answer.cut THEN data.items \cup answer.ids ELSE answer.ids
      /\ draft'.cutItems = answer.cut /\ ~draft'.cutClass
      /\ draft'.sold = data.sold /\ draft'.unsold = data.unsold
  BY <1>1, <1>2, <1>3 DEF Payload, Listed
<1>5. /\ step = "idle" /\ draft.items = {}
      /\ step' \in {"unsold", "ready"} /\ (step' = "ready" => ~ShouldFetch(draft'))
      /\ UNCHANGED <<ebay, known, data, baseline, stale, restarts, told, left, forgotten>>
  BY DEF FetchListings, IInv, Based, NoPayload, history
<1>6. UNCHANGED <<status, soldList, unsoldList, known, data, baseline, stale, restarts,
                  told, left, forgotten>>
  BY <1>5 DEF ebay
<1>7. TypeOK'
  BY <1>4, <1>5, <1>6 DEF IInv, TypeOK
<1>8. \A i \in Items : Seen(i)' => Seen(i) \/ i \in Listed
  BY <1>2, <1>4, <1>6 DEF Seen, Told
<1>9. Met'
  BY <1>6, <1>8 DEF IInv, Met, Listed
<1>10. Sourced' /\ Based'
  BY <1>4, <1>5, <1>6 DEF IInv, Sourced, Based
<1>11. Fetched'
  BY <1>2, <1>4, <1>6, <1>9 DEF IInv, TypeOK, Fetched, Met, Listed
<1>12. Skipped'
  <2> SUFFICES ASSUME step' = "ready" PROVE data.items \subseteq draft'.items
    BY <1>4, <1>6 DEF Skipped
  <2>1. data.items \ draft'.items = {}
    BY <1>5 DEF ShouldFetch
  <2> QED BY <2>1
<1>13. Ended'
  BY <1>2, <1>4, <1>6 DEF IInv, Ended, Told, Listed
<1>14. Announced'
  BY <1>2, <1>4, <1>6 DEF IInv, Announced, Told, Listed
<1>15. EndOnce' /\ AddedOnce' /\ EventsTrue'
  BY <1>6 DEF IInv, EndOnce, AddedOnce, EventsTrue, Told
<1>16. Recorded /\ CompletedOnce => (Recorded /\ CompletedOnce)'
  BY <1>4, <1>5, <1>6 DEF Recorded, CompletedOnce, Told, ShouldFetch
<1> QED BY <1>7, <1>9, <1>10, <1>11, <1>12, <1>13, <1>14, <1>15, <1>16 DEF IInv

\* The second call of a refresh keeps the invariant.
LEMMA FetchUnsoldInv ==
    ASSUME IInv, FetchUnsold
    PROVE  IInv' /\ (Recorded /\ CompletedOnce => (Recorded /\ CompletedOnce)')
<1>1. PICK answer \in Answers(unsoldList, ClassCuts) :
        draft' = [draft EXCEPT !.unsold = answer.ids, !.cutClass = answer.cut]
  BY DEF FetchUnsold
<1>2. answer.cut \in BOOLEAN /\ answer.ids \subseteq unsoldList /\ (answer.cut => ClassCuts)
  BY AnswersOf
<1>3. draft \in Payload /\ unsoldList \subseteq Items
  BY DEF IInv, TypeOK
<1>4. /\ draft' \in Payload
      /\ draft'.items = draft.items /\ draft'.cutItems = draft.cutItems
      /\ draft'.sold = draft.sold /\ draft'.unsold = answer.ids
      /\ draft'.cutClass = answer.cut
  BY <1>1, <1>2, <1>3 DEF Payload
<1>5. /\ step = "unsold" /\ step' = "sold"
      /\ UNCHANGED <<status, soldList, unsoldList, known, data, baseline, stale, restarts,
                     told, left, forgotten>>
  BY DEF FetchUnsold, ebay, history
<1>6. TypeOK'
  BY <1>4, <1>5 DEF IInv, TypeOK
<1>7. Met' /\ Fetched'
  BY <1>4, <1>5 DEF IInv, Met, Fetched, Seen, Told
<1>8. Sourced' /\ Skipped' /\ Based'
  BY <1>2, <1>4, <1>5 DEF IInv, Sourced, Skipped, Based
<1>9. Ended'
  BY <1>4, <1>5 DEF IInv, Ended, Told
<1>10. Announced'
  BY <1>4, <1>5 DEF IInv, Announced, Told
<1>11. EndOnce' /\ AddedOnce' /\ EventsTrue'
  BY <1>5 DEF IInv, EndOnce, AddedOnce, EventsTrue, Told
<1>12. Recorded /\ CompletedOnce => (Recorded /\ CompletedOnce)'
  BY <1>2, <1>4, <1>5 DEF Recorded, CompletedOnce, Told
<1> QED BY <1>6, <1>7, <1>8, <1>9, <1>10, <1>11, <1>12 DEF IInv

(***************************************************************************)
(* The steps that drop a refresh, or all of it.                            *)
(***************************************************************************)

\* The payload of no refresh.
LEMMA NoPayloadFacts ==
    /\ NoPayload \in Payload /\ NoPayload.items = {} /\ NoPayload.sold = {}
    /\ NoPayload.unsold = {} /\ NoPayload.cutItems = FALSE /\ NoPayload.cutClass = FALSE
BY DEF NoPayload, Payload

\* A refresh that is abandoned keeps the invariant.
LEMMA AbandonInv ==
    ASSUME IInv, Abandon
    PROVE  IInv' /\ (Recorded /\ CompletedOnce => (Recorded /\ CompletedOnce)')
<1>1. /\ step' = "idle" /\ draft' = NoPayload
      /\ UNCHANGED <<status, soldList, unsoldList, known, data, baseline, stale, restarts,
                     told, left, forgotten>>
  BY DEF Abandon, ebay, history
<1>2. TypeOK'
  BY <1>1, NoPayloadFacts DEF IInv, TypeOK
<1>3. Met' /\ Fetched' /\ Sourced' /\ Skipped' /\ Based'
  BY <1>1, NoPayloadFacts DEF IInv, Met, Fetched, Seen, Told, Sourced, Skipped, Based
<1>4. Ended'
  BY <1>1, NoPayloadFacts DEF IInv, Ended, Told
<1>5. Announced'
  BY <1>1, NoPayloadFacts DEF IInv, Announced, Told
<1>6. EndOnce' /\ AddedOnce' /\ EventsTrue'
  BY <1>1 DEF IInv, EndOnce, AddedOnce, EventsTrue, Told
<1>7. Recorded /\ CompletedOnce => (Recorded /\ CompletedOnce)'
  BY <1>1, NoPayloadFacts DEF Recorded, CompletedOnce, Told
<1> QED BY <1>2, <1>3, <1>4, <1>5, <1>6, <1>7 DEF IInv

\* Time that passes keeps the invariant.
LEMMA GetStaleInv ==
    ASSUME IInv, GetStale
    PROVE  IInv' /\ (Recorded /\ CompletedOnce => (Recorded /\ CompletedOnce)')
<1>1. /\ stale' = TRUE
      /\ UNCHANGED <<status, soldList, unsoldList, known, data, baseline, step, draft, restarts,
                     told, left, forgotten>>
  BY DEF GetStale, ebay, history
<1> QED BY <1>1 DEF IInv, TypeOK, Met, Fetched, Seen, Told, Sourced, Skipped, Based, Ended,
                    Announced, EndOnce, AddedOnce, EventsTrue, Recorded, CompletedOnce

\* After a reload there is no payload, but eBay has what it had.
LEMMA RestartInv ==
    ASSUME IInv, Restart
    PROVE  IInv' /\ (Recorded /\ CompletedOnce => (Recorded /\ CompletedOnce)')
<1>1. /\ restarts < MaxRestarts /\ restarts' = restarts + 1 /\ known' = FALSE
      /\ data' = NoPayload /\ baseline' = NoPayload /\ draft' = NoPayload
      /\ step' = "idle" /\ stale' = TRUE
      /\ left' = {} /\ UNCHANGED <<status, soldList, unsoldList, told, forgotten>>
  BY DEF Restart, ebay
<1>2. TypeOK'
  <2>1. data'.sold \cap data'.unsold = {}
    BY <1>1, NoPayloadFacts
  <2>2. data' \in Payload /\ baseline' \in Payload /\ draft' \in Payload
    BY <1>1, NoPayloadFacts
  <2>3. restarts' \in 0..MaxRestarts
    BY <1>1 DEF IInv, TypeOK
  <2> QED BY <1>1, <2>1, <2>2, <2>3 DEF IInv, TypeOK
<1>3. Met' /\ Fetched' /\ Sourced' /\ Skipped' /\ Based'
  BY <1>1, NoPayloadFacts DEF IInv, Met, Fetched, Seen, Told, Sourced, Skipped, Based
<1>4. Ended' /\ Announced'
  BY <1>1, NoPayloadFacts DEF IInv, Ended, Announced, Told
<1>5. EndOnce' /\ AddedOnce' /\ EventsTrue'
  BY <1>1 DEF IInv, EndOnce, AddedOnce, EventsTrue, Told
<1>6. Recorded /\ CompletedOnce => (Recorded /\ CompletedOnce)'
  BY <1>1, NoPayloadFacts DEF Recorded, CompletedOnce, Told
<1> QED BY <1>2, <1>3, <1>4, <1>5, <1>6 DEF IInv

(***************************************************************************)
(* The events of a payload.                                                *)
(***************************************************************************)

\* When each kind of event is told.
LEMMA DetectedFacts ==
    ASSUME NEW prev, NEW cur, NEW i \in Items
    PROVE  /\ <<"selling_item_added", i>> \in Detected(prev, cur)
                <=> ~Partial(prev, cur) /\ i \in cur.items \ prev.items
           /\ <<"item_sold", i>> \in Detected(prev, cur) <=> i \in GoneAs(cur.sold, prev, cur)
           /\ <<"item_ended_unsold", i>> \in Detected(prev, cur)
                <=> i \in GoneAs(cur.unsold, prev, cur)
           /\ <<"item_disappeared_unknown", i>> \in Detected(prev, cur)
                <=> i \in Gone(prev, cur) \ (GoneAs(cur.sold, prev, cur) \cup GoneAs(cur.unsold, prev, cur))
           /\ <<"item_sale_completed", i>> \in Detected(prev, cur)
                <=> /\ ~Partial(prev, cur) /\ ~Incomplete(prev, cur)
                    /\ i \in cur.sold \ prev.sold /\ i \notin GoneAs(cur.sold, prev, cur)
<1> DEFINE A == IF Partial(prev, cur) THEN {} ELSE cur.items \ prev.items
           S == GoneAs(cur.sold, prev, cur)
           U == GoneAs(cur.unsold, prev, cur)
           G == Gone(prev, cur)
           C == IF Partial(prev, cur) \/ Incomplete(prev, cur) THEN {}
                ELSE (cur.sold \ prev.sold) \ S
<1>1. Detected(prev, cur) =
        {"selling_item_added"} \X A \cup {"item_sold"} \X S \cup {"item_ended_unsold"} \X U
            \cup {"item_disappeared_unknown"} \X (G \ (S \cup U))
            \cup {"item_sale_completed"} \X C
  BY DEF Detected
<1>2. /\ i \in A <=> ~Partial(prev, cur) /\ i \in cur.items \ prev.items
      /\ i \in C <=> /\ ~Partial(prev, cur) /\ ~Incomplete(prev, cur)
                     /\ i \in cur.sold \ prev.sold /\ i \notin S
  OBVIOUS
<1> HIDE DEF A, S, U, G, C
<1>3. /\ <<"selling_item_added", i>> \in Detected(prev, cur) <=> i \in A
      /\ <<"item_sold", i>> \in Detected(prev, cur) <=> i \in S
      /\ <<"item_ended_unsold", i>> \in Detected(prev, cur) <=> i \in U
      /\ <<"item_disappeared_unknown", i>> \in Detected(prev, cur) <=> i \in G \ (S \cup U)
      /\ <<"item_sale_completed", i>> \in Detected(prev, cur) <=> i \in C
  BY <1>1
<1> QED BY <1>2, <1>3 DEF S, U, G

\* What the next refresh will compare with.
LEMMA NextBaselineFacts ==
    ASSUME NEW prev \in Payload, NEW cur \in Payload
    PROVE  /\ NextBaseline(prev, cur) \in Payload
           /\ NextBaseline(prev, cur).items = IF cur.cutItems THEN prev.items \cup cur.items
                                              ELSE cur.items
           /\ NextBaseline(prev, cur).sold = IF cur.cutClass THEN prev.sold \cup cur.sold
                                             ELSE cur.sold
           /\ NextBaseline(prev, cur).unsold \subseteq prev.unsold \cup cur.unsold
           /\ NextBaseline(prev, cur).cutItems = cur.cutItems
           /\ NextBaseline(prev, cur).cutClass = cur.cutClass
BY DEF NextBaseline, Payload

\* What the last call of a refresh hands to Publish.
Whole(p) ==
    /\ step # "idle"
    /\ p \in Payload
    /\ p.items = draft.items /\ p.cutItems = draft.cutItems
    /\ p.sold \subseteq soldList /\ p.unsold \subseteq unsoldList
    /\ p.sold \cap p.unsold = {}
    /\ known => GoneAs(p.unsold, baseline, p) \cap soldList = {}

\* A count goes up by one for what is detected, once there is a baseline.
LEMMA TellFacts ==
    ASSUME TypeOK, NEW events, Tell(events), NEW k \in EventKind, NEW i \in Items
    PROVE  /\ Told(k, i) \in 0..MaxTold /\ Told(k, i)' \in 0..MaxTold
           /\ (known /\ <<k, i>> \in events) \/ Told(k, i)' = Told(k, i)
           /\ Told(k, i)' = Told(k, i) \/ Told(k, i)' = Told(k, i) + 1
           /\ Told(k, i)' >= Told(k, i)
<1>1. told[<<k, i>>] \in 0..MaxTold
  BY DEF TypeOK
<1>2. told'[<<k, i>>] = IF known /\ <<k, i>> \in events /\ told[<<k, i>>] < MaxTold
                        THEN told[<<k, i>>] + 1 ELSE told[<<k, i>>]
  BY DEF Tell
<1> QED BY <1>1, <1>2 DEF Told

\* A payload that is published has its type.
LEMMA PublishTypes ==
    ASSUME IInv, NEW p, Whole(p), Publish(p), stale' \in BOOLEAN,
           UNCHANGED <<status, soldList, unsoldList, restarts>>,
           left' \subseteq Items, forgotten' \subseteq Items
    PROVE  TypeOK'
<1>1. /\ baseline' \in Payload /\ data' = p /\ draft' = NoPayload /\ known' = TRUE /\ step' = "idle"
  BY NextBaselineFacts DEF Publish, Whole, IInv, TypeOK
<1>2. told' \in [EventKind \X Items -> 0..MaxTold]
  <2>1. \A e \in EventKind \X Items : told'[e] \in 0..MaxTold
    <3> TAKE e \in EventKind \X Items
    <3>1. told[e] \in 0..MaxTold
      BY DEF IInv, TypeOK
    <3>2. told'[e] = IF known /\ e \in Detected(baseline, p) /\ told[e] < MaxTold
                     THEN told[e] + 1 ELSE told[e]
      BY DEF Publish, Tell
    <3> QED BY <3>1, <3>2
  <2>2. told' = [e \in EventKind \X Items |-> told'[e]]
    BY DEF Publish, Tell
  <2> QED BY <2>1, <2>2
<1>3. p.sold \cap p.unsold = {} /\ p \in Payload
  BY DEF Whole
<1> QED BY <1>1, <1>2, <1>3, NoPayloadFacts DEF IInv, TypeOK

\* A payload that is published keeps the invariant.
LEMMA PublishInv ==
    ASSUME IInv, NEW p, Whole(p), Publish(p), stale' \in BOOLEAN,
           UNCHANGED <<status, soldList, unsoldList, restarts>>,
           left' \subseteq Items, forgotten' \subseteq Items
    PROVE  IInv'
<1> DEFINE Is(k, i) == known /\ <<k, i>> \in Detected(baseline, p)
<1>1. /\ data' = p /\ draft' = NoPayload /\ known' = TRUE /\ step' = "idle"
      /\ baseline' = IF known THEN NextBaseline(baseline, p) ELSE p
      /\ Tell(Detected(baseline, p))
  BY DEF Publish
<1>2. p \in Payload /\ baseline \in Payload /\ data \in Payload
  BY DEF Whole, IInv, TypeOK
<1>3. /\ baseline'.items = IF known /\ p.cutItems THEN baseline.items \cup p.items ELSE p.items
      /\ baseline'.cutItems = p.cutItems
      /\ baseline'.sold \subseteq baseline.sold \cup p.sold
      /\ baseline'.unsold \subseteq baseline.unsold \cup p.unsold
  BY <1>1, <1>2, NextBaselineFacts
<1>4. \A k \in EventKind : \A i \in Items :
        /\ Told(k, i) \in 0..MaxTold /\ Told(k, i)' \in 0..MaxTold
        /\ Is(k, i) \/ Told(k, i)' = Told(k, i)
        /\ Told(k, i)' = Told(k, i) \/ Told(k, i)' = Told(k, i) + 1
        /\ Told(k, i)' >= Told(k, i)
  BY <1>1, TellFacts DEF IInv
<1>5. p.items = draft.items /\ p.cutItems = draft.cutItems /\ step # "idle"
  BY DEF Whole
<1> HIDE DEF Is
\* What is found gone is over.
<1>6. ASSUME NEW i \in Items, known, i \in Gone(baseline, p)
      PROVE  /\ status[i] = "over" /\ i \in baseline.items
             /\ i \notin data'.items \cup baseline'.items
  <2>1. ~baseline.cutItems /\ ~p.cutItems /\ i \in baseline.items \ p.items
    BY <1>6 DEF Gone, Partial
  <2>2. Seen(i) /\ i \notin draft.items
    BY <1>5, <2>1 DEF Seen
  <2>3. status[i] = "over"
    BY <1>5, <2>1, <2>2 DEF IInv, Fetched
  <2> QED BY <1>1, <1>3, <2>1, <2>3
<1>7. ASSUME NEW i \in Items
      PROVE  /\ Is("selling_item_added", i) =>
                  known /\ ~Partial(baseline, p) /\ i \in p.items \ baseline.items
             /\ Is("item_sold", i) => known /\ i \in GoneAs(p.sold, baseline, p)
             /\ Is("item_ended_unsold", i) => known /\ i \in GoneAs(p.unsold, baseline, p)
             /\ Is("item_disappeared_unknown", i) =>
                  /\ known /\ i \in Gone(baseline, p)
                  /\ i \notin GoneAs(p.sold, baseline, p) \cup GoneAs(p.unsold, baseline, p)
             /\ Is("item_sale_completed", i) => i \in p.sold
  BY DetectedFacts DEF Is
<1>8. GoneAs(p.sold, baseline, p) \cap GoneAs(p.unsold, baseline, p) = {}
      /\ GoneAs(p.sold, baseline, p) \subseteq Gone(baseline, p) \cap p.sold
      /\ GoneAs(p.unsold, baseline, p) \subseteq Gone(baseline, p) \cap p.unsold
  <2>1. p.sold \cap p.unsold = {}
    BY DEF Whole
  <2> QED BY <2>1 DEF GoneAs
\* One end at most is told of a listing, and of one that was not told over.
<1>9. ASSUME NEW i \in Items, NEW k \in GoneKind, Is(k, i)
      PROVE  /\ known /\ i \in Gone(baseline, p)
             /\ \A l \in GoneKind : Is(l, i) => l = k
             /\ \A l \in GoneKind : Told(l, i) = 0
  <2>1. known /\ i \in Gone(baseline, p)
    BY <1>7, <1>8, <1>9 DEF GoneKind
  <2>2. \A l \in GoneKind : Is(l, i) => l = k
    BY <1>7, <1>8, <1>9 DEF GoneKind
  <2>3. i \in baseline.items
    BY <1>6, <2>1
  <2>4. \A l \in GoneKind : ~(Told(l, i) > 0)
    BY <2>3 DEF IInv, Ended
  <2>5. \A l \in GoneKind : Told(l, i) \in 0..MaxTold
    BY <1>4 DEF GoneKind, EventKind
  <2>6. \A l \in GoneKind : Told(l, i) = 0
    BY <2>4, <2>5
  <2> QED BY <2>1, <2>2, <2>6
<1>10. GoneKind \subseteq EventKind
  BY DEF GoneKind, EventKind
<1>11. TypeOK'
  BY PublishTypes
<1>12. Met'
  <2>1. ASSUME NEW i \in Items, Seen(i)' PROVE Seen(i)
    <3>1. i \in baseline'.items \cup data'.items \cup draft'.items => Seen(i)
      BY <1>1, <1>3, <1>5, NoPayloadFacts DEF Seen
    <3>2. Told("selling_item_added", i)' > 0 => Seen(i)
      BY <1>4, <1>5, <1>7 DEF Seen, EventKind
    <3> QED BY <2>1, <3>1, <3>2 DEF Seen
  <2> QED BY <2>1 DEF IInv, Met
<1>13. Sourced' /\ Fetched' /\ Skipped'
  BY <1>1, <1>3, NoPayloadFacts DEF IInv, Sourced, Fetched, Skipped, Whole
<1>14. Based'
  BY <1>1, <1>3 DEF Based
<1>15. Ended'
  <2> SUFFICES ASSUME NEW i \in Items, NEW k \in GoneKind, Told(k, i)' > 0
               PROVE  status'[i] = "over" /\ i \notin (baseline.items \cup data.items \cup draft.items)'
    BY DEF Ended
  <2>1. CASE Is(k, i)
    BY <1>1, <1>6, <1>9, <2>1, NoPayloadFacts
  <2>2. CASE ~Is(k, i)
    <3>1. Told(k, i) > 0
      BY <1>4, <1>10, <2>2
    <3> QED BY <1>1, <1>3, <1>5, <3>1, NoPayloadFacts DEF IInv, Ended
  <2> QED BY <2>1, <2>2
<1>16. EndOnce'
  <2> SUFFICES ASSUME NEW i \in Items, NEW k \in GoneKind, NEW l \in GoneKind,
                      Told(k, i)' > 0, Told(l, i)' > 0
               PROVE  k = l /\ Told(k, i)' = 1
    BY DEF EndOnce
  <2>1. ASSUME NEW m \in GoneKind, Is(m, i)
        PROVE  /\ Told(m, i)' \in 0..1
               /\ \A n \in GoneKind : n # m => Told(n, i)' = 0
    <3>1. \A n \in GoneKind : Told(n, i) = 0 /\ (n # m => ~Is(n, i))
      BY <1>9, <2>1
    <3> QED BY <1>4, <1>10, <3>1
  <2>2. CASE \E m \in GoneKind : Is(m, i)
    <3>1. PICK m \in GoneKind : Is(m, i)
      BY <2>2
    <3>2. k = m /\ l = m
      BY <2>1, <3>1
    <3> QED BY <2>1, <3>1, <3>2
  <2>3. CASE \A m \in GoneKind : ~Is(m, i)
    <3>1. Told(k, i)' = Told(k, i) /\ Told(l, i)' = Told(l, i)
      BY <1>4, <1>10, <2>3
    <3> QED BY <3>1 DEF IInv, EndOnce
  <2> QED BY <2>2, <2>3
<1>17. EventsTrue'
  <2> SUFFICES ASSUME NEW i \in Items
               PROVE  /\ \A k \in GoneKind : Told(k, i)' > 0 => status[i] = "over"
                      /\ Told("item_sold", i)' > 0 => i \in soldList
                      /\ Told("item_sale_completed", i)' > 0 => i \in soldList
                      /\ Told("item_ended_unsold", i)' > 0 => i \in unsoldList \ soldList
    BY DEF EventsTrue
  <2>1. p.sold \subseteq soldList /\ p.unsold \subseteq unsoldList
        /\ (known => GoneAs(p.unsold, baseline, p) \cap soldList = {})
    BY DEF Whole
  <2>2. \A k \in EventKind : Told(k, i)' > 0 => Is(k, i) \/ Told(k, i) > 0
    BY <1>4
  <2>3. \A k \in GoneKind : Told(k, i)' > 0 => status[i] = "over"
    BY <1>15 DEF Ended
  <2>4. Told("item_sold", i)' > 0 => i \in soldList
    BY <1>7, <1>8, <2>1, <2>2 DEF IInv, EventsTrue, EventKind
  <2>5. Told("item_sale_completed", i)' > 0 => i \in soldList
    BY <1>7, <2>1, <2>2 DEF IInv, EventsTrue, EventKind
  <2>6. Told("item_ended_unsold", i)' > 0 => i \in unsoldList \ soldList
    BY <1>7, <1>8, <2>1, <2>2 DEF IInv, EventsTrue, EventKind
  <2> QED BY <2>3, <2>4, <2>5, <2>6
<1>18. AddedOnce' /\ Announced'
  <2> SUFFICES ASSUME NEW i \in Items
               PROVE  /\ Told("selling_item_added", i)' <= 1
                      /\ Told("selling_item_added", i)' > 0 =>
                            \/ baseline'.cutItems
                            \/ i \in baseline'.items
                            \/ status[i] = "over" /\ i \notin draft'.items
    BY <1>1 DEF AddedOnce, Announced
  <2>1. /\ Told("selling_item_added", i) \in 0..MaxTold
        /\ Is("selling_item_added", i) \/ Told("selling_item_added", i)' = Told("selling_item_added", i)
        /\ \/ Told("selling_item_added", i)' = Told("selling_item_added", i)
           \/ Told("selling_item_added", i)' = Told("selling_item_added", i) + 1
    BY <1>4 DEF EventKind
  <2>2. Told("selling_item_added", i) <= 1
    BY DEF IInv, AddedOnce
  <2>3. CASE Is("selling_item_added", i)
    <3>1. known /\ ~baseline.cutItems /\ ~p.cutItems /\ i \in p.items \ baseline.items
      BY <1>7, <2>3 DEF Partial
    <3>2. ~(Told("selling_item_added", i) > 0)
      BY <1>5, <3>1 DEF IInv, Announced
    <3>3. i \in baseline'.items
      BY <1>3, <3>1
    <3> QED BY <2>1, <3>2, <3>3
  <2>4. CASE ~Is("selling_item_added", i)
    <3>1. Told("selling_item_added", i)' = Told("selling_item_added", i)
      BY <2>1, <2>4
    <3>2. ASSUME Told("selling_item_added", i) > 0, ~p.cutItems, i \notin p.items
          PROVE  status[i] = "over"
      BY <1>5, <3>2 DEF IInv, Fetched, Seen
    <3> QED BY <1>1, <1>3, <2>2, <3>1, <3>2, NoPayloadFacts
  <2> QED BY <2>3, <2>4
<1> QED BY <1>11, <1>12, <1>13, <1>14, <1>15, <1>16, <1>17, <1>18 DEF IInv

\* A payload that holds the sales announced as completed, or is flagged as cut, keeps
\* them from being announced again.
LEMMA PublishRecorded ==
    ASSUME IInv, Recorded, CompletedOnce, NEW p, Whole(p), Publish(p),
           forgotten \subseteq forgotten',
           \A i \in Items \ forgotten' : Told("item_sale_completed", i) > 0 =>
                /\ p.cutClass \/ i \in p.sold
                /\ ~stale' => i \in p.sold \cup left'
    PROVE  (Recorded /\ CompletedOnce)'
<1>1. /\ data' = p /\ known' = TRUE /\ step' = "idle"
      /\ baseline' = IF known THEN NextBaseline(baseline, p) ELSE p
      /\ Tell(Detected(baseline, p))
  BY DEF Publish
<1>2. p \in Payload /\ baseline \in Payload
  BY DEF Whole, IInv, TypeOK
<1>3. p.sold \subseteq baseline'.sold /\ baseline'.cutClass = p.cutClass
  <2>1. p.sold \subseteq NextBaseline(baseline, p).sold
    BY <1>2 DEF NextBaseline, Payload
  <2>2. NextBaseline(baseline, p).cutClass = p.cutClass
    BY <1>2, NextBaselineFacts
  <2>3. baseline' = NextBaseline(baseline, p) \/ baseline' = p
    BY <1>1
  <2> QED BY <2>1, <2>2, <2>3
<1>4. ASSUME NEW i \in Items \ forgotten'
      PROVE  /\ Told("item_sale_completed", i)' <= 1
             /\ Told("item_sale_completed", i)' > 0 =>
                    Told("item_sale_completed", i) > 0 \/ i \in p.sold
  <2> DEFINE now == Told("item_sale_completed", i)
             next == Told("item_sale_completed", i)'
             is == known /\ <<"item_sale_completed", i>> \in Detected(baseline, p)
  <2>1. /\ now \in 0..MaxTold
        /\ is \/ next = now
        /\ next = now \/ next = now + 1
    BY <1>1, TellFacts DEF IInv, EventKind
  <2>2. is => i \in p.sold \ baseline.sold /\ known /\ ~baseline.cutClass
    BY DetectedFacts DEF Incomplete
  <2>3. now <= 1 /\ (now > 0 /\ known => baseline.cutClass \/ i \in baseline.sold)
    BY <1>4 DEF Recorded, CompletedOnce
  <2> HIDE DEF now, next, is
  <2>4. next <= 1 /\ (next > 0 => now > 0 \/ i \in p.sold)
    BY <2>1, <2>2, <2>3
  <2> QED BY <2>4 DEF now, next
<1>5. CompletedOnce'
  BY <1>4 DEF CompletedOnce
<1>6. Recorded'
  <2> SUFFICES ASSUME NEW i \in Items \ forgotten', Told("item_sale_completed", i)' > 0
               PROVE  /\ p.cutClass \/ i \in baseline'.sold
                      /\ ~stale' => i \in p.sold \cup left'
    BY <1>1, <1>3 DEF Recorded
  <2>1. Told("item_sale_completed", i) > 0 \/ i \in p.sold
    BY <1>4
  <2> QED BY <1>3, <2>1
<1> QED BY <1>5, <1>6

(***************************************************************************)
(* The steps that end a refresh.                                           *)
(***************************************************************************)

\* A refresh that classified what disappeared keeps the invariant.
LEMMA FinishClassifiedInv ==
    ASSUME IInv, FinishClassified
    PROVE  IInv' /\ (Recorded /\ CompletedOnce => (Recorded /\ CompletedOnce)')
<1>1. PICK answer \in Answers(soldList, ClassCuts) :
        /\ Publish([Classified(draft, answer.ids) EXCEPT !.cutClass = @ \/ answer.cut])
        /\ left' = {i \in soldList \ answer.ids : Told("item_sale_completed", i) > 0}
  BY DEF FinishClassified
<1>2. /\ answer.cut \in BOOLEAN /\ answer.ids \subseteq soldList
      /\ answer.cut => ClassCuts
      /\ ~answer.cut => answer.ids = soldList
  BY AnswersOf
<1> DEFINE p == [Classified(draft, answer.ids) EXCEPT !.cutClass = @ \/ answer.cut]
<1>3. draft \in Payload /\ soldList \subseteq Items
  BY DEF IInv, TypeOK
<1>4. /\ p \in Payload /\ p.items = draft.items /\ p.cutItems = draft.cutItems
      /\ p.sold = answer.ids /\ p.unsold = draft.unsold \ answer.ids
      /\ p.cutClass = (draft.cutClass \/ answer.cut)
  BY <1>2, <1>3 DEF Classified, Payload
<1>5. /\ step = "sold" /\ stale' = FALSE /\ forgotten' = forgotten
      /\ UNCHANGED <<status, soldList, unsoldList, restarts>>
  BY DEF FinishClassified, ebay
<1> HIDE DEF p
<1>6. Publish(p)
  BY <1>1 DEF p
<1>7. GoneAs(p.unsold, baseline, p) \cap soldList = {}
  <2>1. CASE p.cutClass
    BY <2>1 DEF GoneAs, Incomplete
  <2>2. CASE ~p.cutClass
    <3>1. p.unsold \cap soldList = {}
      BY <1>2, <1>4, <2>2
    <3> QED BY <3>1 DEF GoneAs
  <2> QED BY <2>1, <2>2
<1>8. Whole(p)
  BY <1>2, <1>4, <1>5, <1>7 DEF Whole, IInv, Sourced
<1>9. IInv'
  <2>1. left' \subseteq Items /\ forgotten' \subseteq Items
    BY <1>1, <1>3, <1>5 DEF IInv, TypeOK
  <2> QED BY <1>5, <1>6, <1>8, <2>1, PublishInv
<1>10. ASSUME Recorded, CompletedOnce
       PROVE  (Recorded /\ CompletedOnce)'
  <2>1. \A i \in Items : Told("item_sale_completed", i) > 0 => i \in soldList
    BY DEF IInv, EventsTrue
  <2>2. \A i \in Items : Told("item_sale_completed", i) > 0 =>
            (p.cutClass \/ i \in p.sold) /\ i \in p.sold \cup left'
    BY <1>1, <1>2, <1>4, <2>1
  <2> QED BY <1>5, <1>6, <1>8, <1>10, <2>2, PublishRecorded
<1> QED BY <1>9, <1>10

\* A refresh whose classification failed keeps the invariant.
LEMMA FinishUnclassifiedInv ==
    ASSUME IInv, FinishUnclassified
    PROVE  IInv' /\ (Recorded /\ CompletedOnce => (Recorded /\ CompletedOnce)')
<1> DEFINE p == [draft EXCEPT !.sold = data.sold, !.unsold = data.unsold, !.cutClass = TRUE]
<1>1. draft \in Payload /\ data \in Payload /\ data.sold \cap data.unsold = {}
  BY DEF IInv, TypeOK
<1>2. /\ p \in Payload /\ p.items = draft.items /\ p.cutItems = draft.cutItems
      /\ p.sold = data.sold /\ p.unsold = data.unsold /\ p.cutClass = TRUE
  BY <1>1 DEF Payload
<1>3. Publish(p)
  BY DEF FinishUnclassified
<1>4. /\ step # "idle"
      /\ UNCHANGED <<status, soldList, unsoldList, stale, restarts, left, forgotten>>
  BY DEF FinishUnclassified, ebay, history
<1> HIDE DEF p
<1>5. GoneAs(p.unsold, baseline, p) = {}
  BY <1>2 DEF GoneAs, Incomplete
<1>6. Whole(p)
  BY <1>1, <1>2, <1>4, <1>5 DEF Whole, IInv, Sourced
<1>7. IInv'
  <2>1. stale' \in BOOLEAN /\ left' \subseteq Items /\ forgotten' \subseteq Items
    BY <1>4 DEF IInv, TypeOK
  <2> QED BY <1>3, <1>4, <1>6, <2>1, PublishInv
<1>8. ASSUME Recorded, CompletedOnce PROVE (Recorded /\ CompletedOnce)'
  <2>1. \A i \in Items \ forgotten' : Told("item_sale_completed", i) > 0 =>
            p.cutClass /\ (~stale' => i \in p.sold \cup left')
    BY <1>2, <1>4, <1>8 DEF Recorded
  <2> QED BY <1>3, <1>4, <1>6, <1>8, <2>1, PublishRecorded
<1> QED BY <1>7, <1>8

\* A refresh that needed no classification keeps the invariant.
LEMMA FinishSkippedInv ==
    ASSUME IInv, FinishSkipped
    PROVE  IInv' /\ (Recorded /\ CompletedOnce => (Recorded /\ CompletedOnce)')
<1>1. /\ step = "ready" /\ Publish(draft) /\ forgotten' = forgotten \cup left
      /\ UNCHANGED <<status, soldList, unsoldList, stale, restarts, left>>
  BY DEF FinishSkipped, ebay
<1>2. /\ draft \in Payload /\ data.sold \cap data.unsold = {}
      /\ draft.sold = data.sold /\ draft.unsold = data.unsold
      /\ data.items \subseteq draft.items
  BY <1>1 DEF IInv, TypeOK, Skipped
<1>3. known => GoneAs(draft.unsold, baseline, draft) = {}
  BY <1>2 DEF IInv, Based, GoneAs, Gone, Partial
<1>4. Whole(draft)
  BY <1>1, <1>2, <1>3 DEF Whole, IInv, Sourced
<1>5. stale' \in BOOLEAN /\ left' \subseteq Items /\ forgotten' \subseteq Items
  BY <1>1 DEF IInv, TypeOK
<1>6. IInv'
  BY <1>1, <1>4, <1>5, PublishInv
<1>7. ASSUME Recorded, CompletedOnce PROVE (Recorded /\ CompletedOnce)'
  <2>1. \A i \in Items \ forgotten' : Told("item_sale_completed", i) > 0 => i \in draft.sold
    BY <1>1, <1>2, <1>7 DEF Recorded
  <2>2. forgotten \subseteq forgotten'
    BY <1>1
  <2> QED BY <1>1, <1>4, <1>7, <2>1, <2>2, PublishRecorded
<1> QED BY <1>6, <1>7

(***************************************************************************)
(* The theorems.                                                           *)
(***************************************************************************)

\* Every step keeps the invariant.
LEMMA StepInv ==
    ASSUME IInv, [Next]_vars
    PROVE  IInv' /\ (Recorded /\ CompletedOnce => (Recorded /\ CompletedOnce)')
<1>1. ASSUME NEW i \in Items, List(i) \/ Sell(i) \/ EndUnsold(i) PROVE Changes
  BY <1>1, EbayChanges DEF IInv
<1>2. CASE \E i \in Items : List(i) \/ Sell(i) \/ EndUnsold(i)
  BY <1>1, <1>2, ChangesInv
<1>3. CASE FetchListings
  BY <1>3, FetchListingsInv
<1>4. CASE FetchUnsold
  BY <1>4, FetchUnsoldInv
<1>5. CASE FinishClassified
  BY <1>5, FinishClassifiedInv
<1>6. CASE FinishUnclassified
  BY <1>6, FinishUnclassifiedInv
<1>7. CASE FinishSkipped
  BY <1>7, FinishSkippedInv
<1>8. CASE Abandon
  BY <1>8, AbandonInv
<1>9. CASE GetStale
  BY <1>9, GetStaleInv
<1>10. CASE Restart
  BY <1>10, RestartInv
<1>11. CASE UNCHANGED vars
  BY <1>11 DEF vars, ebay, history, IInv, TypeOK, Met, Fetched, Seen, Told, Sourced, Skipped, Based, Ended,
               Announced, EndOnce, AddedOnce, EventsTrue, Recorded, CompletedOnce
<1> QED BY <1>2, <1>3, <1>4, <1>5, <1>6, <1>7, <1>8, <1>9, <1>10, <1>11 DEF Next

\* The invariant holds in every state.
LEMMA Invariance == Spec => []IInv
<1>1. IInv /\ [Next]_vars => IInv'
  BY StepInv
<1> QED BY InitInv, <1>1, PTL DEF Spec

\* Every variable keeps its type, and no id is classified both sold and unsold.
THEOREM TypeCorrect == Spec => []TypeOK
<1>1. IInv => TypeOK
  BY DEF IInv
<1> QED BY <1>1, Invariance, PTL

\* The end of a listing is announced once at most, over cut lists, failed
\* classifications and any number of reloads.
THEOREM EndsOnce == Spec => []EndOnce
<1>1. IInv => EndOnce
  BY DEF IInv
<1> QED BY <1>1, Invariance, PTL

\* What is announced of a listing is true of it at eBay.
THEOREM EndsTrue == Spec => []EventsTrue
<1>1. IInv => EventsTrue
  BY DEF IInv
<1> QED BY <1>1, Invariance, PTL

\* A listing is announced as new once at most, over reloads too.
THEOREM NewOnce == Spec => []AddedOnce
<1>1. IInv => AddedOnce
  BY DEF IInv
<1> QED BY <1>1, Invariance, PTL

\* A sale is announced as completed once at most, over lists that are cut, fail or are
\* skipped and over reloads, unless a sold list that was cut short left it out and the
\* next refresh, which read none, took that list for a whole one.
THEOREM SalesOnce == Spec => []CompletedOnce
<1>1. CInv /\ [Next]_vars => CInv'
  BY StepInv DEF CInv
<1>2. Init => CInv
  BY InitInv DEF CInv
<1>3. CInv => CompletedOnce
  BY DEF CInv
<1> QED BY <1>1, <1>2, <1>3, PTL DEF Spec
=============================================================================
