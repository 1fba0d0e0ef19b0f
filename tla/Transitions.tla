----------------------------- MODULE Transitions -----------------------------
(***************************************************************************)
(* The events of the watched and bidding lists and of the seller's orders, *)
(* payment disputes, feedback and messages (events.py), found by comparing *)
(* the list of a refresh with the one before, over reads that are cut      *)
(* short or fail (section_fetch.py, rest_apis.py) and restarts.            *)
(*                                                                         *)
(* The lists do not meet but in the flag that says one of the buying lists *)
(* was cut short: a behaviour follows the list `kind`, one of them.  What  *)
(* is known of an item is a set of flags.  "above" and "below" are its     *)
(* price against its target, neither if eBay gives no price, or one in     *)
(* another currency; "winning" and "outbid" are the user's bid, neither if *)
(* eBay does not say.  "paid" stands for the flags of an order that are    *)
(* told for a new order too (due_soon, overdue),                           *)
(* "shipped" for those that are not (has_tracking).  The event of feedback *)
(* received is told once for all its ids.  Left out are the events that    *)
(* compare one value and keep nothing: bid counts, amounts of price        *)
(* changes, standards, ratings.  A refresh that does not ask for the list, *)
(* and one of a buying list that fails, changes nothing.                   *)
(***************************************************************************)
EXTENDS Naturals, FiniteSets

CONSTANTS
    Kinds,          \* the lists looked at
    Ids,            \* items, orders, disputes, feedback or conversations
    None

Buying == {"watched", "bidding"}
Flags == [watched |-> {"above", "below", "ended"}, bidding |-> {"winning", "outbid", "ended"},
          orders |-> {"paid", "shipped"}, disputes |-> {},
          feedback |-> {}, messages |-> {}]
Lasting == {"ended", "paid", "shipped"}
Opposite == [above |-> "below", below |-> "above", winning |-> "outbid", outbid |-> "winning"]
Known(k) == {flags \in SUBSET Flags[k] : \A name \in flags \ Lasting : Opposite[name] \notin flags}
\* Not on the list, and not to come back.
Absent == {"absent"}
Gone == {"gone"}

\* The lists that a read may leave behind.
Lists(k) == UNION {[ids -> Known(k)] : ids \in SUBSET Ids}

ASSUME TransitionsAssumption ==
    /\ Kinds \subseteq DOMAIN Flags
    /\ \A ids \in SUBSET Ids : None # ids
    /\ \A k \in Kinds : \A read \in Lists(k) : None # read

VARIABLES
    kind,           \* the list
    list,           \* what eBay has on it
    base,           \* previous_payload's, None before the first refresh
    truncated,      \* truncated_collections of that payload
    active,         \* _price_drop_below_active
    events,         \* what the last step emitted: names and ids
    told,           \* history variable: what is told of an item, since it was last
                    \* new or the opposite was told; of a bid, since eBay last left
                    \* unsaid how it stands
    complete,       \* history variable: the ids that the last complete read since
                    \* the start found, None without one
    failed,         \* history variable: reads failed since, or since the start
    weighed         \* history variable: the items whose price the last read weighed
                    \* against the target: new on the list, or of a price known then
                    \* and before, in a read that suppressed nothing

vars == <<kind, list, base, truncated, active, events, told, complete, failed, weighed>>
history == <<told, complete, failed, weighed>>

Names == {"added", "disappeared", "dropped_below", "outbid", "below", "above"}
            \cup {"winning", "ended", "paid", "shipped"}
Present == {i \in Ids : list[i] \notin {Absent, Gone}}
Nothing == [i \in {} |-> {}]

Init ==
    /\ kind \in Kinds
    /\ list = [i \in Ids |-> Absent]
    /\ base = None /\ truncated = FALSE
    /\ active = {} /\ events = {}
    /\ told = [i \in Ids |-> {}]
    /\ complete = None /\ failed = FALSE /\ weighed = {}

-----------------------------------------------------------------------------
(* eBay.                                                                   *)

\* An item comes to the list, or what is known of it changes.
Change(i, flags) ==
    /\ list[i] \notin {Gone, flags}
    /\ flags \in Known(kind)
    /\ IF list[i] = Absent THEN kind \in Buying => "ended" \notin flags
                           ELSE list[i] \cap Lasting \subseteq flags
    /\ list' = [list EXCEPT ![i] = flags]
    /\ events' = {}
    /\ UNCHANGED <<kind, base, truncated, active, history>>

\* It leaves the list; orders and feedback do not come back, nor items that ended.
Leave(i) ==
    /\ i \in Present
    /\ list' = [list EXCEPT ![i] = IF kind \in {"orders", "feedback"} \/ "ended" \in list[i]
                                   THEN Gone ELSE Absent]
    /\ events' = {}
    /\ UNCHANGED <<kind, base, truncated, active, history>>

-----------------------------------------------------------------------------
(* A refresh.                                                              *)

\* The list in the new payload: a buying list that is cut short keeps the items
\* that were not read, the other lists are what was read.
Current(found, cut) ==
    LET read == [i \in found |-> list[i]]
        kept == IF cut /\ kind \in Buying /\ base # None THEN DOMAIN base \ found ELSE {}
    IN  [i \in found \cup kept |-> IF i \in found THEN list[i] ELSE base[i]]

SuppressedNow(cut, other) == cut

\* suppress_incomplete of the list, with buying_truncated for either buying list.
Suppressed(cut, other) == cut \/ truncated \/ (kind \in Buying /\ other)

\* _was_running, of the buying lists.
RunningAlways(item) == TRUE

Running(item) == "ended" \notin item

New(current) == DOMAIN current \ DOMAIN base
Both(current) == DOMAIN current \cap DOMAIN base

Priced(item) == {"above", "below"} \cap item # {}

\* The watched items whose price crosses the target, as _detect_price_dropped_below
\* tells it.
Crossing(current, suppressed) ==
    {i \in Both(current) : /\ ~suppressed
                           /\ "above" \in base[i] /\ "below" \in current[i]
                           /\ i \notin active}

\* What is told of a flag that is raised for good, or in place of its opposite, by
\* incomplete reads too.
Flips(current) ==
    UNION {{name \in current[i] \ base[i] : name \in Lasting \/ Opposite[name] \in base[i]} \X {i} :
                i \in Both(current)}

DetectedComplete(current, suppressed) == IF suppressed THEN {} ELSE Flips(current)

\* _detect_watching_events, _detect_bidding_events, _detect_seller_ops_events.
Detected(current, suppressed) ==
    Flips(current)
        \cup {<<"dropped_below", i>> : i \in Crossing(current, suppressed)}
        \cup {<<"added", i>> : i \in IF suppressed THEN {} ELSE New(current)}
        \cup {<<"paid", i>> : i \in IF suppressed THEN {}
                                    ELSE {j \in New(current) : "paid" \in current[j]}}
        \cup {<<"disappeared", i>> :
                i \in IF suppressed \/ kind \notin Buying THEN {}
                      ELSE {j \in DOMAIN base \ DOMAIN current : Running(base[j])}}

ActiveKept(current, suppressed) ==
    active \cup {i \in DOMAIN current : "below" \in current[i]}

\* _price_drop_below_active: set anew for a new item, and by a complete read, unless
\* the price is unknown now or was before.
Active(current, suppressed) ==
    LET read == New(current) \cup
                {i \in Both(current) : ~suppressed /\ Priced(base[i]) /\ Priced(current[i])}
        vanished == IF suppressed THEN {}
                    ELSE {i \in DOMAIN base \ DOMAIN current : Running(base[i])}
    IN  (active \ (read \cup vanished)) \cup {i \in read : "below" \in current[i]}

\* A read of the list that found these items and was cut short or not, as the
\* other buying list was; the first one is compared with nothing.
Refresh(found, cut, other) ==
    LET current == Current(found, cut)
        suppressed == Suppressed(cut, other)
        fresh == IF base = None THEN {} ELSE New(current)
        About(i) == {name \in Names : <<name, i>> \in events'}
        Over(i) == IF i \in DOMAIN current /\ {"winning", "outbid"} \cap current[i] = {}
                   THEN {"winning", "outbid"}
                   ELSE {Opposite[name] : name \in About(i) \cap {"winning", "outbid"}}
    IN  /\ found \subseteq Present
        /\ ~cut => found = Present
        /\ other => kind \in Buying
        /\ events' = IF base = None THEN {} ELSE Detected(current, suppressed)
        /\ active' = IF base = None \/ kind # "watched" THEN active
                     ELSE Active(current, suppressed)
        /\ base' = current /\ truncated' = cut
        /\ told' = [i \in Ids |->
                        (IF kind \in Buying /\ i \in fresh THEN {} ELSE told[i] \ Over(i))
                            \cup (About(i) \cap {"ended", "disappeared", "winning", "outbid",
                                                 "added", "paid", "shipped"})]
        /\ complete' = IF cut THEN complete ELSE found
        /\ failed' = (failed /\ cut)
        /\ weighed' = IF kind # "watched" THEN {}
                      ELSE {i \in DOMAIN current :
                                \/ base = None \/ i \in fresh
                                \/ ~suppressed /\ Priced(base[i]) /\ Priced(current[i])}
        /\ UNCHANGED <<kind, list>>

\* The calls for a seller's list fail, or its scope is missing: the old list is
\* kept, and its flag was reset when the refresh began.
ListFails ==
    /\ kind \notin Buying \cup {"feedback"}
    /\ base' = IF base = None THEN Nothing ELSE base
    /\ truncated' = FALSE

FeedbackEmptied ==
    /\ kind = "feedback"
    /\ base' = Nothing /\ truncated' = FALSE

\* The summary of the feedback fails, and the former one is kept with its flag; or
\* its items do, and the new one has no ids to compare.
FeedbackFails ==
    /\ kind = "feedback"
    /\ \/ UNCHANGED <<base, truncated>>
       \/ base' = None /\ truncated' = FALSE

Failure ==
    /\ ListFails \/ FeedbackFails
    /\ failed' = TRUE
    /\ events' = {}
    /\ UNCHANGED <<kind, list, active, told, complete, weighed>>

\* The entry is reloaded, or Home Assistant restarted.
Restart ==
    /\ base # None /\ base' = None
    /\ truncated' = FALSE
    /\ active' = {} /\ events' = {}
    /\ told' = [i \in Ids |-> {}]
    /\ complete' = None /\ failed' = FALSE /\ weighed' = {}
    /\ UNCHANGED <<kind, list>>

Next ==
    \/ \E i \in Ids :
        \/ \E flags \in SUBSET Flags[kind] : Change(i, flags)
        \/ Leave(i)
    \/ \E found \in SUBSET Ids, cut, other \in BOOLEAN : Refresh(found, cut, other)
    \/ Failure
    \/ Restart

Spec == Init /\ [][Next]_vars

-----------------------------------------------------------------------------
(* Properties.                                                             *)

\* Every variable has its type; a flag belongs to a payload.
TypeOK ==
    /\ kind \in Kinds
    /\ list \in [Ids -> Known(kind) \cup {Absent, Gone}]
    /\ base = None \/ base \in Lists(kind)
    /\ truncated \in BOOLEAN /\ (truncated => base # None)
    /\ active \subseteq Ids
    /\ events \subseteq Names \X Ids
    /\ told \in [Ids -> SUBSET Names]
    /\ complete = None \/ complete \subseteq Ids
    /\ failed \in BOOLEAN /\ weighed \subseteq Ids

\* Whoever was told that a bid wins, or is outbid, was told of every turn since, by
\* reads that are cut short too: what was told last is what the payload holds, until
\* eBay leaves unsaid how the bid stands.
BidTold ==
    kind = "bidding" /\ base # None =>
        \A i \in DOMAIN base : told[i] \cap {"winning", "outbid"} \subseteq base[i]

\* An item on a buying list is said to be over once, as ended or as disappeared,
\* however often its list is cut short, until it is found on the list anew.
FarewellOnce ==
    [][\A i \in Ids : \A over \in {"ended", "disappeared"} :
        kind \in Buying /\ <<over, i>> \in events' =>
            told[i] \cap {"ended", "disappeared"} = {}]_vars

\* What is told to be new was not on its list at the last complete read, and there
\* was one since the start; unless reads failed since, of another list than that
\* of feedback.
AddedNew ==
    [][\A i \in Ids : <<"added", i>> \in events' =>
        \/ failed /\ kind # "feedback"
        \/ complete # None /\ i \notin complete]_vars

\* No order is told to be received, paid or shipped twice, while its list is cut
\* short and read in full in turns; unless reads failed since the last complete one.
OrderToldOnce ==
    [][kind = "orders" =>
        \A i \in Ids : \A name \in told[i] : <<name, i>> \in events' => failed]_vars

\* A price that falls below its target is told so if it was weighed against the
\* target by this read and by the one before, whatever was told, missed, unknown or
\* removed from the list before them.
CrossingTold ==
    [][\A i \in weighed \cap weighed' : <<"below", i>> \in events' => <<"dropped_below", i>> \in events']_vars

\* The integration suppresses transition events during the initial baseline and
\* when its collections are incomplete (docs/advanced-usage.md:24).
QuietWhenIncomplete ==
    [][\A i \in Ids : <<"added", i>> \in events' => complete # None /\ i \notin complete]_vars
=============================================================================
