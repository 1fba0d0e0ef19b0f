--------------------------- MODULE TransitionsProofs ---------------------------
(***************************************************************************)
(* Proofs about Transitions, for every list and any number of items: what  *)
(* was told last is what the payload holds, an end is told once, what is   *)
(* new is new, and a crossing of the target between two reads that weigh   *)
(* the price against it is told.                                           *)
(***************************************************************************)
EXTENDS Transitions, TLAPS

USE TransitionsAssumption

(***************************************************************************)
(* The inductive invariant.                                                *)
(***************************************************************************)

\* Before the first payload nothing is told of the buying lists, and no price is
\* known to be below its target.
Fresh ==
    base = None => /\ kind \in Buying => told = [i \in Ids |-> {}]
                   /\ kind = "watched" => active = {}

\* What lasts of an item in the payload is true of it at eBay, if it is still there.
Lasts ==
    base # None =>
        \A i \in DOMAIN base : list[i] = Gone \/ base[i] \cap Lasting \subseteq list[i]

\* An item in the payload of which an end was told has ended there.
OverTold ==
    kind \in Buying /\ base # None =>
        \A i \in DOMAIN base :
            told[i] \cap {"ended", "disappeared"} # {} => "ended" \in base[i]

\* An order of which something was told is in the last list read whole, unless it
\* is gone from eBay's; what was told of it lasts, there and in the payload.
OrderTold ==
    kind = "orders" =>
        \A i \in Ids : told[i] # {} =>
            /\ list[i] # Absent
            /\ \/ list[i] = Gone
               \/ /\ told[i] \cap Lasting \subseteq list[i]
                  /\ failed \/ truncated \/ (complete # None /\ i \in complete)
            /\ base # None /\ i \in DOMAIN base => told[i] \cap Lasting \subseteq base[i]

\* A payload that no cut or failed read made is the last list read whole.
ReadWhole ==
    base # None /\ ~truncated /\ (~failed \/ kind = "feedback") =>
        complete # None /\ DOMAIN base = complete

\* A price that the last read weighed against the target, and that is known to be
\* below it, is below it in the payload.
Crossed ==
    /\ weighed # {} => kind = "watched" /\ base # None
    /\ \A i \in weighed : i \in DOMAIN base /\ (i \in active => "below" \in base[i])

IInv == TypeOK /\ Fresh /\ Lasts /\ BidTold /\ OverTold /\ OrderTold /\ ReadWhole /\ Crossed

(***************************************************************************)
(* The lists.                                                              *)
(***************************************************************************)

\* The flags of the items of each list.
LEMMA FlagsFacts ==
    ASSUME NEW k \in Kinds
    PROVE  /\ k \in {"watched", "bidding", "orders", "disputes", "feedback", "messages"}
           /\ Flags[k] \subseteq {"above", "below", "winning", "outbid", "ended", "paid", "shipped"}
           /\ k = "watched" => Flags[k] = {"above", "below", "ended"}
           /\ k = "bidding" => Flags[k] = {"winning", "outbid", "ended"}
           /\ k = "orders" => Flags[k] = {"paid", "shipped"}
           /\ k \notin {"watched", "bidding", "orders"} => Flags[k] = {}
<1>1. DOMAIN Flags = {"watched", "bidding", "orders", "disputes", "feedback", "messages"}
  BY DEF Flags
<1>2. k \in {"watched", "bidding", "orders", "disputes", "feedback", "messages"}
  BY <1>1
<1>3. /\ Flags["watched"] = {"above", "below", "ended"}
      /\ Flags["bidding"] = {"winning", "outbid", "ended"}
      /\ Flags["orders"] = {"paid", "shipped"} /\ Flags["disputes"] = {}
      /\ Flags["feedback"] = {} /\ Flags["messages"] = {}
  BY DEF Flags
<1> HIDE DEF Flags
<1> QED BY <1>2, <1>3

\* What eBay may say of an item: never a flag and its opposite.
LEMMA KnownFacts ==
    ASSUME NEW k, NEW flags \in Known(k)
    PROVE  /\ flags \subseteq Flags[k]
           /\ ~("above" \in flags /\ "below" \in flags)
           /\ ~("winning" \in flags /\ "outbid" \in flags)
<1>1. /\ flags \subseteq Flags[k]
      /\ \A name \in flags \ Lasting : Opposite[name] \notin flags
  BY DEF Known
<1>2. Opposite["above"] = "below" /\ Opposite["winning"] = "outbid"
  BY DEF Opposite
<1>3. "above" \notin Lasting /\ "winning" \notin Lasting
  BY DEF Lasting
<1> QED BY <1>1, <1>2, <1>3

\* What a list is: flags by id, of some of the ids, and never None.
LEMMA ListsFacts ==
    ASSUME NEW k \in Kinds
    PROVE  /\ \A read \in Lists(k) : /\ read = [i \in DOMAIN read |-> read[i]]
                                     /\ DOMAIN read \subseteq Ids /\ read # None
                                     /\ \A i \in DOMAIN read : /\ read[i] \in Known(k)
                                                               /\ read[i] \subseteq Flags[k]
           /\ \A ids \in SUBSET Ids : \A read \in [ids -> Known(k)] : read \in Lists(k)
<1>1. \A read \in Lists(k) : \A i \in DOMAIN read : read[i] \in Known(k)
  BY DEF Lists
<1>2. \A flags \in Known(k) : flags \subseteq Flags[k]
  BY KnownFacts
<1>3. \A read \in Lists(k) : /\ read = [i \in DOMAIN read |-> read[i]]
                             /\ DOMAIN read \subseteq Ids /\ read # None
  BY DEF Lists
<1>4. \A ids \in SUBSET Ids : \A read \in [ids -> Known(k)] : read \in Lists(k)
  BY DEF Lists
<1> QED BY <1>1, <1>2, <1>3, <1>4

\* What a read leaves of a list.
LEMMA CurrentFacts ==
    ASSUME TypeOK, NEW found \in SUBSET Present, NEW cut \in BOOLEAN
    PROVE  LET current == Current(found, cut)
           IN  /\ current \in Lists(kind) /\ current # None
               /\ found \subseteq DOMAIN current /\ DOMAIN current \subseteq Ids
               /\ \A i \in found : current[i] = list[i]
               /\ \A i \in DOMAIN current \ found :
                    cut /\ kind \in Buying /\ base # None /\ i \in DOMAIN base /\ current[i] = base[i]
               /\ ~cut => DOMAIN current = found
<1> DEFINE kept == IF cut /\ kind \in Buying /\ base # None THEN DOMAIN base \ found ELSE {}
           current == Current(found, cut)
<1>1. current = [i \in found \cup kept |-> IF i \in found THEN list[i] ELSE base[i]]
  BY DEF Current
<1>2. kind \in Kinds /\ found \subseteq Ids
  BY DEF TypeOK, Present
<1>3. \A i \in found : list[i] \in Known(kind)
  BY <1>2 DEF TypeOK, Present, Absent, Gone
<1>4. kept \subseteq Ids /\ \A i \in kept : base[i] \in Known(kind)
  BY <1>2, ListsFacts DEF TypeOK
<1>5. \A i \in kept : cut /\ kind \in Buying /\ base # None /\ i \in DOMAIN base /\ i \notin found
  OBVIOUS
<1>6. ~cut => kept = {}
  OBVIOUS
<1> HIDE DEF kept, current
<1>7. current \in [found \cup kept -> Known(kind)] /\ DOMAIN current = found \cup kept
  BY <1>1, <1>3, <1>4
<1>8. found \cup kept \in SUBSET Ids
  BY <1>2, <1>4
<1>9. current \in Lists(kind)
  BY <1>2, <1>7, <1>8, ListsFacts
<1>10. current # None
  BY <1>2, <1>9, ListsFacts
<1>11. \A i \in found : current[i] = list[i]
  BY <1>1
<1>12. \A i \in DOMAIN current \ found : current[i] = base[i] /\ i \in kept
  BY <1>1, <1>7
<1>13. /\ found \subseteq DOMAIN current /\ DOMAIN current \subseteq Ids
       /\ ~cut => DOMAIN current = found
  BY <1>6, <1>7, <1>8
<1> QED BY <1>5, <1>9, <1>10, <1>11, <1>12, <1>13 DEF current

(***************************************************************************)
(* The events.                                                             *)
(***************************************************************************)

\* What is told of an item on both lists: the flags raised for good, those that take
\* the place of their opposite, and the crossing; of one on the new list or the old
\* only, that it is so.
Tells(emitted, current, suppressed, i) ==
    /\ \A name \in {"ended", "shipped"} :
         <<name, i>> \in emitted <=> i \in Both(current) /\ name \in current[i] \ base[i]
    /\ <<"paid", i>> \in emitted
         <=> \/ i \in Both(current) /\ "paid" \in current[i] \ base[i]
             \/ ~suppressed /\ i \in New(current) /\ "paid" \in current[i]
    /\ \A name \in {"winning", "outbid", "above", "below"} :
         <<name, i>> \in emitted
            <=> i \in Both(current) /\ name \in current[i] /\ Opposite[name] \in base[i]
    /\ <<"dropped_below", i>> \in emitted <=> i \in Crossing(current, suppressed)
    /\ <<"added", i>> \in emitted <=> ~suppressed /\ i \in New(current)
    /\ <<"disappeared", i>> \in emitted
         <=> /\ ~suppressed /\ kind \in Buying
             /\ i \in DOMAIN base \ DOMAIN current /\ "ended" \notin base[i]
    /\ \A name : <<name, i>> \in emitted => name \in Names

\* The flags that are told of an item.
LEMMA FlipsFacts ==
    ASSUME TypeOK, base # None, NEW current \in Lists(kind), NEW i
    PROVE  /\ \A name \in {"ended", "shipped", "paid"} :
                <<name, i>> \in Flips(current)
                    <=> i \in Both(current) /\ name \in current[i] \ base[i]
           /\ \A name \in {"winning", "outbid", "above", "below"} :
                <<name, i>> \in Flips(current)
                    <=> i \in Both(current) /\ name \in current[i] /\ Opposite[name] \in base[i]
           /\ \A name : <<name, i>> \in Flips(current) =>
                name \in {"above", "below", "winning", "outbid", "ended", "paid", "shipped"}
<1>1. kind \in Kinds
  BY DEF TypeOK
<1>2. Flags[kind] \subseteq {"above", "below", "winning", "outbid", "ended", "paid", "shipped"}
  BY <1>1, FlagsFacts
<1>3. i \in Both(current) => /\ current[i] \subseteq Flags[kind]
                             /\ base[i] \in Known(kind) /\ current[i] \in Known(kind)
  BY <1>1, ListsFacts DEF Both, TypeOK
<1> DEFINE raised(j) == {name \in current[j] \ base[j] :
                            name \in Lasting \/ Opposite[name] \in base[j]}
<1>4. Flips(current) = UNION {raised(j) \X {j} : j \in Both(current)}
  BY DEF Flips
<1>5. \A name : <<name, i>> \in UNION {raised(j) \X {j} : j \in Both(current)}
                    <=> i \in Both(current) /\ name \in raised(i)
  <2> HIDE DEF raised
  <2> QED OBVIOUS
<1>6. /\ Opposite["above"] = "below" /\ Opposite["below"] = "above"
      /\ Opposite["winning"] = "outbid" /\ Opposite["outbid"] = "winning"
  BY DEF Opposite
<1>7. i \in Both(current) => /\ ~("above" \in base[i] /\ "below" \in base[i])
                             /\ ~("winning" \in base[i] /\ "outbid" \in base[i])
  BY <1>3, KnownFacts
<1>8. /\ \A name \in {"ended", "shipped", "paid"} : name \in Lasting
      /\ \A name \in {"winning", "outbid", "above", "below"} : name \notin Lasting
  BY DEF Lasting
<1>9. \A name : name \in raised(i)
                    <=> name \in current[i] \ base[i] /\ (name \in Lasting \/ Opposite[name] \in base[i])
  OBVIOUS
<1> HIDE DEF raised
<1>10. \A name : <<name, i>> \in Flips(current)
         <=> /\ i \in Both(current) /\ name \in current[i] \ base[i]
             /\ name \in Lasting \/ Opposite[name] \in base[i]
  BY ONLY <1>4, <1>5, <1>9
<1>11. \A name \in {"ended", "shipped", "paid"} :
         <<name, i>> \in Flips(current) <=> i \in Both(current) /\ name \in current[i] \ base[i]
  BY ONLY <1>8, <1>10
<1>12. ASSUME NEW name \in {"winning", "outbid", "above", "below"}
       PROVE  <<name, i>> \in Flips(current)
                <=> i \in Both(current) /\ name \in current[i] /\ Opposite[name] \in base[i]
  <2>1. i \in Both(current) /\ Opposite[name] \in base[i] => name \notin base[i]
    BY ONLY <1>6, <1>7, <1>12
  <2> QED BY ONLY <1>8, <1>10, <1>12, <2>1
<1>13. \A name : <<name, i>> \in Flips(current) => name \in Flags[kind]
  BY <1>3, <1>10
<1> QED BY <1>2, <1>11, <1>12, <1>13

\* When each kind of event is told.
LEMMA DetectedFacts ==
    ASSUME TypeOK, base # None, NEW current \in Lists(kind), NEW suppressed \in BOOLEAN,
           NEW emitted, emitted = Detected(current, suppressed), NEW i \in Ids
    PROVE  Tells(emitted, current, suppressed, i)
<1> DEFINE raised == Flips(current)
           crossing == Crossing(current, suppressed)
           added == IF suppressed THEN {} ELSE New(current)
           paid == IF suppressed THEN {} ELSE {j \in New(current) : "paid" \in current[j]}
           lost == IF suppressed \/ kind \notin Buying THEN {}
                   ELSE {j \in DOMAIN base \ DOMAIN current : Running(base[j])}
           Is(name) == <<name, i>> \in emitted
<1>1. /\ \A name \in {"ended", "shipped", "paid"} :
           <<name, i>> \in raised <=> i \in Both(current) /\ name \in current[i] \ base[i]
      /\ \A name \in {"winning", "outbid", "above", "below"} :
           <<name, i>> \in raised
                <=> i \in Both(current) /\ name \in current[i] /\ Opposite[name] \in base[i]
      /\ \A name : <<name, i>> \in raised =>
           name \in {"above", "below", "winning", "outbid", "ended", "paid", "shipped"}
  BY FlipsFacts
<1>2. emitted = raised \cup {<<"dropped_below", j>> : j \in crossing} \cup {<<"added", j>> : j \in added}
            \cup {<<"paid", j>> : j \in paid} \cup {<<"disappeared", j>> : j \in lost}
  BY DEF Detected
<1>3. /\ i \in added <=> ~suppressed /\ i \in New(current)
      /\ i \in paid <=> ~suppressed /\ i \in New(current) /\ "paid" \in current[i]
      /\ i \in lost <=> /\ ~suppressed /\ kind \in Buying
                        /\ i \in DOMAIN base \ DOMAIN current /\ "ended" \notin base[i]
  BY DEF Running
<1> HIDE DEF raised, crossing, added, paid, lost
<1>4. /\ \A name \in {"winning", "outbid", "above", "below", "ended", "shipped"} :
            Is(name) <=> <<name, i>> \in raised
      /\ Is("paid") <=> <<"paid", i>> \in raised \/ i \in paid
      /\ Is("dropped_below") <=> <<"dropped_below", i>> \in raised \/ i \in crossing
      /\ Is("added") <=> <<"added", i>> \in raised \/ i \in added
      /\ Is("disappeared") <=> <<"disappeared", i>> \in raised \/ i \in lost
  BY <1>2
<1>5. \A name : Is(name) => name \in Names
  <2>1. \A name : Is(name) => <<name, i>> \in raised
            \/ name \in {"dropped_below", "added", "paid", "disappeared"}
    BY <1>2
  <2> QED BY <1>1, <2>1 DEF Names
<1> QED BY <1>1, <1>3, <1>4, <1>5 DEF crossing, Tells

\* Nothing is read at first.
LEMMA InitInv == Init => IInv
<1> SUFFICES ASSUME Init PROVE IInv
  OBVIOUS
<1>1. TypeOK
  BY DEF Init, TypeOK
<1>2. Fresh /\ Lasts /\ BidTold /\ OverTold /\ OrderTold /\ ReadWhole /\ Crossed
  BY DEF Init, Fresh, Lasts, BidTold, OverTold, OrderTold, ReadWhole, Crossed
<1> QED BY <1>1, <1>2 DEF IInv

(***************************************************************************)
(* eBay.                                                                   *)
(***************************************************************************)

\* No flag is one of the two marks of what is not on the list.
LEMMA Marks ==
    ASSUME NEW k \in Kinds
    PROVE  \A flags \in Known(k) : flags # Absent /\ flags # Gone
BY FlagsFacts, KnownFacts DEF Absent, Gone

\* An item that comes or changes at eBay keeps the invariant.
LEMMA ChangeInv ==
    ASSUME IInv, NEW i \in Ids, NEW flags \in SUBSET Flags[kind], Change(i, flags)
    PROVE  IInv'
<1>1. /\ list[i] # Gone
      /\ list[i] = Absent \/ list[i] \cap Lasting \subseteq flags
      /\ flags \in Known(kind)
      /\ list' = [list EXCEPT ![i] = flags] /\ events' = {}
      /\ UNCHANGED <<kind, base, truncated, active, told, complete, failed, weighed>>
  BY DEF Change, history
<1>2. flags # Absent /\ flags # Gone
  BY <1>1, Marks DEF IInv, TypeOK
<1>3. TypeOK'
  BY <1>1 DEF IInv, TypeOK
<1>4. Fresh' /\ BidTold' /\ OverTold' /\ ReadWhole' /\ Crossed'
  BY <1>1 DEF IInv, Fresh, BidTold, OverTold, ReadWhole, Crossed
<1>5. list[i] = Absent => list[i] \cap Lasting = {}
  BY DEF Absent, Lasting
<1>6. \A j \in Ids : list'[j] = list[j] \/ (j = i /\ list'[j] = flags)
  BY <1>1 DEF IInv, TypeOK
<1>7. Lasts'
  <2> SUFFICES ASSUME base # None, NEW j \in DOMAIN base
               PROVE  list'[j] = Gone \/ base[j] \cap Lasting \subseteq list'[j]
    BY <1>1 DEF Lasts
  <2>1. j \in Ids
    BY ListsFacts DEF IInv, TypeOK
  <2>2. list[j] = Gone \/ base[j] \cap Lasting \subseteq list[j]
    BY DEF IInv, Lasts
  <2> QED BY <1>1, <1>5, <1>6, <2>1, <2>2
<1>8. OrderTold'
  <2> SUFFICES ASSUME kind = "orders", NEW j \in Ids, told[j] # {}
               PROVE  /\ list'[j] # Absent
                      /\ \/ list'[j] = Gone
                         \/ /\ told[j] \cap Lasting \subseteq list'[j]
                            /\ failed \/ truncated \/ (complete # None /\ j \in complete)
                      /\ base # None /\ j \in DOMAIN base => told[j] \cap Lasting \subseteq base[j]
    BY <1>1 DEF OrderTold
  <2>1. /\ list[j] # Absent
        /\ \/ list[j] = Gone
           \/ /\ told[j] \cap Lasting \subseteq list[j]
              /\ failed \/ truncated \/ (complete # None /\ j \in complete)
        /\ base # None /\ j \in DOMAIN base => told[j] \cap Lasting \subseteq base[j]
    BY DEF IInv, OrderTold
  <2> QED BY <1>1, <1>2, <1>6, <2>1
<1> QED BY <1>3, <1>4, <1>7, <1>8 DEF IInv

\* An item that leaves at eBay keeps the invariant.
LEMMA LeaveInv ==
    ASSUME IInv, NEW i \in Ids, Leave(i)
    PROVE  IInv'
<1> DEFINE new == IF kind \in {"orders", "feedback"} \/ "ended" \in list[i] THEN Gone ELSE Absent
<1>1. /\ i \in Present
      /\ list' = [list EXCEPT ![i] = new] /\ events' = {}
      /\ UNCHANGED <<kind, base, truncated, active, told, complete, failed, weighed>>
  BY DEF Leave, history
<1>2. TypeOK'
  BY <1>1 DEF IInv, TypeOK
<1>3. Fresh' /\ BidTold' /\ OverTold' /\ ReadWhole' /\ Crossed'
  BY <1>1 DEF IInv, Fresh, BidTold, OverTold, ReadWhole, Crossed
<1>4. new = Gone \/ list[i] \cap Lasting = {}
  <2>1. kind \in Kinds /\ list[i] \in Known(kind)
    BY <1>1 DEF IInv, TypeOK, Present
  <2> QED BY <2>1, FlagsFacts, KnownFacts DEF Lasting
<1>5. kind = "orders" => new = Gone
  OBVIOUS
<1>6. Gone # Absent
  BY DEF Gone, Absent
<1> HIDE DEF new
<1>7. \A j \in Ids : list'[j] = list[j] \/ (j = i /\ list'[j] = new)
  BY <1>1 DEF IInv, TypeOK
<1>8. Lasts'
  <2> SUFFICES ASSUME base # None, NEW j \in DOMAIN base
               PROVE  list'[j] = Gone \/ base[j] \cap Lasting \subseteq list'[j]
    BY <1>1 DEF Lasts
  <2>1. j \in Ids
    BY ListsFacts DEF IInv, TypeOK
  <2>2. list[j] = Gone \/ base[j] \cap Lasting \subseteq list[j]
    BY DEF IInv, Lasts
  <2>3. i \in Present => list[i] # Gone
    BY DEF Present
  <2> QED BY <1>1, <1>4, <1>7, <2>1, <2>2, <2>3
<1>9. OrderTold'
  BY <1>1, <1>5, <1>6, <1>7 DEF IInv, OrderTold
<1> QED BY <1>2, <1>3, <1>8, <1>9 DEF IInv

(***************************************************************************)
(* A failure and a restart.                                                *)
(***************************************************************************)

\* A failing call keeps the invariant, whatever it resets.
LEMMA FailureInv ==
    ASSUME IInv, Failure
    PROVE  IInv'
<1>1. /\ failed' = TRUE /\ events' = {}
      /\ UNCHANGED <<kind, list, active, told, complete, weighed>>
  BY DEF Failure
<1>2. kind \in Kinds
  BY DEF IInv, TypeOK
<1>3. Nothing \in Lists(kind) /\ DOMAIN Nothing = {} /\ Nothing # None
  <2>1. Nothing \in [{} -> Known(kind)] /\ DOMAIN Nothing = {}
    BY DEF Nothing
  <2>2. {} \in SUBSET Ids
    OBVIOUS
  <2>3. Nothing \in Lists(kind)
    BY <1>2, <2>1, <2>2, ListsFacts
  <2> QED BY <1>2, <2>1, <2>3, ListsFacts
<1>4. CASE ListFails
  <2>1. /\ kind \notin Buying /\ kind # "feedback"
        /\ base' = (IF base = None THEN Nothing ELSE base) /\ truncated' = FALSE
    BY <1>4 DEF ListFails
  <2>2. TypeOK'
    <3>1. base' \in Lists(kind) /\ base' # None
      BY <1>3, <2>1 DEF IInv, TypeOK
    <3>2. kind' = kind /\ events' \subseteq Names \X Ids
      BY <1>1
    <3>3. truncated' \in BOOLEAN /\ (truncated' => base' # None) /\ failed' \in BOOLEAN
      BY <1>1, <2>1
    <3> QED BY <1>1, <3>1, <3>2, <3>3 DEF IInv, TypeOK
  <2>3. Fresh' /\ BidTold' /\ OverTold' /\ ReadWhole' /\ Crossed'
    BY <1>1, <1>3, <2>1 DEF IInv, Fresh, BidTold, OverTold, ReadWhole, Crossed, Buying
  <2>4. Lasts' /\ OrderTold'
    BY <1>1, <1>3, <2>1 DEF IInv, Lasts, OrderTold
  <2> QED BY <2>2, <2>3, <2>4 DEF IInv
<1>5. CASE FeedbackFails
  <2>1. /\ kind = "feedback"
        /\ UNCHANGED <<base, truncated>> \/ (base' = None /\ truncated' = FALSE)
    BY <1>5 DEF FeedbackFails
  <2>2. TypeOK'
    <3>1. /\ base' = None \/ base' \in Lists(kind)
          /\ truncated' \in BOOLEAN /\ (truncated' => base' # None)
      <4>1. CASE base' = base /\ truncated' = truncated
        BY <4>1 DEF IInv, TypeOK
      <4>2. CASE base' = None /\ truncated' = FALSE
        BY <4>2
      <4> QED BY <2>1, <4>1, <4>2
    <3>2. events' \subseteq Names \X Ids /\ failed' \in BOOLEAN
      BY <1>1
    <3> QED BY <1>1, <3>1, <3>2 DEF IInv, TypeOK
  <2>3. Fresh' /\ BidTold' /\ OverTold' /\ ReadWhole' /\ Crossed'
    BY <1>1, <2>1 DEF IInv, Fresh, BidTold, OverTold, ReadWhole, Crossed, Buying
  <2>4. Lasts' /\ OrderTold'
    BY <1>1, <2>1 DEF IInv, Lasts, OrderTold
  <2> QED BY <2>2, <2>3, <2>4 DEF IInv
<1> QED BY <1>4, <1>5 DEF Failure

\* A restart, which forgets the payload, keeps the invariant.
LEMMA RestartInv ==
    ASSUME IInv, Restart
    PROVE  IInv'
<1>1. /\ base' = None /\ truncated' = FALSE /\ active' = {} /\ events' = {}
      /\ told' = [i \in Ids |-> {}] /\ complete' = None /\ failed' = FALSE /\ weighed' = {}
      /\ kind' = kind /\ list' = list
  BY DEF Restart
<1> QED BY <1>1 DEF IInv, TypeOK, Fresh, Lasts, BidTold, OverTold, OrderTold, ReadWhole, Crossed

(***************************************************************************)
(* A read.                                                                 *)
(***************************************************************************)

\* What is told of an item after a read is what the read told, and what was told
\* before unless the item is new to a buying list, the opposite was told, or how its
\* bid stands was left unsaid.
LEMMA ToldFacts ==
    ASSUME TypeOK, NEW found, NEW cut, NEW other, Refresh(found, cut, other), NEW i \in Ids
    PROVE  LET Is(name) == <<name, i>> \in events'
               current == Current(found, cut)
           IN  \A name \in told'[i] :
                    \/ /\ name \in {"ended", "disappeared", "winning", "outbid", "added", "paid",
                                   "shipped"}
                       /\ Is(name)
                    \/ /\ name \in told[i]
                       /\ ~(kind \in Buying /\ base # None /\ i \in New(current))
                       /\ name = "winning" => ~Is("outbid")
                       /\ name = "outbid" => ~Is("winning")
                       /\ name \in {"winning", "outbid"} /\ i \in DOMAIN current =>
                            "winning" \in current[i] \/ "outbid" \in current[i]
<1> DEFINE current == Current(found, cut)
           About == {name \in Names : <<name, i>> \in events'}
           turned == {Opposite[name] : name \in About \cap {"winning", "outbid"}}
           unsaid == i \in DOMAIN current /\ {"winning", "outbid"} \cap current[i] = {}
           over == IF unsaid THEN {"winning", "outbid"} ELSE turned
           fresh == IF base = None THEN {} ELSE New(current)
           telling == {"ended", "disappeared", "winning", "outbid", "added", "paid", "shipped"}
<1>1. told'[i] = (IF kind \in Buying /\ i \in fresh THEN {} ELSE told[i] \ over) \cup (About \cap telling)
  BY DEF Refresh
<1>2. Opposite["outbid"] = "winning" /\ Opposite["winning"] = "outbid"
  BY DEF Opposite
<1>3. /\ <<"outbid", i>> \in events' => "winning" \in turned
      /\ <<"winning", i>> \in events' => "outbid" \in turned
  BY <1>2 DEF Names
<1>4. /\ <<"outbid", i>> \in events' => "winning" \in over
      /\ <<"winning", i>> \in events' => "outbid" \in over
  BY <1>3
<1>5. unsaid => "winning" \in over /\ "outbid" \in over
  OBVIOUS
<1>6. \A name \in About \cap telling : name \in telling /\ <<name, i>> \in events'
  OBVIOUS
<1>7. i \in fresh <=> base # None /\ i \in New(current)
  OBVIOUS
<1>8. i \in DOMAIN current /\ ~unsaid => "winning" \in current[i] \/ "outbid" \in current[i]
  OBVIOUS
<1> HIDE DEF over, turned, unsaid, About, telling, fresh
<1>9. ASSUME NEW name \in told'[i], name \notin About \cap telling
      PROVE  name \in told[i] /\ ~(kind \in Buying /\ i \in fresh) /\ name \notin over
  BY <1>1, <1>9
<1> HIDE DEF current
<1>10. ASSUME NEW name \in told'[i], name \notin About \cap telling
       PROVE  /\ name \in told[i]
              /\ ~(kind \in Buying /\ base # None /\ i \in New(current))
              /\ name = "winning" => <<"outbid", i>> \notin events'
              /\ name = "outbid" => <<"winning", i>> \notin events'
              /\ name \in {"winning", "outbid"} /\ i \in DOMAIN current =>
                    "winning" \in current[i] \/ "outbid" \in current[i]
  BY ONLY <1>4, <1>5, <1>7, <1>8, <1>9, <1>10
<1> QED BY <1>6, <1>10 DEF telling, current

\* Every event is about an item.
LEMMA DetectedIds ==
    ASSUME TypeOK, base # None, NEW current \in Lists(kind), NEW suppressed \in BOOLEAN
    PROVE  Detected(current, suppressed) \subseteq Names \X Ids
<1>1. kind \in Kinds
  BY DEF TypeOK
<1>2. DOMAIN base \subseteq Ids /\ DOMAIN current \subseteq Ids
  BY <1>1, ListsFacts DEF TypeOK
<1>3. \A j \in Both(current) : current[j] \subseteq Names
  BY <1>1, ListsFacts, FlagsFacts DEF Both, Names
<1>4. Both(current) \subseteq Ids /\ New(current) \subseteq Ids
  BY <1>2 DEF Both, New
<1>5. Flips(current) \subseteq Names \X Ids
  <2> DEFINE raised(j) == {name \in current[j] \ base[j] :
                            name \in Lasting \/ Opposite[name] \in base[j]}
  <2>1. Flips(current) = UNION {raised(j) \X {j} : j \in Both(current)}
    BY DEF Flips
  <2>2. \A j \in Both(current) : raised(j) \subseteq Names
    BY <1>3
  <2> HIDE DEF raised
  <2> QED BY <1>4, <2>1, <2>2
<1> DEFINE added == IF suppressed THEN {} ELSE New(current)
           paid == IF suppressed THEN {} ELSE {j \in New(current) : "paid" \in current[j]}
           lost == IF suppressed \/ kind \notin Buying THEN {}
                   ELSE {j \in DOMAIN base \ DOMAIN current : Running(base[j])}
<1>6. Crossing(current, suppressed) \subseteq Ids /\ added \subseteq Ids /\ paid \subseteq Ids /\ lost \subseteq Ids
  BY <1>2, <1>4 DEF Crossing
<1>7. Detected(current, suppressed) =
        Flips(current) \cup {<<"dropped_below", j>> : j \in Crossing(current, suppressed)}
            \cup {<<"added", j>> : j \in added}
            \cup {<<"paid", j>> : j \in paid} \cup {<<"disappeared", j>> : j \in lost}
  BY DEF Detected
<1> HIDE DEF added, paid, lost
<1> QED BY <1>5, <1>6, <1>7 DEF Names

\* What a refresh reads, tells and keeps.
LEMMA RefreshFacts ==
    ASSUME IInv, NEW found \in SUBSET Ids, NEW cut \in BOOLEAN, NEW other \in BOOLEAN,
           Refresh(found, cut, other)
    PROVE  LET current == Current(found, cut)
               suppressed == Suppressed(cut, other)
           IN  /\ found \in SUBSET Present /\ (~cut => found = Present)
               /\ events' = IF base = None THEN {} ELSE Detected(current, suppressed)
               /\ active' = IF base = None \/ kind # "watched" THEN active
                            ELSE Active(current, suppressed)
               /\ base' = current /\ truncated' = cut
               /\ complete' = IF cut THEN complete ELSE found
               /\ failed' = (failed /\ cut)
               /\ kind' = kind /\ list' = list
               /\ weighed' = IF kind # "watched" THEN {}
                             ELSE {i \in DOMAIN current :
                                     \/ base = None \/ i \in New(current)
                                     \/ ~suppressed /\ Priced(base[i]) /\ Priced(current[i])}
               /\ suppressed \in BOOLEAN /\ (~suppressed => ~cut /\ ~truncated)
<1>1. truncated \in BOOLEAN
  BY DEF IInv, TypeOK
<1> QED BY <1>1 DEF Refresh, Suppressed

\* A refresh keeps the invariant.
LEMMA RefreshInv ==
    ASSUME IInv, NEW found \in SUBSET Ids, NEW cut \in BOOLEAN, NEW other \in BOOLEAN,
           Refresh(found, cut, other)
    PROVE  IInv'
<1> DEFINE current == Current(found, cut)
           suppressed == Suppressed(cut, other)
           Is(name, i) == <<name, i>> \in events'
           telling == {"ended", "disappeared", "winning", "outbid", "added", "paid", "shipped"}
<1>1. /\ found \in SUBSET Present /\ (~cut => found = Present)
      /\ events' = IF base = None THEN {} ELSE Detected(current, suppressed)
      /\ active' = IF base = None \/ kind # "watched" THEN active ELSE Active(current, suppressed)
      /\ base' = current /\ truncated' = cut
      /\ complete' = IF cut THEN complete ELSE found
      /\ failed' = (failed /\ cut)
      /\ kind' = kind /\ list' = list
               /\ weighed' = IF kind # "watched" THEN {}
                             ELSE {i \in DOMAIN current :
                                     \/ base = None \/ i \in New(current)
                                     \/ ~suppressed /\ Priced(base[i]) /\ Priced(current[i])}
      /\ suppressed \in BOOLEAN /\ (~suppressed => ~cut /\ ~truncated)
  BY RefreshFacts
<1>2. TypeOK /\ kind \in Kinds
  BY DEF IInv, TypeOK
<1>3. /\ current \in Lists(kind) /\ current # None
      /\ found \subseteq DOMAIN current /\ DOMAIN current \subseteq Ids
      /\ \A i \in found : current[i] = list[i]
      /\ \A i \in DOMAIN current \ found :
           cut /\ kind \in Buying /\ base # None /\ i \in DOMAIN base /\ current[i] = base[i]
      /\ ~cut => DOMAIN current = found
  <2>1. found \in SUBSET Present
    BY <1>1
  <2> QED BY ONLY <1>2, <2>1, cut \in BOOLEAN, CurrentFacts DEF current
<1>4. ASSUME NEW i \in Ids
      PROVE  \A name \in told'[i] :
               /\ name \in telling /\ Is(name, i)
               \/ /\ name \in told[i]
                  /\ ~(kind \in Buying /\ base # None /\ i \in New(current))
                  /\ name = "winning" => ~Is("outbid", i)
                  /\ name = "outbid" => ~Is("winning", i)
                  /\ name \in {"winning", "outbid"} /\ i \in DOMAIN current =>
                        "winning" \in current[i] \/ "outbid" \in current[i]
  BY <1>2, ToldFacts
<1>5. told' = [i \in Ids |-> told'[i]]
  BY DEF Refresh
<1> HIDE DEF current, suppressed
<1>6. ASSUME NEW i \in Ids, NEW name, Is(name, i) PROVE base # None
  BY <1>1, <1>6
<1>7. ASSUME NEW i \in Ids, base # None
      PROVE  /\ \A name \in {"ended", "shipped"} :
                  Is(name, i) <=> i \in Both(current) /\ name \in current[i] \ base[i]
             /\ Is("paid", i) <=> \/ i \in Both(current) /\ "paid" \in current[i] \ base[i]
                                  \/ ~suppressed /\ i \in New(current) /\ "paid" \in current[i]
             /\ Is("winning", i)
                  <=> i \in Both(current) /\ "winning" \in current[i] /\ "outbid" \in base[i]
             /\ Is("outbid", i)
                  <=> i \in Both(current) /\ "outbid" \in current[i] /\ "winning" \in base[i]
             /\ Is("added", i) <=> ~suppressed /\ i \in New(current)
             /\ Is("disappeared", i) <=> /\ ~suppressed /\ kind \in Buying
                                         /\ i \in DOMAIN base \ DOMAIN current
                                         /\ "ended" \notin base[i]
  <2>1. events' = Detected(current, suppressed)
    BY <1>1, <1>7
  <2>2. current \in Lists(kind) /\ suppressed \in BOOLEAN
    BY <1>1, <1>3
  <2>3. TypeOK
    BY <1>2
  <2> HIDE DEF telling
  <2>4. Tells(events', current, suppressed, i)
    BY ONLY <2>1, <2>2, <2>3, <1>7, DetectedFacts
  <2>5. Opposite["outbid"] = "winning" /\ Opposite["winning"] = "outbid"
    BY DEF Opposite
  <2> QED BY ONLY <2>4, <2>5 DEF Is, Tells
<1> HIDE DEF Is
<1>8. New(current) = DOMAIN current \ DOMAIN base /\ Both(current) = DOMAIN current \cap DOMAIN base
  BY DEF New, Both
<1>9. TypeOK'
  <2>1. events' \subseteq Names \X Ids
    BY <1>1, <1>2, <1>3, DetectedIds
  <2>2. told' \in [Ids -> SUBSET Names]
    <3>1. \A i \in Ids : told'[i] \subseteq Names
      BY <1>2, <1>4 DEF TypeOK, Names
    <3> QED BY <1>5, <3>1
  <2>3. active' \subseteq Ids
    <3>1. active' = active \/ active' = Active(current, suppressed)
      BY <1>1
    <3>2. active \subseteq Ids
      BY <1>2 DEF TypeOK
    <3> QED BY <1>3, <1>8, <3>1, <3>2 DEF Active
  <2>4. base' \in Lists(kind) /\ base' # None
    BY <1>1, <1>3
  <2>5. truncated' \in BOOLEAN /\ failed' \in BOOLEAN /\ weighed' \subseteq Ids
    BY <1>1, <1>3
  <2>6. complete' = None \/ complete' \subseteq Ids
    BY <1>1, <1>2 DEF TypeOK
  <2> QED BY <1>1, <1>2, <2>1, <2>2, <2>3, <2>4, <2>5, <2>6 DEF TypeOK
<1>10. Fresh'
  BY <1>1, <1>3 DEF Fresh
<1>11. Lasts'
  <2> SUFFICES ASSUME NEW i \in DOMAIN current
               PROVE  list[i] = Gone \/ current[i] \cap Lasting \subseteq list[i]
    BY <1>1 DEF Lasts
  <2>1. CASE i \in found
    BY <1>3, <2>1
  <2>2. CASE i \notin found
    BY <1>3, <2>2 DEF IInv, Lasts
  <2> QED BY <2>1, <2>2
\* What was told before of an item in the new payload was told of one in the old.
<1>12. ASSUME kind \in Buying, NEW i \in DOMAIN current, NEW name \in told'[i], ~Is(name, i)
       PROVE  /\ name \in told[i] /\ base # None /\ i \in Both(current)
              /\ name = "winning" => ~Is("outbid", i)
              /\ name = "outbid" => ~Is("winning", i)
              /\ name \in {"winning", "outbid"} => "winning" \in current[i] \/ "outbid" \in current[i]
  <2>1. i \in Ids
    BY <1>3
  <2>2. /\ name \in told[i]
        /\ ~(kind \in Buying /\ base # None /\ i \in New(current))
        /\ name = "winning" => ~Is("outbid", i)
        /\ name = "outbid" => ~Is("winning", i)
        /\ name \in {"winning", "outbid"} => "winning" \in current[i] \/ "outbid" \in current[i]
    BY <1>4, <1>12, <2>1
  <2>3. base # None
    BY <1>12, <2>1, <2>2 DEF IInv, Fresh
  <2> QED BY <1>8, <1>12, <2>2, <2>3
<1>13. BidTold'
  <2> SUFFICES ASSUME kind = "bidding", NEW i \in DOMAIN current
               PROVE  /\ "winning" \in told'[i] => "winning" \in current[i]
                      /\ "outbid" \in told'[i] => "outbid" \in current[i]
    BY <1>1 DEF BidTold
  <2>1. i \in Ids /\ kind \in Buying
    BY <1>3 DEF Buying
  <2>2. ASSUME Is("winning", i) PROVE "winning" \in current[i]
    BY <1>6, <1>7, <2>1, <2>2
  <2>3. ASSUME Is("outbid", i) PROVE "outbid" \in current[i]
    BY <1>6, <1>7, <2>1, <2>3
  <2>4. ASSUME "winning" \in told'[i], ~Is("winning", i) PROVE "winning" \in current[i]
    <3>1. /\ "winning" \in told[i] /\ base # None /\ i \in Both(current) /\ ~Is("outbid", i)
          /\ "winning" \in current[i] \/ "outbid" \in current[i]
      BY <1>12, <2>1, <2>4
    <3>2. "winning" \in base[i]
      BY <1>8, <3>1 DEF IInv, BidTold
    <3> QED BY <1>7, <2>1, <3>1, <3>2
  <2>5. ASSUME "outbid" \in told'[i], ~Is("outbid", i) PROVE "outbid" \in current[i]
    <3>1. /\ "outbid" \in told[i] /\ base # None /\ i \in Both(current) /\ ~Is("winning", i)
          /\ "winning" \in current[i] \/ "outbid" \in current[i]
      BY <1>12, <2>1, <2>5
    <3>2. "outbid" \in base[i]
      BY <1>8, <3>1 DEF IInv, BidTold
    <3> QED BY <1>7, <2>1, <3>1, <3>2
  <2> QED BY <2>2, <2>3, <2>4, <2>5
<1>14. OverTold'
  <2> SUFFICES ASSUME kind \in Buying, NEW i \in DOMAIN current,
                      NEW name \in told'[i], name \in {"ended", "disappeared"}
               PROVE  "ended" \in current[i]
    BY <1>1 DEF OverTold
  <2>1. i \in Ids
    BY <1>3
  <2>2. CASE Is(name, i)
    BY <1>6, <1>7, <2>1, <2>2
  <2>3. CASE ~Is(name, i)
    <3>1. name \in told[i] /\ base # None /\ i \in Both(current)
      BY <1>12, <2>3
    <3>2. "ended" \in base[i] /\ i \in DOMAIN base
      BY <1>8, <3>1 DEF IInv, OverTold
    <3>3. list[i] = Gone \/ "ended" \in list[i]
      BY <3>1, <3>2 DEF IInv, Lasts, Lasting
    <3>4. CASE i \in found
      BY <1>1, <1>3, <3>3, <3>4 DEF Present
    <3>5. CASE i \notin found
      BY <1>3, <3>2, <3>5
    <3> QED BY <3>4, <3>5
  <2> QED BY <2>2, <2>3
<1>15. OrderTold'
  <2> SUFFICES ASSUME kind = "orders", NEW i \in Ids, NEW some \in told'[i]
               PROVE  /\ list[i] # Absent
                      /\ \/ list[i] = Gone
                         \/ /\ told'[i] \cap Lasting \subseteq list[i]
                            /\ failed' \/ truncated' \/ (complete' # None /\ i \in complete')
                      /\ i \in DOMAIN current => told'[i] \cap Lasting \subseteq current[i]
    BY <1>1 DEF OrderTold
  <2>1. kind \notin Buying /\ DOMAIN current = found
    BY <1>3 DEF Buying
  <2>2. ASSUME NEW name \in telling, Is(name, i)
        PROVE  i \in found /\ (name \in Lasting => name \in list[i])
    <3>1. base # None
      BY <1>6, <2>2
    <3>2. i \in DOMAIN current /\ (name \in Lasting => name \in current[i])
      BY <1>7, <1>8, <2>1, <2>2, <3>1 DEF Lasting
    <3> QED BY <1>3, <2>1, <3>2
  <2>3. \A name \in told'[i] : (name \in telling /\ Is(name, i)) \/ name \in told[i]
    BY <1>4
  <2>4. told[i] # {} => /\ list[i] # Absent
                        /\ list[i] = Gone \/ told[i] \cap Lasting \subseteq list[i]
    BY DEF IInv, OrderTold
  <2>5. \A j \in found : list[j] # Absent /\ list[j] # Gone
    BY <1>1 DEF Present
  <2>6. list[i] # Absent
    BY <2>2, <2>3, <2>4, <2>5
  <2>7. list[i] = Gone \/ told'[i] \cap Lasting \subseteq list[i]
    BY <2>2, <2>3, <2>4
  <2>8. list[i] = Gone \/ truncated' \/ (complete' # None /\ i \in complete')
    <3>1. CASE cut
      BY <1>1, <3>1
    <3>2. CASE ~cut
      <4>1. complete' = found /\ found = Present /\ found # None
        BY <1>1, <3>2
      <4> QED BY <2>6, <4>1 DEF Present
    <3> QED BY <3>1, <3>2
  <2>9. i \in DOMAIN current => told'[i] \cap Lasting \subseteq current[i]
    BY <1>3, <2>1, <2>5, <2>7
  <2> QED BY <2>6, <2>7, <2>8, <2>9
<1>16. ReadWhole'
  <2> SUFFICES ASSUME ~cut PROVE complete' # None /\ DOMAIN current = complete'
    BY <1>1 DEF ReadWhole
  <2>1. found # None
    OBVIOUS
  <2> QED BY <1>1, <1>3, <2>1
<1>17. Crossed'
  <2>1. weighed' # {} => kind = "watched"
    BY <1>1
  <2>2. current # None /\ \A i \in weighed' : i \in DOMAIN current
    BY <1>1, <1>3
  <2>3. ASSUME NEW i \in weighed', i \in active' PROVE "below" \in current[i]
    <3>1. kind = "watched" /\ i \in DOMAIN current
      BY <2>1, <2>2
    <3>2. base # None
      BY <1>1, <2>3, <3>1 DEF IInv, Fresh
    <3>3. \/ i \in New(current)
          \/ ~suppressed /\ Priced(base[i]) /\ Priced(current[i]) /\ i \in Both(current)
      BY <1>1, <1>8, <3>1, <3>2
    <3>4. i \in Active(current, suppressed)
      BY <1>1, <2>3, <3>1, <3>2
    <3> QED BY <3>3, <3>4 DEF Active
  <2> QED BY <1>1, <2>1, <2>2, <2>3 DEF Crossed
<1> QED BY <1>9, <1>10, <1>11, <1>13, <1>14, <1>15, <1>16, <1>17 DEF IInv

(***************************************************************************)
(* The theorems.                                                           *)
(***************************************************************************)

\* Every step keeps the invariant.
LEMMA StepInv == IInv /\ [Next]_vars => IInv'
<1> SUFFICES ASSUME IInv, [Next]_vars PROVE IInv'
  OBVIOUS
<1>1. ASSUME NEW i \in Ids, NEW flags \in SUBSET Flags[kind], Change(i, flags) PROVE IInv'
  BY <1>1, ChangeInv
<1>2. ASSUME NEW i \in Ids, Leave(i) PROVE IInv'
  BY <1>2, LeaveInv
<1>3. ASSUME NEW found \in SUBSET Ids, NEW cut \in BOOLEAN, NEW other \in BOOLEAN,
             Refresh(found, cut, other)
      PROVE  IInv'
  BY <1>3, RefreshInv
<1>4. CASE Failure
  BY <1>4, FailureInv
<1>5. CASE Restart
  BY <1>5, RestartInv
<1>6. CASE UNCHANGED vars
  BY <1>6 DEF vars, history, IInv, TypeOK, Fresh, Lasts, BidTold, OverTold, OrderTold, ReadWhole, Crossed
<1> QED BY <1>1, <1>2, <1>3, <1>4, <1>5, <1>6 DEF Next

\* The invariant holds in every state of the list.
LEMMA Invariance == Spec => []IInv
BY InitInv, StepInv, PTL DEF Spec

\* Whatever a step emits, a read of the list emits, compared with a payload.
LEMMA EmittedByRead ==
    ASSUME IInv, Next, events' # {}
    PROVE  \E found \in SUBSET Ids, cut, other \in BOOLEAN :
             /\ Refresh(found, cut, other) /\ base # None
             /\ \A i \in Ids : Tells(events', Current(found, cut), Suppressed(cut, other), i)
<1>1. \A i \in Ids : ~Leave(i) /\ \A flags \in SUBSET Flags[kind] : ~Change(i, flags)
  BY DEF Change, Leave
<1>2. ~Failure /\ ~Restart
  BY DEF Failure, Restart
<1>3. PICK found \in SUBSET Ids, cut \in BOOLEAN, other \in BOOLEAN : Refresh(found, cut, other)
  BY <1>1, <1>2 DEF Next
<1> DEFINE current == Current(found, cut)
           suppressed == Suppressed(cut, other)
<1>4. /\ found \in SUBSET Present /\ suppressed \in BOOLEAN
      /\ events' = IF base = None THEN {} ELSE Detected(current, suppressed)
  <2>1. truncated \in BOOLEAN
    BY DEF IInv, TypeOK
  <2> QED BY <1>3, <2>1 DEF Refresh, Suppressed
<1>5. TypeOK
  BY DEF IInv
<1>6. current \in Lists(kind)
  BY <1>4, <1>5, CurrentFacts
<1> HIDE DEF current, suppressed
<1>7. base # None /\ events' = Detected(current, suppressed)
  BY <1>4
<1>8. \A i \in Ids : Tells(events', current, suppressed, i)
  BY ONLY <1>4, <1>5, <1>6, <1>7, DetectedFacts
<1> QED BY <1>3, <1>7, <1>8 DEF current, suppressed

\* Every variable keeps its type, and a flag of a cut list its payload.
THEOREM TypeCorrect == Spec => []TypeOK
<1>1. IInv => TypeOK
  BY DEF IInv
<1> QED BY <1>1, Invariance, PTL

\* What was told last of a bid is what the payload holds, as long as eBay says how it
\* stands.
THEOREM BidsTold == Spec => []BidTold
<1>1. IInv => BidTold
  BY DEF IInv
<1> QED BY <1>1, Invariance, PTL

\* An item of a buying list is said to be over once until it is on the list anew.
THEOREM FarewellsOnce == Spec => FarewellOnce
<1>1. ASSUME IInv, Next, NEW i \in Ids, NEW over \in {"ended", "disappeared"},
             kind \in Buying, <<over, i>> \in events'
      PROVE  told[i] \cap {"ended", "disappeared"} = {}
  <2>1. PICK found \in SUBSET Ids, cut \in BOOLEAN, other \in BOOLEAN :
          base # None /\ Tells(events', Current(found, cut), Suppressed(cut, other), i)
    BY <1>1, EmittedByRead
  <2>2. i \in DOMAIN base /\ "ended" \notin base[i]
    BY <1>1, <2>1 DEF Tells, Both
  <2> QED BY <1>1, <2>1, <2>2 DEF IInv, OverTold
<1>2. IInv /\ [Next]_vars =>
        [\A i \in Ids : \A over \in {"ended", "disappeared"} :
            kind \in Buying /\ <<over, i>> \in events' =>
                told[i] \cap {"ended", "disappeared"} = {}]_vars
  BY <1>1
<1> QED BY <1>2, Invariance, PTL DEF Spec, FarewellOnce

\* What is told to be new was not on the last list read whole, unless reads failed
\* since.
THEOREM NewsNew == Spec => AddedNew
<1>1. ASSUME IInv, Next, NEW i \in Ids, <<"added", i>> \in events'
      PROVE  \/ failed /\ kind # "feedback"
             \/ complete # None /\ i \notin complete
  <2>1. PICK found \in SUBSET Ids, cut \in BOOLEAN, other \in BOOLEAN :
          /\ Refresh(found, cut, other) /\ base # None
          /\ Tells(events', Current(found, cut), Suppressed(cut, other), i)
    BY <1>1, EmittedByRead
  <2>2. ~Suppressed(cut, other) /\ i \notin DOMAIN base
    BY <1>1, <2>1 DEF Tells, New
  <2>3. ~truncated
    BY <2>2 DEF Suppressed
  <2> QED BY <1>1, <2>1, <2>2, <2>3 DEF IInv, ReadWhole
<1>2. IInv /\ [Next]_vars =>
        [\A i \in Ids : <<"added", i>> \in events' =>
            \/ failed /\ kind # "feedback"
            \/ complete # None /\ i \notin complete]_vars
  BY <1>1
<1> QED BY <1>2, Invariance, PTL DEF Spec, AddedNew

\* No order is told of twice under one name, unless reads failed since the last list
\* read whole.
THEOREM OrdersOnce == Spec => OrderToldOnce
<1>1. ASSUME IInv, Next, kind = "orders", NEW i \in Ids, NEW name \in told[i],
             <<name, i>> \in events'
      PROVE  failed
  <2> SUFFICES ASSUME ~failed PROVE FALSE
    OBVIOUS
  <2>1. PICK found \in SUBSET Ids, cut \in BOOLEAN, other \in BOOLEAN :
          /\ Refresh(found, cut, other) /\ base # None
          /\ Tells(events', Current(found, cut), Suppressed(cut, other), i)
    BY <1>1, EmittedByRead
  <2> DEFINE current == Current(found, cut)
  <2>2. TypeOK /\ kind \in Kinds
    BY <1>1 DEF IInv, TypeOK
  <2>3. /\ found \in SUBSET Present /\ (~cut => found = Present)
        /\ ~Suppressed(cut, other) => ~cut /\ ~truncated
    BY <1>1, <2>1, RefreshFacts
  <2>4. /\ current \in Lists(kind) /\ DOMAIN current = found
        /\ \A j \in DOMAIN current : current[j] \subseteq {"paid", "shipped"}
    <3>1. current \in Lists(kind)
      BY <2>2, <2>3, CurrentFacts
    <3>2. /\ found \subseteq DOMAIN current
          /\ \A j \in DOMAIN current \ found : kind \in Buying
      BY <2>2, <2>3, CurrentFacts
    <3>3. kind \notin Buying
      BY <1>1 DEF Buying
    <3>4. Flags[kind] = {"paid", "shipped"}
      BY <1>1, <2>2, FlagsFacts
    <3> HIDE DEF current
    <3> QED BY <2>2, <3>1, <3>2, <3>3, <3>4, ListsFacts
  <2>5. \A j \in DOMAIN base : base[j] \subseteq {"paid", "shipped"}
    BY <1>1, <2>1, <2>2, ListsFacts, FlagsFacts DEF TypeOK
  <2>6. told[i] # {}
    BY <1>1
  <2>7. /\ list[i] = Gone \/ truncated \/ (complete # None /\ i \in complete)
        /\ i \in DOMAIN base => told[i] \cap Lasting \subseteq base[i]
    BY <1>1, <2>1, <2>6 DEF IInv, OrderTold
  <2> HIDE DEF current
  <2>8. Tells(events', current, Suppressed(cut, other), i)
    BY <2>1 DEF current
  <2>9. name \in Names
    BY <2>8, <1>1 DEF Tells
  <2>10. \/ i \in Both(current) /\ name \in {"paid", "shipped"} /\ name \notin base[i]
         \/ i \in New(current) /\ ~Suppressed(cut, other)
    <3>1. CASE name \in {"ended", "shipped"}
      BY <1>1, <2>4, <2>8, <3>1 DEF Tells, Both
    <3>2. CASE name = "paid"
      BY <1>1, <2>8, <3>2 DEF Tells
    <3>3. CASE name \in {"winning", "outbid", "above", "below"}
      BY <1>1, <2>4, <2>8, <3>3 DEF Tells, Both
    <3>4. CASE name = "dropped_below"
      BY <1>1, <2>4, <2>8, <3>4 DEF Tells, Crossing, Both
    <3>5. CASE name \in {"added", "disappeared"}
      BY <1>1, <2>8, <3>5 DEF Tells, Buying
    <3> QED BY <2>9, <3>1, <3>2, <3>3, <3>4, <3>5 DEF Names
  <2>11. CASE i \in Both(current) /\ name \in {"paid", "shipped"} /\ name \notin base[i]
    BY <1>1, <2>7, <2>11 DEF Both, Lasting
  <2>12. CASE i \in New(current) /\ ~Suppressed(cut, other)
    <3>1. i \in found /\ i \notin DOMAIN base /\ ~truncated
      BY <2>3, <2>4, <2>12 DEF New
    <3>2. list[i] # Gone
      BY <2>3, <3>1 DEF Present
    <3>3. DOMAIN base = complete
      BY <1>1, <2>1, <3>1 DEF IInv, ReadWhole
    <3> QED BY <2>7, <3>1, <3>2, <3>3
  <2> QED BY <2>10, <2>11, <2>12
<1>2. IInv /\ [Next]_vars =>
        [kind = "orders" =>
            \A i \in Ids : \A name \in told[i] : <<name, i>> \in events' => failed]_vars
  BY <1>1
<1> QED BY <1>2, Invariance, PTL DEF Spec, OrderToldOnce

\* A price that falls below its target is told so if this read weighed it against the
\* target and the read before did.
THEOREM CrossingsTold == Spec => CrossingTold
<1>1. ASSUME IInv, Next, NEW i \in weighed \cap weighed', <<"below", i>> \in events'
      PROVE  <<"dropped_below", i>> \in events'
  <2>1. kind = "watched" /\ base # None /\ i \in DOMAIN base
        /\ (i \in active => "below" \in base[i])
    BY <1>1 DEF IInv, Crossed
  <2>2. TypeOK /\ kind \in Kinds /\ i \in Ids
    BY <1>1 DEF IInv, TypeOK
  <2>3. PICK found \in SUBSET Ids, cut \in BOOLEAN, other \in BOOLEAN :
          /\ Refresh(found, cut, other)
          /\ Tells(events', Current(found, cut), Suppressed(cut, other), i)
    BY <1>1, <2>2, EmittedByRead
  <2> DEFINE current == Current(found, cut)
             suppressed == Suppressed(cut, other)
  <2>4. i \in New(current) \/ ~suppressed
    <3>1. weighed' = {j \in DOMAIN current : \/ j \in New(current)
                                             \/ ~suppressed /\ Priced(base[j]) /\ Priced(current[j])}
      BY <2>1, <2>3 DEF Refresh
    <3> HIDE DEF current, suppressed
    <3> QED BY <1>1, <3>1
  <2> HIDE DEF current, suppressed
  <2>5. Tells(events', current, suppressed, i)
    BY <2>3 DEF current, suppressed
  <2>6. i \in Both(current) /\ "below" \in current[i] /\ "above" \in base[i]
    BY <1>1, <2>5 DEF Tells, Opposite
  <2>7. "below" \notin base[i]
    BY <2>1, <2>2, <2>6, ListsFacts, KnownFacts DEF TypeOK
  <2>8. ~suppressed /\ i \notin active
    BY <2>1, <2>4, <2>6, <2>7 DEF Both, New
  <2>9. i \in Crossing(current, suppressed)
    BY <2>6, <2>8 DEF Crossing
  <2> QED BY <2>5, <2>9 DEF Tells
<1>2. IInv /\ [Next]_vars =>
        [\A i \in weighed \cap weighed' :
            <<"below", i>> \in events' => <<"dropped_below", i>> \in events']_vars
  <2> SUFFICES ASSUME IInv, [Next]_vars
               PROVE  [\A i \in weighed \cap weighed' :
                        <<"below", i>> \in events' => <<"dropped_below", i>> \in events']_vars
    OBVIOUS
  <2>1. CASE Next
    BY <1>1, <2>1
  <2>2. CASE UNCHANGED vars
    BY <2>2
  <2> QED BY <2>1, <2>2
<1> QED BY <1>2, Invariance, PTL DEF Spec, CrossingTold
=============================================================================
