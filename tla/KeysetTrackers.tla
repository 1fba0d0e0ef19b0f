---------------------------- MODULE KeysetTrackers ----------------------------
(***************************************************************************)
(* What the accounts are promised of rate limits: the clients of a         *)
(* developer keyset share one tracker, which learns of a 429 that eBay     *)
(* answers to any of them, and no client of another keyset holds it.  A    *)
(* client keeps its tracker as long as it runs.                            *)
(***************************************************************************)
CONSTANTS Entries, Keysets, Trackers, None

VARIABLES
    keyset,     \* the keyset of the client of each entry, or None
    tracker     \* the tracker that client holds, or None

vars == <<keyset, tracker>>

Init == keyset = [e \in Entries |-> None] /\ tracker = [e \in Entries |-> None]

\* A new client takes the tracker of the clients of its keyset; if there are none,
\* one that nobody holds.
Start(e, k) ==
    /\ keyset[e] = None
    /\ keyset' = [keyset EXCEPT ![e] = k]
    /\ \E t \in Trackers :
        /\ \A other \in Entries : keyset[other] # None => (keyset[other] = k <=> tracker[other] = t)
        /\ tracker' = [tracker EXCEPT ![e] = t]

Stop(stopped) ==
    /\ keyset' = [e \in Entries |-> IF e \in stopped THEN None ELSE keyset[e]]
    /\ tracker' = [e \in Entries |-> IF e \in stopped THEN None ELSE tracker[e]]

Next ==
    \/ \E e \in Entries, k \in Keysets : Start(e, k)
    \/ \E stopped \in SUBSET Entries : Stop(stopped)

Spec == Init /\ [][Next]_vars

-----------------------------------------------------------------------------
\* Two clients hold the same tracker exactly when they use the same keyset.
Alike ==
    \A a, b \in Entries :
        keyset[a] # None /\ keyset[b] # None => (keyset[a] = keyset[b] <=> tracker[a] = tracker[b])
=============================================================================
