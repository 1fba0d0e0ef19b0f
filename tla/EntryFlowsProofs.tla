--------------------------- MODULE EntryFlowsProofs ---------------------------
(***************************************************************************)
(* Proofs about EntryFlows, for any number of accounts, entries, flows and *)
(* scopes: every state is well typed, an account has one entry, no entry   *)
(* changes hands, the token grants what the options need, and no draft     *)
(* outlives its reauthorization.                                           *)
(***************************************************************************)
EXTENDS EntryFlows, TLAPS

\* A reauthorization that is open is of an entry in use, and is compared with no other.
ReauthUsed ==
    \A f \in Flows : flow[f].kind = "reauth" =>
        flow[f].entry \in Entries /\ Used(flow[f].entry) /\ flow[f].todo \subseteq {flow[f].entry}

Types == TypeOK /\ ReauthUsed

\* No flow is a flow.
LEMMA NoFlowTypes == NoFlow \in Flow /\ NoFlow.kind = "none"
BY DEF NoFlow, Flow

\* A reauthorization is a flow of its entry that compares with no other.
LEMMA ReauthFlowTypes ==
    ASSUME NEW e \in Entries, NEW claimed \in BOOLEAN
    PROVE  /\ ReauthFlow(e, claimed) \in Flow
           /\ ReauthFlow(e, claimed).entry = e /\ ReauthFlow(e, claimed).todo = {}
BY DEF ReauthFlow, NoFlow, Flow

\* A flow that ends keeps the types.
LEMMA EndTypes ==
    ASSUME Types, NEW f \in Flows, End(f)
    PROVE  Types'
<1>1. flow' = [flow EXCEPT ![f] = NoFlow]
    BY DEF End
<1>2. flow' \in [Flows -> Flow]
    BY <1>1, NoFlowTypes DEF Types, TypeOK
<1>3. entry' \in [Entries -> Entry]
    <2>1. CASE flow[f].kind = "reauth"
      <3>1. entry' = [entry EXCEPT ![flow[f].entry].pending = NoDraft]
        BY <2>1 DEF End, Dropped
      <3>2. flow[f].entry \in Entries
        BY <2>1 DEF Types, ReauthUsed
      <3>3. [entry[flow[f].entry] EXCEPT !.pending = NoDraft] \in Entry
        BY <3>2 DEF Types, TypeOK, Entry
      <3> QED BY <3>1, <3>2, <3>3 DEF Types, TypeOK
    <2>2. CASE flow[f].kind # "reauth"
      BY <2>2 DEF End, Dropped, Types, TypeOK
    <2> QED BY <2>1, <2>2
<1> QED BY <1>1, <1>2, <1>3, NoFlowTypes DEF End, Dropped, Track, Types, TypeOK, ReauthUsed, Used

\* A flow that opens is well typed, and the others are as they were.
LEMMA OpenTypes ==
    ASSUME Types, NEW f \in Flows, NEW new \in Flow, Open(f, new)
    PROVE  flow' \in [Flows -> Flow] /\ flow' = [flow EXCEPT ![f] = new]
BY DEF Types, TypeOK, Open

\* An entry that changes stays well typed.
LEMMA EntryTypes ==
    ASSUME Types, NEW e \in Entries, NEW new \in Entry, entry' = [entry EXCEPT ![e] = new]
    PROVE  /\ entry' \in [Entries -> Entry] /\ entry'[e] = new
           /\ \A other \in Entries \ {e} : entry'[other] = entry[other]
BY DEF Types, TypeOK

\* A flow that goes on leaves the others as they are.
LEMMA FlowTypes ==
    ASSUME Types, NEW f \in Flows, NEW new \in Flow, flow' = [flow EXCEPT ![f] = new]
    PROVE  /\ flow' \in [Flows -> Flow] /\ flow'[f] = new
           /\ \A other \in Flows \ {f} : flow'[other] = flow[other]
BY DEF Types, TypeOK

\* What a reauthorization that ends well, with these scopes, makes of its entry.
NewEntry(f, e, scopes) ==
    [entry[e] EXCEPT !.account = flow[f].account, !.verified = TRUE,
                     !.granted = scopes, !.pending = NoDraft, !.options = Due(e)]

Finished(f, e, scopes) ==
    /\ Comparing(f, "reauth", e) /\ "SAME" \in Equivalence(f, e)
    /\ entry' = [entry EXCEPT ![e] = NewEntry(f, e, scopes)]
    /\ flow' = [flow EXCEPT ![f] = NoFlow]
    /\ Track({e}, IF scopes = flow[f].asked THEN {} ELSE {e})
    /\ restarted' = restarted \ {e}

\* A reauthorization ends well with some of the scopes that it asked for.
LEMMA Finishes ==
    ASSUME NEW f \in Flows, NEW e \in Entries, FinishReauth(f, e)
    PROVE  \E scopes \in SUBSET flow[f].asked : Finished(f, e, scopes)
BY DEF FinishReauth, Finished, NewEntry

\* Every step keeps the types.
LEMMA TypeStep == Types /\ [Next]_vars => Types'
<1> SUFFICES ASSUME Types, [Next]_vars PROVE Types'
    OBVIOUS
<1>a. /\ \A f \in Flows : flow[f] \in Flow
      /\ \A e \in Entries : entry[e] \in Entry
    BY DEF Types, TypeOK
<1>1. ASSUME NEW f \in Flows, StartOnboarding(f) PROVE Types'
    <2>1. [NoFlow EXCEPT !.kind = "new"] \in Flow /\ [NoFlow EXCEPT !.kind = "new"].kind = "new"
        BY DEF NoFlow, Flow
    <2> QED BY <1>1, <2>1, OpenTypes DEF StartOnboarding, Types, ReauthUsed, TypeOK, Used
<1>2. ASSUME NEW f \in Flows, SubmitCredentials(f) PROVE Types'
    <2>1. CASE End(f)
        BY <2>1, EndTypes
    <2>2. CASE ~End(f)
        <3> DEFINE new == [flow[f] EXCEPT !.step = "consent", !.asked = Asked(f),
                                          !.claimed = flow[f].claimed \/ flow[f].kind = "reauth"]
        <3>1. Asked(f) \in SUBSET Scopes
            BY <1>2, <1>a DEF Asked, Due, SubmitCredentials, Entry, Flow, Types, ReauthUsed
        <3>2. flow[f].claimed \in BOOLEAN
            BY <1>a DEF Flow
        <3>3. new \in Flow /\ new.kind = flow[f].kind /\ new.entry = flow[f].entry
                         /\ new.todo = flow[f].todo
            BY <3>1, <3>2, <1>a DEF Flow
        <3>4. flow' = [flow EXCEPT ![f] = new] /\ UNCHANGED <<entry, behind, restarted>>
            BY <1>2, <2>2 DEF SubmitCredentials
        <3> HIDE DEF new
        <3> QED BY <3>3, <3>4, FlowTypes DEF Types, ReauthUsed, TypeOK, Used
    <2> QED BY <2>1, <2>2
<1>3. ASSUME NEW f \in Flows, Close(f) PROVE Types'
    BY <1>3, EndTypes DEF Close
<1>4. ASSUME NEW f \in Flows, NEW account \in Accounts, LogIn(f, account) PROVE Types'
    <2> DEFINE todo == IF flow[f].kind = "reauth" THEN {flow[f].entry} ELSE {e \in Entries : Used(e)}
               new == [flow[f] EXCEPT !.step = "compare", !.account = account, !.todo = todo]
    <2>1. todo \in SUBSET Entries
        BY DEF Types, ReauthUsed
    <2>2. new \in Flow /\ new.kind = flow[f].kind /\ new.entry = flow[f].entry /\ new.todo = todo
        BY <2>1, <1>a DEF Flow
    <2>3. flow' = [flow EXCEPT ![f] = new] /\ UNCHANGED <<entry, behind, restarted>>
        BY <1>4 DEF LogIn
    <2> HIDE DEF new
    <2> QED BY <2>2, <2>3, FlowTypes DEF Types, ReauthUsed, TypeOK, Used
<1>5. ASSUME NEW f \in Flows, NEW e \in Entries, NEW claimed \in BOOLEAN, StartReauth(e, f, claimed)
      PROVE  Types'
    BY <1>5, OpenTypes, ReauthFlowTypes DEF StartReauth, Types, ReauthUsed, TypeOK, Used
<1>6. ASSUME NEW f \in Flows, NEW e \in Entries, NEW options \in SUBSET Scopes,
             SaveOptions(e, options, f)
      PROVE  Types'
    <2>a. behind' \subseteq Entries
        BY <1>6 DEF SaveOptions, Track
    <2>1. CASE options \subseteq entry[e].granted
        <3>1. [entry[e] EXCEPT !.options = options, !.pending = NoDraft] \in Entry
            BY <1>a DEF Entry
        <3>2. entry' = [entry EXCEPT ![e] = [entry[e] EXCEPT !.options = options, !.pending = NoDraft]]
              /\ UNCHANGED flow /\ restarted' = restarted \ {e}
            BY <1>6, <2>1 DEF SaveOptions
        <3> QED BY <2>a, <3>1, <3>2, EntryTypes DEF Types, ReauthUsed, TypeOK, Used, Entry
    <2>2. CASE ~(options \subseteq entry[e].granted)
        <3>1. /\ [entry[e] EXCEPT !.pending = options] \in Entry
              /\ [entry[e] EXCEPT !.pending = options].status = entry[e].status
            BY <1>a DEF Entry
        <3>2. entry' = [entry EXCEPT ![e] = [entry[e] EXCEPT !.pending = options]]
              /\ Open(f, ReauthFlow(e, FALSE)) /\ UNCHANGED restarted
            BY <1>6, <2>2 DEF SaveOptions
        <3>3. /\ entry' \in [Entries -> Entry]
              /\ \A other \in Entries : entry'[other].status = entry[other].status
            BY <3>1, <3>2, EntryTypes
        <3>4. /\ flow' \in [Flows -> Flow] /\ flow' = [flow EXCEPT ![f] = ReauthFlow(e, FALSE)]
            BY <3>2, OpenTypes, ReauthFlowTypes
        <3>5. TypeOK'
            BY <2>a, <3>2, <3>3, <3>4 DEF Types, TypeOK
        <3>6. /\ flow'[f].entry = e /\ flow'[f].todo = {} /\ Used(e)
              /\ \A g \in Flows \ {f} : flow'[g] = flow[g]
            BY <1>6, <3>4, ReauthFlowTypes DEF SaveOptions, Types, TypeOK
        <3>7. ReauthUsed'
            BY <3>3, <3>6 DEF Types, ReauthUsed, Used
        <3> QED BY <3>5, <3>7 DEF Types
    <2> QED BY <2>1, <2>2
<1>7. ASSUME NEW f \in Flows, NEW e \in Entries, ReauthRejected(f, e) PROVE Types'
    BY <1>7, EndTypes DEF ReauthRejected
<1>8. ASSUME NEW f \in Flows, NEW e \in Entries, FinishReauth(f, e) PROVE Types'
    <2>0. PICK scopes \in SUBSET flow[f].asked : Finished(f, e, scopes)
        BY <1>8, Finishes
    <2> DEFINE new == NewEntry(f, e, scopes)
    <2>1. Due(e) \in SUBSET Scopes
        BY <1>a DEF Due, Entry
    <2>a. flow[f].account \in Accounts \cup {None} /\ flow[f].asked \in SUBSET Scopes
        BY <1>a DEF Flow
    <2>2. new \in Entry /\ new.status = entry[e].status
        <3>1. entry[e] \in Entry
            BY <1>a
        <3> QED BY <2>1, <2>a, <3>1 DEF Entry, NewEntry
    <2>3. entry' = [entry EXCEPT ![e] = new] /\ flow' = [flow EXCEPT ![f] = NoFlow]
        BY <2>0 DEF Finished
    <2> HIDE DEF new
    <2> QED BY <2>0, <2>2, <2>3, EntryTypes, FlowTypes, NoFlowTypes
            DEF Finished, Types, ReauthUsed, TypeOK, Used, Track
<1>9. ASSUME NEW f \in Flows, NEW e \in Entries, CompareOther(f, e) PROVE Types'
    <2>1. CASE End(f)
        BY <2>1, EndTypes
    <2>2. CASE ~End(f)
        <3>1. [flow[f] EXCEPT !.todo = @ \ {e}] \in Flow
            BY <1>a DEF Flow
        <3>2. flow' = [flow EXCEPT ![f] = [flow[f] EXCEPT !.todo = @ \ {e}]] /\ UNCHANGED <<entry, behind, restarted>>
            BY <1>9, <2>2 DEF CompareOther
        <3> QED BY <3>1, <3>2, FlowTypes DEF Types, ReauthUsed, TypeOK, Used, Flow
    <2> QED BY <2>1, <2>2
<1>10. ASSUME NEW f \in Flows, NEW e \in Entries, CreateEntry(f, e) PROVE Types'
    <2>1. CASE End(f)
        BY <2>1, EndTypes
    <2>2. CASE ~End(f)
        <3> DEFINE new == [entry[e] EXCEPT !.status = "used", !.account = flow[f].account,
                                           !.verified = TRUE, !.canonical = TRUE]
        <3>a. flow[f].account \in Accounts \cup {None}
            BY <1>a DEF Flow
        <3>1. new \in Entry /\ new.status = "used"
            BY <3>a, <1>a DEF Entry
        <3>2. entry' = [entry EXCEPT ![e] = new] /\ flow' = [flow EXCEPT ![f] = NoFlow]
              /\ UNCHANGED <<behind, restarted>>
            BY <1>10, <2>2 DEF CreateEntry
        <3> HIDE DEF new
        <3> QED BY <3>1, <3>2, EntryTypes, FlowTypes, NoFlowTypes DEF Types, ReauthUsed, TypeOK, Used
    <2> QED BY <2>1, <2>2
<1>11. ASSUME NEW e \in Entries, Remove(e) PROVE Types'
    <2> DEFINE new == [entry[e] EXCEPT !.status = "removed", !.options = {},
                                       !.granted = {}, !.pending = NoDraft]
    <2>1. new \in Entry
        BY <1>a DEF Entry
    <2>2. entry' = [entry EXCEPT ![e] = new]
        BY <1>11 DEF Remove
    <2>3. flow' = [f \in Flows |-> IF f \in ReauthOf(e) THEN NoFlow ELSE flow[f]]
        BY <1>11 DEF Remove
    <2> HIDE DEF new
    <2> QED BY <1>11, <1>a, <2>1, <2>2, <2>3, EntryTypes, NoFlowTypes DEF Remove, Types, ReauthUsed, TypeOK, Used, ReauthOf
<1>12. CASE Restart
    BY <1>12, NoFlowTypes DEF Restart, Types, ReauthUsed, TypeOK
<1>13. CASE UNCHANGED vars
    BY <1>13 DEF vars, Types, ReauthUsed, TypeOK, Used
<1> QED BY <1>1, <1>2, <1>3, <1>4, <1>5, <1>6, <1>7, <1>8, <1>9, <1>10, <1>11, <1>12, <1>13 DEF Next

\* The first entries are typed, and no flow is open.
LEMMA InitTypes == Init => Types
BY EntryFlowsAssumption, NoFlowTypes DEF Init, Types, TypeOK, ReauthUsed, Entry

\* Every state is well typed.
THEOREM TypeCorrect == Spec => []TypeOK
<1>1. Init => Types
    BY InitTypes
<1>2. Types => TypeOK
    BY DEF Types
<1> QED BY <1>1, <1>2, TypeStep, PTL DEF Spec

-----------------------------------------------------------------------------
\* What flow f hands the entry that it creates: an account with no canonical entry.
Created(f, e) ==
    /\ flow[f].kind = "new" /\ flow[f].step = "compare" /\ flow[f].todo = {}
    /\ ~Configured(flow[f].account)
    /\ entry[e].status = "free" /\ entry'[e].account = flow[f].account
    /\ entry'[e].canonical /\ entry'[e].status = "used"
    /\ \A other \in Entries \ {e} : entry'[other] = entry[other]

\* The account of an entry is set when it is created, and kept ever after.
LEMMA EntryKept ==
    ASSUME Types, [Next]_vars, NEW e \in Entries
    PROVE  \/ /\ entry'[e].account = entry[e].account
              /\ entry'[e].canonical = entry[e].canonical
              /\ \/ entry'[e].status = entry[e].status
                 \/ Used(e) /\ entry'[e].status = "removed"
           \/ \E f \in Flows : Created(f, e)
<1> DEFINE Kept == /\ entry'[e].account = entry[e].account
                   /\ entry'[e].canonical = entry[e].canonical
                   /\ \/ entry'[e].status = entry[e].status
                      \/ Used(e) /\ entry'[e].status = "removed"
<1>a. \A i \in Entries : entry[i] \in Entry
    BY DEF Types, TypeOK
<1>0. CASE entry' = entry
    BY <1>0
<1>1. ASSUME NEW f \in Flows, End(f) PROVE Kept
    <2>1. CASE flow[f].kind = "reauth"
        <3>1. flow[f].entry \in Entries
            BY <2>1 DEF Types, ReauthUsed
        <3>2. entry' = [entry EXCEPT ![flow[f].entry] = [entry[flow[f].entry] EXCEPT !.pending = NoDraft]]
            BY <1>1, <2>1, <3>1 DEF End, Dropped, Types, TypeOK
        <3> QED BY <1>a, <3>1, <3>2 DEF Types, TypeOK, Entry
    <2>2. CASE flow[f].kind # "reauth"
        BY <1>1, <2>2 DEF End, Dropped
    <2> QED BY <2>1, <2>2
<1>2. ASSUME NEW f \in Flows, SubmitCredentials(f) PROVE Kept
    BY <1>1, <1>2 DEF SubmitCredentials
<1>3. ASSUME NEW f \in Flows, NEW i \in Entries, NEW options \in SUBSET Scopes,
             SaveOptions(i, options, f)
      PROVE  Kept
    <2>1. CASE options \subseteq entry[i].granted
        <3>1. entry' = [entry EXCEPT ![i] = [entry[i] EXCEPT !.options = options, !.pending = NoDraft]]
            BY <1>3, <2>1 DEF SaveOptions
        <3> QED BY <1>a, <3>1 DEF Types, TypeOK, Entry
    <2>2. CASE ~(options \subseteq entry[i].granted)
        <3>1. entry' = [entry EXCEPT ![i] = [entry[i] EXCEPT !.pending = options]]
            BY <1>a, <1>3, <2>2 DEF SaveOptions
        <3> QED BY <1>a, <3>1 DEF Types, TypeOK, Entry
    <2> QED BY <2>1, <2>2
<1>4. ASSUME NEW f \in Flows, NEW i \in Entries, FinishReauth(f, i) PROVE Kept
    <2>0. PICK scopes \in SUBSET flow[f].asked : Finished(f, i, scopes)
        BY <1>4, Finishes
    <2>1. flow[f].account = entry[i].account
        BY <2>0 DEF Finished, Equivalence, Compared, Identified, Stored
    <2>2. entry' = [entry EXCEPT ![i] = NewEntry(f, i, scopes)]
        BY <2>0 DEF Finished
    <2> QED BY <1>a, <2>1, <2>2 DEF Types, TypeOK, Entry, NewEntry
<1>5. ASSUME NEW f \in Flows, NEW i \in Entries, CompareOther(f, i) PROVE Kept
    BY <1>1, <1>5 DEF CompareOther
<1>6. ASSUME NEW f \in Flows, NEW i \in Entries, CreateEntry(f, i)
      PROVE  Kept \/ Created(f, e)
    <2>1. CASE End(f)
        BY <1>1, <2>1
    <2>2. CASE ~End(f)
        <3>1. /\ entry' = [entry EXCEPT ![i] = [entry[i] EXCEPT !.status = "used",
                                !.account = flow[f].account, !.verified = TRUE, !.canonical = TRUE]]
              /\ ~Configured(flow[f].account) /\ entry[i].status = "free"
              /\ flow[f].kind = "new" /\ flow[f].step = "compare" /\ flow[f].todo = {}
            BY <1>6, <2>2 DEF CreateEntry
        <3>2. CASE i = e
            BY <1>a, <3>1, <3>2 DEF Created, Types, TypeOK, Entry
        <3>3. CASE i # e
            BY <3>1, <3>3 DEF Types, TypeOK
        <3> QED BY <3>2, <3>3
    <2> QED BY <2>1, <2>2
<1>7. ASSUME NEW i \in Entries, Remove(i) PROVE Kept
    BY <1>a, <1>7 DEF Remove, Types, TypeOK, Entry
<1> QED BY <1>0, <1>1, <1>2, <1>3, <1>4, <1>5, <1>6, <1>7
        DEF Next, vars, StartOnboarding, LogIn, StartReauth, Close, ReauthRejected, Restart

\* No reauthorization, and no other step, hands an entry over to another account:
\* for any number of accounts, entries and flows.
THEOREM AccountsKept == Spec => AccountKept
<1>1. ASSUME Types, [Next]_vars, NEW e \in Entries, Used(e)
      PROVE  entry'[e].account = entry[e].account
    BY <1>1, EntryKept DEF Created, Used
<1>2. Types /\ [Next]_vars => [\A e \in Entries : Used(e) => entry'[e].account = entry[e].account]_vars
    BY <1>1
<1>3. Init => Types
    BY InitTypes
<1> QED BY <1>2, <1>3, TypeStep, PTL DEF Spec, AccountKept

-----------------------------------------------------------------------------
\* An onboarding that compares has passed no entry of its account, but for entries
\* made meanwhile; and those, unlike the oldest, are known by their unique_id.
OnceInv ==
    /\ OneEntryPerAccount
    /\ \A e \in Entries : \/ entry[e].status = "free" /\ e \notin Legacy
                          \/ entry[e].status # "free" /\ (entry[e].canonical \/ e \in Legacy)
    /\ \A f \in Flows : flow[f].kind = "new" /\ flow[f].step = "compare" =>
            \A e \in Legacy \ flow[f].todo :
                Used(e) => entry[e].account # flow[f].account

\* A flow that goes on comparing leaves an entry out only if it is of another account.
LEMMA FlowCompares ==
    ASSUME Types, [Next]_vars, NEW f \in Flows,
           flow'[f].kind = "new", flow'[f].step = "compare"
    PROVE  \/ {e \in Entries : Used(e)} \subseteq flow'[f].todo
           \/ /\ flow[f].kind = "new" /\ flow[f].step = "compare"
              /\ flow'[f].account = flow[f].account
              /\ \A e \in flow[f].todo \ flow'[f].todo : entry[e].account # flow[f].account
<1> DEFINE Goes == /\ flow[f].kind = "new" /\ flow[f].step = "compare"
                   /\ flow'[f].account = flow[f].account
                   /\ \A e \in flow[f].todo \ flow'[f].todo : entry[e].account # flow[f].account
<1>a. flow \in [Flows -> Flow] /\ \A i \in Flows : flow[i] \in Flow
    BY DEF Types, TypeOK
<1>0. CASE flow'[f] = flow[f]
    BY <1>0
<1>1. ASSUME NEW g \in Flows, End(g) PROVE Goes
    BY <1>a, <1>1 DEF End, NoFlow
<1>2. ASSUME NEW g \in Flows, SubmitCredentials(g) PROVE Goes
    <2>1. CASE End(g)
        BY <1>1, <2>1
    <2>2. CASE ~End(g)
        <3>1. flow' = [flow EXCEPT ![g] = [flow[g] EXCEPT !.step = "consent", !.asked = Asked(g),
                            !.claimed = flow[g].claimed \/ flow[g].kind = "reauth"]]
            BY <1>2, <2>2 DEF SubmitCredentials
        <3>2. f # g
            BY <1>a, <3>1 DEF Flow
        <3> QED BY <1>a, <3>1, <3>2
    <2> QED BY <2>1, <2>2
<1>3. ASSUME NEW g \in Flows, NEW new \in Flow, new.step = "form", Open(g, new) PROVE Goes
    BY <1>a, <1>3 DEF Open
<1>4. ASSUME NEW g \in Flows, StartOnboarding(g) PROVE Goes
    BY <1>a, <1>4 DEF StartOnboarding, Open, NoFlow
<1>5. ASSUME NEW g \in Flows, NEW e \in Entries, NEW claimed \in BOOLEAN, StartReauth(e, g, claimed)
      PROVE  Goes
    BY <1>a, <1>5 DEF StartReauth, Open, ReauthFlow, NoFlow
<1>6. ASSUME NEW g \in Flows, NEW e \in Entries, NEW options \in SUBSET Scopes,
             SaveOptions(e, options, g)
      PROVE  Goes
    BY <1>a, <1>6 DEF SaveOptions, Open, ReauthFlow, NoFlow
<1>7. ASSUME NEW g \in Flows, NEW account \in Accounts, LogIn(g, account)
      PROVE  Goes \/ {e \in Entries : Used(e)} \subseteq flow'[f].todo
    BY <1>a, <1>7 DEF LogIn, Flow
<1>8. ASSUME NEW g \in Flows, NEW e \in Entries, FinishReauth(g, e) PROVE Goes
    BY <1>a, <1>8 DEF FinishReauth, NoFlow
<1>9. ASSUME NEW g \in Flows, NEW e \in Entries, CompareOther(g, e) PROVE Goes
    <2>1. CASE End(g)
        BY <1>1, <2>1
    <2>2. CASE ~End(g)
        <3>1. /\ "DIFFERENT" \in Equivalence(g, e)
              /\ flow' = [flow EXCEPT ![g].todo = @ \ {e}]
            BY <1>9, <2>2 DEF CompareOther
        <3>2. entry[e].account # flow[g].account
            BY <3>1 DEF Equivalence, Compared, Identified, Stored
        <3> QED BY <1>a, <3>1, <3>2 DEF Flow
    <2> QED BY <2>1, <2>2
<1>10. ASSUME NEW g \in Flows, NEW e \in Entries, CreateEntry(g, e) PROVE Goes
    BY <1>a, <1>1, <1>10 DEF CreateEntry, NoFlow
<1>11. ASSUME NEW e \in Entries, Remove(e) PROVE Goes
    BY <1>a, <1>11 DEF Remove, NoFlow
<1>12. CASE Restart
    BY <1>a, <1>12 DEF Restart, NoFlow
<1> QED BY <1>0, <1>1, <1>2, <1>4, <1>5, <1>6, <1>7, <1>8, <1>9, <1>10, <1>11, <1>12
        DEF Next, vars, Close, ReauthRejected

\* Every step keeps what makes entries unique.
LEMMA OnceStep == Types /\ OnceInv /\ [Next]_vars => OnceInv'
<1> SUFFICES ASSUME Types, OnceInv, [Next]_vars PROVE OnceInv'
    OBVIOUS
<1>1. ASSUME NEW e \in Entries, NEW f \in Flows, Created(f, e),
             NEW other \in Entries \ {e}, entry[other].status = "used"
      PROVE  entry[other].account # entry'[e].account
    BY <1>1 DEF Created, OnceInv, Configured, Used
<1>2. OneEntryPerAccount'
    BY <1>1, EntryKept DEF OnceInv, OneEntryPerAccount, Created, Used
<1>3. \A e \in Entries : \/ entry'[e].status = "free" /\ e \notin Legacy
                         \/ entry'[e].status # "free" /\ (entry'[e].canonical \/ e \in Legacy)
    <2> SUFFICES ASSUME NEW e \in Entries
                 PROVE  \/ entry'[e].status = "free" /\ e \notin Legacy
                        \/ entry'[e].status # "free" /\ (entry'[e].canonical \/ e \in Legacy)
        OBVIOUS
    <2>1. \/ entry[e].status = "free" /\ e \notin Legacy
          \/ entry[e].status # "free" /\ (entry[e].canonical \/ e \in Legacy)
        BY DEF OnceInv
    <2>2. \/ /\ entry'[e].canonical = entry[e].canonical
             /\ \/ entry'[e].status = entry[e].status
                \/ Used(e) /\ entry'[e].status = "removed"
          \/ entry'[e].canonical /\ entry'[e].status = "used"
        BY EntryKept DEF Created
    <2> QED BY <2>1, <2>2 DEF Used
<1>4. ASSUME NEW f \in Flows, flow'[f].kind = "new", flow'[f].step = "compare",
             NEW e \in Legacy \ flow'[f].todo, entry'[e].status = "used"
      PROVE  entry'[e].account # flow'[f].account
    <2>1. e \in Entries
        BY EntryFlowsAssumption
    <2>2. Used(e) /\ entry'[e].account = entry[e].account
        BY <1>4, <2>1, EntryKept DEF OnceInv, Created, Used
    <2> QED BY <1>4, <2>1, <2>2, FlowCompares DEF OnceInv
<1> QED BY <1>2, <1>3, <1>4 DEF OnceInv, Used

\* An account has one entry at most, for any number of accounts, entries and flows.
THEOREM OneEntry == Spec => []OneEntryPerAccount
<1>1. ASSUME Init PROVE Types /\ OnceInv
    <2>1. PICK owner \in [Entries -> Accounts] :
            /\ \A e, other \in Legacy : owner[e] = owner[other] => e = other
            /\ entry = [e \in Entries |->
                [status |-> IF e \in Legacy THEN "used" ELSE "free",
                 account |-> IF e \in Legacy THEN owner[e] ELSE None,
                 verified |-> FALSE, canonical |-> FALSE,
                 options |-> {}, granted |-> {}, pending |-> NoDraft]]
        BY <1>1 DEF Init
    <2>2. \A e \in Entries : /\ entry[e].status = (IF e \in Legacy THEN "used" ELSE "free")
                             /\ e \in Legacy => entry[e].account = owner[e]
        BY <2>1
    <2>3. OneEntryPerAccount
        BY <2>1, <2>2 DEF OneEntryPerAccount, Used
    <2>4. \A f \in Flows : flow[f].kind = "none"
        BY <1>1, NoFlowTypes DEF Init
    <2> QED BY <1>1, <2>2, <2>3, <2>4, InitTypes DEF OnceInv
<1>2. OnceInv => OneEntryPerAccount
    BY DEF OnceInv
<1> QED BY <1>1, <1>2, TypeStep, OnceStep, PTL DEF Spec

-----------------------------------------------------------------------------
\* A step that goes on with the flows there are.
Onward(f) ==
    \/ flow'[f] = flow[f]
    \/ flow'[f].kind = "none"
    \/ flow'[f].step = "form"
    \/ /\ flow'[f].kind = flow[f].kind /\ flow'[f].entry = flow[f].entry
       /\ flow'[f].asked = flow[f].asked /\ flow[f].step # "form"

\* What the token grants and what is asked for covers the options of entry e.
Covered(e) == Granted(e) /\ ~Outrun(e)
GrantedInv == \A e \in Entries \ behind : Covered(e)

\* An entry that no step touches stays covered if no flow is taken back.
LEMMA OnwardCovered ==
    ASSUME NEW e \in Entries, Covered(e), entry'[e] = entry[e], \A f \in Flows : Onward(f)
    PROVE  Covered(e)'
BY DEF Covered, Granted, Outrun, Onward, ReauthOf, Due

\* A flow that ends takes the draft of its entry with it, and nothing else.
LEMMA EndKeeps ==
    ASSUME Types, NEW f \in Flows, End(f), NEW e \in Entries
    PROVE  /\ entry'[e].options = entry[e].options /\ entry'[e].granted = entry[e].granted
           /\ e # flow[f].entry => entry'[e] = entry[e]
           /\ entry'[e].pending \in {entry[e].pending, NoDraft}
           /\ flow[f].kind = "reauth" /\ e = flow[f].entry => entry'[e].pending = NoDraft
           /\ flow' = [flow EXCEPT ![f] = NoFlow]
           /\ \A g \in Flows : Onward(g)
<1>a. \A i \in Entries : entry[i] \in Entry
    BY DEF Types, TypeOK
<1>1. flow' = [flow EXCEPT ![f] = NoFlow] /\ \A g \in Flows : Onward(g)
    <2>1. flow' = [flow EXCEPT ![f] = NoFlow]
        BY DEF End
    <2> QED BY <2>1, NoFlowTypes DEF Types, TypeOK, Onward
<1>2. CASE flow[f].kind = "reauth"
    <2>1. flow[f].entry \in Entries
        BY <1>2 DEF Types, ReauthUsed
    <2>2. entry' = [entry EXCEPT ![flow[f].entry] = [entry[flow[f].entry] EXCEPT !.pending = NoDraft]]
        BY <1>2, <2>1 DEF End, Dropped, Types, TypeOK
    <2> QED BY <1>a, <1>1, <2>1, <2>2 DEF Types, TypeOK, Entry
<1>3. CASE flow[f].kind # "reauth"
    BY <1>1, <1>3 DEF End, Dropped
<1> QED BY <1>2, <1>3

\* A flow that ends, dropping its draft, leaves options granted or the entry behind.
LEMMA EndCovers ==
    ASSUME Types, GrantedInv, NEW f \in Flows, End(f)
    PROVE  GrantedInv'
<1> SUFFICES ASSUME NEW e \in Entries, e \notin behind' PROVE Covered(e)'
    BY DEF GrantedInv
<1>1. CASE e = flow[f].entry
    <2>1. ~Outrun(e)' /\ (e \in behind => Granted(e)')
        BY <1>1 DEF End, Track
    <2>2. e \notin behind => Granted(e)'
        BY EndKeeps DEF GrantedInv, Covered, Granted
    <2> QED BY <2>1, <2>2 DEF Covered
<1>2. CASE e # flow[f].entry
    <2>1. e \notin behind
        BY <1>2 DEF End, Track
    <2>2. entry'[e] = entry[e] /\ \A g \in Flows : Onward(g)
        BY <1>2, EndKeeps
    <2> QED BY <2>1, <2>2, OnwardCovered DEF GrantedInv
<1> QED BY <1>1, <1>2

\* Every step keeps the options granted, or the entry behind.
LEMMA GrantedStep == Types /\ GrantedInv /\ [Next]_vars => GrantedInv'
<1> SUFFICES ASSUME Types, GrantedInv, [Next]_vars PROVE GrantedInv'
    OBVIOUS
<1>a. /\ flow \in [Flows -> Flow] /\ entry \in [Entries -> Entry]
      /\ \A f \in Flows : flow[f] \in Flow
      /\ \A e \in Entries : entry[e] \in Entry
    BY DEF Types, TypeOK
<1>b. ASSUME UNCHANGED <<entry, behind>>, \A g \in Flows : Onward(g) PROVE GrantedInv'
    BY <1>b, OnwardCovered DEF GrantedInv
<1>1. ASSUME NEW f \in Flows, StartOnboarding(f) PROVE GrantedInv'
    <2>1. flow' = [flow EXCEPT ![f] = [NoFlow EXCEPT !.kind = "new"]]
        BY <1>1 DEF StartOnboarding, Open
    <2>2. \A g \in Flows : Onward(g)
        BY <1>a, <2>1 DEF NoFlow, Onward
    <2> QED BY <1>b, <1>1, <2>2 DEF StartOnboarding
<1>2. ASSUME NEW f \in Flows, SubmitCredentials(f) PROVE GrantedInv'
    <2>1. CASE End(f)
        BY <2>1, EndCovers
    <2>2. CASE ~End(f)
        <3> DEFINE new == [flow[f] EXCEPT !.step = "consent", !.asked = Asked(f),
                                          !.claimed = flow[f].claimed \/ flow[f].kind = "reauth"]
        <3>1. flow' = [flow EXCEPT ![f] = new] /\ UNCHANGED <<entry, behind>>
            BY <1>2, <2>2 DEF SubmitCredentials
        <3>2. new.kind = flow[f].kind /\ new.entry = flow[f].entry /\ new.asked = Asked(f)
            BY <1>a DEF Flow
        <3> HIDE DEF new
        <3>3. flow'[f] = new /\ \A g \in Flows \ {f} : flow'[g] = flow[g]
            BY <1>a, <3>1
        <3>4. ASSUME NEW e \in Entries, Covered(e) PROVE Covered(e)'
            BY <3>1, <3>2, <3>3, <3>4 DEF Covered, Granted, Outrun, ReauthOf, Due, Asked
        <3> QED BY <3>1, <3>4 DEF GrantedInv
    <2> QED BY <2>1, <2>2
<1>3. ASSUME NEW f \in Flows, NEW account \in Accounts, LogIn(f, account) PROVE GrantedInv'
    <2> DEFINE new == [flow[f] EXCEPT !.step = "compare", !.account = account,
                  !.todo = IF flow[f].kind = "reauth" THEN {flow[f].entry} ELSE {e \in Entries : Used(e)}]
    <2>1. flow' = [flow EXCEPT ![f] = new] /\ UNCHANGED <<entry, behind>> /\ flow[f].step = "consent"
        BY <1>3 DEF LogIn
    <2>2. new.kind = flow[f].kind /\ new.entry = flow[f].entry /\ new.asked = flow[f].asked
        BY <1>a DEF Flow
    <2> HIDE DEF new
    <2>3. \A g \in Flows : Onward(g)
        BY <1>a, <2>1, <2>2 DEF Onward
    <2> QED BY <1>b, <2>1, <2>3
<1>4. ASSUME NEW f \in Flows, NEW i \in Entries, NEW claimed \in BOOLEAN, StartReauth(i, f, claimed)
      PROVE  GrantedInv'
    <2>1. flow' = [flow EXCEPT ![f] = ReauthFlow(i, claimed)]
        BY <1>4 DEF StartReauth, Open
    <2>2. \A g \in Flows : Onward(g)
        BY <1>a, <2>1 DEF NoFlow, ReauthFlow, Onward
    <2> QED BY <1>b, <1>4, <2>2 DEF StartReauth
<1>5. ASSUME NEW f \in Flows, NEW i \in Entries, NEW options \in SUBSET Scopes,
             SaveOptions(i, options, f)
      PROVE  GrantedInv'
    <2> DEFINE new == IF options \subseteq entry[i].granted
                      THEN [entry[i] EXCEPT !.options = options, !.pending = NoDraft]
                      ELSE [entry[i] EXCEPT !.pending = options]
    <2>1. entry' = [entry EXCEPT ![i] = new]
        BY <1>a, <1>5 DEF SaveOptions
    <2>2. Granted(i) => new.options \subseteq new.granted
        BY <1>a DEF Granted, Entry
    <2> HIDE DEF new
    <2>3. flow' = flow \/ flow' = [flow EXCEPT ![f] = ReauthFlow(i, FALSE)]
        BY <1>5 DEF SaveOptions, Open
    <2>4. \A g \in Flows : Onward(g)
        BY <1>a, <2>3 DEF NoFlow, ReauthFlow, Onward
    <2>5. i \notin behind' => Covered(i)'
        BY <1>5, <1>a, <2>1, <2>2 DEF SaveOptions, Track, Covered, Granted, GrantedInv
    <2>6. ASSUME NEW e \in Entries \ {i}, e \notin behind' PROVE Covered(e)'
        <3>1. entry'[e] = entry[e] /\ e \notin behind
            BY <1>a, <1>5, <2>1, <2>6 DEF SaveOptions, Track
        <3> QED BY <2>4, <3>1, OnwardCovered DEF GrantedInv
    <2> QED BY <2>5, <2>6 DEF GrantedInv
<1>6. ASSUME NEW f \in Flows, NEW i \in Entries, FinishReauth(f, i) PROVE GrantedInv'
    <2>0. PICK scopes \in SUBSET flow[f].asked : Finished(f, i, scopes)
        BY <1>6, Finishes
    <2> DEFINE new == NewEntry(f, i, scopes)
               short == IF scopes = flow[f].asked THEN {} ELSE {i}
    <2>1. entry' = [entry EXCEPT ![i] = new] /\ flow' = [flow EXCEPT ![f] = NoFlow]
        BY <2>0 DEF Finished
    <2>a. Track({i}, short)
        BY <2>0 DEF Finished
    <2>2. new.options = Due(i) /\ new.granted = scopes
        BY <1>a DEF Entry, NewEntry
    <2> HIDE DEF new
    <2>3. flow[f].kind = "reauth" /\ flow[f].step # "form" /\ i = flow[f].entry
        BY <2>0 DEF Finished, Comparing, Types, ReauthUsed
    <2>4. \A g \in Flows : Onward(g)
        BY <1>a, <2>1, NoFlowTypes DEF Onward
    <2>5. ASSUME i \notin behind' PROVE Covered(i)'
        <3>1. ~Outrun(i)' /\ (i \in behind \cup short => Granted(i)')
            BY <2>a, <2>5 DEF Track
        <3>2. ASSUME i \notin behind, i \notin short PROVE Granted(i)'
            BY <1>a, <2>1, <2>2, <2>3, <3>2 DEF Granted, GrantedInv, Covered, Outrun, ReauthOf
        <3> QED BY <3>1, <3>2 DEF Covered
    <2>6. ASSUME NEW e \in Entries \ {i}, e \notin behind' PROVE Covered(e)'
        <3>1. entry'[e] = entry[e] /\ e \notin behind
            BY <1>a, <2>a, <2>1, <2>6 DEF Track
        <3> QED BY <2>4, <3>1, OnwardCovered DEF GrantedInv
    <2> QED BY <2>5, <2>6 DEF GrantedInv
<1>7. ASSUME NEW f \in Flows, NEW i \in Entries, CompareOther(f, i) PROVE GrantedInv'
    <2>1. CASE End(f)
        BY <2>1, EndCovers
    <2>2. CASE ~End(f)
        <3>1. flow' = [flow EXCEPT ![f] = [flow[f] EXCEPT !.todo = flow[f].todo \ {i}]]
              /\ UNCHANGED <<entry, behind>> /\ flow[f].step = "compare"
            BY <1>7, <1>a, <2>2 DEF CompareOther, Comparing
        <3>2. \A g \in Flows : Onward(g)
            BY <1>a, <3>1 DEF Onward, Flow
        <3> QED BY <1>b, <3>1, <3>2
    <2> QED BY <2>1, <2>2
<1>8. ASSUME NEW f \in Flows, NEW i \in Entries, CreateEntry(f, i) PROVE GrantedInv'
    <2>1. CASE End(f)
        BY <2>1, EndCovers
    <2>2. CASE ~End(f)
        <3>1. entry' = [entry EXCEPT ![i] = [entry[i] EXCEPT !.status = "used",
                    !.account = flow[f].account, !.verified = TRUE, !.canonical = TRUE]]
              /\ flow' = [flow EXCEPT ![f] = NoFlow] /\ UNCHANGED behind
            BY <1>8, <2>2 DEF CreateEntry
        <3>2. \A e \in Entries : /\ entry'[e].options = entry[e].options
                                 /\ entry'[e].granted = entry[e].granted
                                 /\ entry'[e].pending = entry[e].pending
            BY <1>a, <3>1 DEF Entry
        <3>3. \A g \in Flows : flow'[g] = flow[g] \/ flow'[g].kind = "none"
            BY <1>a, <3>1, NoFlowTypes
        <3>4. ASSUME NEW e \in Entries, Covered(e) PROVE Covered(e)'
            BY <3>2, <3>3, <3>4 DEF Covered, Granted, Outrun, ReauthOf, Due
        <3> QED BY <3>1, <3>4 DEF GrantedInv
    <2> QED BY <2>1, <2>2
<1>9. ASSUME NEW i \in Entries, Remove(i) PROVE GrantedInv'
    <2>1. entry' = [entry EXCEPT ![i] = [entry[i] EXCEPT !.status = "removed", !.options = {},
                                            !.granted = {}, !.pending = NoDraft]]
          /\ flow' = [f \in Flows |-> IF f \in ReauthOf(i) THEN NoFlow ELSE flow[f]]
          /\ behind' = behind \ {i}
        BY <1>9 DEF Remove
    <2>2. Granted(i)'
        BY <1>a, <2>1 DEF Granted, Entry
    <2>3. ~Outrun(i)'
        BY <2>1, NoFlowTypes DEF Outrun, ReauthOf
    <2>4. \A g \in Flows : Onward(g)
        BY <2>1, NoFlowTypes DEF Onward
    <2>5. ASSUME NEW e \in Entries \ {i}, e \notin behind' PROVE Covered(e)'
        <3>1. entry'[e] = entry[e] /\ e \notin behind
            BY <1>a, <2>1, <2>5
        <3> QED BY <2>4, <3>1, OnwardCovered DEF GrantedInv
    <2> QED BY <2>2, <2>3, <2>5 DEF GrantedInv, Covered
<1>10. CASE Restart
    <2>1. \A g \in Flows : Onward(g)
        BY <1>10, NoFlowTypes DEF Restart, Onward
    <2> QED BY <1>b, <1>10, <2>1 DEF Restart
<1>11. CASE UNCHANGED vars
    <2>1. \A g \in Flows : Onward(g)
        BY <1>11 DEF vars, Onward
    <2> QED BY <1>b, <1>11, <2>1 DEF vars
<1> QED BY <1>1, <1>2, <1>3, <1>4, <1>5, <1>6, <1>7, <1>8, <1>9, <1>10, <1>11, EndCovers
        DEF Next, Close, ReauthRejected

\* The token never falls behind the live options but by eBay's granting fewer scopes
\* than asked for, or a change that a reauthorization under way did not know of, for
\* any number of scopes.
THEOREM ScopesGranted == Spec => []OptionsGranted
<1>1. ASSUME Init PROVE Types /\ GrantedInv
    <2>1. \A e \in Entries : entry[e].options = {}
        <3>1. PICK owner : entry = [e \in Entries |->
                [status |-> IF e \in Legacy THEN "used" ELSE "free",
                 account |-> IF e \in Legacy THEN owner[e] ELSE None,
                 verified |-> FALSE, canonical |-> FALSE,
                 options |-> {}, granted |-> {}, pending |-> NoDraft]]
            BY <1>1 DEF Init
        <3> QED BY <3>1
    <2>2. \A f \in Flows : flow[f].kind = "none"
        BY <1>1, NoFlowTypes DEF Init
    <2> QED BY <1>1, <2>1, <2>2, InitTypes DEF GrantedInv, Covered, Granted, Outrun, ReauthOf
<1>2. GrantedInv => OptionsGranted
    BY DEF GrantedInv, Covered, OptionsGranted
<1> QED BY <1>1, <1>2, TypeStep, GrantedStep, PTL DEF Spec

-----------------------------------------------------------------------------
\* Whatever may happen to a draft: it waits with its reauthorization, it is given
\* up, a new one is put aside with a new reauthorization, or Home Assistant restarts.
DraftKept(e) ==
    \/ entry'[e].pending = NoDraft
    \/ ReauthOf(e)' # {}
    \/ entry'[e].pending = entry[e].pending /\ (ReauthOf(e) = {} \/ e \in restarted')

\* What a step can do to a draft.
LEMMA DraftStep ==
    ASSUME Types, [Next]_vars, NEW e \in Entries
    PROVE  /\ DraftKept(e)
           /\ e \in restarted => e \in restarted' \/ entry'[e].pending = NoDraft
<1> DEFINE Still == e \in restarted => e \in restarted' \/ entry'[e].pending = NoDraft
<1>a. /\ flow \in [Flows -> Flow] /\ entry \in [Entries -> Entry]
      /\ \A i \in Flows : flow[i] \in Flow
      /\ \A i \in Entries : entry[i] \in Entry
    BY DEF Types, TypeOK
\* A step that closes no reauthorization of the entry keeps its draft.
<1>b. ASSUME entry'[e].pending = entry[e].pending, ReauthOf(e) # {} => ReauthOf(e)' # {}
      PROVE  DraftKept(e)
    BY <1>b DEF DraftKept
<1>0. CASE UNCHANGED vars
    BY <1>0 DEF vars, DraftKept, ReauthOf
<1>1. ASSUME NEW f \in Flows, End(f) PROVE DraftKept(e) /\ Still
    <2>1. restarted' = restarted
        BY <1>1 DEF End
    <2>2. CASE flow[f].kind = "reauth" /\ e = flow[f].entry
        BY <1>1, <2>2, EndKeeps DEF DraftKept
    <2>3. CASE ~(flow[f].kind = "reauth" /\ e = flow[f].entry)
        <3>1. entry'[e].pending = entry[e].pending \/ entry'[e].pending = NoDraft
            BY <1>1, EndKeeps
        <3>2. flow' = [flow EXCEPT ![f] = NoFlow]
            BY <1>1 DEF End
        <3>3. ReauthOf(e) \subseteq ReauthOf(e)'
            BY <1>a, <2>3, <3>2 DEF ReauthOf
        <3> QED BY <1>b, <2>1, <3>1, <3>3 DEF DraftKept
    <2> QED BY <2>1, <2>2, <2>3
\* Only the flow f changes, and stays of its entry if it is a reauthorization.
<1>2. ASSUME NEW f \in Flows, NEW new, flow' = [flow EXCEPT ![f] = new],
             UNCHANGED <<entry, restarted>>,
             flow[f].kind = "reauth" => new.kind = "reauth" /\ new.entry = flow[f].entry
      PROVE  DraftKept(e) /\ Still
    <2>1. ReauthOf(e) \subseteq ReauthOf(e)'
        BY <1>a, <1>2 DEF ReauthOf
    <2> QED BY <1>b, <1>2, <2>1
<1>3. ASSUME NEW f \in Flows, StartOnboarding(f) PROVE DraftKept(e) /\ Still
    BY <1>2, <1>3, NoFlowTypes DEF StartOnboarding, Open
<1>4. ASSUME NEW f \in Flows, SubmitCredentials(f) PROVE DraftKept(e) /\ Still
    <2>1. CASE End(f)
        BY <1>1, <2>1
    <2>2. CASE ~End(f)
        <3> DEFINE new == [flow[f] EXCEPT !.step = "consent", !.asked = Asked(f),
                                          !.claimed = flow[f].claimed \/ flow[f].kind = "reauth"]
        <3>1. flow' = [flow EXCEPT ![f] = new] /\ UNCHANGED <<entry, restarted>>
            BY <1>4, <2>2 DEF SubmitCredentials
        <3>2. new.kind = flow[f].kind /\ new.entry = flow[f].entry
            BY <1>a DEF Flow
        <3> HIDE DEF new
        <3> QED BY <1>2, <3>1, <3>2
    <2> QED BY <2>1, <2>2
<1>5. ASSUME NEW f \in Flows, NEW account \in Accounts, LogIn(f, account) PROVE DraftKept(e) /\ Still
    <2> DEFINE new == [flow[f] EXCEPT !.step = "compare", !.account = account,
                  !.todo = IF flow[f].kind = "reauth" THEN {flow[f].entry} ELSE {i \in Entries : Used(i)}]
    <2>1. flow' = [flow EXCEPT ![f] = new] /\ UNCHANGED <<entry, restarted>>
        BY <1>5 DEF LogIn
    <2>2. new.kind = flow[f].kind /\ new.entry = flow[f].entry
        BY <1>a DEF Flow
    <2> HIDE DEF new
    <2> QED BY <1>2, <2>1, <2>2
<1>6. ASSUME NEW f \in Flows, NEW i \in Entries, NEW claimed \in BOOLEAN, StartReauth(i, f, claimed)
      PROVE  DraftKept(e) /\ Still
    BY <1>2, <1>6, NoFlowTypes DEF StartReauth, Open
<1>7. ASSUME NEW f \in Flows, NEW i \in Entries, NEW options \in SUBSET Scopes,
             SaveOptions(i, options, f)
      PROVE  DraftKept(e) /\ Still
    <2>1. CASE options \subseteq entry[i].granted
        <3>1. entry' = [entry EXCEPT ![i] = [entry[i] EXCEPT !.options = options, !.pending = NoDraft]]
              /\ flow' = flow /\ restarted' = restarted \ {i}
            BY <1>7, <2>1 DEF SaveOptions
        <3>2. CASE e = i
            BY <1>a, <3>1, <3>2 DEF DraftKept, Entry
        <3>3. CASE e # i
            BY <1>a, <3>1, <3>3 DEF DraftKept, ReauthOf
        <3> QED BY <3>2, <3>3
    <2>2. CASE ~(options \subseteq entry[i].granted)
        <3>1. entry' = [entry EXCEPT ![i] = [entry[i] EXCEPT !.pending = options]]
              /\ flow[f] = NoFlow /\ flow' = [flow EXCEPT ![f] = ReauthFlow(i, FALSE)]
              /\ restarted' = restarted
            BY <1>a, <1>7, <2>2 DEF SaveOptions, Open
        <3>2. ReauthFlow(i, FALSE).kind = "reauth" /\ ReauthFlow(i, FALSE).entry = i
            BY DEF ReauthFlow, NoFlow
        <3>3. f \in ReauthOf(i)'
            BY <1>a, <3>1, <3>2 DEF ReauthOf
        <3>4. ReauthOf(e) \subseteq ReauthOf(e)'
            BY <1>a, <3>1, NoFlowTypes DEF ReauthOf
        <3>5. e # i => entry'[e] = entry[e]
            BY <1>a, <3>1
        <3>6. DraftKept(e)
            BY <1>b, <3>3, <3>4, <3>5 DEF DraftKept
        <3> QED BY <3>1, <3>6
    <2> QED BY <2>1, <2>2
<1>8. ASSUME NEW f \in Flows, NEW i \in Entries, FinishReauth(f, i) PROVE DraftKept(e) /\ Still
    <2>0. PICK scopes \in SUBSET flow[f].asked : Finished(f, i, scopes)
        BY <1>8, Finishes
    <2>1. entry' = [entry EXCEPT ![i] = NewEntry(f, i, scopes)]
          /\ flow' = [flow EXCEPT ![f] = NoFlow] /\ restarted' = restarted \ {i}
        BY <2>0 DEF Finished
    <2>2. flow[f].kind = "reauth" /\ flow[f].entry = i
        BY <2>0 DEF Finished, Comparing, Types, ReauthUsed
    <2>3. CASE e = i
        BY <1>a, <2>1, <2>3 DEF DraftKept, Entry, NewEntry
    <2>4. CASE e # i
        <3>1. ReauthOf(e) \subseteq ReauthOf(e)'
            BY <1>a, <2>1, <2>2, <2>4 DEF ReauthOf
        <3>2. entry'[e] = entry[e]
            BY <1>a, <2>1, <2>4
        <3> QED BY <1>b, <2>1, <2>4, <3>1, <3>2
    <2> QED BY <2>3, <2>4
<1>9. ASSUME NEW f \in Flows, NEW i \in Entries, CompareOther(f, i) PROVE DraftKept(e) /\ Still
    <2>1. CASE End(f)
        BY <1>1, <2>1
    <2>2. CASE ~End(f)
        <3> DEFINE new == [flow[f] EXCEPT !.todo = flow[f].todo \ {i}]
        <3>1. flow' = [flow EXCEPT ![f] = new] /\ UNCHANGED <<entry, restarted>>
            BY <1>9, <1>a, <2>2 DEF CompareOther
        <3>2. new.kind = flow[f].kind /\ new.entry = flow[f].entry
            BY <1>a DEF Flow
        <3> HIDE DEF new
        <3> QED BY <1>2, <3>1, <3>2
    <2> QED BY <2>1, <2>2
<1>10. ASSUME NEW f \in Flows, NEW i \in Entries, CreateEntry(f, i) PROVE DraftKept(e) /\ Still
    <2>1. CASE End(f)
        BY <1>1, <2>1
    <2>2. CASE ~End(f)
        <3>1. entry' = [entry EXCEPT ![i] = [entry[i] EXCEPT !.status = "used",
                    !.account = flow[f].account, !.verified = TRUE, !.canonical = TRUE]]
              /\ flow' = [flow EXCEPT ![f] = NoFlow] /\ UNCHANGED restarted /\ flow[f].kind = "new"
            BY <1>10, <2>2 DEF CreateEntry
        <3>2. entry'[e].pending = entry[e].pending
            BY <1>a, <3>1 DEF Entry
        <3>3. ReauthOf(e) \subseteq ReauthOf(e)'
            BY <1>a, <3>1 DEF ReauthOf
        <3> QED BY <1>b, <3>1, <3>2, <3>3
    <2> QED BY <2>1, <2>2
<1>11. ASSUME NEW i \in Entries, Remove(i) PROVE DraftKept(e) /\ Still
    <2>1. entry' = [entry EXCEPT ![i] = [entry[i] EXCEPT !.status = "removed", !.options = {},
                                            !.granted = {}, !.pending = NoDraft]]
          /\ flow' = [f \in Flows |-> IF f \in ReauthOf(i) THEN NoFlow ELSE flow[f]]
          /\ restarted' = restarted \ {i}
        BY <1>11 DEF Remove
    <2>2. CASE e = i
        BY <1>a, <2>1, <2>2 DEF DraftKept, Entry
    <2>3. CASE e # i
        <3>1. ReauthOf(e) \subseteq ReauthOf(e)'
            BY <2>1, <2>3 DEF ReauthOf
        <3>2. entry'[e] = entry[e]
            BY <1>a, <2>1, <2>3
        <3> QED BY <1>b, <2>1, <2>3, <3>1, <3>2
    <2> QED BY <2>2, <2>3
<1>12. CASE Restart
    BY <1>12 DEF Restart, DraftKept
<1> QED BY <1>0, <1>1, <1>3, <1>4, <1>5, <1>6, <1>7, <1>8, <1>9, <1>10, <1>11, <1>12
        DEF Next, Close, ReauthRejected

\* No draft outlives the reauthorization that it waits for, but over a restart: for
\* any number of flows of an entry.
THEOREM DraftsEnd == Spec => []NoForgottenDraft
<1>1. ASSUME Init PROVE NoForgottenDraft
    <2>1. PICK owner : entry = [e \in Entries |->
            [status |-> IF e \in Legacy THEN "used" ELSE "free",
             account |-> IF e \in Legacy THEN owner[e] ELSE None,
             verified |-> FALSE, canonical |-> FALSE,
             options |-> {}, granted |-> {}, pending |-> NoDraft]]
        BY <1>1 DEF Init
    <2> QED BY <2>1 DEF NoForgottenDraft
<1>2. Types /\ NoForgottenDraft /\ [Next]_vars => NoForgottenDraft'
    <2> SUFFICES ASSUME Types, NoForgottenDraft, [Next]_vars,
                        NEW e \in Entries, e \notin restarted', entry'[e].pending # NoDraft
                 PROVE  ReauthOf(e)' # {}
        BY DEF NoForgottenDraft
    <2>1. DraftKept(e) /\ e \notin restarted
        BY DraftStep
    <2> QED BY <2>1 DEF NoForgottenDraft, DraftKept
<1> QED BY <1>1, <1>2, InitTypes, TypeStep, PTL DEF Spec
=============================================================================
