----------------------------- MODULE EntryFlows -----------------------------
(***************************************************************************)
(* The flows that create and change config entries: onboarding and         *)
(* reauthorization (config_flow.py), each with the account that logs in    *)
(* verified against the entries there are (account_identity.py), and the   *)
(* options flow, whose draft waits in the entry for the scopes it needs    *)
(* (options_flow.py).  A flow runs between its awaits and the forms it     *)
(* shows; several may be open at once.                                     *)
(*                                                                         *)
(* An account stands for an environment and a durable identifier in it.    *)
(* Options are known by the optional scopes they need, a token by those it *)
(* grants.  An entry id is used once.                                      *)
(***************************************************************************)
CONSTANTS
    Entries, Accounts, Flows,
    Scopes,         \* the optional scopes
    Legacy,         \* entries from before identities were kept
    None

ASSUME EntryFlowsAssumption == Legacy \subseteq Entries /\ None \notin Entries \cup Accounts

NoDraft == {None}
ASSUME NoDraftAssumption == None \notin Scopes

Entry == [status : {"free", "used", "removed"}, account : Accounts \cup {None},
          verified : BOOLEAN,               \* a verified identity is stored
          canonical : BOOLEAN,              \* unique_id is that of the account
          options : SUBSET Scopes, granted : SUBSET Scopes,
          pending : (SUBSET Scopes) \cup {NoDraft}]     \* pending_options
Flow == [kind : {"none", "new", "reauth"}, entry : Entries \cup {None},
         claimed : BOOLEAN,                 \* context has the entry's unique_id
         step : {"form", "consent", "compare"},
         asked : SUBSET Scopes, account : Accounts \cup {None},
         todo : SUBSET Entries]             \* entries it is to be compared with

NoFlow == [kind |-> "none", entry |-> None, claimed |-> FALSE, step |-> "form",
           asked |-> {}, account |-> None, todo |-> {}]

VARIABLES
    entry, flow,
    behind,     \* history variable: entries whose token was left behind what their
                \* options need, because eBay granted fewer scopes than were asked for,
                \* or options or draft changed after a reauthorization had asked for
                \* fewer; until the token grants what the options need again
    restarted   \* history variable: entries with a draft over a restart

vars == <<entry, flow, behind, restarted>>

Used(e) == entry[e].status = "used"
ReauthOf(e) == {f \in Flows : flow[f].kind = "reauth" /\ flow[f].entry = e}

\* The options that a reauthorization would commit now.
Due(e) == IF entry[e].pending = NoDraft THEN entry[e].options ELSE entry[e].pending

Granted(e) == entry[e].options \subseteq entry[e].granted
Outrun(e) == \E f \in ReauthOf(e) : flow[f].step # "form" /\ ~(Due(e) \subseteq flow[f].asked)
Track(changed, short) ==
    behind' = {e \in Entries :
                 IF e \in changed
                 THEN Outrun(e)' \/ (e \in behind \cup short /\ ~Granted(e)')
                 ELSE e \in behind}

-----------------------------------------------------------------------------
Init ==
    /\ \E owner \in [Entries -> Accounts] :
        /\ \A e, other \in Legacy : owner[e] = owner[other] => e = other
        /\ entry = [e \in Entries |->
            [status |-> IF e \in Legacy THEN "used" ELSE "free",
             account |-> IF e \in Legacy THEN owner[e] ELSE None,
             verified |-> FALSE, canonical |-> FALSE,
             options |-> {}, granted |-> {}, pending |-> NoDraft]]
    /\ flow = [f \in Flows |-> NoFlow]
    /\ behind = {} /\ restarted = {}

Open(f, new) == flow[f] = NoFlow /\ flow' = [flow EXCEPT ![f] = new]

StartOnboarding(f) ==
    /\ Open(f, [NoFlow EXCEPT !.kind = "new"])
    /\ UNCHANGED <<entry, behind, restarted>>

ReauthFlow(e, claimed) == [NoFlow EXCEPT !.kind = "reauth", !.entry = e, !.claimed = claimed]

\* By Home Assistant after an authentication failure, once per entry; or by a
\* repair, whatever is open.
StartReauth(e, f, claimed) ==
    /\ Used(e)
    /\ claimed => ReauthOf(e) = {}
    /\ Open(f, ReauthFlow(e, claimed))
    /\ UNCHANGED <<entry, behind, restarted>>

DroppedNot(entries, f) == entries

\* async_remove of the flow class: the draft is discarded with the flow.
Dropped(entries, f) ==
    IF flow[f].kind = "reauth"
    THEN [entries EXCEPT ![flow[f].entry].pending = NoDraft] ELSE entries

\* The flow ends without effect.
End(f) ==
    /\ flow' = [flow EXCEPT ![f] = NoFlow]
    /\ entry' = Dropped(entry, f)
    /\ Track({flow[f].entry}, {})
    /\ UNCHANGED restarted

\* Closed by the user; or the login is refused, or its account has no verified
\* durable identifier.
Close(f) == flow[f] # NoFlow /\ End(f)

AskedNow(f) == IF flow[f].kind = "new" THEN {} ELSE entry[flow[f].entry].options

\* _scopes_for_authorization: a reauthorization asks for what the draft needs.
Asked(f) ==
    IF flow[f].kind = "new" THEN {}
    ELSE Due(flow[f].entry)

\* async_step_credentials; a second reauthorization of the entry is refused.
SubmitCredentials(f) ==
    /\ flow[f].kind # "none" /\ flow[f].step = "form"
    /\ IF flow[f].kind = "reauth" /\ \E g \in ReauthOf(flow[f].entry) \ {f} : flow[g].claimed
       THEN End(f)
       ELSE /\ flow' = [flow EXCEPT ![f] = [@ EXCEPT !.step = "consent", !.asked = Asked(f),
                            !.claimed = flow[f].claimed \/ flow[f].kind = "reauth"]]
            /\ UNCHANGED <<entry, behind, restarted>>

\* The user consents at eBay, logged in with any account, and
\* async_verify_authenticated_account finds its durable identifier.  It is then
\* compared with that of the entry, or those of the entries there are now.
LogIn(f, account) ==
    /\ flow[f].step = "consent"
    /\ flow' = [flow EXCEPT ![f] = [@ EXCEPT !.step = "compare", !.account = account,
                  !.todo = IF flow[f].kind = "reauth" THEN {flow[f].entry} ELSE {e \in Entries : Used(e)}]]
    /\ UNCHANGED <<entry, behind, restarted>>

-----------------------------------------------------------------------------
(* Comparison: SAME, DIFFERENT or UNKNOWN.                                 *)

\* get_entry_account_identity, None when it is not verified.
Stored(e) == IF entry[e].verified THEN entry[e].account ELSE None

\* async_verify_entry_existing_identity: an entry without an identity is asked for
\* it with its own token, which may fail.
Identified(e) == IF Stored(e) = None THEN {None, entry[e].account} ELSE {Stored(e)}

ComparedTrusting(account, other) ==
    IF account \in {None, other} THEN "SAME" ELSE "DIFFERENT"

\* compare_account_identities
Compared(account, other) ==
    IF account = None THEN "UNKNOWN" ELSE IF account = other THEN "SAME" ELSE "DIFFERENT"

Equivalence(f, e) == {Compared(account, flow[f].account) : account \in Identified(e)}

Comparing(f, kind, e) == flow[f].kind = kind /\ flow[f].step = "compare" /\ e \in flow[f].todo

ReauthRejected(f, e) ==
    /\ Comparing(f, "reauth", e)
    /\ Equivalence(f, e) # {"SAME"}
    /\ End(f)

\* _finish_reauth: token, identity and draft are committed together.  The token
\* is stored with the scopes that eBay returns, which may be fewer than were
\* asked for (resolve_granted_scopes); what the options need is not looked at.
FinishReauth(f, e) ==
    /\ Comparing(f, "reauth", e)
    /\ "SAME" \in Equivalence(f, e)
    /\ \E scopes \in SUBSET flow[f].asked :
        /\ entry' = [entry EXCEPT ![e] =
                        [@ EXCEPT !.account = flow[f].account, !.verified = TRUE,
                                  !.granted = scopes, !.pending = NoDraft,
                                  !.options = Due(e)]]
        /\ flow' = [flow EXCEPT ![f] = NoFlow]
        /\ Track({e}, IF scopes = flow[f].asked THEN {} ELSE {e})
    /\ restarted' = restarted \ {e}

\* Onboarding goes on only past an entry proved to be of another account.
CompareOther(f, e) ==
    /\ Comparing(f, "new", e)
    /\ \E equivalence \in Equivalence(f, e) :
        IF equivalence = "DIFFERENT"
        THEN /\ flow' = [flow EXCEPT ![f].todo = @ \ {e}]
             /\ UNCHANGED <<entry, behind, restarted>>
        ELSE End(f)

ConfiguredNot(account) == FALSE

\* _abort_if_unique_id_configured
Configured(account) ==
    \E e \in Entries : Used(e) /\ entry[e].canonical /\ entry[e].account = account

CreateEntry(f, e) ==
    /\ flow[f].kind = "new" /\ flow[f].step = "compare" /\ flow[f].todo = {}
    /\ IF Configured(flow[f].account)
       THEN End(f)
       ELSE /\ entry[e].status = "free"
            /\ entry' = [entry EXCEPT ![e] =
                            [@ EXCEPT !.status = "used", !.account = flow[f].account,
                                      !.verified = TRUE, !.canonical = TRUE]]
            /\ flow' = [flow EXCEPT ![f] = NoFlow]
            /\ UNCHANGED <<behind, restarted>>

-----------------------------------------------------------------------------
\* async_step_save: a draft that needs more scopes is put aside, and a
\* reauthorization opened for it.
SaveOptions(e, options, f) ==
    /\ Used(e)
    /\ IF options \subseteq entry[e].granted
       THEN /\ entry' = [entry EXCEPT ![e] = [@ EXCEPT !.options = options, !.pending = NoDraft]]
            /\ restarted' = restarted \ {e}
            /\ UNCHANGED flow
       ELSE /\ entry' = [entry EXCEPT ![e].pending = options]
            /\ Open(f, ReauthFlow(e, FALSE))
            /\ UNCHANGED restarted
    /\ Track({e}, {})

\* The entry is removed; Home Assistant aborts its reauthorizations.  An
\* onboarding may still hold its identity, to compare with.
Remove(e) ==
    /\ Used(e)
    /\ entry' = [entry EXCEPT ![e] = [@ EXCEPT !.status = "removed", !.options = {},
                                              !.granted = {}, !.pending = NoDraft]]
    /\ flow' = [f \in Flows |-> IF f \in ReauthOf(e) THEN NoFlow ELSE flow[f]]
    /\ behind' = behind \ {e} /\ restarted' = restarted \ {e}

\* Home Assistant restarts: entries are stored, flows are not.
Restart ==
    /\ flow' = [f \in Flows |-> NoFlow]
    /\ restarted' = restarted \cup {e \in Entries : entry[e].pending # NoDraft}
    /\ UNCHANGED <<entry, behind>>

Next ==
    \/ \E f \in Flows :
        \/ StartOnboarding(f) \/ SubmitCredentials(f) \/ Close(f)
        \/ \E account \in Accounts : LogIn(f, account)
        \/ \E e \in Entries :
            \/ \E claimed \in BOOLEAN : StartReauth(e, f, claimed)
            \/ \E options \in SUBSET Scopes : SaveOptions(e, options, f)
            \/ ReauthRejected(f, e) \/ FinishReauth(f, e)
            \/ CompareOther(f, e) \/ CreateEntry(f, e)
    \/ \E e \in Entries : Remove(e)
    \/ Restart

Spec == Init /\ [][Next]_vars

-----------------------------------------------------------------------------
(* Properties.                                                             *)

\* Every variable has its type.
TypeOK ==
    /\ entry \in [Entries -> Entry] /\ flow \in [Flows -> Flow]
    /\ behind \subseteq Entries /\ restarted \subseteq Entries

\* An account has one entry at most, whatever flows run at once and whether or
\* not the identities of older entries can be verified.
OneEntryPerAccount ==
    \A e, other \in Entries :
        Used(e) /\ Used(other) /\ entry[e].account = entry[other].account => e = other

\* A reauthorization never hands an entry over to another account.
AccountKept ==
    [][\A e \in Entries : Used(e) => entry'[e].account = entry[e].account]_vars

\* The live options need no scope that the token does not grant, unless eBay
\* granted fewer than were asked for, or they were changed, or the draft given up,
\* behind a reauthorization that had asked for fewer: no draft put aside, and no
\* order of flows, else leaves the token behind.
OptionsGranted ==
    \A e \in Entries \ behind : Granted(e)

\* A draft waits only as long as a reauthorization of its entry is open, or Home
\* Assistant was restarted: no later one commits a draft that was given up.
NoForgottenDraft ==
    \A e \in Entries \ restarted : entry[e].pending # NoDraft => ReauthOf(e) # {}
=============================================================================
