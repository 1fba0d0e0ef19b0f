----------------------------- MODULE RestRequest -----------------------------
(***************************************************************************)
(* A read-only request to eBay (clients/http.py; clients/trading.py runs   *)
(* the same loop): the cooldown shared by the entries of one developer     *)
(* keyset, the access token and its two locks, at most one token refresh   *)
(* for a 401, retries with back-off, and the deadline of the whole call.   *)
(*                                                                         *)
(* Calls run as coroutines: what lies between two awaits is one step, so   *)
(* an action goes on until the call has to wait.  Tokens are numbered.     *)
(***************************************************************************)
EXTENDS Integers

CONSTANTS
    Calls,          \* what may be calling at the same time
    Clients,        \* API clients, one per config entry
    ClientOf,       \* the client a call belongs to
    MaxRetries,     \* BoundedRetryPolicy.max_retries
    Short,          \* cooldowns up to this are waited for (2 seconds)
    MaxCool,        \* bound: longest cooldown
    MaxTokens       \* bound: tokens that become unusable

Free == "free"

ASSUME RestRequestAssumption ==
    /\ ClientOf \in [Calls -> Clients] /\ Free \notin Calls
    /\ MaxRetries \in Nat /\ Short \in Nat /\ MaxCool \in Nat
    /\ MaxTokens \in Nat \ {0}

NoToken == 0
Token == 0..(MaxTokens + 1)

VARIABLES
    call,       \* per call: where it waits, the local variables of the loop
    client,     \* per client: its token, its locks
    cool        \* time until the end of the shared cooldown

vars == <<call, client, cool>>

\* pc: "idle"; "nap", "awake": sleeping out a short cooldown; "sign": waiting for
\* the token lock; "renew": fetching a token that replaces an expiring one; "sent";
\* "back": backing off; "outer", "inner": waiting for the refresh lock, for the token
\* lock under it; "refresh": fetching a token that replaces a rejected one.
NewCall == [pc |-> "idle", attempt |-> 0, refreshed |-> FALSE, rejected |-> NoToken,
            late |-> FALSE, used |-> NoToken, sends |-> 0]

\* eBay accepts the tokens from good on; it renews tokens while grant holds.
NewClient == [token |-> 1, good |-> 1, expiring |-> FALSE, grant |-> TRUE,
              cached |-> NoToken, tokenLock |-> Free, refreshLock |-> Free]

-----------------------------------------------------------------------------
(* The way of call t, with locals r and client k, to where it waits next.  *)

Become(t, r, k) ==
    /\ call' = [call EXCEPT ![t] = r]
    /\ client' = [client EXCEPT ![ClientOf[t]] = k]

At(r, pc) == [r EXCEPT !.pc = pc]

\* The call returns or raises.
Finish(t, r, k) == Become(t, At(r, "idle"), k)

\* async_get_access_token, then the request is sent.
Ask(t, r, k) ==
    \/ k.tokenLock # Free /\ Become(t, At(r, "sign"), k)
    \/ /\ k.tokenLock = Free /\ k.expiring
       /\ Become(t, At(r, "renew"), [k EXCEPT !.tokenLock = t])
    \/ /\ k.tokenLock = Free /\ ~k.expiring
       /\ Become(t, [At(r, "sent") EXCEPT !.used = k.token, !.sends = @ + 1], k)

\* One turn of the retry loop, up to the first await.
Attempt(t, r, k) ==
    \/ (r.late \/ cool > Short) /\ Finish(t, r, k)
    \/ ~r.late /\ cool \in 1..Short /\ Become(t, At(r, "nap"), k)
    \/ ~r.late /\ cool = 0 /\ Ask(t, r, k)

Again(t, r, k) == Attempt(t, [r EXCEPT !.attempt = @ + 1], k)

Unlocked(k) == [k EXCEPT !.tokenLock = Free, !.refreshLock = Free]

\* Both locks are held: the token is refreshed unless another call has done it.
RecheckNone(t, r, k) ==
    Become(t, At(r, "refresh"), [k EXCEPT !.tokenLock = t, !.refreshLock = t,
                                          !.cached = NoToken])

RecheckSwapped(t, r, k) ==
    IF r.rejected # NoToken /\ k.token = r.rejected
    THEN Again(t, r, Unlocked(k))
    ELSE RecheckNone(t, r, k)

Recheck(t, r, k) ==
    IF r.rejected # NoToken /\ k.token # r.rejected
    THEN Again(t, r, Unlocked(k))
    ELSE Become(t, At(r, "refresh"), [k EXCEPT !.tokenLock = t, !.refreshLock = t,
                                               !.cached = NoToken])

\* async_refresh_access_token: the refresh lock, and the token lock under it.
Lock(t, r, k) ==
    \/ k.refreshLock \notin {Free, t} /\ Become(t, At(r, "outer"), k)
    \/ /\ k.refreshLock \in {Free, t} /\ k.tokenLock # Free
       /\ Become(t, At(r, "inner"), [k EXCEPT !.refreshLock = t])
    \/ k.refreshLock \in {Free, t} /\ k.tokenLock = Free /\ Recheck(t, r, k)

\* EbayAuthError: one refresh per call, if an attempt is left for the replay.
HandleAuthRestarting(t, r, k, failed) ==
    IF r.refreshed \/ r.attempt >= MaxRetries
    THEN Finish(t, r, k)
    ELSE Lock(t, [r EXCEPT !.refreshed = TRUE, !.rejected = failed, !.attempt = -1], k)

HandleAuth(t, r, k, failed) ==
    IF r.refreshed \/ r.attempt >= MaxRetries
    THEN Finish(t, r, k)
    ELSE Lock(t, [r EXCEPT !.refreshed = TRUE, !.rejected = failed], k)

-----------------------------------------------------------------------------
Of(t) == client[ClientOf[t]]

Init ==
    /\ call = [t \in Calls |-> NewCall]
    /\ client = [c \in Clients |-> NewClient]
    /\ cool = 0

Start(t) ==
    /\ call[t].pc = "idle"
    /\ Attempt(t, NewCall, Of(t))
    /\ UNCHANGED cool

Wake(t) ==
    /\ call[t].pc = "awake"
    /\ IF call[t].late THEN Finish(t, call[t], Of(t)) ELSE Ask(t, call[t], Of(t))
    /\ UNCHANGED cool

Sign(t) ==
    /\ call[t].pc = "sign"
    /\ Of(t).tokenLock = Free
    /\ Ask(t, call[t], Of(t))
    /\ UNCHANGED cool

\* A new token, while eBay grants one; else EbayAuthError or a transient failure.
WithNextToken(k) == [k EXCEPT !.token = @ + 1, !.expiring = FALSE]

Renewed(t) ==
    LET k == [Of(t) EXCEPT !.tokenLock = Free]
    IN  /\ call[t].pc = "renew"
        /\ \/ k.grant /\ Ask(t, call[t], WithNextToken(k))
           \/ ~k.grant /\ HandleAuth(t, call[t], k, k.cached)
           \/ Finish(t, call[t], k)
        /\ UNCHANGED cool

\* HTTP 200, or an error that is not retried.
AnswerFinal(t) ==
    /\ call[t].pc = "sent"
    /\ Finish(t, call[t], Of(t))
    /\ UNCHANGED cool

Answer401(t) ==
    /\ call[t].pc = "sent"
    /\ call[t].used < Of(t).good
    /\ HandleAuth(t, call[t], Of(t), call[t].used)
    /\ UNCHANGED cool

Answer429(t) ==
    /\ call[t].pc = "sent"
    /\ \E delay \in 0..MaxCool : cool' = IF delay > cool THEN delay ELSE cool
    /\ Finish(t, call[t], Of(t))

\* HTTP 5xx or a transport error; the back-off must end before the deadline.
AnswerTransient(t) ==
    /\ call[t].pc = "sent"
    /\ ~call[t].late /\ call[t].attempt < MaxRetries
    /\ Become(t, At(call[t], "back"), Of(t))
    /\ UNCHANGED cool

BackedOff(t) ==
    /\ call[t].pc = "back"
    /\ Again(t, call[t], Of(t))
    /\ UNCHANGED cool

Outer(t) ==
    /\ call[t].pc = "outer"
    /\ Of(t).refreshLock = Free
    /\ Lock(t, call[t], Of(t))
    /\ UNCHANGED cool

Inner(t) ==
    /\ call[t].pc = "inner"
    /\ Of(t).tokenLock = Free
    /\ Recheck(t, call[t], Of(t))
    /\ UNCHANGED cool

\* _async_refresh_oauth2_session comes back with a token, or raises.
RefreshedHolding(t) ==
    LET k == Unlocked(Of(t))
    IN  /\ call[t].pc = "refresh"
        /\ \/ k.grant /\ Again(t, call[t], [WithNextToken(k) EXCEPT !.cached = k.token + 1])
           \/ Finish(t, call[t], Of(t))
        /\ UNCHANGED cool

Refreshed(t) ==
    LET k == Unlocked(Of(t))
    IN  /\ call[t].pc = "refresh"
        /\ \/ k.grant /\ Again(t, call[t], [WithNextToken(k) EXCEPT !.cached = k.token + 1])
           \/ Finish(t, call[t], k)
        /\ UNCHANGED cool

(* Time and eBay.                                                          *)

\* Time passes the deadline of the call.
Late(t) ==
    /\ call[t].pc # "idle" /\ ~call[t].late
    /\ call' = [call EXCEPT ![t].late = TRUE]
    /\ UNCHANGED <<client, cool>>

\* Naps last no longer than the shortest cooldowns.
Tick ==
    /\ cool > 0
    /\ cool' = cool - 1
    /\ call' = [t \in Calls |-> IF call[t].pc = "nap" THEN At(call[t], "awake") ELSE call[t]]
    /\ UNCHANGED client

Expire(c) ==
    /\ ~client[c].expiring /\ client[c].token < MaxTokens
    /\ client' = [client EXCEPT ![c].expiring = TRUE]
    /\ UNCHANGED <<call, cool>>

Revoke(c) ==
    /\ client[c].good <= client[c].token /\ client[c].token < MaxTokens
    /\ client' = [client EXCEPT ![c].good = client[c].token + 1]
    /\ UNCHANGED <<call, cool>>

Withdraw(c) ==
    /\ client[c].grant
    /\ client' = [client EXCEPT ![c].grant = FALSE]
    /\ UNCHANGED <<call, cool>>

Next ==
    \/ \E t \in Calls :
        \/ Start(t) \/ Wake(t) \/ Sign(t) \/ Renewed(t)
        \/ AnswerFinal(t) \/ Answer401(t) \/ Answer429(t) \/ AnswerTransient(t)
        \/ BackedOff(t) \/ Outer(t) \/ Inner(t) \/ Refreshed(t) \/ Late(t)
    \/ Tick
    \/ \E c \in Clients : Expire(c) \/ Revoke(c) \/ Withdraw(c)

\* Sleeps end and requests time out; a lock is handed to its waiters in turn.
Spec ==
    /\ Init /\ [][Next]_vars
    /\ WF_vars(Tick)
    /\ \A t \in Calls :
        /\ WF_vars(Wake(t)) /\ WF_vars(BackedOff(t))
        /\ WF_vars(Renewed(t)) /\ WF_vars(Refreshed(t))
        /\ WF_vars(AnswerFinal(t) \/ Answer401(t) \/ Answer429(t) \/ AnswerTransient(t))
        /\ SF_vars(Sign(t)) /\ SF_vars(Outer(t)) /\ SF_vars(Inner(t))

-----------------------------------------------------------------------------
(* Properties.                                                             *)

\* Every variable has its type, and the attempt is within the retry loop.
TypeOK ==
    /\ call \in [Calls ->
          [pc : {"idle", "nap", "awake", "sign", "renew", "sent", "back", "outer",
                 "inner", "refresh"},
           attempt : 0..MaxRetries, refreshed : BOOLEAN, rejected : Token,
           late : BOOLEAN, used : Token, sends : Nat]]
    /\ client \in [Clients ->
          [token : Token, good : Token, expiring : BOOLEAN, grant : BOOLEAN,
           cached : Token, tokenLock : Calls \cup {Free},
           refreshLock : Calls \cup {Free}]]
    /\ cool \in 0..MaxCool

\* "Up to 3 total endpoint attempts": the replay after a 401 is one of them.
AttemptCeiling == \A t \in Calls : call[t].sends <= MaxRetries + 1

\* Calls rejected at the same time share one refresh: a token is replaced only
\* when it expires or eBay refuses it, never because of an answer to a former one.
OnlyUnusableReplaced ==
    [][\A c \in Clients :
        client'[c].token # client[c].token
            => client[c].expiring \/ client[c].token < client[c].good]_vars

\* What is sent after a 401 does not carry the token rejected then.
ReplayFresh ==
    \A t \in Calls :
        call[t].pc = "sent" /\ call[t].rejected # NoToken
            => call[t].used # call[t].rejected

\* A lock is held by a call that is going to give it back, and a token is being
\* fetched by one call of a client at a time.
Fetching == {"renew", "refresh"}
LocksHeld ==
    \A c \in Clients :
        LET fetching == {t \in Calls : ClientOf[t] = c /\ call[t].pc \in Fetching}
        IN  /\ client[c].tokenLock = Free <=> fetching = {}
            /\ \A t \in fetching : client[c].tokenLock = t
            /\ \A t \in Calls : client[c].refreshLock = t
                    <=> ClientOf[t] = c /\ call[t].pc \in {"inner", "refresh"}

\* Every call comes to an end, whatever eBay answers and whoever holds the locks.
CallEnds == \A t \in Calls : call[t].pc # "idle" ~> call[t].pc = "idle"
=============================================================================
