--------------------------- MODULE RestRequestProofs ---------------------------
(***************************************************************************)
(* Proofs about RestRequest, for any number of calls and clients, retries  *)
(* and tokens: the locks are held by calls that give them back, a call is  *)
(* sent within its attempts, a replay carries another token than the one   *)
(* rejected, and only a token that cannot be used is replaced.             *)
(***************************************************************************)
EXTENDS RestRequest, TLAPS

Places == {"idle", "nap", "awake", "sign", "renew", "sent", "back", "outer", "inner", "refresh"}
Call == [pc : Places, attempt : 0..MaxRetries, refreshed : BOOLEAN, rejected : Token,
         late : BOOLEAN, used : Token, sends : Nat]
Client == [token : Token, good : Token, expiring : BOOLEAN, grant : BOOLEAN,
           cached : Token, tokenLock : Calls \cup {Free}, refreshLock : Calls \cup {Free}]

\* Tokens are numbered within their bound, the one of the last refresh not later
\* than the one there is.
Sound(k) ==
    /\ k \in Client
    /\ k.token \in 1..MaxTokens /\ k.good <= MaxTokens /\ k.cached <= k.token
    /\ k.expiring => k.token < MaxTokens

\* What holds of a call wherever it waits.
Carried(r, k) ==
    /\ r \in Call
    /\ r.rejected <= k.token /\ r.used <= k.token
    /\ ~r.refreshed => r.rejected = NoToken
    /\ r.sends <= r.attempt + 1

\* The token rejected has been replaced.
Replaced(r, k) == r.rejected # NoToken => r.rejected < k.token

\* The refresh will find the token refused, or itself be refused.
Refused(r, k) == k.grant => r.rejected # NoToken /\ r.rejected < k.good

\* What holds of a call where it waits.
Waiting(r, k) ==
    /\ Carried(r, k)
    /\ r.pc \in {"nap", "awake", "sign", "renew"} => r.sends <= r.attempt
    /\ r.pc \in {"back", "outer", "inner", "refresh"} => r.attempt < MaxRetries
    /\ r.pc \in {"nap", "awake", "sign", "renew", "sent", "back"} => Replaced(r, k)
    /\ r.pc = "sent" => r.used # NoToken /\ (r.rejected # NoToken => r.rejected < r.used)
    /\ r.pc = "renew" => k.expiring
    /\ r.pc \in {"outer", "inner", "refresh"} => r.refreshed /\ Refused(r, k)
    /\ r.pc = "refresh" /\ k.grant => r.rejected = k.token

\* The locks of client k are those that call t has where it waits.
Refreshing == {"inner", "refresh"}
TokenLocked(t) == call[t].pc \in Fetching => Of(t).tokenLock = t
RefreshLocked(t) == call[t].pc \in Refreshing => Of(t).refreshLock = t
Held(c) ==
    /\ client[c].tokenLock # Free =>
            ClientOf[client[c].tokenLock] = c /\ call[client[c].tokenLock].pc \in Fetching
    /\ client[c].refreshLock # Free =>
            ClientOf[client[c].refreshLock] = c /\ call[client[c].refreshLock].pc \in Refreshing

IInv ==
    /\ call \in [Calls -> Call] /\ client \in [Clients -> Client] /\ cool \in 0..MaxCool
    /\ \A c \in Clients : Sound(client[c]) /\ Held(c)
    /\ \A t \in Calls : Waiting(call[t], Of(t)) /\ TokenLocked(t) /\ RefreshLocked(t)

-----------------------------------------------------------------------------
(* The way of a call to where it waits next, from client k0 to k1.         *)

Placed(t, k0, r1, k1) ==
    /\ Waiting(r1, k1) /\ Sound(k1)
    /\ k1.token = k0.token /\ k1.good = k0.good
    /\ k1.grant = k0.grant /\ k1.expiring = k0.expiring
    /\ IF r1.pc \in Fetching THEN k0.tokenLock = Free /\ k1.tokenLock = t
                             ELSE k1.tokenLock = k0.tokenLock
    /\ IF r1.pc \in Refreshing
       THEN k0.refreshLock \in {Free, t} /\ k1.refreshLock = t
       ELSE k1.refreshLock = IF k0.refreshLock = t THEN Free ELSE k0.refreshLock

Arrives(t, k0) == \E r1, k1 : Become(t, r1, k1) /\ Placed(t, k0, r1, k1)

\* Going to another place leaves the rest of a call alone.
LEMMA AtIs ==
    ASSUME NEW r \in Call, NEW pc \in Places
    PROVE  /\ At(r, pc) \in Call /\ At(r, pc).pc = pc
           /\ At(r, pc).attempt = r.attempt /\ At(r, pc).refreshed = r.refreshed
           /\ At(r, pc).rejected = r.rejected /\ At(r, pc).late = r.late
           /\ At(r, pc).used = r.used /\ At(r, pc).sends = r.sends
BY DEF At, Call

\* A call that ends, holding no lock, arrives.
LEMMA FinishArrives ==
    ASSUME NEW t \in Calls, NEW r, NEW k, Carried(r, k), Sound(k),
           k.tokenLock # t, k.refreshLock # t, Finish(t, r, k)
    PROVE  Arrives(t, k)
<1>1. Placed(t, k, At(r, "idle"), k)
    BY AtIs DEF Placed, Waiting, Carried, Places, Fetching, Refreshing
<1> QED BY <1>1 DEF Finish, Arrives

\* A call that asks for a token arrives: at a lock, or with the token there is.
LEMMA AskArrives ==
    ASSUME NEW t \in Calls, NEW r, NEW k, Carried(r, k), Sound(k), Replaced(r, k),
           r.sends <= r.attempt, k.tokenLock # t, k.refreshLock # t, Ask(t, r, k)
    PROVE  Arrives(t, k)
<1>1. CASE k.tokenLock # Free /\ Become(t, At(r, "sign"), k)
    <2>1. Placed(t, k, At(r, "sign"), k)
        BY AtIs DEF Placed, Waiting, Carried, Replaced, Places, Fetching, Refreshing
    <2> QED BY <1>1, <2>1 DEF Arrives
<1>2. CASE k.tokenLock = Free /\ k.expiring /\ Become(t, At(r, "renew"), [k EXCEPT !.tokenLock = t])
    <2> DEFINE k1 == [k EXCEPT !.tokenLock = t]
    <2>1. /\ k1 \in Client /\ k1.token = k.token /\ k1.good = k.good /\ k1.expiring = k.expiring
          /\ k1.grant = k.grant /\ k1.cached = k.cached
          /\ k1.tokenLock = t /\ k1.refreshLock = k.refreshLock
        BY DEF Sound, Client
    <2> HIDE DEF k1
    <2>2. Placed(t, k, At(r, "renew"), k1)
        BY <1>2, <2>1, AtIs
        DEF Placed, Waiting, Carried, Sound, Replaced, Places, Fetching, Refreshing
    <2> QED BY <1>2, <2>2 DEF Arrives, k1
<1>3. CASE /\ k.tokenLock = Free
           /\ Become(t, [At(r, "sent") EXCEPT !.used = k.token, !.sends = r.sends + 1], k)
    <2> DEFINE r1 == [At(r, "sent") EXCEPT !.used = k.token, !.sends = r.sends + 1]
    <2>a. r \in Call /\ k.token \in Token /\ k.token # NoToken
        BY DEF Carried, Sound, Client, NoToken
    <2>1. /\ r1 \in Call /\ r1.pc = "sent" /\ r1.attempt = r.attempt /\ r1.used = k.token
          /\ r1.refreshed = r.refreshed /\ r1.rejected = r.rejected /\ r1.sends = r.sends + 1
        <3>1. At(r, "sent") \in Call /\ r.sends + 1 \in Nat
            BY <2>a, AtIs DEF Call, Places
        <3> QED BY <2>a, <3>1, AtIs DEF Call, Places
    <2> HIDE DEF r1
    <2>2. r.sends \in Nat /\ r.attempt \in Nat
        BY <2>a, RestRequestAssumption DEF Call
    <2>3. Placed(t, k, r1, k)
        BY <2>a, <2>1, <2>2
        DEF Placed, Waiting, Carried, Sound, Replaced, Fetching, Refreshing, Client, Token
    <2> QED BY <1>3, <2>3 DEF Arrives, r1
<1>4. At(r, "sent").sends = r.sends
    BY AtIs DEF Carried, Places
<1> QED BY <1>1, <1>2, <1>3, <1>4 DEF Ask

\* A call that begins an attempt arrives, wherever time and cooldown send it.
LEMMA AttemptArrives ==
    ASSUME NEW t \in Calls, NEW r, NEW k, Carried(r, k), Sound(k), Replaced(r, k),
           r.sends <= r.attempt, k.tokenLock # t, k.refreshLock # t, Attempt(t, r, k)
    PROVE  Arrives(t, k)
<1>1. CASE Finish(t, r, k)
    BY <1>1, FinishArrives
<1>2. CASE Become(t, At(r, "nap"), k)
    <2>1. Placed(t, k, At(r, "nap"), k)
        BY AtIs DEF Placed, Waiting, Carried, Replaced, Places, Fetching, Refreshing
    <2> QED BY <1>2, <2>1 DEF Arrives
<1>3. CASE Ask(t, r, k)
    BY <1>3, AskArrives
<1> QED BY <1>1, <1>2, <1>3 DEF Attempt

\* A call that tries once more, and counts it, arrives.
LEMMA AgainArrives ==
    ASSUME NEW t \in Calls, NEW r, NEW k, Carried(r, k), Sound(k), Replaced(r, k),
           r.attempt < MaxRetries, k.tokenLock # t, k.refreshLock # t, Again(t, r, k)
    PROVE  Arrives(t, k)
<1> DEFINE r1 == [r EXCEPT !.attempt = r.attempt + 1]
<1>1. r \in Call /\ r.attempt + 1 \in 0..MaxRetries
    BY RestRequestAssumption DEF Carried, Call
<1>2. /\ r1 \in Call /\ r1.attempt = r.attempt + 1 /\ r1.rejected = r.rejected
      /\ r1.refreshed = r.refreshed /\ r1.used = r.used /\ r1.sends = r.sends
    BY <1>1 DEF Call
<1>3. Attempt(t, r1, k)
    BY DEF Again
<1> HIDE DEF r1
<1>4. Carried(r1, k) /\ Replaced(r1, k) /\ r1.sends <= r1.attempt
    <2>1. r.sends \in Nat /\ r.attempt \in Nat
        BY <1>1 DEF Call
    <2> QED BY <1>2, <2>1 DEF Carried, Replaced
<1> QED BY <1>3, <1>4, AttemptArrives

\* A call that is to refresh, with its attempt left.
ToRefresh(r, k) == Carried(r, k) /\ r.refreshed /\ r.attempt < MaxRetries /\ Refused(r, k)

\* A call that has the lock arrives: it refreshes only the token it was refused for.
LEMMA RecheckArrives ==
    ASSUME NEW t \in Calls, NEW r, NEW k, ToRefresh(r, k), Sound(k),
           k.tokenLock = Free, k.refreshLock \in {Free, t}, Recheck(t, r, k)
    PROVE  Arrives(t, k)
<1>a. t # Free
    BY RestRequestAssumption
<1>1. CASE r.rejected # NoToken /\ k.token # r.rejected
    <2> DEFINE k0 == Unlocked(k)
    <2>1. Again(t, r, k0)
        BY <1>1 DEF Recheck
    <2>2. /\ k0 \in Client /\ k0.token = k.token /\ k0.good = k.good /\ k0.expiring = k.expiring
          /\ k0.grant = k.grant /\ k0.cached = k.cached
          /\ k0.tokenLock = Free /\ k0.refreshLock = Free
        BY DEF Sound, Client, Unlocked
    <2> HIDE DEF k0
    <2>3. Sound(k0) /\ Carried(r, k0) /\ Replaced(r, k0)
        BY <1>1, <2>2 DEF Sound, ToRefresh, Carried, Replaced, Call, Client, Token
    <2>4. Arrives(t, k0)
        BY <1>a, <2>1, <2>2, <2>3, AgainArrives DEF ToRefresh
    <2> QED BY <1>a, <2>2, <2>4 DEF Arrives, Placed
<1>2. CASE ~(r.rejected # NoToken /\ k.token # r.rejected)
    <2> DEFINE k1 == [k EXCEPT !.tokenLock = t, !.refreshLock = t, !.cached = NoToken]
    <2>1. Become(t, At(r, "refresh"), k1)
        BY <1>2 DEF Recheck
    <2>2. /\ k1 \in Client /\ k1.token = k.token /\ k1.good = k.good /\ k1.expiring = k.expiring
          /\ k1.grant = k.grant /\ k1.cached = NoToken
          /\ k1.tokenLock = t /\ k1.refreshLock = t
        <3>1. k \in Client /\ NoToken \in Token
            BY RestRequestAssumption DEF Sound, NoToken, Token
        <3> QED BY <3>1 DEF Client
    <2> HIDE DEF k1
    <2>3. Sound(k1)
        BY <2>2 DEF Sound, NoToken
    <2>4. Waiting(At(r, "refresh"), k1)
        BY <1>2, <2>2, AtIs DEF ToRefresh, Waiting, Carried, Refused, Places
    <2>5. Placed(t, k, At(r, "refresh"), k1)
        BY <2>2, <2>3, <2>4, AtIs DEF ToRefresh, Carried, Placed, Fetching, Refreshing, Places
    <2> QED BY <2>1, <2>5 DEF Arrives
<1> QED BY <1>1, <1>2

\* A call that wants the lock arrives: it waits, or has it and looks again.
LEMMA LockArrives ==
    ASSUME NEW t \in Calls, NEW r, NEW k, ToRefresh(r, k), Sound(k),
           k.tokenLock # t, Lock(t, r, k)
    PROVE  Arrives(t, k)
<1>1. CASE k.refreshLock \notin {Free, t} /\ Become(t, At(r, "outer"), k)
    <2>1. Placed(t, k, At(r, "outer"), k)
        BY <1>1, AtIs DEF ToRefresh, Refused, Placed, Waiting, Carried, Places, Fetching, Refreshing
    <2> QED BY <1>1, <2>1 DEF Arrives
<1>2. CASE k.refreshLock \in {Free, t} /\ Become(t, At(r, "inner"), [k EXCEPT !.refreshLock = t])
    <2> DEFINE k1 == [k EXCEPT !.refreshLock = t]
    <2>1. /\ k1 \in Client /\ k1.token = k.token /\ k1.good = k.good /\ k1.expiring = k.expiring
          /\ k1.grant = k.grant /\ k1.cached = k.cached
          /\ k1.tokenLock = k.tokenLock /\ k1.refreshLock = t
        BY DEF Sound, Client
    <2> HIDE DEF k1
    <2>2. Sound(k1)
        BY <2>1 DEF Sound
    <2>3. Placed(t, k, At(r, "inner"), k1)
        BY <1>2, <2>1, <2>2, AtIs
        DEF ToRefresh, Refused, Placed, Waiting, Carried, Places, Fetching, Refreshing
    <2> QED BY <1>2, <2>3 DEF Arrives, k1
<1>3. CASE k.refreshLock \in {Free, t} /\ k.tokenLock = Free /\ Recheck(t, r, k)
    BY <1>3, RecheckArrives
<1> QED BY <1>1, <1>2, <1>3 DEF Lock

\* A call that was refused arrives: it gives up, or goes to refresh.
LEMMA HandleAuthArrives ==
    ASSUME NEW t \in Calls, NEW r, NEW k, NEW failed \in Token, Carried(r, k), Sound(k),
           failed <= k.token, k.grant => failed # NoToken /\ failed < k.good,
           k.tokenLock # t, k.refreshLock # t, HandleAuth(t, r, k, failed)
    PROVE  Arrives(t, k)
<1>1. CASE r.refreshed \/ r.attempt >= MaxRetries
    BY <1>1, FinishArrives DEF HandleAuth
<1>2. CASE ~(r.refreshed \/ r.attempt >= MaxRetries)
    <2> DEFINE r1 == [r EXCEPT !.refreshed = TRUE, !.rejected = failed]
    <2>1. Lock(t, r1, k)
        BY <1>2 DEF HandleAuth
    <2>2. /\ r1 \in Call /\ r1.attempt = r.attempt /\ r1.rejected = failed
          /\ r1.refreshed = TRUE /\ r1.used = r.used /\ r1.sends = r.sends
        BY DEF Carried, Call
    <2> HIDE DEF r1
    <2>3. r.attempt < MaxRetries
        BY <1>2, RestRequestAssumption DEF Carried, Call
    <2>4. ToRefresh(r1, k)
        BY <2>2, <2>3 DEF ToRefresh, Refused, Carried
    <2> QED BY <2>1, <2>4, LockArrives
<1> QED BY <1>1, <1>2

-----------------------------------------------------------------------------
(* Steps.                                                                  *)

\* The client of t as its step begins: with a new token if t was fetching one that
\* the old one needed, and its locks given back.
Onset(t, k0) ==
    /\ Sound(k0)
    /\ k0.good = Of(t).good /\ k0.grant = Of(t).grant
    /\ \/ k0.token = Of(t).token /\ k0.expiring = Of(t).expiring
       \/ /\ k0.token = Of(t).token + 1 /\ call[t].pc \in Fetching
          /\ Of(t).expiring \/ Of(t).token < Of(t).good
    /\ k0.tokenLock = IF Of(t).tokenLock = t THEN Free ELSE Of(t).tokenLock
    /\ \/ k0.refreshLock = Of(t).refreshLock
       \/ Of(t).refreshLock = t /\ k0.refreshLock = Free

\* Only a token that cannot be used is replaced.
OnlyUnusable ==
    \A c \in Clients : client'[c].token # client[c].token
                            => client[c].expiring \/ client[c].token < client[c].good

\* A call keeps what it waits with while another one of its client goes on.
LEMMA WaitingKept ==
    ASSUME NEW r, NEW k, NEW k1, Waiting(r, k), Sound(k), Sound(k1),
           k1.token >= k.token, k1.good >= k.good, k1.grant => k.grant,
           r.pc \in Fetching => k1.token = k.token /\ (k.expiring => k1.expiring)
    PROVE  Waiting(r, k1)
<1>1. /\ r.rejected \in Int /\ r.used \in Int /\ k.token \in Int /\ k1.token \in Int
      /\ k.good \in Int /\ k1.good \in Int
    BY RestRequestAssumption DEF Waiting, Carried, Call, Sound, Client, Token
<1> QED BY <1>1 DEF Waiting, Carried, Replaced, Refused, Fetching

\* A call that arrives at its next place keeps the invariant.
LEMMA ArrivesInv ==
    ASSUME IInv, NEW t \in Calls, NEW k0, Onset(t, k0), Arrives(t, k0), cool' \in 0..MaxCool
    PROVE  IInv' /\ OnlyUnusable
<1> DEFINE c == ClientOf[t]
<1>1. PICK r1, k1 : Become(t, r1, k1) /\ Placed(t, k0, r1, k1)
    BY DEF Arrives
<1>a. c \in Clients /\ t # Free /\ \A u \in Calls : ClientOf[u] \in Clients /\ u # Free
    BY RestRequestAssumption
<1>b. r1 \in Call /\ k1 \in Client /\ Waiting(r1, k1) /\ Sound(k1) /\ Sound(client[c])
    BY <1>1, <1>a DEF Placed, Waiting, Carried, Sound, IInv
<1>2. call' \in [Calls -> Call] /\ call'[t] = r1 /\ \A u \in Calls \ {t} : call'[u] = call[u]
    BY <1>1, <1>b DEF Become, IInv
<1>3. client' \in [Clients -> Client] /\ client'[c] = k1
      /\ \A d \in Clients \ {c} : client'[d] = client[d]
    BY <1>1, <1>a, <1>b DEF Become, IInv
<1>c. Of(t) = client[c] /\ \A u \in Calls : Of(u) = client[ClientOf[u]]
    BY DEF Of
<1> HIDE DEF c
<1>d. /\ client[c].token \in Int /\ client[c].good \in Int /\ k1.token \in Int /\ k1.good \in Int
      /\ k1.token >= client[c].token /\ k1.good = client[c].good /\ k1.grant = client[c].grant
      /\ \/ k1.token = client[c].token /\ k1.expiring = client[c].expiring
         \/ call[t].pc \in Fetching /\ (client[c].expiring \/ client[c].token < client[c].good)
    <2>1. client[c].token \in Int /\ client[c].good \in Int /\ k1.token \in Int /\ k1.good \in Int
        BY <1>b, RestRequestAssumption DEF Sound, Client, Token
    <2>2. k1.token = k0.token /\ k1.good = k0.good /\ k1.grant = k0.grant /\ k1.expiring = k0.expiring
        BY <1>1 DEF Placed
    <2> QED BY <1>c, <2>1, <2>2 DEF Onset
<1>4. OnlyUnusable
    BY <1>3, <1>d DEF OnlyUnusable
<1>5. ASSUME NEW u \in Calls \ {t}, ClientOf[u] = c
      PROVE  /\ call[u].pc \in Fetching => client[c].tokenLock = u /\ call[t].pc \notin Fetching
             /\ call[u].pc \in Refreshing => client[c].refreshLock = u
    <2>1. call[u].pc \in Fetching => client[c].tokenLock = u
        BY <1>5, <1>c DEF IInv, TokenLocked
    <2>2. call[t].pc \in Fetching => client[c].tokenLock = t
        BY <1>c DEF IInv, TokenLocked
    <2> QED BY <1>5, <1>c, <2>1, <2>2 DEF IInv, RefreshLocked
<1>6. ASSUME NEW u \in Calls
      PROVE  Waiting(call'[u], client'[ClientOf[u]])
    <2>1. CASE u = t
        BY <1>2, <1>3, <1>b, <2>1 DEF c
    <2>2. CASE u # t /\ ClientOf[u] # c
        <3>1. Waiting(call[u], client[ClientOf[u]])
            BY <1>c DEF IInv
        <3> QED BY <1>2, <1>3, <1>a, <2>2, <3>1
    <2>3. CASE u # t /\ ClientOf[u] = c
        <3>1. Waiting(call[u], client[c])
            BY <1>c, <2>3 DEF IInv
        <3>2. call[u].pc \in Fetching =>
                k1.token = client[c].token /\ (client[c].expiring => k1.expiring)
            BY <1>5, <1>d, <2>3
        <3>3. Waiting(call[u], k1)
            BY <1>b, <1>d, <3>1, <3>2, WaitingKept
        <3> QED BY <1>2, <1>3, <2>3, <3>3
    <2> QED BY <2>1, <2>2, <2>3
\* Where the locks are now.
<1>7. /\ IF r1.pc \in Fetching THEN client[c].tokenLock \in {Free, t} /\ k1.tokenLock = t
         ELSE k1.tokenLock = IF client[c].tokenLock = t THEN Free ELSE client[c].tokenLock
      /\ IF r1.pc \in Refreshing THEN client[c].refreshLock \in {Free, t} /\ k1.refreshLock = t
         ELSE k1.refreshLock = IF client[c].refreshLock = t THEN Free ELSE client[c].refreshLock
    <2>1. k0.tokenLock = IF client[c].tokenLock = t THEN Free ELSE client[c].tokenLock
        BY <1>c DEF Onset
    <2>2. \/ k0.refreshLock = client[c].refreshLock
          \/ client[c].refreshLock = t /\ k0.refreshLock = Free
        BY <1>c DEF Onset
    <2> QED BY <1>1, <1>a, <2>1, <2>2 DEF Placed
<1>8. ASSUME NEW u \in Calls
      PROVE  /\ call'[u].pc \in Fetching => client'[ClientOf[u]].tokenLock = u
             /\ call'[u].pc \in Refreshing => client'[ClientOf[u]].refreshLock = u
    <2>1. CASE u = t
        BY <1>2, <1>3, <1>7, <2>1 DEF c
    <2>2. CASE u # t /\ ClientOf[u] # c
        BY <1>2, <1>3, <1>a, <1>c, <2>2 DEF IInv, TokenLocked, RefreshLocked
    <2>3. CASE u # t /\ ClientOf[u] = c
        BY <1>2, <1>3, <1>5, <1>7, <1>a, <2>3
    <2> QED BY <2>1, <2>2, <2>3
<1>9. ASSUME NEW d \in Clients PROVE Held(d)'
    <2>1. Held(d) /\ client[d].tokenLock \in Calls \cup {Free}
          /\ client[d].refreshLock \in Calls \cup {Free}
        BY DEF IInv, Client
    <2>2. CASE d # c
        <3>1. client'[d] = client[d]
            BY <1>3, <2>2
        <3>2. ClientOf[t] # d
            BY <2>2 DEF c
        <3> QED BY <1>2, <2>1, <3>1, <3>2 DEF Held
    <2>3. CASE d = c
        <3>1. ClientOf[t] = d
            BY <2>3 DEF c
        <3> QED BY <1>2, <1>3, <1>7, <2>1, <2>3, <3>1 DEF Held
    <2> QED BY <2>2, <2>3
<1>10. IInv'
    BY <1>2, <1>3, <1>b, <1>6, <1>8, <1>9 DEF IInv, Of, TokenLocked, RefreshLocked
<1> QED BY <1>4, <1>10

\* The state of a call, and of its client, as a step of the call begins.
LEMMA Standing ==
    ASSUME IInv, NEW t \in Calls
    PROVE  /\ ClientOf[t] \in Clients /\ Sound(Of(t)) /\ Waiting(call[t], Of(t)) /\ t # Free
           /\ call[t].pc \notin Fetching => Of(t).tokenLock # t
           /\ call[t].pc \notin Refreshing => Of(t).refreshLock # t
           /\ call[t].pc \in Fetching => Of(t).tokenLock = t
           /\ call[t].pc \in Refreshing => Of(t).refreshLock = t
<1>1. ClientOf[t] \in Clients /\ t # Free
    BY RestRequestAssumption
<1> QED BY <1>1 DEF IInv, Of, Held, TokenLocked, RefreshLocked

\* A call that holds no token on its way starts from the state there is.
LEMMA OnsetSame ==
    ASSUME IInv, NEW t \in Calls, call[t].pc \notin Fetching
    PROVE  Onset(t, Of(t))
BY Standing DEF Onset

\* A call that has fetched a token has it, and gives its locks back.
LEMMA Fetched ==
    ASSUME IInv, NEW t \in Calls, NEW k0, NEW k1,
           \/ call[t].pc = "renew" /\ k0 = [Of(t) EXCEPT !.tokenLock = Free] /\ k1 = WithNextToken(k0)
           \/ /\ call[t].pc = "refresh" /\ k0 = Unlocked(Of(t))
              /\ k1 = [WithNextToken(k0) EXCEPT !.cached = k0.token + 1]
    PROVE  /\ Onset(t, k0) /\ k0.tokenLock # t /\ k0.refreshLock # t
           /\ k0.token = Of(t).token /\ k0.expiring = Of(t).expiring /\ k0.cached = Of(t).cached
           /\ k0.grant => Onset(t, k1) /\ k1.tokenLock # t /\ k1.refreshLock # t
                            /\ k1.token = k0.token + 1
<1>a. Sound(Of(t)) /\ Waiting(call[t], Of(t)) /\ t # Free
    BY Standing
<1>b. Of(t) \in Client /\ Of(t).token \in 1..MaxTokens /\ Of(t).good \in Int /\ MaxTokens \in Nat
    BY <1>a, RestRequestAssumption DEF Sound, Client, Token
<1>1. /\ k0 \in Client /\ k0.token = Of(t).token /\ k0.good = Of(t).good
      /\ k0.expiring = Of(t).expiring /\ k0.grant = Of(t).grant /\ k0.cached = Of(t).cached
      /\ k0.tokenLock = Free
      /\ call[t].pc = "renew" => k0.refreshLock = Of(t).refreshLock
      /\ call[t].pc = "refresh" => k0.refreshLock = Free
    BY <1>b DEF Client, Unlocked
<1>c. Of(t).tokenLock = t /\ (call[t].pc = "renew" => Of(t).refreshLock # t)
      /\ (call[t].pc = "refresh" => Of(t).refreshLock = t) /\ call[t].pc \in Fetching
    BY Standing DEF Fetching, Refreshing
<1>2. Onset(t, k0) /\ k0.tokenLock # t /\ k0.refreshLock # t
    BY <1>a, <1>1, <1>c DEF Onset, Sound
<1>3. ASSUME k0.grant
      PROVE  (Of(t).expiring \/ Of(t).token < Of(t).good) /\ Of(t).token + 1 \in 1..MaxTokens
    BY <1>a, <1>b, <1>1, <1>3 DEF Waiting, Refused, Sound
<1>4. ASSUME k0.grant PROVE Onset(t, k1) /\ k1.tokenLock # t /\ k1.refreshLock # t
                            /\ k1.token = k0.token + 1
    <2>1. Of(t).token + 1 \in Token /\ k0.token + 1 \in Token
        BY <1>b, <1>1, <1>3, <1>4 DEF Token
    <2>a. WithNextToken(k0) \in Client /\ WithNextToken(k0).token = k0.token + 1
          /\ WithNextToken(k0).good = k0.good /\ WithNextToken(k0).grant = k0.grant
          /\ WithNextToken(k0).expiring = FALSE /\ WithNextToken(k0).cached = k0.cached
          /\ WithNextToken(k0).tokenLock = k0.tokenLock
          /\ WithNextToken(k0).refreshLock = k0.refreshLock
        BY <1>1, <2>1 DEF WithNextToken, Client
    <2>2. /\ k1 \in Client /\ k1.token = k0.token + 1 /\ k1.good = k0.good
          /\ k1.expiring = FALSE /\ k1.grant = k0.grant
          /\ k1.cached \in {k0.cached, k0.token + 1}
          /\ k1.tokenLock = k0.tokenLock /\ k1.refreshLock = k0.refreshLock
        BY <2>1, <2>a DEF Client
    <2>3. k0.cached \in Int
        BY <1>1 DEF Client, Token
    <2>4. Sound(k1)
        BY <1>a, <1>b, <1>1, <1>3, <1>4, <2>2, <2>3 DEF Sound
    <2> QED BY <1>1, <1>2, <1>3, <1>4, <1>c, <2>2, <2>4 DEF Onset
<1> QED BY <1>1, <1>2, <1>4

\* Every step keeps the invariant, and replaces only unusable tokens.
LEMMA StepInv == IInv /\ [Next]_vars => IInv' /\ (OnlyUnusable \/ UNCHANGED vars)
<1> SUFFICES ASSUME IInv, [Next]_vars PROVE IInv' /\ (OnlyUnusable \/ UNCHANGED vars)
    OBVIOUS
<1>a. cool \in 0..MaxCool /\ MaxCool \in Nat /\ MaxRetries \in Nat /\ MaxTokens \in Nat
    BY RestRequestAssumption DEF IInv
<1>b. \A t \in Calls : call[t] \in Call /\ Of(t) \in Client
    BY Standing DEF Waiting, Carried, Sound
\* A call that goes on from where it is, neither fetching nor locking.
<1>c. ASSUME NEW t \in Calls, Arrives(t, Of(t)), call[t].pc \notin Fetching, cool' \in 0..MaxCool
      PROVE  IInv' /\ OnlyUnusable
    BY <1>c, OnsetSame, ArrivesInv
<1>1. ASSUME NEW t \in Calls, Start(t) PROVE IInv' /\ OnlyUnusable
    <2>1. Carried(NewCall, Of(t)) /\ Replaced(NewCall, Of(t)) /\ NewCall.sends <= NewCall.attempt
        <3>1. NewCall \in Call /\ Of(t).token \in Nat
            BY <1>a, <1>b DEF NewCall, Call, Client, Token, NoToken, Places
        <3> QED BY <3>1 DEF NewCall, Carried, Replaced, NoToken
    <2>2. Arrives(t, Of(t))
        BY <1>1, <2>1, Standing, AttemptArrives DEF Start, Fetching, Refreshing
    <2> QED BY <1>1, <1>a, <1>c, <2>2 DEF Start, Fetching
<1>2. ASSUME NEW t \in Calls, Wake(t) PROVE IInv' /\ OnlyUnusable
    <2>1. Arrives(t, Of(t))
        BY <1>2, Standing, AskArrives, FinishArrives DEF Wake, Waiting, Fetching, Refreshing
    <2> QED BY <1>2, <1>a, <1>c, <2>1 DEF Wake, Fetching
<1>3. ASSUME NEW t \in Calls, Sign(t) PROVE IInv' /\ OnlyUnusable
    <2>1. Arrives(t, Of(t))
        BY <1>3, Standing, AskArrives DEF Sign, Waiting, Fetching, Refreshing
    <2> QED BY <1>3, <1>a, <1>c, <2>1 DEF Sign, Fetching
<1>4. ASSUME NEW t \in Calls, Renewed(t) PROVE IInv' /\ OnlyUnusable
    <2> DEFINE k0 == [Of(t) EXCEPT !.tokenLock = Free]
               k1 == WithNextToken(k0)
    <2>1. /\ call[t].pc = "renew" /\ cool' \in 0..MaxCool
          /\ \/ k0.grant /\ Ask(t, call[t], k1)
             \/ ~k0.grant /\ HandleAuth(t, call[t], k0, k0.cached)
             \/ Finish(t, call[t], k0)
        BY <1>4, <1>a DEF Renewed
    <2>a. k0 = [Of(t) EXCEPT !.tokenLock = Free] /\ k1 = WithNextToken(k0)
        OBVIOUS
    <2> HIDE DEF k0, k1
    <2>2. /\ Onset(t, k0) /\ k0.tokenLock # t /\ k0.refreshLock # t
          /\ k0.token = Of(t).token /\ k0.cached = Of(t).cached
          /\ k0.grant => Onset(t, k1) /\ k1.tokenLock # t /\ k1.refreshLock # t
                            /\ k1.token = k0.token + 1
        <3>1. \/ /\ call[t].pc = "renew" /\ k0 = [Of(t) EXCEPT !.tokenLock = Free]
                 /\ k1 = WithNextToken(k0)
              \/ /\ call[t].pc = "refresh" /\ k0 = Unlocked(Of(t))
                 /\ k1 = [WithNextToken(k0) EXCEPT !.cached = k0.token + 1]
            BY <2>1, <2>a
        <3> QED BY ONLY IInv, t \in Calls, <3>1, Fetched
    <2>3. Waiting(call[t], Of(t)) /\ Sound(Of(t)) /\ Of(t).cached \in Token /\ Of(t).token \in Int
          /\ call[t].rejected \in Int /\ call[t].used \in Int
        BY <1>a, <1>b, Standing DEF Client, Token, Call
    <2>4. CASE k0.grant /\ Ask(t, call[t], k1)
        <3>1. Carried(call[t], k1) /\ Replaced(call[t], k1) /\ call[t].sends <= call[t].attempt
            BY <2>1, <2>2, <2>3, <2>4 DEF Waiting, Carried, Replaced
        <3>2. Arrives(t, k1)
            BY <2>2, <2>4, <3>1, AskArrives DEF Onset
        <3> QED BY <2>1, <2>2, <2>4, <3>2, ArrivesInv
    <2>5. CASE ~k0.grant /\ HandleAuth(t, call[t], k0, k0.cached)
        <3>1. Carried(call[t], k0) /\ k0.cached \in Token /\ k0.cached <= k0.token
            BY <2>2, <2>3 DEF Waiting, Carried, Sound
        <3>2. Arrives(t, k0)
            BY <2>2, <2>5, <3>1, HandleAuthArrives DEF Onset
        <3> QED BY <2>1, <2>2, <3>2, ArrivesInv
    <2>6. CASE Finish(t, call[t], k0)
        <3>1. Carried(call[t], k0)
            BY <2>2, <2>3 DEF Waiting, Carried
        <3>2. Arrives(t, k0)
            BY <2>2, <2>6, <3>1, FinishArrives DEF Onset
        <3> QED BY <2>1, <2>2, <3>2, ArrivesInv
    <2> QED BY <2>1, <2>4, <2>5, <2>6
<1>5. ASSUME NEW t \in Calls, AnswerFinal(t) PROVE IInv' /\ OnlyUnusable
    <2>1. Arrives(t, Of(t))
        BY <1>5, Standing, FinishArrives DEF AnswerFinal, Waiting, Fetching, Refreshing
    <2> QED BY <1>5, <1>a, <1>c, <2>1 DEF AnswerFinal, Fetching
<1>6. ASSUME NEW t \in Calls, Answer401(t) PROVE IInv' /\ OnlyUnusable
    <2>1. /\ call[t].used \in Token /\ call[t].used <= Of(t).token /\ call[t].used # NoToken
          /\ call[t].used < Of(t).good
        BY <1>6, <1>b, Standing DEF Answer401, Waiting, Carried, Call
    <2>2. Arrives(t, Of(t))
        BY <1>6, <2>1, Standing, HandleAuthArrives DEF Answer401, Waiting, Fetching, Refreshing
    <2> QED BY <1>6, <1>a, <1>c, <2>2 DEF Answer401, Fetching
<1>7. ASSUME NEW t \in Calls, Answer429(t) PROVE IInv' /\ OnlyUnusable
    <2>1. Arrives(t, Of(t))
        BY <1>7, Standing, FinishArrives DEF Answer429, Waiting, Fetching, Refreshing
    <2>2. cool' \in 0..MaxCool
        BY <1>7, <1>a DEF Answer429
    <2> QED BY <1>7, <1>c, <2>1, <2>2 DEF Answer429, Fetching
<1>8. ASSUME NEW t \in Calls, AnswerTransient(t) PROVE IInv' /\ OnlyUnusable
    <2>1. Become(t, At(call[t], "back"), Of(t)) /\ call[t].pc = "sent" /\ call[t].attempt < MaxRetries
        BY <1>8 DEF AnswerTransient
    <2>2. Replaced(call[t], Of(t)) /\ Carried(call[t], Of(t)) /\ Sound(Of(t))
          /\ Of(t).tokenLock # t /\ Of(t).refreshLock # t
        BY <2>1, Standing DEF Waiting, Fetching, Refreshing
    <2>3. Placed(t, Of(t), At(call[t], "back"), Of(t))
        BY <1>b, <2>1, <2>2, AtIs DEF Placed, Waiting, Carried, Replaced, Places, Fetching, Refreshing
    <2>4. Arrives(t, Of(t))
        BY <2>1, <2>3 DEF Arrives
    <2> QED BY <1>8, <1>a, <1>c, <2>4 DEF AnswerTransient, Fetching
<1>9. ASSUME NEW t \in Calls, BackedOff(t) PROVE IInv' /\ OnlyUnusable
    <2>1. Arrives(t, Of(t))
        BY <1>9, Standing, AgainArrives DEF BackedOff, Waiting, Fetching, Refreshing
    <2> QED BY <1>9, <1>a, <1>c, <2>1 DEF BackedOff, Fetching
<1>10. ASSUME NEW t \in Calls, Outer(t) PROVE IInv' /\ OnlyUnusable
    <2>1. Arrives(t, Of(t))
        BY <1>10, Standing, LockArrives DEF Outer, Waiting, ToRefresh, Fetching
    <2> QED BY <1>10, <1>a, <1>c, <2>1 DEF Outer, Fetching
<1>11. ASSUME NEW t \in Calls, Inner(t) PROVE IInv' /\ OnlyUnusable
    <2>1. Arrives(t, Of(t))
        BY <1>11, Standing, RecheckArrives DEF Inner, Waiting, ToRefresh, Fetching, Refreshing
    <2> QED BY <1>11, <1>a, <1>c, <2>1 DEF Inner, Fetching
<1>12. ASSUME NEW t \in Calls, Refreshed(t) PROVE IInv' /\ OnlyUnusable
    <2> DEFINE k0 == Unlocked(Of(t))
               k1 == [WithNextToken(k0) EXCEPT !.cached = k0.token + 1]
    <2>1. /\ call[t].pc = "refresh" /\ cool' \in 0..MaxCool
          /\ \/ k0.grant /\ Again(t, call[t], k1)
             \/ Finish(t, call[t], k0)
        BY <1>12, <1>a DEF Refreshed
    <2>2. /\ Onset(t, k0) /\ k0.tokenLock # t /\ k0.refreshLock # t
          /\ k0.token = Of(t).token
          /\ k0.grant => Onset(t, k1) /\ k1.tokenLock # t /\ k1.refreshLock # t
                            /\ k1.token = k0.token + 1
        BY <2>1, Fetched
    <2> HIDE DEF k0, k1
    <2>3. Waiting(call[t], Of(t)) /\ Of(t).token \in Int
          /\ call[t].rejected \in Int /\ call[t].used \in Int
        BY <1>a, <1>b, Standing DEF Client, Token, Call
    <2>4. CASE k0.grant /\ Again(t, call[t], k1)
        <3>1. Carried(call[t], k1) /\ Replaced(call[t], k1) /\ call[t].attempt < MaxRetries
            BY <2>1, <2>2, <2>3, <2>4 DEF Waiting, Carried, Replaced
        <3>2. Arrives(t, k1)
            BY <2>2, <2>4, <3>1, AgainArrives DEF Onset
        <3> QED BY <2>1, <2>2, <2>4, <3>2, ArrivesInv
    <2>5. CASE Finish(t, call[t], k0)
        <3>1. Carried(call[t], k0)
            BY <2>2, <2>3 DEF Waiting, Carried
        <3>2. Arrives(t, k0)
            BY <2>2, <2>5, <3>1, FinishArrives DEF Onset
        <3> QED BY <2>1, <2>2, <3>2, ArrivesInv
    <2> QED BY <2>1, <2>4, <2>5
\* A step of time, in which calls pass their deadline or wake.
<1>13. ASSUME cool' \in 0..MaxCool, UNCHANGED client, call' \in [Calls -> Call],
              \A t \in Calls :
                /\ call'[t].pc = call[t].pc \/ (call[t].pc = "nap" /\ call'[t].pc = "awake")
                /\ call'[t].attempt = call[t].attempt /\ call'[t].refreshed = call[t].refreshed
                /\ call'[t].rejected = call[t].rejected /\ call'[t].used = call[t].used
                /\ call'[t].sends = call[t].sends
       PROVE  IInv' /\ OnlyUnusable
    <2>1. ASSUME NEW t \in Calls PROVE Waiting(call'[t], Of(t)')
        <3>1. Waiting(call[t], Of(t)) /\ Of(t)' = Of(t) /\ call'[t] \in Call
            BY <1>13, Standing DEF Of
        <3> QED BY <1>13, <3>1 DEF Waiting, Carried, Replaced, Refused
    <2>2. \A t \in Calls : TokenLocked(t)' /\ RefreshLocked(t)'
        BY <1>13 DEF IInv, TokenLocked, RefreshLocked, Of, Fetching, Refreshing
    <2>3. ASSUME NEW c \in Clients PROVE Held(c)'
        <3>1. Held(c) /\ client[c].tokenLock \in Calls \cup {Free}
              /\ client[c].refreshLock \in Calls \cup {Free}
            BY DEF IInv, Client
        <3> QED BY <1>13, <3>1 DEF Held, Fetching, Refreshing
    <2>4. \A c \in Clients : Sound(client'[c])
        BY <1>13 DEF IInv
    <2>5. IInv'
        BY <1>13, <2>1, <2>2, <2>3, <2>4 DEF IInv
    <2> QED BY <1>13, <2>5 DEF OnlyUnusable
<1>14. ASSUME NEW t \in Calls, Late(t) PROVE IInv' /\ OnlyUnusable
    <2> DEFINE r1 == [call[t] EXCEPT !.late = TRUE]
    <2>1. call' = [call EXCEPT ![t] = r1] /\ UNCHANGED <<client, cool>>
        BY <1>14, <1>b DEF Late, IInv
    <2>2. /\ r1 \in Call /\ r1.pc = call[t].pc /\ r1.attempt = call[t].attempt
          /\ r1.refreshed = call[t].refreshed /\ r1.rejected = call[t].rejected
          /\ r1.used = call[t].used /\ r1.sends = call[t].sends
        BY <1>b DEF Call
    <2> HIDE DEF r1
    <2> QED BY <1>13, <1>a, <2>1, <2>2 DEF IInv
<1>15. CASE Tick
    <2>1. call' = [t \in Calls |-> IF call[t].pc = "nap" THEN At(call[t], "awake") ELSE call[t]]
          /\ UNCHANGED client /\ cool' \in 0..MaxCool
        BY <1>15, <1>a DEF Tick
    <2> QED BY <1>13, <1>b, <2>1, AtIs DEF Places
\* A step of eBay with one client.
<1>16. ASSUME NEW c \in Clients, NEW k1, client' = [client EXCEPT ![c] = k1], UNCHANGED <<call, cool>>,
              Sound(k1), k1.token = client[c].token, k1.good >= client[c].good,
              k1.grant => client[c].grant, client[c].expiring => k1.expiring,
              k1.tokenLock = client[c].tokenLock, k1.refreshLock = client[c].refreshLock
       PROVE  IInv' /\ OnlyUnusable
    <2>1. client' \in [Clients -> Client] /\ client'[c] = k1
          /\ \A d \in Clients \ {c} : client'[d] = client[d]
        BY <1>16 DEF IInv, Sound
    <2>a. client[c].token \in Int
        BY <1>a DEF IInv, Client, Token
    <2>2. ASSUME NEW t \in Calls PROVE Waiting(call'[t], Of(t)')
        <3>1. Waiting(call[t], Of(t)) /\ ClientOf[t] \in Clients /\ Sound(Of(t))
            BY Standing
        <3>2. CASE ClientOf[t] = c
            <4>1. Waiting(call[t], k1)
                BY <1>16, <2>a, <3>1, <3>2, WaitingKept DEF Of
            <4> QED BY <1>16, <2>1, <3>2, <4>1 DEF Of
        <3>3. CASE ClientOf[t] # c
            BY <1>16, <2>1, <3>1, <3>3 DEF Of
        <3> QED BY <3>2, <3>3
    <2>3. \A d \in Clients : client'[d].tokenLock = client[d].tokenLock
                          /\ client'[d].refreshLock = client[d].refreshLock
        BY <1>16, <2>1
    <2>4. \A t \in Calls : TokenLocked(t)' /\ RefreshLocked(t)'
        BY <1>16, <2>3, Standing DEF IInv, TokenLocked, RefreshLocked, Of
    <2>5. \A d \in Clients : Held(d)'
        BY <1>16, <2>3 DEF IInv, Held
    <2>6. \A d \in Clients : Sound(client'[d])
        BY <1>16, <2>1 DEF IInv
    <2>7. IInv'
        BY <1>16, <2>1, <2>2, <2>4, <2>5, <2>6 DEF IInv
    <2> QED BY <1>16, <2>1, <2>7 DEF OnlyUnusable
<1>17. ASSUME NEW c \in Clients, Expire(c) \/ Revoke(c) \/ Withdraw(c) PROVE IInv' /\ OnlyUnusable
    <2>a. Sound(client[c]) /\ client[c] \in Client /\ client[c].token \in 1..MaxTokens
          /\ client[c].good \in Int
        BY <1>a DEF IInv, Sound, Client, Token
    <2>1. CASE Expire(c)
        <3> DEFINE k1 == [client[c] EXCEPT !.expiring = TRUE]
        <3>1. client' = [client EXCEPT ![c] = k1] /\ UNCHANGED <<call, cool>>
              /\ client[c].token < MaxTokens
            BY <2>1 DEF Expire
        <3>2. /\ k1 \in Client /\ k1.token = client[c].token /\ k1.good = client[c].good
              /\ k1.grant = client[c].grant /\ k1.expiring = TRUE /\ k1.cached = client[c].cached
              /\ k1.tokenLock = client[c].tokenLock /\ k1.refreshLock = client[c].refreshLock
            BY <2>a DEF Client
        <3> HIDE DEF k1
        <3>3. Sound(k1)
            BY <2>a, <3>1, <3>2 DEF Sound
        <3>4. (k1.grant => client[c].grant) /\ k1.good >= client[c].good /\ k1.expiring
            BY <2>a, <3>2
        <3> QED BY <1>16, <3>1, <3>2, <3>3, <3>4
    <2>2. CASE Revoke(c)
        <3> DEFINE k1 == [client[c] EXCEPT !.good = client[c].token + 1]
        <3>1. client' = [client EXCEPT ![c] = k1] /\ UNCHANGED <<call, cool>>
              /\ client[c].token < MaxTokens /\ client[c].good <= client[c].token
            BY <2>2 DEF Revoke
        <3>a. client[c].token + 1 \in Token
            BY <1>a, <2>a, <3>1 DEF Token
        <3>2. /\ k1 \in Client /\ k1.token = client[c].token /\ k1.good = client[c].token + 1
              /\ k1.grant = client[c].grant /\ k1.expiring = client[c].expiring
              /\ k1.cached = client[c].cached
              /\ k1.tokenLock = client[c].tokenLock /\ k1.refreshLock = client[c].refreshLock
            BY <2>a, <3>a DEF Client
        <3> HIDE DEF k1
        <3>3. Sound(k1) /\ k1.good >= client[c].good
            BY <1>a, <2>a, <3>1, <3>2 DEF Sound
        <3> QED BY <1>16, <3>1, <3>2, <3>3
    <2>3. CASE Withdraw(c)
        <3> DEFINE k1 == [client[c] EXCEPT !.grant = FALSE]
        <3>1. client' = [client EXCEPT ![c] = k1] /\ UNCHANGED <<call, cool>>
            BY <2>3 DEF Withdraw
        <3>2. /\ k1 \in Client /\ k1.token = client[c].token /\ k1.good = client[c].good
              /\ k1.grant = FALSE /\ k1.expiring = client[c].expiring
              /\ k1.cached = client[c].cached
              /\ k1.tokenLock = client[c].tokenLock /\ k1.refreshLock = client[c].refreshLock
            BY <2>a DEF Client
        <3> HIDE DEF k1
        <3>3. Sound(k1)
            BY <2>a, <3>2 DEF Sound
        <3>4. ~k1.grant /\ k1.good >= client[c].good /\ (client[c].expiring => k1.expiring)
            BY <2>a, <3>2
        <3> QED BY <1>16, <3>1, <3>2, <3>3, <3>4
    <2> QED BY <1>17, <2>1, <2>2, <2>3
<1>18. CASE UNCHANGED vars
    BY <1>18 DEF vars, IInv, Of, Held, TokenLocked, RefreshLocked
<1> QED BY <1>1, <1>2, <1>3, <1>4, <1>5, <1>6, <1>7, <1>8, <1>9, <1>10, <1>11, <1>12, <1>14,
           <1>15, <1>17, <1>18 DEF Next

\* Nothing is called at first.
LEMMA InitInv == Init => IInv
<1> SUFFICES ASSUME Init PROVE IInv
    OBVIOUS
<1>1. NewCall \in Call /\ NewClient \in Client /\ Sound(NewClient)
    BY RestRequestAssumption DEF NewCall, NewClient, Call, Client, Sound, Token, NoToken, Places
<1>2. Waiting(NewCall, NewClient)
    BY <1>1 DEF Waiting, Carried, NewCall, NewClient, NoToken
<1>3. \A t \in Calls : Of(t) = NewClient /\ call[t] = NewCall /\ call[t].pc = "idle"
    BY RestRequestAssumption DEF Init, Of, NewCall
<1>4. \A t \in Calls : TokenLocked(t) /\ RefreshLocked(t)
    BY <1>3 DEF TokenLocked, RefreshLocked, Fetching, Refreshing
<1>5. \A c \in Clients : client[c] = NewClient /\ Held(c)
    BY DEF Init, Held, NewClient
<1> QED BY <1>1, <1>2, <1>3, <1>4, <1>5, RestRequestAssumption DEF Init, IInv

-----------------------------------------------------------------------------
\* The invariant holds in every state of the calls.
LEMMA InvHolds == Spec => []IInv
BY InitInv, StepInv, PTL DEF Spec

\* Every state is well typed: no attempt beyond the retries, no token beyond the bound.
THEOREM TypeCorrect == Spec => []TypeOK
<1>1. IInv => TypeOK
    BY DEF IInv, TypeOK, Call, Client, Places
<1> QED BY <1>1, InvHolds, PTL

\* A call is sent at most MaxRetries + 1 times, the replay after a 401 included.
THEOREM AttemptsBounded == Spec => []AttemptCeiling
<1>1. IInv => AttemptCeiling
    <2> SUFFICES ASSUME IInv, NEW t \in Calls PROVE call[t].sends <= MaxRetries + 1
        BY DEF AttemptCeiling
    <2>1. call[t] \in Call /\ call[t].sends <= call[t].attempt + 1
        BY Standing DEF Waiting, Carried
    <2> QED BY <2>1, RestRequestAssumption DEF Call
<1> QED BY <1>1, InvHolds, PTL

\* The replay after a 401 carries another token than the one rejected.
THEOREM ReplaysFresh == Spec => []ReplayFresh
<1>1. IInv => ReplayFresh
    <2> SUFFICES ASSUME IInv, NEW t \in Calls, call[t].pc = "sent", call[t].rejected # NoToken
                 PROVE  call[t].used # call[t].rejected
        BY DEF ReplayFresh
    <2>1. call[t] \in Call /\ call[t].rejected < call[t].used
        BY Standing DEF Waiting, Carried
    <2> QED BY <2>1 DEF Call, Token
<1> QED BY <1>1, InvHolds, PTL

\* Each lock is held by the one call that will give it back.
THEOREM LocksGivenBack == Spec => []LocksHeld
<1>1. IInv => LocksHeld
    <2> SUFFICES ASSUME IInv, NEW c \in Clients
                 PROVE  LET fetching == {t \in Calls : ClientOf[t] = c /\ call[t].pc \in Fetching}
                        IN  /\ client[c].tokenLock = Free <=> fetching = {}
                            /\ \A t \in fetching : client[c].tokenLock = t
                            /\ \A t \in Calls : client[c].refreshLock = t
                                    <=> ClientOf[t] = c /\ call[t].pc \in {"inner", "refresh"}
        BY DEF LocksHeld
    <2>1. /\ Held(c) /\ client[c].tokenLock \in Calls \cup {Free}
          /\ client[c].refreshLock \in Calls \cup {Free}
        BY DEF IInv, Client
    <2>2. \A t \in Calls : t # Free /\ TokenLocked(t) /\ RefreshLocked(t)
        BY RestRequestAssumption DEF IInv
    <2> QED BY <2>1, <2>2 DEF Held, TokenLocked, RefreshLocked, Of, Refreshing
<1> QED BY <1>1, InvHolds, PTL

\* Calls rejected together share one refresh: a token that is still good is not replaced.
THEOREM OneRefresh == Spec => OnlyUnusableReplaced
<1>1. IInv /\ [Next]_vars => [\A c \in Clients :
            client'[c].token # client[c].token
                => client[c].expiring \/ client[c].token < client[c].good]_vars
    BY StepInv DEF OnlyUnusable
<1> QED BY <1>1, InvHolds, PTL DEF Spec, OnlyUnusableReplaced
=============================================================================
