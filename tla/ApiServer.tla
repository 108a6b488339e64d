------------------------------- MODULE ApiServer -------------------------------
(***************************************************************************)
(* api/rpc/server.go, api/rpc/middleware.go, libs/authtoken and            *)
(* nodebuilder/node/admin.go: the RPC server, the handlers each request    *)
(* goes through, and tokens that are revoked while requests run.           *)
(*                                                                         *)
(* A request passes the rate limit of its IP, the limit of concurrent      *)
(* requests and authentication, and is then served, for a subscription     *)
(* until its context is cancelled.  Revoke writes the token to the         *)
(* datastore, syncs it and cancels its sessions; writes that were not      *)
(* synced may be lost when the node restarts.  The server is started and   *)
(* stopped by calls that may meet.                                         *)
(***************************************************************************)
EXTENDS Naturals, FiniteSets, FiniteSetTheorems, TLAPS

CONSTANTS
    Reqs,           \* requests
    IP, Token,      \* functions: the IP and the token of each request
    Burst,          \* requests one IP may make at once
    CacheSize,      \* limiters that are kept
    MaxConns,       \* concurrent requests
    MaxRevokes,     \* bound on calls of Revoke
    MaxRestarts,    \* bound on restarts of the node
    Starters        \* goroutines that start or stop the server

ASSUME ServerAssumption ==
    /\ IsFiniteSet(Reqs) /\ Reqs \cap {"revoke", "nobody"} = {}
    /\ Burst \in Nat /\ CacheSize \in Nat \ {0} /\ MaxConns \in Nat
    /\ DOMAIN IP = Reqs /\ DOMAIN Token = Reqs

NoToken == "none"
Tokens == {Token[r] : r \in Reqs} \ {NoToken}
IPs == {IP[r] : r \in Reqs}
Nobody == "nobody"

VARIABLES
    req,            \* where each request is
    mine,           \* the limiter each request was given
    limiters,       \* the limiters of the IPs that are kept
    used,           \* tokens taken from each limiter
    made,           \* number of limiters made
    sem,            \* concurrent requests
    sessions,       \* the sessions of each token
    cancelled,      \* requests whose context is cancelled
    revoked,        \* revocations in the datastore
    durable,        \* those that were synced
    expired,        \* tokens whose time is over
    mu,             \* holder of the mutex of the verifier
    revoke,         \* the call of Revoke
    revokes,        \* number of them
    acked,          \* tokens for which Revoke returned without error
    restarts,       \* number of restarts
    started, listening, closed, starter     \* the server, and the calls that start and stop it

limits == <<mine, limiters, used, made, sem>>
auth == <<sessions, cancelled, revoked, durable, expired, mu, revoke, revokes, acked, restarts>>
server == <<started, listening, closed, starter>>
serverVars == <<req, limits, auth, server>>

NoRevoke == [pc |-> "idle", token |-> NoToken, err |-> "nil"]

ServerInit ==
    /\ req = [r \in Reqs |-> "new"] /\ mine = [r \in Reqs |-> 0]
    /\ limiters = [i \in IPs |-> 0] /\ used = [n \in 1..Cardinality(Reqs) |-> 0] /\ made = 0 /\ sem = 0
    /\ sessions = [t \in Tokens |-> {}] /\ cancelled = {} /\ revoked = {} /\ durable = {} /\ expired = {}
    /\ mu = Nobody /\ revoke = NoRevoke /\ revokes = 0 /\ acked = {} /\ restarts = 0
    /\ started = FALSE /\ listening = FALSE /\ closed = FALSE /\ starter = [s \in Starters |-> "idle"]

-----------------------------------------------------------------------------
(***************************************************************************)
(* rateLimit.                                                              *)
(***************************************************************************)

Kept == {i \in IPs : limiters[i] # 0}

\* A request comes when the server listens; cache.Get.
getLimiter(r) ==
    /\ req[r] = "new" /\ listening
    /\ mine' = [mine EXCEPT ![r] = limiters[IP[r]]]
    /\ req' = [req EXCEPT ![r] = IF limiters[IP[r]] = 0 THEN "add" ELSE "allow"]
    /\ UNCHANGED <<limiters, used, made, sem, auth, server>>

peek(r) == limiters[IP[r]]
PeekOrAdd(r) ==
    /\ req[r] = "add" /\ req' = [req EXCEPT ![r] = "allow"]
    /\ IF peek(r) # 0 THEN mine' = [mine EXCEPT ![r] = peek(r)] /\ UNCHANGED <<limiters, made>>
       ELSE /\ made' = made + 1 /\ mine' = [mine EXCEPT ![r] = made + 1]
            /\ IF Cardinality(Kept \cup {IP[r]}) <= CacheSize THEN limiters' = [limiters EXCEPT ![IP[r]] = made + 1]
               ELSE \E old \in Kept : limiters' = [limiters EXCEPT ![IP[r]] = made + 1, ![old] = 0]
    /\ UNCHANGED <<used, sem, auth, server>>

\* limiter.Allow; the tokens are not filled again here.
Allow(r) ==
    /\ req[r] = "allow"
    /\ IF used[mine[r]] < Burst
       THEN used' = [used EXCEPT ![mine[r]] = @ + 1] /\ req' = [req EXCEPT ![r] = "conn"]
       ELSE UNCHANGED used /\ req' = [req EXCEPT ![r] = "429"]
    /\ UNCHANGED <<mine, limiters, made, sem, auth, server>>

\* connLimit.
connLimit(r) ==
    /\ req[r] = "conn"
    /\ IF sem < MaxConns
       THEN sem' = sem + 1 /\ req' = [req EXCEPT ![r] = IF Token[r] = NoToken THEN "serve" ELSE "verify"]
       ELSE UNCHANGED sem /\ req' = [req EXCEPT ![r] = "503"]
    /\ UNCHANGED <<mine, limiters, used, made, auth, server>>

-----------------------------------------------------------------------------
(***************************************************************************)
(* authHandler and the Verifier.                                           *)
(***************************************************************************)

lockVerify(r) ==
    /\ req[r] = "verify" /\ mu = Nobody /\ mu' = r /\ req' = [req EXCEPT ![r] = "locked"]
    /\ UNCHANGED <<limits, sessions, cancelled, revoked, durable, expired, revoke, revokes, acked, restarts, server>>

\* verify: the token is not expired, and the datastore does not have it; reading it may fail.
verify(t) == t \notin expired /\ t \notin revoked
\* VerifyAndRegister: what was checked under the lock is registered under it.
VerifyAndRegister(r) ==
    /\ req[r] = "locked" /\ mu' = Nobody
    /\ \/ /\ verify(Token[r])
          /\ sessions' = [sessions EXCEPT ![Token[r]] = @ \cup {r}] /\ req' = [req EXCEPT ![r] = "serve"]
       \/ UNCHANGED sessions /\ req' = [req EXCEPT ![r] = "401"]
    /\ UNCHANGED <<limits, cancelled, revoked, durable, expired, revoke, revokes, acked, restarts, server>>

\* The handler returns, or closes the subscription because the context was cancelled.
Served(r) ==
    /\ req[r] = "serve" /\ req' = [req EXCEPT ![r] = "release"]
    /\ UNCHANGED <<limits, auth, server>>

unregister(r, t) == [sessions EXCEPT ![t] = @ \ {r}]
Release(r) ==
    /\ req[r] \in {"release", "401"}
    /\ IF req[r] = "release" /\ Token[r] # NoToken
       THEN mu = Nobody /\ sessions' = unregister(r, Token[r]) ELSE UNCHANGED sessions
    /\ sem' = sem - 1 /\ req' = [req EXCEPT ![r] = "end"]
    /\ UNCHANGED <<mine, limiters, used, made, cancelled, revoked, durable, expired, mu, revoke, revokes, acked, restarts, server>>

-----------------------------------------------------------------------------
(***************************************************************************)
(* Revoke.                                                                 *)
(***************************************************************************)

lockRevoke ==
    /\ revoke.pc = "idle" /\ revokes < MaxRevokes /\ mu = Nobody
    /\ \E t \in Tokens : revoke' = [pc |-> "put", token |-> t, err |-> "nil"]
    /\ mu' = "revoke" /\ revokes' = revokes + 1
    /\ UNCHANGED <<req, limits, sessions, cancelled, revoked, durable, expired, acked, restarts, server>>

Put ==
    /\ revoke.pc = "put"
    /\ \/ revoked' = revoked \cup {revoke.token} /\ revoke' = [revoke EXCEPT !.pc = "sync"] /\ UNCHANGED mu
       \/ revoke' = [revoke EXCEPT !.pc = "idle", !.err = "put"] /\ mu' = Nobody /\ UNCHANGED revoked
    /\ UNCHANGED <<req, limits, sessions, cancelled, durable, expired, revokes, acked, restarts, server>>

Sync ==
    /\ revoke.pc = "sync"
    /\ \/ durable' = durable \cup {revoke.token} /\ revoke' = [revoke EXCEPT !.pc = "cancel"]
       \/ revoke' = [revoke EXCEPT !.pc = "cancel", !.err = "sync"] /\ UNCHANGED durable
    /\ UNCHANGED <<req, limits, sessions, cancelled, revoked, expired, mu, revokes, acked, restarts, server>>

\* Sessions are cancelled even when the sync failed.
toCancel_Wrong == IF revoke.err = "nil" THEN sessions[revoke.token] ELSE {}
toCancel == sessions[revoke.token]
Cancel ==
    /\ revoke.pc = "cancel"
    /\ cancelled' = cancelled \cup toCancel
    /\ sessions' = [sessions EXCEPT ![revoke.token] = {}]
    /\ acked' = IF revoke.err = "nil" THEN acked \cup {revoke.token} ELSE acked
    /\ revoke' = [revoke EXCEPT !.pc = "idle"] /\ mu' = Nobody
    /\ UNCHANGED <<req, limits, revoked, durable, expired, revokes, restarts, server>>

Expire ==
    /\ \E t \in Tokens \ expired : expired' = expired \cup {t}
    /\ UNCHANGED <<req, limits, sessions, cancelled, revoked, durable, mu, revoke, revokes, acked, restarts, server>>

\* The node restarts: requests end, limiters and sessions are forgotten, and of the revocations
\* only those that were synced are sure to be there.
Restart ==
    /\ restarts < MaxRestarts /\ restarts' = restarts + 1
    /\ \E lost \in SUBSET (revoked \ durable) : revoked' = revoked \ lost
    /\ req' = [r \in Reqs |-> IF req[r] = "new" THEN "new" ELSE "end"] /\ mine' = [r \in Reqs |-> 0]
    /\ limiters' = [i \in IPs |-> 0] /\ used' = [n \in 1..Cardinality(Reqs) |-> 0] /\ made' = 0 /\ sem' = 0
    /\ sessions' = [t \in Tokens |-> {}] /\ cancelled' = {} /\ mu' = Nobody /\ revoke' = NoRevoke
    /\ UNCHANGED <<durable, expired, revokes, acked, server>>

-----------------------------------------------------------------------------
(***************************************************************************)
(* Server.Start and Server.Stop.                                           *)
(***************************************************************************)

StartServer(s) ==
    /\ starter[s] = "idle"
    /\ IF started THEN starter' = [starter EXCEPT ![s] = "done"] /\ UNCHANGED started
       ELSE started' = TRUE /\ starter' = [starter EXCEPT ![s] = "listen"]
    /\ UNCHANGED <<req, limits, auth, listening, closed>>

\* net.Listen, or LoadX509KeyPair, may fail; Serve on a server that was shut down closes the listener.
Listen(s) ==
    /\ starter[s] = "listen" /\ starter' = [starter EXCEPT ![s] = "done"]
    /\ \/ started' = FALSE /\ UNCHANGED listening
       \/ listening' = ~closed /\ UNCHANGED started
    /\ UNCHANGED <<req, limits, auth, closed>>

StopServer(s) ==
    /\ starter[s] = "idle"
    /\ IF started THEN started' = FALSE /\ starter' = [starter EXCEPT ![s] = "shutdown"]
       ELSE starter' = [starter EXCEPT ![s] = "done"] /\ UNCHANGED started
    /\ UNCHANGED <<req, limits, auth, listening, closed>>

Shutdown(s) ==
    /\ starter[s] = "shutdown" /\ starter' = [starter EXCEPT ![s] = "done"]
    /\ closed' = TRUE /\ listening' = FALSE
    /\ UNCHANGED <<req, limits, auth, started>>

-----------------------------------------------------------------------------
Handle(r) ==
    \/ getLimiter(r) \/ PeekOrAdd(r) \/ Allow(r) \/ connLimit(r)
    \/ lockVerify(r) \/ VerifyAndRegister(r) \/ Served(r) \/ Release(r)

ServerNext ==
    \/ \E r \in Reqs : Handle(r)
    \/ lockRevoke \/ Put \/ Sync \/ Cancel \/ Expire \/ Restart
    \/ \E s \in Starters : StartServer(s) \/ Listen(s) \/ StopServer(s) \/ Shutdown(s)

ServerSpec == ServerInit /\ [][ServerNext]_serverVars

-----------------------------------------------------------------------------
(***************************************************************************)
(* Properties.                                                             *)
(***************************************************************************)

ServerTypeOK ==
    /\ mu \in Reqs \cup {"revoke", Nobody} /\ durable \subseteq revoked
    /\ \A t \in Tokens : sessions[t] \subseteq Reqs

\* Once a call of Revoke is over, no request runs with the token, but those whose contexts are
\* cancelled; whether the sync failed or not, and however the request and the call met.
RevokedIsCancelled ==
    mu # "revoke" => \A r \in Reqs : req[r] = "serve" /\ Token[r] \in revoked => r \in cancelled

\* A token for which Revoke returned without error is refused ever after, restarts included.
AckedIsRevoked == acked \subseteq revoked

\* The sessions that are registered are those of requests that run, each of them under its token.
SessionsExact ==
    \A t \in Tokens : sessions[t] = {r \in Reqs : Token[r] = t /\ req[r] \in {"serve", "release"} /\ r \notin cancelled}

\* No more requests than the limit run at once, each holds one place, and no IP gets more than
\* its burst, also when its first requests meet, as long as no limiter was dropped.
LimitsHold ==
    /\ sem = Cardinality({r \in Reqs : req[r] \in {"verify", "locked", "401", "serve", "release"}})
    /\ sem <= MaxConns
    /\ Cardinality(IPs) <= CacheSize =>
           \A i \in IPs : Cardinality({r \in Reqs : IP[r] = i /\ mine[r] # 0 /\ req[r] \notin {"add", "allow", "429"}}) <= Burst

\* A server that was stopped does not listen, whatever call of Start it met.
StoppedIsClosed == closed => ~listening

\* However requests, revocations, failed writes and restarts meet: a revoked token serves no
\* request whose context is alive, now or after a restart; sessions are registered exactly
\* while they run; rates and concurrent requests stay within their limits; and a server that
\* was stopped does not listen.
ServerSound == ServerTypeOK /\ AckedIsRevoked /\ RevokedIsCancelled /\ SessionsExact /\ LimitsHold /\ StoppedIsClosed

-----------------------------------------------------------------------------
(***************************************************************************)
(* The server is sound for any number of requests, IPs, tokens and         *)
(* restarts, and any limits.                                               *)
(***************************************************************************)

Early == {"new", "add", "allow", "conn"}
Inside == {"verify", "locked", "401", "serve", "release"}
Places == Early \cup Inside \cup {"429", "503", "end"}

AuthTypes ==
    /\ req \in [Reqs -> Places] /\ mu \in Reqs \cup {"revoke", Nobody}
    /\ sessions \in [Tokens -> SUBSET Reqs] /\ cancelled \subseteq Reqs
    /\ revoked \subseteq Tokens /\ durable \subseteq revoked /\ acked \subseteq durable
    /\ revoke \in [pc : {"idle", "put", "sync", "cancel"}, token : Tokens \cup {NoToken}, err : {"nil", "put", "sync"}]
    /\ listening \in BOOLEAN /\ closed \in BOOLEAN

\* The mutex is held by the request or the call of Revoke that is at work.
MutexHeld ==
    /\ revoke.pc # "idle" => mu = "revoke" /\ revoke.token \in Tokens
    /\ \A r \in Reqs : req[r] = "locked" => mu = r
    /\ \A r \in Reqs : req[r] \in {"verify", "locked"} => Token[r] \in Tokens

\* What Revoke has done so far.
RevokeOK ==
    /\ revoke.pc \in {"sync", "cancel"} => revoke.token \in revoked
    /\ revoke.pc = "cancel" /\ revoke.err = "nil" => revoke.token \in durable

\* Only requests that got as far as being served are cancelled; and a revoked token serves no
\* request that is not, but for the token that is being revoked.
CancelledOK ==
    /\ \A r \in cancelled : req[r] \in {"serve", "release", "end"}
    /\ \A r \in Reqs : req[r] = "serve" /\ Token[r] \in revoked =>
           r \in cancelled \/ (revoke.pc \in {"sync", "cancel"} /\ Token[r] = revoke.token)

AuthInv == AuthTypes /\ MutexHeld /\ RevokeOK /\ CancelledOK /\ SessionsExact /\ StoppedIsClosed

\* The requests that a limiter has let pass.
Passed(n) == {r \in Reqs : mine[r] = n /\ req[r] \notin {"add", "allow", "429"}}

LimitTypes ==
    /\ req \in [Reqs -> Places] /\ mine \in [Reqs -> Nat] /\ limiters \in [IPs -> Nat] /\ made \in Nat
    /\ used \in [1..Cardinality(Reqs) -> Nat] /\ sem \in Nat

\* Limiters are numbered as they are made, each by a request that had none.
LimitersNumbered ==
    /\ made <= Cardinality({r \in Reqs : mine[r] # 0})
    /\ \A r \in Reqs : mine[r] <= made /\ (req[r] \in {"new", "add"} => mine[r] = 0) /\ (req[r] = "allow" => mine[r] # 0)
    /\ \A i \in IPs : limiters[i] <= made

\* A limiter has let no more requests pass than it counted, and all requests of an IP have the
\* limiter that is kept for it, as long as none is dropped.
LimitersOK ==
    /\ \A n \in 1..Cardinality(Reqs) : used[n] <= Burst /\ Cardinality(Passed(n)) <= used[n]
    /\ Cardinality(IPs) <= CacheSize => \A r \in Reqs : mine[r] # 0 => mine[r] = limiters[IP[r]]

PlacesHeld == sem = Cardinality({r \in Reqs : req[r] \in Inside}) /\ sem <= MaxConns

LimitInv == LimitTypes /\ LimitersNumbered /\ LimitersOK /\ PlacesHeld

ServerInv == AuthInv /\ LimitInv

-----------------------------------------------------------------------------
\* A request that is not yet authenticated goes on: the sessions do not change.
LEMMA EarlyStep ==
    ASSUME AuthInv, NEW r \in Reqs, NEW p \in Places, req[r] \in Early, req' = [req EXCEPT ![r] = p],
           p \notin {"locked", "release"},
           p = "verify" => Token[r] \in Tokens, p = "serve" => Token[r] = NoToken, UNCHANGED <<auth, server>>
    PROVE  AuthInv'
<1> USE DEF AuthInv, AuthTypes, auth, server
<1>1. /\ req' \in [Reqs -> Places] /\ req'[r] = p /\ \A q \in Reqs : q # r => req'[q] = req[q]
      /\ r \notin cancelled /\ NoToken \notin Tokens
  BY DEF CancelledOK, Early, Tokens
<1>2. AuthTypes'
  BY <1>1
<1>3. MutexHeld'
  BY <1>1 DEF MutexHeld
<1>4. RevokeOK' /\ StoppedIsClosed'
  BY DEF RevokeOK, StoppedIsClosed
<1>5. CancelledOK'
  BY <1>1 DEF CancelledOK
<1>6. \A t \in Tokens, q \in Reqs : Token[q] = t /\ req'[q] \in {"serve", "release"} <=> Token[q] = t /\ req[q] \in {"serve", "release"}
  BY <1>1 DEF Early
<1>7. SessionsExact'
  BY <1>1, <1>6 DEF SessionsExact
<1> QED
  BY <1>2, <1>3, <1>4, <1>5, <1>7

LEMMA AuthenticateStep ==
    ASSUME AuthInv, NEW r \in Reqs, lockVerify(r) \/ VerifyAndRegister(r) \/ Served(r) \/ Release(r)
    PROVE  AuthInv'
<1> USE ServerAssumption DEF AuthInv, AuthTypes, auth, server
<1>1. CASE lockVerify(r)
  <2>1. /\ req' \in [Reqs -> Places] /\ req'[r] = "locked" /\ (\A q \in Reqs : q # r => req'[q] = req[q]) /\ req[r] = "verify"
        /\ mu = Nobody /\ mu' = r /\ UNCHANGED <<sessions, cancelled, revoked, durable, revoke, acked, listening, closed>>
    BY <1>1 DEF lockVerify, Places, Inside
  <2>2. AuthTypes' /\ RevokeOK' /\ StoppedIsClosed'
    BY <2>1 DEF RevokeOK, StoppedIsClosed
  <2>3. MutexHeld'
    BY <2>1 DEF MutexHeld, Nobody
  <2>4. CancelledOK' /\ SessionsExact'
    BY <2>1 DEF CancelledOK, SessionsExact
  <2> QED
    BY <2>2, <2>3, <2>4
<1>2. CASE VerifyAndRegister(r)
  <2>1. PICK p \in {"serve", "401"} :
           /\ req' = [req EXCEPT ![r] = p] /\ mu' = Nobody /\ req[r] = "locked"
           /\ p = "serve" => verify(Token[r]) /\ sessions' = [sessions EXCEPT ![Token[r]] = @ \cup {r}]
           /\ p = "401" => UNCHANGED sessions
           /\ UNCHANGED <<cancelled, revoked, durable, revoke, acked, listening, closed>>
    BY <1>2 DEF VerifyAndRegister
  <2>2. /\ req' \in [Reqs -> Places] /\ req'[r] = p /\ (\A q \in Reqs : q # r => req'[q] = req[q])
        /\ Token[r] \in Tokens /\ mu = r /\ revoke.pc = "idle" /\ r \notin cancelled
    BY <2>1 DEF Places, Inside, MutexHeld, CancelledOK
  <2>3. AuthTypes' /\ RevokeOK' /\ StoppedIsClosed'
    BY <2>1, <2>2 DEF RevokeOK, StoppedIsClosed
  <2>4. MutexHeld'
    BY <2>1, <2>2 DEF MutexHeld, Nobody
  <2>5. CancelledOK'
    BY <2>1, <2>2 DEF CancelledOK, verify
  <2>6. ASSUME NEW t \in Tokens
        PROVE  sessions'[t] = {q \in Reqs : Token[q] = t /\ req'[q] \in {"serve", "release"} /\ q \notin cancelled'}
    <3>1. sessions[t] = {q \in Reqs : Token[q] = t /\ req[q] \in {"serve", "release"} /\ q \notin cancelled}
      BY DEF SessionsExact
    <3>2. sessions'[t] = IF p = "serve" /\ t = Token[r] THEN sessions[t] \cup {r} ELSE sessions[t]
      BY Zenon, <2>1, <2>2
    <3>3. cancelled' = cancelled /\ req[r] = "locked"
      BY <2>1
    <3> QED
      BY <2>2, <3>1, <3>2, <3>3
  <2> QED
    BY <2>3, <2>4, <2>5, <2>6 DEF SessionsExact
<1>3. CASE Served(r)
  <2>1. /\ req' \in [Reqs -> Places] /\ req'[r] = "release" /\ (\A q \in Reqs : q # r => req'[q] = req[q]) /\ req[r] = "serve"
        /\ UNCHANGED <<mu, sessions, cancelled, revoked, durable, revoke, acked, listening, closed>>
    BY <1>3 DEF Served, Places, Inside
  <2>2. AuthTypes' /\ RevokeOK' /\ StoppedIsClosed'
    BY <2>1 DEF RevokeOK, StoppedIsClosed
  <2>3. MutexHeld'
    BY <2>1 DEF MutexHeld
  <2>4. CancelledOK' /\ SessionsExact'
    BY <2>1 DEF CancelledOK, SessionsExact
  <2> QED
    BY <2>2, <2>3, <2>4
<1>4. CASE Release(r)
  <2>1. /\ req' \in [Reqs -> Places] /\ req'[r] = "end" /\ (\A q \in Reqs : q # r => req'[q] = req[q])
        /\ req[r] \in {"release", "401"}
        /\ UNCHANGED <<mu, cancelled, revoked, durable, revoke, acked, listening, closed>>
        /\ sessions' = IF req[r] = "release" /\ Token[r] # NoToken THEN unregister(r, Token[r]) ELSE sessions
    BY <1>4 DEF Release, Places
  <2>2. Token[r] # NoToken => Token[r] \in Tokens
    BY DEF Tokens
  <2>3. \A t \in Tokens : sessions'[t] = IF req[r] = "release" /\ t = Token[r] THEN sessions[t] \ {r} ELSE sessions[t]
    BY Zenon, <2>1, <2>2 DEF unregister, Tokens
  <2>4. AuthTypes' /\ RevokeOK' /\ StoppedIsClosed'
    BY <2>1, <2>2 DEF RevokeOK, StoppedIsClosed, unregister
  <2>5. MutexHeld'
    BY <2>1 DEF MutexHeld
  <2>6. CancelledOK'
    BY <2>1 DEF CancelledOK
  <2>7. ASSUME NEW t \in Tokens
        PROVE  sessions'[t] = {q \in Reqs : Token[q] = t /\ req'[q] \in {"serve", "release"} /\ q \notin cancelled'}
    <3>1. sessions[t] = {q \in Reqs : Token[q] = t /\ req[q] \in {"serve", "release"} /\ q \notin cancelled}
      BY DEF SessionsExact
    <3>2. sessions'[t] = IF req[r] = "release" /\ t = Token[r] THEN sessions[t] \ {r} ELSE sessions[t]
      BY <2>3
    <3>3. cancelled' = cancelled /\ req'[r] = "end" /\ (\A q \in Reqs : q # r => req'[q] = req[q]) /\ req[r] \in {"release", "401"}
      BY <2>1
    <3> QED
      BY <3>1, <3>2, <3>3
  <2> QED
    BY <2>4, <2>5, <2>6, <2>7 DEF SessionsExact
<1> QED
  BY <1>1, <1>2, <1>3, <1>4

\* A step of Revoke, which holds the mutex from its first step to its last.
LEMMA RevokeStep ==
    ASSUME AuthInv, lockRevoke \/ Put \/ Sync \/ Cancel
    PROVE  AuthInv'
<1> USE ServerAssumption DEF AuthInv, AuthTypes, server, limits
<1>1. CASE lockRevoke
  <2>1. PICK t \in Tokens : revoke' = [pc |-> "put", token |-> t, err |-> "nil"]
    BY <1>1 DEF lockRevoke
  <2>2. /\ revoke.pc = "idle" /\ mu = Nobody /\ mu' = "revoke"
        /\ UNCHANGED <<req, sessions, cancelled, revoked, durable, acked, listening, closed>>
    BY <1>1 DEF lockRevoke
  <2>3. AuthTypes' /\ RevokeOK' /\ StoppedIsClosed' /\ SessionsExact'
    BY <2>1, <2>2 DEF RevokeOK, StoppedIsClosed, SessionsExact
  <2>4. MutexHeld' /\ CancelledOK'
    BY <2>1, <2>2 DEF MutexHeld, CancelledOK, Nobody
  <2> QED
    BY <2>3, <2>4
<1>2. CASE Put
  <2>1. /\ revoke.pc = "put" /\ mu = "revoke" /\ revoke.token \in Tokens
        /\ UNCHANGED <<req, sessions, cancelled, durable, acked, listening, closed>>
    BY <1>2 DEF Put, MutexHeld
  <2>2. CASE revoked' = revoked \cup {revoke.token} /\ revoke' = [revoke EXCEPT !.pc = "sync"] /\ UNCHANGED mu
    <3>1. AuthTypes' /\ RevokeOK' /\ StoppedIsClosed' /\ SessionsExact'
      BY <2>1, <2>2 DEF RevokeOK, StoppedIsClosed, SessionsExact
    <3>2. MutexHeld' /\ CancelledOK'
      BY <2>1, <2>2 DEF MutexHeld, CancelledOK
    <3> QED
      BY <3>1, <3>2
  <2>3. CASE revoke' = [revoke EXCEPT !.pc = "idle", !.err = "put"] /\ mu' = Nobody /\ UNCHANGED revoked
    <3>1. AuthTypes' /\ RevokeOK' /\ StoppedIsClosed' /\ SessionsExact'
      BY Zenon, <2>1, <2>3 DEF RevokeOK, StoppedIsClosed, SessionsExact
    <3>2. MutexHeld' /\ CancelledOK'
      BY <2>1, <2>3 DEF MutexHeld, CancelledOK
    <3> QED
      BY <3>1, <3>2
  <2> QED
    BY <1>2, <2>2, <2>3 DEF Put
<1>3. CASE Sync
  <2>1. /\ revoke.pc = "sync" /\ mu = "revoke" /\ revoke.token \in Tokens /\ revoke.token \in revoked
        /\ UNCHANGED <<req, sessions, cancelled, revoked, mu, acked, listening, closed>>
    BY <1>3 DEF Sync, MutexHeld, RevokeOK
  <2>2. PICK e \in {"nil", "sync"} : /\ revoke'.pc = "cancel" /\ revoke'.token = revoke.token
                                     /\ revoke' \in [pc : {"cancel"}, token : Tokens, err : {"nil", "put", "sync"}]
                                     /\ e = "nil" => durable' = durable \cup {revoke.token}
                                     /\ e = "sync" => revoke'.err = "sync" /\ durable' = durable
    BY Zenon, <1>3, <2>1 DEF Sync
  <2>3. AuthTypes' /\ RevokeOK' /\ StoppedIsClosed' /\ SessionsExact'
    BY <2>1, <2>2 DEF RevokeOK, StoppedIsClosed, SessionsExact
  <2>4. MutexHeld' /\ CancelledOK'
    BY <2>1, <2>2 DEF MutexHeld, CancelledOK
  <2> QED
    BY <2>3, <2>4
<1>4. CASE Cancel
  <2> DEFINE u == revoke.token
  <2>1. /\ revoke.pc = "cancel" /\ mu = "revoke" /\ mu' = Nobody /\ u \in Tokens /\ u \in revoked
        /\ cancelled' = cancelled \cup sessions[u] /\ sessions' = [sessions EXCEPT ![u] = {}]
        /\ acked' = IF revoke.err = "nil" THEN acked \cup {u} ELSE acked
        /\ revoke' = [revoke EXCEPT !.pc = "idle"]
        /\ UNCHANGED <<req, revoked, durable, listening, closed>>
    BY <1>4 DEF Cancel, MutexHeld, RevokeOK, toCancel
  <2>2. revoke.err = "nil" => u \in durable
    BY <2>1 DEF RevokeOK
  <2>3. sessions[u] = {q \in Reqs : Token[q] = u /\ req[q] \in {"serve", "release"} /\ q \notin cancelled}
    BY <2>1 DEF SessionsExact
  <2> HIDE DEF u
  <2>4. AuthTypes' /\ RevokeOK' /\ StoppedIsClosed'
    BY <2>1, <2>2 DEF RevokeOK, StoppedIsClosed
  <2>5. MutexHeld'
    BY <2>1 DEF MutexHeld, Nobody
  <2>6. CancelledOK'
    BY <2>1, <2>3 DEF CancelledOK, u
  <2>7. ASSUME NEW t \in Tokens
        PROVE  sessions'[t] = {q \in Reqs : Token[q] = t /\ req[q] \in {"serve", "release"} /\ q \notin cancelled'}
    <3>1. sessions[t] = {q \in Reqs : Token[q] = t /\ req[q] \in {"serve", "release"} /\ q \notin cancelled}
      BY DEF SessionsExact
    <3>2. sessions'[t] = IF t = u THEN {} ELSE sessions[t]
      BY <2>1
    <3>3. cancelled' = cancelled \cup sessions[u]
      BY <2>1
    <3> QED
      BY <2>3, <3>1, <3>2, <3>3
  <2> QED
    BY <2>1, <2>4, <2>5, <2>6, <2>7 DEF SessionsExact
<1> QED
  BY <1>1, <1>2, <1>3, <1>4

\* A token expires, the node restarts, or the server is started or stopped.
LEMMA OtherAuthStep ==
    ASSUME AuthInv,
           Expire \/ Restart \/ \E s \in Starters : StartServer(s) \/ Listen(s) \/ StopServer(s) \/ Shutdown(s)
    PROVE  AuthInv'
<1> USE ServerAssumption DEF AuthInv, AuthTypes
<1>1. CASE Restart
  <2>1. PICK lost \in SUBSET (revoked \ durable) : revoked' = revoked \ lost
    BY Zenon, <1>1 DEF Restart
  <2>2. /\ req' = [r \in Reqs |-> IF req[r] = "new" THEN "new" ELSE "end"]
        /\ sessions' = [t \in Tokens |-> {}] /\ cancelled' = {} /\ mu' = Nobody /\ revoke' = NoRevoke
        /\ UNCHANGED <<durable, acked, listening, closed>>
    BY <1>1 DEF Restart, server
  <2>3. AuthTypes' /\ RevokeOK' /\ StoppedIsClosed'
    BY <2>1, <2>2 DEF RevokeOK, StoppedIsClosed, NoRevoke, Places, Early
  <2>4. MutexHeld' /\ CancelledOK' /\ SessionsExact'
    BY <2>2 DEF MutexHeld, CancelledOK, SessionsExact, NoRevoke
  <2> QED
    BY <2>3, <2>4
<1>2. ASSUME UNCHANGED <<req, mu, sessions, cancelled, revoked, durable, acked, revoke>>,
             listening' \in BOOLEAN, closed' \in BOOLEAN, StoppedIsClosed'
      PROVE  AuthInv'
  BY <1>2 DEF MutexHeld, RevokeOK, CancelledOK, SessionsExact
<1>3. CASE Expire
  BY <1>2, <1>3 DEF Expire, StoppedIsClosed, server
<1>4. ASSUME NEW s \in Starters, StartServer(s) \/ Listen(s) \/ StopServer(s) \/ Shutdown(s)
      PROVE  AuthInv'
  <2>1. UNCHANGED <<req, mu, sessions, cancelled, revoked, durable, acked, revoke>>
    BY <1>4 DEF StartServer, Listen, StopServer, Shutdown, auth
  <2>2. CASE StartServer(s) \/ StopServer(s)
    BY <1>2, <2>1, <2>2 DEF StartServer, StopServer, StoppedIsClosed
  <2>3. CASE Shutdown(s)
    BY Zenon, <1>2, <2>1, <2>3 DEF Shutdown, StoppedIsClosed
  <2>4. CASE Listen(s)
    <3>1. closed' = closed /\ (listening' = listening \/ listening' = ~closed) /\ closed \in BOOLEAN /\ listening \in BOOLEAN
      BY <2>4 DEF Listen
    <3>2. CASE closed = TRUE
      BY <1>2, <2>1, <3>1, <3>2 DEF StoppedIsClosed
    <3>3. CASE closed = FALSE
      BY Zenon, <1>2, <2>1, <3>1, <3>3 DEF StoppedIsClosed
    <3> QED
      BY Zenon, <3>1, <3>2, <3>3
  <2> QED
    BY <1>4, <2>2, <2>3, <2>4
<1> QED
  BY <1>1, <1>3, <1>4

-----------------------------------------------------------------------------
\* Steps that leave the limiters alone, and let no further request pass one, keep the limits of
\* the rate.
LEMMA RateKept ==
    ASSUME LimitInv, req' \in [Reqs -> Places], UNCHANGED <<mine, limiters, used, made>>,
           \A r \in Reqs : /\ req'[r] \in {"new", "add"} => mine[r] = 0
                           /\ req'[r] = "allow" => mine[r] # 0
                           /\ mine[r] # 0 /\ req'[r] \notin {"add", "allow", "429"} => req[r] \notin {"add", "allow", "429"}
    PROVE  LimitersNumbered' /\ LimitersOK'
<1> USE ServerAssumption DEF LimitInv
<1>1. LimitersNumbered'
  BY DEF LimitersNumbered
<1>2. ASSUME NEW n \in 1..Cardinality(Reqs)
      PROVE  used[n] <= Burst /\ Cardinality(Passed(n)') <= used[n]
  <2>1. n # 0 /\ Passed(n)' \subseteq Passed(n) /\ Passed(n) \subseteq Reqs
    BY FS_CardinalityType DEF Passed
  <2>2. IsFiniteSet(Passed(n))
    BY <2>1, FS_Subset
  <2>3. Cardinality(Passed(n)') <= Cardinality(Passed(n)) /\ Cardinality(Passed(n)) \in Nat /\ Cardinality(Passed(n)') \in Nat
    BY <2>1, <2>2, FS_Subset, FS_CardinalityType
  <2>4. used[n] <= Burst /\ Cardinality(Passed(n)) <= used[n] /\ used[n] \in Nat
    BY Zenon DEF LimitersOK, LimitTypes
  <2> QED
    BY <2>3, <2>4
<1>3. Cardinality(IPs) <= CacheSize => \A r \in Reqs : mine[r] # 0 => mine[r] = limiters[IP[r]]
  BY DEF LimitersOK
<1> QED
  BY <1>1, <1>2, <1>3, Zenon DEF LimitersOK

\* A request that has passed its limiter goes on, from inside to inside the semaphore.
LEMMA InsideStep ==
    ASSUME LimitInv, NEW r \in Reqs, NEW p \in {"locked", "401", "serve", "release"}, req[r] \in Inside,
           req' = [req EXCEPT ![r] = p], UNCHANGED limits
    PROVE  LimitInv'
<1> USE ServerAssumption DEF LimitInv, LimitTypes, limits
<1>1. req' \in [Reqs -> Places] /\ req'[r] = p /\ \A q \in Reqs : q # r => req'[q] = req[q]
  BY DEF Places, Inside
<1>2. \A q \in Reqs : /\ req'[q] \in {"new", "add"} => mine[q] = 0
                      /\ req'[q] = "allow" => mine[q] # 0
                      /\ mine[q] # 0 /\ req'[q] \notin {"add", "allow", "429"} => req[q] \notin {"add", "allow", "429"}
  BY <1>1 DEF Inside, LimitersNumbered
<1>3. LimitersNumbered' /\ LimitersOK'
  BY <1>1, <1>2, RateKept
<1>4. {q \in Reqs : req'[q] \in Inside} = {q \in Reqs : req[q] \in Inside}
  BY <1>1 DEF Inside
<1> QED
  BY Zenon, <1>1, <1>3, <1>4 DEF PlacesHeld

\* A request leaves, and gives its place back.
LEMMA ReleaseStep ==
    ASSUME LimitInv, NEW r \in Reqs, Release(r)
    PROVE  LimitInv'
<1> USE ServerAssumption DEF LimitInv, LimitTypes
<1>1. /\ req' \in [Reqs -> Places] /\ req'[r] = "end" /\ \A q \in Reqs : q # r => req'[q] = req[q]
      /\ req[r] \in {"release", "401"} /\ UNCHANGED <<mine, limiters, used, made>> /\ sem' = sem - 1
  BY DEF Release, Places
<1>2. \A q \in Reqs : /\ req'[q] \in {"new", "add"} => mine[q] = 0
                      /\ req'[q] = "allow" => mine[q] # 0
                      /\ mine[q] # 0 /\ req'[q] \notin {"add", "allow", "429"} => req[q] \notin {"add", "allow", "429"}
  BY <1>1 DEF LimitersNumbered
<1>3. LimitersNumbered' /\ LimitersOK'
  BY <1>1, <1>2, RateKept
<1> DEFINE In == {q \in Reqs : req[q] \in Inside}
           After == {q \in Reqs : req'[q] \in Inside}
<1>4. After = In \ {r} /\ r \in In /\ In \subseteq Reqs
  BY <1>1 DEF Inside
<1>5. IsFiniteSet(In)
  BY <1>4, FS_Subset
<1> HIDE DEF In, After
<1>6. Cardinality(In \ {r}) = Cardinality(In) - 1 /\ Cardinality(In \ {r}) \in Nat /\ Cardinality(In) \in Nat
  BY <1>4, <1>5, FS_RemoveElement, FS_CardinalityType
<1>7. sem = Cardinality(In) /\ sem <= MaxConns
  BY DEF PlacesHeld, In
<1>8. sem' \in Nat /\ sem' <= MaxConns /\ sem' = Cardinality(After)
  BY <1>1, <1>4, <1>6, <1>7
<1> QED
  BY <1>1, <1>3, <1>8 DEF PlacesHeld, After

\* connLimit takes a place, or refuses the request.
LEMMA ConnLimitStep ==
    ASSUME LimitInv, NEW r \in Reqs, connLimit(r)
    PROVE  LimitInv'
<1> USE ServerAssumption DEF LimitInv, LimitTypes
<1>1. PICK p \in {"serve", "verify", "503"} :
         /\ req' = [req EXCEPT ![r] = p]
         /\ IF sem < MaxConns THEN sem' = sem + 1 /\ p # "503" ELSE sem' = sem /\ p = "503"
  BY DEF connLimit
<1>2. /\ req' \in [Reqs -> Places] /\ req'[r] = p /\ \A q \in Reqs : q # r => req'[q] = req[q]
      /\ req[r] = "conn" /\ UNCHANGED <<mine, limiters, used, made>>
  BY <1>1 DEF connLimit, Places, Inside
<1>3. \A q \in Reqs : /\ req'[q] \in {"new", "add"} => mine[q] = 0
                      /\ req'[q] = "allow" => mine[q] # 0
                      /\ mine[q] # 0 /\ req'[q] \notin {"add", "allow", "429"} => req[q] \notin {"add", "allow", "429"}
  BY <1>2 DEF LimitersNumbered
<1>4. LimitersNumbered' /\ LimitersOK'
  BY <1>2, <1>3, RateKept
<1> DEFINE In == {q \in Reqs : req[q] \in Inside}
           After == {q \in Reqs : req'[q] \in Inside}
<1>5. /\ After = (IF p = "503" THEN In ELSE In \cup {r})
      /\ r \notin In /\ In \subseteq Reqs
  BY <1>2 DEF Inside
<1>6. IsFiniteSet(In)
  BY <1>5, FS_Subset
<1> HIDE DEF In, After
<1>7. Cardinality(In \cup {r}) = Cardinality(In) + 1 /\ Cardinality(In) \in Nat
  BY <1>5, <1>6, FS_AddElement, FS_CardinalityType
<1>8. sem = Cardinality(In) /\ sem <= MaxConns
  BY DEF PlacesHeld, In
<1>9. sem' \in Nat /\ sem' <= MaxConns /\ sem' = Cardinality(After)
  BY <1>1, <1>5, <1>7, <1>8
<1> QED
  BY <1>2, <1>4, <1>9 DEF PlacesHeld, After

\* cache.Get gives the request the limiter of its IP, if there is one.
LEMMA GetLimiterStep ==
    ASSUME LimitInv, NEW r \in Reqs, NEW l \in Nat, NEW p \in {"add", "allow"}, req[r] \in {"new", "add"},
           l = limiters[IP[r]], l = 0 <=> p = "add",
           req' = [req EXCEPT ![r] = p], mine' = [mine EXCEPT ![r] = l], UNCHANGED <<limiters, used, made, sem>>
    PROVE  LimitInv'
<1> USE ServerAssumption DEF LimitInv, LimitTypes
<1>1. /\ req' \in [Reqs -> Places] /\ req'[r] = p /\ \A q \in Reqs : q # r => req'[q] = req[q]
      /\ mine' \in [Reqs -> Nat] /\ mine'[r] = l /\ \A q \in Reqs : q # r => mine'[q] = mine[q]
      /\ mine[r] = 0 /\ IP[r] \in IPs
  BY DEF Places, Early, LimitersNumbered, IPs
<1> DEFINE Had == {q \in Reqs : mine[q] # 0}
           Have == {q \in Reqs : mine'[q] # 0}
<1>2. Had \subseteq Have /\ Have \subseteq Reqs
  BY <1>1
<1>3. IsFiniteSet(Have)
  BY <1>2, FS_Subset
<1>4. made <= Cardinality(Had)
  BY DEF LimitersNumbered
<1>5. made <= Cardinality(Have)
  <2> HIDE DEF Had, Have
  <2>1. Cardinality(Had) <= Cardinality(Have) /\ Cardinality(Had) \in Nat /\ Cardinality(Have) \in Nat
    BY <1>2, <1>3, FS_Subset, FS_CardinalityType
  <2> QED
    BY <1>4, <2>1
<1>6. \A q \in Reqs : /\ mine'[q] <= made
                      /\ req'[q] \in {"new", "add"} => mine'[q] = 0
                      /\ req'[q] = "allow" => mine'[q] # 0
  BY <1>1 DEF LimitersNumbered
<1>7. LimitersNumbered'
  BY <1>5, <1>6 DEF LimitersNumbered
<1>8. ASSUME NEW n \in 1..Cardinality(Reqs)
      PROVE  Passed(n)' = Passed(n)
  <2>1. n # 0
    BY FS_CardinalityType
  <2> QED
    BY <1>1, <2>1 DEF Passed
<1>9. LimitersOK'
  <2>1. \A n \in 1..Cardinality(Reqs) : used[n] <= Burst /\ Cardinality(Passed(n)') <= used[n]
    BY <1>8, Zenon DEF LimitersOK
  <2>2. Cardinality(IPs) <= CacheSize => \A q \in Reqs : mine'[q] # 0 => mine'[q] = limiters[IP[q]]
    BY <1>1 DEF LimitersOK
  <2> QED
    BY <2>1, <2>2, Zenon DEF LimitersOK
<1>10. {q \in Reqs : req'[q] \in Inside} = {q \in Reqs : req[q] \in Inside}
  BY <1>1 DEF Inside
<1> QED
  BY Zenon, <1>1, <1>7, <1>9, <1>10 DEF PlacesHeld

\* cache.PeekOrAdd: the request adds a limiter of its own, which may drop another one.
LEMMA AddLimiterStep ==
    ASSUME LimitInv, NEW r \in Reqs, req[r] = "add", limiters[IP[r]] = 0,
           req' = [req EXCEPT ![r] = "allow"], made' = made + 1, mine' = [mine EXCEPT ![r] = made + 1],
           IF Cardinality(Kept \cup {IP[r]}) <= CacheSize THEN limiters' = [limiters EXCEPT ![IP[r]] = made + 1]
           ELSE \E old \in Kept : limiters' = [limiters EXCEPT ![IP[r]] = made + 1, ![old] = 0],
           UNCHANGED <<used, sem>>
    PROVE  LimitInv'
<1> USE ServerAssumption DEF LimitInv, LimitTypes
<1>a. made' \in Nat
  OBVIOUS
<1>b. req' \in [Reqs -> Places] /\ req'[r] = "allow" /\ \A q \in Reqs : q # r => req'[q] = req[q]
  BY DEF Places, Early
<1>c. mine' \in [Reqs -> Nat] /\ mine'[r] = made' /\ \A q \in Reqs : q # r => mine'[q] = mine[q]
  BY <1>a
<1>d. mine[r] = 0 /\ IP[r] \in IPs
  BY DEF LimitersNumbered, IPs
<1>1. /\ req' \in [Reqs -> Places] /\ req'[r] = "allow" /\ \A q \in Reqs : q # r => req'[q] = req[q]
      /\ made' \in Nat /\ mine' \in [Reqs -> Nat] /\ mine'[r] = made' /\ \A q \in Reqs : q # r => mine'[q] = mine[q]
      /\ mine[r] = 0 /\ IP[r] \in IPs
  BY <1>a, <1>b, <1>c, <1>d, Zenon
<1>2. /\ limiters' \in [IPs -> Nat] /\ \A i \in IPs : limiters'[i] <= made'
      /\ Cardinality(Kept \cup {IP[r]}) <= CacheSize =>
             limiters'[IP[r]] = made' /\ \A i \in IPs : i # IP[r] => limiters'[i] = limiters[i]
  <2> DEFINE m == made + 1
             full == ~(Cardinality(Kept \cup {IP[r]}) <= CacheSize)
  <2>a. made' = m /\ m \in Nat /\ (\A i \in IPs : limiters[i] <= m) /\ limiters \in [IPs -> Nat] /\ IP[r] \in IPs
    BY <1>1 DEF LimitersNumbered
  <2>1. CASE ~full
    <3>1. limiters' = [limiters EXCEPT ![IP[r]] = m]
      BY <2>1
    <3> HIDE DEF m, full
    <3>2. limiters' \in [IPs -> Nat] /\ limiters'[IP[r]] = m /\ \A i \in IPs : i # IP[r] => limiters'[i] = limiters[i]
      BY <2>a, <3>1
    <3>3. ASSUME NEW i \in IPs PROVE limiters'[i] <= m
      <4>1. m <= m
        BY <2>a
      <4>2. limiters'[i] = m \/ limiters'[i] = limiters[i]
        BY <3>2, Zenon
      <4> QED
        BY <2>a, <4>1, <4>2, Zenon
    <3> QED
      BY <2>a, <3>2, <3>3, Zenon
  <2>2. CASE full
    <3>1. PICK old \in Kept : limiters' = [limiters EXCEPT ![IP[r]] = m, ![old] = 0]
      BY <2>2
    <3>2. old \in IPs
      BY DEF Kept
    <3> HIDE DEF m
    <3>3. limiters' \in [IPs -> Nat] /\ \A i \in IPs : limiters'[i] \in {limiters[i], m, 0}
      BY <2>a, <3>1, <3>2
    <3>4. ASSUME NEW i \in IPs PROVE limiters'[i] <= m
      <4>1. m <= m /\ 0 <= m
        BY <2>a
      <4>2. limiters'[i] = m \/ limiters'[i] = limiters[i] \/ limiters'[i] = 0
        BY <3>3, Zenon
      <4> QED
        BY <2>a, <4>1, <4>2, Zenon
    <3> QED
      BY <2>2, <2>a, <3>3, <3>4, Zenon
  <2> QED
    BY <2>1, <2>2
<1>3. Cardinality(IPs) <= CacheSize => Cardinality(Kept \cup {IP[r]}) <= CacheSize
  <2>1. Kept \cup {IP[r]} \subseteq IPs
    BY <1>1 DEF Kept
  <2>2. IsFiniteSet(IPs)
    <3> DEFINE f == [q \in Reqs |-> IP[q]]
    <3>1. f \in [Reqs -> IPs] /\ \A i \in IPs : \E q \in Reqs : f[q] = i
      BY DEF IPs
    <3>2. f \in Surjection(Reqs, IPs)
      BY <3>1, Zenon DEF Surjection
    <3> QED
      BY <3>2, FS_Surjection
  <2>3. Cardinality(Kept \cup {IP[r]}) <= Cardinality(IPs) /\ Cardinality(Kept \cup {IP[r]}) \in Nat /\ Cardinality(IPs) \in Nat
    BY <2>1, <2>2, FS_Subset, FS_CardinalityType
  <2> QED
    BY <2>3
<1> DEFINE Had == {q \in Reqs : mine[q] # 0}
           Have == {q \in Reqs : mine'[q] # 0}
<1>4. made' <= Cardinality(Have)
  <2>1. Have = Had \cup {r} /\ r \notin Had /\ Had \subseteq Reqs
    BY <1>1
  <2>2. IsFiniteSet(Had)
    BY <2>1, FS_Subset
  <2>3. made <= Cardinality(Had)
    BY DEF LimitersNumbered
  <2> HIDE DEF Had, Have
  <2>4. Cardinality(Have) = Cardinality(Had) + 1 /\ Cardinality(Had) \in Nat
    BY <2>1, <2>2, FS_AddElement, FS_CardinalityType
  <2> QED
    BY <2>3, <2>4
<1>5. \A q \in Reqs : /\ mine'[q] <= made'
                      /\ req'[q] \in {"new", "add"} => mine'[q] = 0
                      /\ req'[q] = "allow" => mine'[q] # 0
  BY <1>1 DEF LimitersNumbered
<1>6. LimitersNumbered'
  BY <1>2, <1>4, <1>5 DEF LimitersNumbered
<1>7. ASSUME NEW n \in 1..Cardinality(Reqs)
      PROVE  Passed(n)' = Passed(n)
  <2>1. n # 0
    BY FS_CardinalityType
  <2> QED
    BY <1>1, <2>1 DEF Passed
<1>8. LimitersOK'
  <2>1. \A n \in 1..Cardinality(Reqs) : used[n] <= Burst /\ Cardinality(Passed(n)') <= used[n]
    BY <1>7, Zenon DEF LimitersOK
  <2>2. ASSUME Cardinality(IPs) <= CacheSize, NEW q \in Reqs, mine'[q] # 0
        PROVE  mine'[q] = limiters'[IP[q]]
    <3>1. limiters'[IP[r]] = made' /\ \A i \in IPs : i # IP[r] => limiters'[i] = limiters[i]
      BY <1>2, <1>3, <2>2
    <3>2. CASE q = r
      BY <1>1, <3>1, <3>2
    <3>3. CASE q # r
      <4>1. mine[q] # 0 /\ mine[q] = limiters[IP[q]] /\ IP[q] \in IPs
        BY <1>1, <2>2, <3>3 DEF LimitersOK, IPs
      <4> QED
        BY <1>1, <3>1, <3>3, <4>1
    <3> QED
      BY <3>2, <3>3
  <2> QED
    BY <2>1, <2>2, Zenon DEF LimitersOK
<1>9. {q \in Reqs : req'[q] \in Inside} = {q \in Reqs : req[q] \in Inside}
  BY <1>1 DEF Inside
<1> QED
  BY Zenon, <1>1, <1>2, <1>6, <1>8, <1>9 DEF PlacesHeld

\* limiter.Allow counts the request and lets it pass, or refuses it.
LEMMA AllowStep ==
    ASSUME LimitInv, NEW r \in Reqs, Allow(r)
    PROVE  LimitInv'
<1> USE ServerAssumption DEF LimitInv, LimitTypes
<1> DEFINE l == mine[r]
           Had == {q \in Reqs : mine[q] # 0}
<1>1. l \in 1..Cardinality(Reqs)
  <2>1. Had \subseteq Reqs
    OBVIOUS
  <2>2. Cardinality(Had) <= Cardinality(Reqs) /\ Cardinality(Had) \in Nat /\ Cardinality(Reqs) \in Nat
    BY <2>1, FS_Subset, FS_CardinalityType
  <2>3. made <= Cardinality(Had) /\ l <= made /\ l # 0 /\ l \in Nat
    BY DEF Allow, LimitersNumbered
  <2> QED
    BY <2>2, <2>3
<1>2. PICK p \in {"conn", "429"} :
         /\ req[r] = "allow" /\ req' = [req EXCEPT ![r] = p] /\ UNCHANGED <<mine, limiters, made, sem>>
         /\ p = "conn" => used[l] < Burst /\ used' = [used EXCEPT ![l] = @ + 1]
         /\ p = "429" => used' = used
  BY DEF Allow
<1>3. req' \in [Reqs -> Places] /\ req'[r] = p /\ \A q \in Reqs : q # r => req'[q] = req[q]
  BY <1>2 DEF Places, Early
<1>4. LimitersNumbered'
  BY <1>2, <1>3 DEF LimitersNumbered
<1>5. used' \in [1..Cardinality(Reqs) -> Nat]
  <2>1. CASE p = "conn"
    BY <1>1, <1>2, <2>1
  <2>2. CASE p = "429"
    BY <1>2, <2>2
  <2> QED
    BY <2>1, <2>2
<1>6. ASSUME NEW n \in 1..Cardinality(Reqs)
      PROVE  used'[n] <= Burst /\ Cardinality(Passed(n)') <= used'[n]
  <2>1. used[n] <= Burst /\ Cardinality(Passed(n)) <= used[n] /\ used[n] \in Nat
    BY Zenon DEF LimitersOK
  <2>2. CASE p = "429" \/ n # l
    <3>1. Passed(n)' = Passed(n)
      BY <1>2, <1>3, <2>2 DEF Passed
    <3>2. used'[n] = used[n]
      BY Zenon, <1>1, <1>2, <2>2
    <3> QED
      BY <2>1, <3>1, <3>2
  <2>3. CASE p = "conn" /\ n = l
    <3>1. Passed(n)' = Passed(n) \cup {r} /\ r \notin Passed(n) /\ Passed(n) \subseteq Reqs
      BY <1>2, <1>3, <2>3 DEF Passed
    <3>2. IsFiniteSet(Passed(n))
      BY <3>1, FS_Subset
    <3>3. Cardinality(Passed(n)') = Cardinality(Passed(n)) + 1 /\ Cardinality(Passed(n)) \in Nat
      BY <3>1, <3>2, FS_AddElement, FS_CardinalityType
    <3>4. used'[n] = used[n] + 1 /\ used[n] < Burst
      BY Zenon, <1>1, <1>2, <2>3
    <3> QED
      BY <2>1, <3>3, <3>4
  <2> QED
    BY <2>2, <2>3
<1>7. Cardinality(IPs) <= CacheSize => \A q \in Reqs : mine'[q] # 0 => mine'[q] = limiters'[IP[q]]
  BY <1>2 DEF LimitersOK
<1>8. LimitersOK'
  BY <1>6, <1>7, Zenon DEF LimitersOK
<1>9. {q \in Reqs : req'[q] \in Inside} = {q \in Reqs : req[q] \in Inside}
  BY <1>2, <1>3 DEF Inside
<1> QED
  BY Zenon, <1>2, <1>3, <1>4, <1>5, <1>8, <1>9 DEF PlacesHeld

\* No request has passed a limiter, and none holds a place.
NoneInside ==
    /\ req \in [Reqs -> {"new", "end"}] /\ mine = [r \in Reqs |-> 0] /\ limiters = [i \in IPs |-> 0]
    /\ used = [n \in 1..Cardinality(Reqs) |-> 0] /\ made = 0 /\ sem = 0

\* How the server begins, and how it begins again after a restart.
LEMMA Fresh ==
    NoneInside => LimitInv
<1> SUFFICES ASSUME NoneInside PROVE LimitInv
  OBVIOUS
<1> USE ServerAssumption DEF NoneInside
<1>1. LimitTypes
  BY DEF LimitTypes, Places, Early
<1>2. Cardinality({}) = 0
  BY FS_EmptySet
<1>3. LimitersNumbered
  <2>1. {r \in Reqs : mine[r] # 0} = {}
    OBVIOUS
  <2>2. Cardinality({r \in Reqs : mine[r] # 0}) = 0
    BY <1>2, <2>1, Zenon
  <2>3. made <= Cardinality({r \in Reqs : mine[r] # 0})
    BY <2>2
  <2>4. \A r \in Reqs : mine[r] = 0 /\ req[r] # "allow"
    OBVIOUS
  <2>5. \A i \in IPs : limiters[i] <= made
    OBVIOUS
  <2> QED
    BY <2>3, <2>4, <2>5 DEF LimitersNumbered
<1>4. ASSUME NEW n \in 1..Cardinality(Reqs)
      PROVE  used[n] <= Burst /\ Cardinality(Passed(n)) <= used[n]
  <2>1. n # 0 /\ used[n] = 0
    BY FS_CardinalityType
  <2>2. Passed(n) = {}
    BY <2>1 DEF Passed
  <2> QED
    BY <1>2, <2>1, <2>2
<1>5. LimitersOK
  BY <1>4 DEF LimitersOK
<1>6. PlacesHeld
  <2>1. {r \in Reqs : req[r] \in Inside} = {}
    BY DEF Inside
  <2>2. Cardinality({r \in Reqs : req[r] \in Inside}) = 0
    BY <1>2, <2>1, Zenon
  <2> QED
    BY <2>2 DEF PlacesHeld
<1> QED
  BY <1>1, <1>3, <1>5, <1>6 DEF LimitInv

\* The invariant holds before the first request.
LEMMA InitServer ==
    ServerInit => ServerInv
<1> SUFFICES ASSUME ServerInit PROVE ServerInv
  OBVIOUS
<1> USE ServerAssumption DEF ServerInit
<1>1. AuthTypes
  BY Zenon DEF AuthTypes, NoRevoke, Places, Early
<1>2. MutexHeld /\ RevokeOK /\ CancelledOK /\ SessionsExact /\ StoppedIsClosed
  BY DEF MutexHeld, RevokeOK, CancelledOK, SessionsExact, StoppedIsClosed, NoRevoke
<1>3. req \in [Reqs -> {"new", "end"}]
  OBVIOUS
<1>4. LimitInv
  BY <1>3, Fresh DEF NoneInside
<1> QED
  BY <1>1, <1>2, <1>4 DEF ServerInv, AuthInv

\* A step of a request, from rateLimit to the end of its handler.
LEMMA HandleStep ==
    ASSUME ServerInv, NEW r \in Reqs, Handle(r)
    PROVE  ServerInv'
<1> USE DEF ServerInv
<1>1. CASE getLimiter(r)
  <2> DEFINE p == IF limiters[IP[r]] = 0 THEN "add" ELSE "allow"
  <2>1. /\ req[r] = "new" /\ req' = [req EXCEPT ![r] = p] /\ mine' = [mine EXCEPT ![r] = limiters[IP[r]]]
        /\ UNCHANGED <<limiters, used, made, sem>> /\ UNCHANGED <<auth, server>> /\ limiters[IP[r]] \in Nat
        /\ p \in {"add", "allow"} /\ (limiters[IP[r]] = 0 <=> p = "add")
    BY <1>1 DEF getLimiter, LimitInv, LimitTypes, IPs
  <2>2. LimitInv'
    BY Zenon, <2>1, GetLimiterStep
  <2> HIDE DEF p
  <2>3. p \in Places /\ req[r] \in Early /\ p \notin {"locked", "release", "verify", "serve"}
    BY <2>1 DEF Places, Early
  <2>4. AuthInv'
    BY Zenon, <2>1, <2>3, EarlyStep
  <2> QED
    BY <2>2, <2>4
<1>2. CASE PeekOrAdd(r)
  <2>1. /\ req[r] = "add" /\ req' = [req EXCEPT ![r] = "allow"] /\ UNCHANGED <<auth, server>>
        /\ UNCHANGED <<used, sem>> /\ limiters[IP[r]] \in Nat
    BY <1>2 DEF PeekOrAdd, LimitInv, LimitTypes, IPs
  <2>2. ASSUME limiters[IP[r]] # 0 PROVE LimitInv'
    BY Zenon, <1>2, <2>1, <2>2, GetLimiterStep DEF PeekOrAdd, peek
  <2>3. ASSUME limiters[IP[r]] = 0 PROVE LimitInv'
    BY Zenon, <1>2, <2>1, <2>3, AddLimiterStep DEF PeekOrAdd, peek
  <2>4. "allow" \in Places /\ req[r] \in Early
    BY Zenon, <2>1 DEF Places, Early
  <2>5. AuthInv'
    BY Zenon, <2>1, <2>4, EarlyStep
  <2>6. LimitInv'
    BY <2>2, <2>3
  <2> QED
    BY <2>5, <2>6
<1>3. CASE Allow(r)
  <2>1. PICK p \in {"conn", "429"} : req[r] = "allow" /\ req' = [req EXCEPT ![r] = p] /\ UNCHANGED <<auth, server>>
    BY <1>3 DEF Allow
  <2>2. p \in Places /\ req[r] \in Early /\ p \notin {"locked", "release", "verify", "serve"}
    BY <2>1 DEF Places, Early
  <2>3. AuthInv'
    BY Zenon, <2>1, <2>2, EarlyStep
  <2> QED
    BY <1>3, <2>3, AllowStep
<1>4. CASE connLimit(r)
  <2>1. PICK p \in {"serve", "verify", "503"} :
           /\ req[r] = "conn" /\ req' = [req EXCEPT ![r] = p] /\ UNCHANGED <<auth, server>>
           /\ p = "serve" => Token[r] = NoToken
           /\ p = "verify" => Token[r] \in Tokens
    BY <1>4 DEF connLimit, Tokens
  <2>2. p \in Places /\ req[r] \in Early /\ p \notin {"locked", "release"}
    BY <2>1 DEF Places, Early, Inside
  <2>3. AuthInv'
    BY Zenon, <2>1, <2>2, EarlyStep
  <2> QED
    BY <1>4, <2>3, ConnLimitStep
<1>5. CASE lockVerify(r) \/ VerifyAndRegister(r) \/ Served(r) \/ Release(r)
  <2>1. AuthInv'
    BY <1>5, AuthenticateStep
  <2>2. CASE Release(r)
    BY <2>1, <2>2, ReleaseStep
  <2>3. CASE lockVerify(r) \/ VerifyAndRegister(r) \/ Served(r)
    <3>1. PICK p \in {"locked", "401", "serve", "release"} : req' = [req EXCEPT ![r] = p]
      BY <2>3 DEF lockVerify, VerifyAndRegister, Served
    <3>2. req[r] \in Inside /\ UNCHANGED limits
      BY <2>3 DEF lockVerify, VerifyAndRegister, Served, Inside
    <3>3. LimitInv'
      BY Zenon, <3>1, <3>2, InsideStep
    <3> QED
      BY <2>1, <3>3
  <2> QED
    BY <1>5, <2>2, <2>3
<1> QED
  BY <1>1, <1>2, <1>3, <1>4, <1>5 DEF Handle

\* Every step keeps the invariant.
LEMMA NextServer ==
    ServerInv /\ [ServerNext]_serverVars => ServerInv'
<1> SUFFICES ASSUME ServerInv, [ServerNext]_serverVars PROVE ServerInv'
  OBVIOUS
<1> USE DEF ServerInv
<1>1. ASSUME NEW r \in Reqs, Handle(r) PROVE ServerInv'
  BY <1>1, HandleStep
<1>2. ASSUME UNCHANGED <<req, limits>> PROVE LimitInv'
  BY Zenon, <1>2 DEF limits, LimitInv, LimitTypes, LimitersNumbered, LimitersOK, PlacesHeld, Passed
<1>3. CASE lockRevoke \/ Put \/ Sync \/ Cancel
  <2>1. UNCHANGED <<req, limits>>
    BY <1>3 DEF lockRevoke, Put, Sync, Cancel
  <2> QED
    BY <1>2, <1>3, <2>1, RevokeStep
<1>4. CASE Expire \/ \E s \in Starters : StartServer(s) \/ Listen(s) \/ StopServer(s) \/ Shutdown(s)
  <2>1. UNCHANGED <<req, limits>>
    BY <1>4 DEF Expire, StartServer, Listen, StopServer, Shutdown
  <2> QED
    BY <1>2, <1>4, <2>1, OtherAuthStep
<1>5. CASE Restart
  <2>1. NoneInside'
    BY <1>5 DEF Restart, NoneInside
  <2>2. LimitInv'
    BY <2>1, Fresh, PTL
  <2> QED
    BY <1>5, <2>2, OtherAuthStep
<1>6. CASE UNCHANGED serverVars
  <2>1. LimitInv'
    BY <1>2, <1>6 DEF serverVars
  <2>2. AuthInv'
    BY Zenon, <1>6 DEF serverVars, auth, server, AuthInv, AuthTypes, MutexHeld, RevokeOK, CancelledOK, SessionsExact, StoppedIsClosed
  <2> QED
    BY <2>1, <2>2
<1> QED
  BY <1>1, <1>3, <1>4, <1>5, <1>6 DEF ServerNext

\* What the invariant says of the requests of an IP.
LEMMA BurstKept ==
    ASSUME ServerInv, Cardinality(IPs) <= CacheSize, NEW i \in IPs
    PROVE  Cardinality({r \in Reqs : IP[r] = i /\ mine[r] # 0 /\ req[r] \notin {"add", "allow", "429"}}) <= Burst
<1> USE ServerAssumption DEF ServerInv, LimitInv, LimitTypes
<1> DEFINE S == {r \in Reqs : IP[r] = i /\ mine[r] # 0 /\ req[r] \notin {"add", "allow", "429"}}
           n == limiters[i]
           Had == {q \in Reqs : mine[q] # 0}
<1>1. CASE S = {}
  <2>1. Cardinality(S) = 0
    BY <1>1, FS_EmptySet, Zenon
  <2> HIDE DEF S
  <2>2. Cardinality(S) <= Burst
    BY <2>1
  <2> QED
    BY <2>2, Zenon DEF S
<1>2. CASE S # {}
  <2>1. S \subseteq Passed(n) /\ Passed(n) \subseteq Reqs /\ n # 0
    BY <1>2 DEF LimitersOK, Passed
  <2>2. n \in 1..Cardinality(Reqs)
    <3>1. Had \subseteq Reqs
      OBVIOUS
    <3>2. Cardinality(Had) <= Cardinality(Reqs) /\ Cardinality(Had) \in Nat /\ Cardinality(Reqs) \in Nat
      BY <3>1, FS_Subset, FS_CardinalityType
    <3>3. made <= Cardinality(Had) /\ n <= made /\ n \in Nat
      BY DEF LimitersNumbered
    <3> QED
      BY <2>1, <3>2, <3>3
  <2>3. used[n] <= Burst /\ Cardinality(Passed(n)) <= used[n] /\ used[n] \in Nat
    BY <2>2 DEF LimitersOK
  <2> HIDE DEF S, n
  <2>4. IsFiniteSet(Passed(n))
    BY <2>1, FS_Subset
  <2>5. Cardinality(S) <= Cardinality(Passed(n)) /\ Cardinality(S) \in Nat /\ Cardinality(Passed(n)) \in Nat
    BY <2>1, <2>4, FS_Subset, FS_CardinalityType
  <2>6. Cardinality(S) <= Burst
    BY <2>3, <2>5
  <2> QED
    BY <2>6 DEF S
<1> QED
  BY <1>1, <1>2

\* The invariant is strong enough.
LEMMA InvSound ==
    ServerInv => ServerSound
<1> SUFFICES ASSUME ServerInv PROVE ServerSound
  OBVIOUS
<1> USE DEF ServerInv, AuthInv
<1>1. ServerTypeOK /\ AckedIsRevoked
  BY DEF AuthTypes, ServerTypeOK, AckedIsRevoked
<1>2. RevokedIsCancelled
  BY DEF CancelledOK, MutexHeld, RevokedIsCancelled
<1>3. LimitsHold
  BY Zenon, BurstKept DEF LimitInv, PlacesHeld, LimitsHold, Inside
<1> QED
  BY <1>1, <1>2, <1>3 DEF ServerSound

\* For any requests, IPs, tokens and limits, and however requests, revocations, failed writes,
\* restarts and calls of Start and Stop meet: a revoked token serves no live request, a
\* revocation that was acknowledged outlives restarts, sessions are registered exactly while
\* they run, rates and concurrent requests stay within their limits, and a stopped server does
\* not listen.
THEOREM ServerIsSound == ServerSpec => []ServerSound
<1>1. ServerInit => ServerInv
  BY InitServer
<1>2. ServerInv /\ [ServerNext]_serverVars => ServerInv'
  BY NextServer
<1>3. ServerInv => ServerSound
  BY InvSound
<1> QED
  BY <1>1, <1>2, <1>3, PTL DEF ServerSpec

=============================================================================
