--------------------------------- MODULE Fibre ---------------------------------
(***************************************************************************)
(* fibre/service.go, fibre/account.go and fibre/stateclient: the hosts of  *)
(* the validators, the payments, and the escrow accounts.                  *)
(*                                                                         *)
(* GetHost keeps the last host it knows of each validator and asks the     *)
(* chain again at most once in refreshInterval; it takes hostMu before and *)
(* after the query but not during it, so calls overlap.  The module has    *)
(* one validator, whose host the chain may change or remove in any block.  *)
(* An answer of the core endpoint may be anything: fetchHostAt verifies it *)
(* against the AppHash of a head of the local store, which commits to the  *)
(* state of the block before.  Upload pays in a goroutine after it         *)
(* returned.  The fibre client and the app are external.                   *)
(***************************************************************************)
EXTENDS Naturals, Sequences, FiniteSets

CONSTANTS
    Hosts,          \* addresses the validator may register
    Callers,        \* calls of GetHost
    Interval,       \* refreshInterval
    MaxNow,         \* bound on the clock
    MaxHeight,      \* bound on the chain
    Conns           \* number of core connections of the account client

NoHost == "no host"

VARIABLES
    chain,          \* host that each block leaves registered
    now,            \* the clock
    lastHost,       \* c.lastHost of the validator
    lastRefresh,    \* c.lastRefresh of it, or -1
    call,           \* the calls of GetHost
    prefetch,       \* Start's prefetchHosts: "running" or "done", and its head
    asked,          \* times at which GetHost asked the chain
    doing,          \* the part of the service that is in use
    escrow,         \* a call of the account client
    upload          \* a call of Upload

vars == <<chain, now, lastHost, lastRefresh, call, prefetch, asked, doing, escrow, upload>>
hosts == <<chain, now, lastHost, lastRefresh, call, prefetch, asked, doing>>

Never == MaxNow + 1

Init ==
    /\ chain \in {<<h, h>> : h \in Hosts \cup {NoHost}}
    /\ now = 0 /\ lastHost = NoHost /\ lastRefresh = Never
    /\ call = [c \in Callers |-> [pc |-> "idle", fallback |-> NoHost, head |-> 0, answer |-> NoHost, verdict |-> "none", err |-> "none"]]
    /\ prefetch = [pc |-> "running", head |-> 2]
    /\ asked = <<>> /\ doing \in {"hosts", "escrow", "upload"}
    /\ escrow \in [op : {"account", "withdrawals", "deposit", "withdraw"}, pc : {"ask"}, next : {1}, resp : {"nil"}, seen : {{}}]
    /\ doing = "escrow" \/ escrow.op = "account"
    /\ upload = [pc |-> "blob", promise |-> FALSE, settled |-> FALSE, returned |-> "no"]

-----------------------------------------------------------------------------
(***************************************************************************)
(* The chain and the clock (external).                                     *)
(***************************************************************************)

newBlock ==
    /\ Len(chain) < MaxHeight /\ \E h \in Hosts \cup {NoHost} : chain' = Append(chain, h)
    /\ UNCHANGED <<now, lastHost, lastRefresh, call, prefetch, asked, doing, escrow, upload>>
tick ==
    /\ now < MaxNow /\ now' = now + 1
    /\ UNCHANGED <<chain, lastHost, lastRefresh, call, prefetch, asked, doing, escrow, upload>>

\* What an endpoint may answer, and what fetchHostAt makes of it: the proof is good only for the value
\* that the state of the block before the head has; a query may also fail or time out.
Answers == Hosts \cup {NoHost}
fetchHostAt(head, answer) ==
    IF answer # chain[head - 1] THEN "failed"
    ELSE IF answer = NoHost THEN "ErrNoFibreProviderInfo"
    ELSE "nil"

-----------------------------------------------------------------------------
(***************************************************************************)
(* GetHost.                                                                *)
(***************************************************************************)

fresh == lastRefresh # Never /\ now - lastRefresh < Interval

stamp_Wrong == UNCHANGED lastRefresh
stamp == lastRefresh' = now

\* Under hostMu: within the window the last host is served, if there is one; otherwise the window
\* is stamped before the query.
GetHost(c) ==
    /\ call[c].pc = "idle"
    /\ IF fresh
       THEN /\ call' = [call EXCEPT ![c].pc = "returned", ![c].answer = lastHost, ![c].fallback = lastHost,
                                    ![c].err = IF lastHost = NoHost THEN "no host known" ELSE "nil"]
            /\ UNCHANGED <<lastRefresh, asked>>
       ELSE /\ stamp /\ asked' = Append(asked, now)
            /\ call' = [call EXCEPT ![c].pc = "head", ![c].fallback = lastHost]
    /\ UNCHANGED <<chain, now, lastHost, prefetch, doing, escrow, upload>>

\* resolveHost: the local head is read first.
resolveHost(c) ==
    /\ call[c].pc = "head"
    /\ call' = [call EXCEPT ![c].pc = "query", ![c].head = Len(chain)]
    /\ UNCHANGED <<chain, now, lastHost, lastRefresh, prefetch, asked, doing, escrow, upload>>

fallsBack(c, err) == call[c].fallback # NoHost /\ err # "ErrNoFibreProviderInfo"
query(c) ==
    /\ call[c].pc = "query"
    /\ \E a \in Answers, failed \in BOOLEAN :
           LET err == IF failed THEN "failed" ELSE fetchHostAt(call[c].head, a)
           IN call' = [call EXCEPT ![c] =
                  IF err = "nil" THEN [@ EXCEPT !.pc = "store", !.verdict = err, !.answer = a]
                  ELSE IF fallsBack(c, err) THEN [@ EXCEPT !.pc = "returned", !.verdict = err, !.answer = call[c].fallback, !.err = "nil"]
                  ELSE [@ EXCEPT !.pc = "returned", !.verdict = err, !.err = err]]
    /\ UNCHANGED <<chain, now, lastHost, lastRefresh, prefetch, asked, doing, escrow, upload>>

\* hostMu again.
storeHost(c) ==
    /\ call[c].pc = "store"
    /\ lastHost' = call[c].answer
    /\ call' = [call EXCEPT ![c].pc = "returned", ![c].err = "nil"]
    /\ UNCHANGED <<chain, now, lastRefresh, prefetch, asked, doing, escrow, upload>>

\* Start's prefetchHosts asks about each validator of the head, and keeps what was verified.
prefetchHosts ==
    /\ prefetch.pc = "running" /\ prefetch' = [prefetch EXCEPT !.pc = "done"]
    /\ \/ \E a \in Answers : /\ fetchHostAt(prefetch.head, a) = "nil"
                             /\ lastHost' = a /\ lastRefresh' = now
       \/ UNCHANGED <<lastHost, lastRefresh>>
    /\ UNCHANGED <<chain, now, call, asked, doing, escrow, upload>>

-----------------------------------------------------------------------------
(***************************************************************************)
(* QueryEscrowAccount: one connection after the other.                     *)
(***************************************************************************)

keepsAsking(answer) == answer # "found"
QueryEscrowAccount ==
    /\ escrow.pc = "ask" /\ escrow.op = "account"
    /\ IF escrow.next > Conns
       THEN escrow' = [escrow EXCEPT !.pc = "returned"]
       ELSE \E answer \in {"error", "not found", "found"} :
                escrow' = [escrow EXCEPT !.next = @ + 1,
                                         !.resp = IF answer = "error" THEN @ ELSE answer,
                                         !.seen = @ \cup {<<escrow.next, answer>>},
                                         !.pc = IF keepsAsking(answer) THEN "ask" ELSE "returned"]
    /\ UNCHANGED <<hosts, upload>>

\* PendingWithdrawals takes the first answer.
PendingWithdrawals ==
    /\ escrow.pc = "ask" /\ escrow.op = "withdrawals"
    /\ IF escrow.next > Conns
       THEN escrow' = [escrow EXCEPT !.pc = "returned"]
       ELSE \E answer \in {"error", "found"} :
                escrow' = [escrow EXCEPT !.next = @ + 1,
                                         !.resp = IF answer = "error" THEN @ ELSE answer,
                                         !.seen = @ \cup {<<escrow.next, answer>>},
                                         !.pc = IF answer = "error" THEN "ask" ELSE "returned"]
    /\ UNCHANGED <<hosts, upload>>

\* Deposit and Withdraw: a message for the account that signs it, submitted once (see
\* StateAccess).
submitMessage(op, msg) ==
    /\ escrow.op = op
    /\ \/ escrow.pc = "ask" /\ escrow' = [escrow EXCEPT !.pc = "submit"]
       \/ escrow.pc = "ask" /\ escrow' = [escrow EXCEPT !.pc = "returned", !.resp = "no signer"]
       \/ escrow.pc = "submit" /\ \E r \in {"ok", "error"} :
              escrow' = [escrow EXCEPT !.pc = "returned", !.resp = r, !.next = @ + 1, !.seen = @ \cup {<<escrow.next, msg>>}]
    /\ UNCHANGED <<hosts, upload>>
Deposit == submitMessage("deposit", "MsgDepositToEscrow")
Withdraw == submitMessage("withdraw", "MsgRequestWithdrawal")

-----------------------------------------------------------------------------
(***************************************************************************)
(* Upload and Submit: the promise is made with the shards uploaded; Submit *)
(* settles it before it returns, Upload in a goroutine of its own.         *)
(***************************************************************************)

\* NewBlob, the key's name, and the upload with validators' signatures; each may fail.
uploadBlob ==
    /\ upload.pc = "blob"
    /\ \/ upload' = [upload EXCEPT !.pc = "promised", !.promise = TRUE]
       \/ upload' = [upload EXCEPT !.pc = "done", !.returned = "error"]
    /\ UNCHANGED <<hosts, escrow>>

\* Submit: MsgPayForFibre and its inclusion.
Submit ==
    /\ upload.pc = "promised"
    /\ \/ upload' = [upload EXCEPT !.pc = "done", !.settled = TRUE, !.returned = "ok"]
       \/ upload' = [upload EXCEPT !.pc = "done", !.returned = "error"]
    /\ UNCHANGED <<hosts, escrow>>

\* Upload returns; asyncSubmitPayForFibre goes on.
Upload ==
    /\ upload.pc = "promised"
    /\ upload' = [upload EXCEPT !.pc = "settling", !.returned = "uploaded"]
    /\ UNCHANGED <<hosts, escrow>>
asyncSubmitPayForFibre ==
    /\ upload.pc = "settling"
    /\ \E ok \in BOOLEAN : upload' = [upload EXCEPT !.pc = "done", !.settled = ok]
    /\ UNCHANGED <<hosts, escrow>>

Stays == now = MaxNow /\ UNCHANGED vars

Next ==
    \/ /\ doing = "hosts"
       /\ \/ newBlock \/ tick \/ prefetchHosts
          \/ \E c \in Callers : GetHost(c) \/ resolveHost(c) \/ query(c) \/ storeHost(c)
    \/ doing = "escrow" /\ (QueryEscrowAccount \/ PendingWithdrawals \/ Deposit \/ Withdraw)
    \/ doing = "upload" /\ (uploadBlob \/ Submit \/ Upload \/ asyncSubmitPayForFibre)
    \/ Stays

-----------------------------------------------------------------------------
(***************************************************************************)
(* Properties.                                                             *)
(***************************************************************************)

TypeOK ==
    /\ now \in 0..MaxNow /\ lastRefresh \in 0..MaxNow \cup {Never}
    /\ lastHost \in Hosts \cup {NoHost}

\* Whatever the endpoint answers, the node keeps only hosts that the chain registered at some
\* height.  A call returns the host of the head it has read, if its query was verified, and
\* otherwise the last host that was known when it was made, but not if its query has proved
\* that there is no host; that last host may be an old one, and an older answer may be stored
\* after a newer one.  The chain is asked at most once in an interval, however many calls overlap.
HostsSound ==
    /\ lastHost # NoHost => \E i \in DOMAIN chain : lastHost = chain[i]
    /\ \A c \in Callers : call[c].pc = "returned" /\ call[c].err = "nil" =>
           /\ call[c].answer # NoHost
           /\ call[c].answer = IF call[c].verdict = "nil" THEN chain[call[c].head - 1] ELSE call[c].fallback
    /\ \A c \in Callers : call[c].verdict = "ErrNoFibreProviderInfo" => call[c].err # "nil"
    /\ \A i, j \in DOMAIN asked : i < j => asked[j] - asked[i] >= Interval

\* QueryEscrowAccount says that there is no account only when no connection found one, and it and
\* PendingWithdrawals fail only when none answered.
EscrowExact ==
    escrow.pc = "returned" /\ escrow.op \in {"account", "withdrawals"} =>
        /\ escrow.resp = "found" <=> \E x \in escrow.seen : x[2] = "found"
        /\ escrow.resp # "found" => Cardinality(escrow.seen) = Conns
        /\ escrow.resp = "nil" => \A x \in escrow.seen : x[2] = "error"

\* A payment is settled only for a promise, and Submit says so only once it is.
PaymentsSound ==
    /\ upload.settled => upload.promise
    /\ upload.returned = "ok" => upload.settled

FibreSound == TypeOK /\ HostsSound /\ EscrowExact /\ PaymentsSound

=============================================================================
