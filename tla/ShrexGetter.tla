----------------------------- MODULE ShrexGetter -----------------------------
(***************************************************************************)
(* Getter.GetSamples (shrex_getter) below the CascadeGetter of a light     *)
(* node: one goroutine per sample asks one peer after another until a      *)
(* sample is verified or the context ends, tells the peer manager how each *)
(* peer did, and leaves its sample in the slice that all share.  The first *)
(* goroutine that fails cancels the others.                                *)
(*                                                                         *)
(* The outcome of a request is one of those that ShrexExchange shows; the  *)
(* cause of a failure is kept as history: the peer, the network between,   *)
(* or the end of a context.                                                *)
(*                                                                         *)
(* A definition X_Wrong in front of X is a faulty variant of it, used to   *)
(* see that the properties notice the fault.                               *)
(***************************************************************************)
EXTENDS Naturals, FiniteSets

CONSTANTS
    Requests,     \* the samples asked for
    MaxAttempts   \* bound: attempts per sample

VARIABLES
    pc,         \* where each goroutine is
    attempt,    \* its attempts
    outcome,    \* the outcome of its request to a peer, and who caused it
    samples,    \* its entry of the shared slice: "empty", "verified" or "unverified"
    failed,     \* its error, if it has returned one
    verdicts,   \* history: outcome and what the peer manager was told, by goroutine
    callerDone, \* the caller's context is done
    groupDone   \* the context of the errgroup is cancelled by an error

vars == <<pc, attempt, outcome, samples, failed, verdicts, callerDone, groupDone>>

NoOutcome == [kind |-> "none", cause |-> "none"]
ctxErr == callerDone \/ groupDone

\* What client.Get may return.  A bad payload is one that was read and fails
\* verification, a garbled one could not be read.
Outcomes ==
    [kind : {"good", "bad", "garbled", "notFound", "exhausted", "internal"}, cause : {"peer"}]
        \cup [kind : {"noStream", "cut"}, cause : {"network", "peer"}]
        \cup [kind : {"timeout"}, cause : {"timeout"}]
        \cup [kind : {"canceled"}, cause : {"caller"}]

-----------------------------------------------------------------------------

\* Before an attempt: the context, and a peer from the manager, which also waits
\* on the context.
getPeer(s) ==
    /\ pc[s] = "peer"
    /\ \/ /\ ~ctxErr /\ attempt[s] < MaxAttempts
          /\ pc' = [pc EXCEPT ![s] = "request"]
          /\ attempt' = [attempt EXCEPT ![s] = attempt[s] + 1]
          /\ UNCHANGED <<failed, groupDone>>
       \/ /\ ctxErr
          /\ pc' = [pc EXCEPT ![s] = "done"]
          /\ failed' = failed \cup {s} /\ groupDone' = TRUE
          /\ UNCHANGED attempt
    /\ UNCHANGED <<outcome, samples, verdicts, callerDone>>

\* client.Get: a payload that is read replaces what was in the slice.
request(s, o) ==
    /\ pc[s] = "request"
    /\ o.cause = "caller" => ctxErr
    /\ outcome' = [outcome EXCEPT ![s] = o]
    /\ samples' = [samples EXCEPT ![s] = IF o.kind = "good" THEN "verified"
                                         ELSE IF o.kind = "bad" THEN "unverified" ELSE samples[s]]
    /\ pc' = [pc EXCEPT ![s] = "handle"]
    /\ UNCHANGED <<attempt, failed, verdicts, callerDone, groupDone>>

\* executeRequest's switch: what the manager is told.
Verdict_Wrong(kind) ==
    CASE kind = "good" -> "noop"
      [] kind \in {"bad", "garbled", "cut"} -> "blacklist"
      [] kind = "notFound" -> "noPenalty"
      [] OTHER -> "cooldown"

Verdict(kind) ==
    CASE kind = "good" -> "noop"
      [] kind = "bad" -> "blacklist"
      [] ctxErr -> "noop"
      [] kind \in {"garbled", "cut"} -> "blacklist"
      [] kind = "notFound" -> "noPenalty"
      [] OTHER -> "cooldown"

handle(s) ==
    /\ pc[s] = "handle"
    /\ verdicts' = [verdicts EXCEPT ![s] = verdicts[s] \cup {<<outcome[s], Verdict(outcome[s].kind)>>}]
    /\ pc' = [pc EXCEPT ![s] = IF outcome[s].kind = "good" THEN "done" ELSE "peer"]
    /\ outcome' = [outcome EXCEPT ![s] = NoOutcome]
    /\ UNCHANGED <<attempt, samples, failed, callerDone, groupDone>>

cancel ==
    /\ ~callerDone /\ callerDone' = TRUE
    /\ UNCHANGED <<pc, attempt, outcome, samples, failed, verdicts, groupDone>>

Init ==
    /\ pc = [s \in Requests |-> "peer"] /\ attempt = [s \in Requests |-> 0]
    /\ outcome = [s \in Requests |-> NoOutcome] /\ samples = [s \in Requests |-> "empty"]
    /\ failed = {} /\ verdicts = [s \in Requests |-> {}] /\ callerDone = FALSE /\ groupDone = FALSE

Next ==
    \/ \E s \in Requests : getPeer(s) \/ handle(s) \/ \E o \in Outcomes : request(s, o)
    \/ cancel

Spec == Init /\ [][Next]_vars

\* Goroutines run on, requests have a timeout.
Fairness ==
    \A s \in Requests : WF_vars(getPeer(s)) /\ WF_vars(handle(s)) /\ WF_vars(\E o \in Outcomes : request(s, o))

-----------------------------------------------------------------------------
(***************************************************************************)
(* Results and properties.                                                 *)
(***************************************************************************)

returned == \A s \in Requests : pc[s] = "done"

cascade == IF failed = {} THEN samples ELSE [s \in Requests |-> "empty"]

\* Every variable has its type, and a goroutine that returned an error returned.
TypeOK ==
    /\ pc \in [Requests -> {"peer", "request", "handle", "done"}]
    /\ attempt \in [Requests -> 0..MaxAttempts]
    /\ outcome \in [Requests -> Outcomes \cup {NoOutcome}]
    /\ samples \in [Requests -> {"empty", "verified", "unverified"}]
    /\ \A s \in failed : s \in Requests /\ pc[s] = "done"
    /\ failed # {} <=> groupDone

\* Without an error every sample was retrieved and is verified.
SuccessVerified == returned /\ failed = {} => \A s \in Requests : samples[s] = "verified"

\* A light node's getter returns verified samples only, also when it fails half way.
LightVerified == returned => \A s \in Requests : cascade[s] \in {"empty", "verified"}

\* A peer is not held to account for a request that was cancelled, be it by the
\* caller or by another sample that failed.
CancelIsNoFault == \A s \in Requests : \A v \in verdicts[s] : v[1].cause = "caller" => v[2] = "noop"

\* When the caller gives up, GetSamples returns.
Returns == callerDone ~> returned

=============================================================================
