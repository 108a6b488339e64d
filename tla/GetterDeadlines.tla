--------------------------- MODULE GetterDeadlines ---------------------------
(***************************************************************************)
(* How the time of a request is divided (libs/utils/ctx.go): the cascade   *)
(* gives each getter a share of what is left, and the shrex getter gives   *)
(* each attempt a share of its own, once the manager has named a peer.  No *)
(* getter answers; a wait for a peer or a request to it ends after any     *)
(* part of its time or takes all of it.  Time is counted in whole units,   *)
(* and divided as durations are, rounding down.                            *)
(*                                                                         *)
(* A definition X_Wrong in front of X is a faulty variant of it, used to   *)
(* see that the properties notice the fault.                               *)
(***************************************************************************)
EXTENDS Naturals, Sequences

CONSTANTS
    Getters,            \* kinds of the getters, in order: "store" or "shrex"
    Deadlines,          \* times the caller may give
    NoDeadline,         \* the caller gives none; larger than any deadline
    CascadeTimeout,     \* cascadeGetters' minimum for a caller without a deadline
    MinAttempts,        \* minAttemptsCount
    MinRequestTimeout,  \* minRequestTimeout
    MaxAttempts         \* bound: attempts of a getter

VARIABLES
    total,     \* time the caller gave
    left,      \* what is left of it
    getter,    \* index of the getter that runs, 0 before the first
    given,     \* time the running getter was given, without its wait for the first peer
    gleft,     \* what is left of that
    attempt,   \* attempts of the running getter
    peer,      \* it has a peer for the next one
    waited,    \* history: it waited for a peer after its first attempt
    launched   \* history: the time given to each getter

vars == <<total, left, getter, given, gleft, attempt, peer, waited, launched>>

MinOf(a, b) == IF a <= b THEN a ELSE b

\* CtxWithSplitTimeout: the time of the new context.
CtxWithSplitTimeout_Wrong(time, factor, min) ==
    IF time = NoDeadline \/ factor <= 0 \/ time < min THEN time ELSE time \div factor

CtxWithSplitTimeout(time, factor, min) ==
    IF time = NoDeadline \/ factor <= 0 THEN IF min = 0 THEN time ELSE MinOf(time, min)
    ELSE IF time < min THEN time
    ELSE IF time \div factor < min THEN min
    ELSE time \div factor

Spend(d) ==
    /\ left' = IF left = NoDeadline THEN left ELSE left - d
    /\ gleft' = gleft - d

\* cascadeGetters: the next getter, unless the caller's time is up.
launch ==
    /\ getter < Len(Getters)
    /\ getter = 0 \/ (gleft = 0 /\ left > 0)
    /\ LET t == CtxWithSplitTimeout(left, Len(Getters) - getter, IF total = NoDeadline THEN CascadeTimeout ELSE 0)
       IN  gleft' = t /\ given' = t /\ launched' = Append(launched, t)
    /\ getter' = getter + 1 /\ attempt' = 0 /\ peer' = FALSE /\ waited' = FALSE
    /\ UNCHANGED <<total, left>>

\* The store's getter answers at once or after a while that it has not got the block.
storeFails ==
    /\ getter > 0 /\ gleft > 0 /\ Getters[getter] = "store"
    /\ \E d \in 0..gleft : /\ left' = IF left = NoDeadline THEN left ELSE left - d
                           /\ gleft' = 0
    /\ attempt' = attempt + 1
    /\ UNCHANGED <<total, getter, given, peer, waited, launched>>

\* getPeer: at once, or after any wait; the request ends when it takes all of the time.
getPeer ==
    /\ getter > 0 /\ gleft > 0 /\ Getters[getter] = "shrex" /\ ~peer
    /\ \E d \in 0..gleft :
           /\ Spend(d)
           /\ given' = IF attempt = 0 THEN given - d ELSE given
           /\ waited' = (waited \/ (attempt > 0 /\ d > 0))
    /\ peer' = TRUE
    /\ UNCHANGED <<total, getter, attempt, launched>>

\* executeRequest: an attempt with its share of the time.
shrexFails ==
    /\ getter > 0 /\ gleft > 0 /\ Getters[getter] = "shrex" /\ peer
    /\ LET n == attempt + 1
           t == CtxWithSplitTimeout(gleft, (MinAttempts + 1) - MinOf(n, MinAttempts + 1), MinRequestTimeout)
       IN  \E d \in 0..t : (d = t \/ attempt < MaxAttempts) /\ Spend(d)
    /\ attempt' = MinOf(attempt + 1, MaxAttempts) /\ peer' = FALSE
    /\ UNCHANGED <<total, getter, given, waited, launched>>

Init ==
    /\ total \in Deadlines \cup {NoDeadline} /\ left = total
    /\ getter = 0 /\ given = 0 /\ gleft = 0 /\ attempt = 0 /\ launched = <<>>
    /\ peer = FALSE /\ waited = FALSE

Next == launch \/ storeFails \/ getPeer \/ shrexFails

Spec == Init /\ [][Next]_vars

-----------------------------------------------------------------------------
(***************************************************************************)
(* Properties.                                                             *)
(***************************************************************************)

\* Every variable has its type; no getter is given more than is left.
TypeOK ==
    /\ left \in Nat /\ gleft \in Nat /\ left <= total
    /\ total # NoDeadline => gleft <= left
    /\ getter = Len(launched)

\* A getter that has, when it finds its first peer, enough time for MinAttempts short attempts
\* makes at least that many before it gives up: no slow peer uses up the time of all attempts.
\* A wait for a later peer is not bounded by a share of the time, and may use all of it up.
EnoughAttempts ==
    getter > 0 /\ Getters[getter] = "shrex" /\ gleft = 0 /\ ~waited /\ given >= MinAttempts * MinRequestTimeout =>
        attempt >= MinAttempts

\* Every getter has its turn, and the time it gets is at least its share of the
\* caller's time: a slow getter does not use up the time of the ones after it.
EveryGetterTried ==
    /\ total # NoDeadline => \A i \in 1..Len(launched) : launched[i] >= total \div Len(Getters)
    /\ total >= Len(Getters) /\ ~ENABLED Next => Len(launched) = Len(Getters)

=============================================================================
