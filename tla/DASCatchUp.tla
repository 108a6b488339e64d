------------------------------ MODULE DASCatchUp ------------------------------
(***************************************************************************)
(* The catch-up signal of the sampling coordinator (das/state.go):         *)
(* checkDone, run by the coordinator, and waitCatchUp, run by any number   *)
(* of API callers.  They share an atomic flag and a channel that is closed *)
(* when catch-up is done and replaced when it is no longer done.  Neither  *)
(* side takes a lock, and the channel field is read while it is written:   *)
(* every access is a step of its own.                                      *)
(*                                                                         *)
(* A definition X_Wrong in front of X is a faulty variant of it, used to   *)
(* see that the properties notice the fault.                               *)
(***************************************************************************)
EXTENDS Integers

CONSTANTS
    Waiters,   \* callers of waitCatchUp
    MaxChans   \* bound: how many channels are made

VARIABLES
    caughtUp,     \* nothing in progress or failed, and next > networkHead
    reported,     \* history: caughtUp when checkDone last returned
    catchUpFlag,  \* the atomic flag
    catchUpDoneCh,
    closed,       \* the channels closed so far
    coord,        \* where the coordinator is in checkDone
    wpc,          \* where a caller is in waitCatchUp
    wch,          \* the channel a caller waits on
    saw           \* history: callers during whose call catch-up was done

coordinator == <<caughtUp, reported, catchUpFlag, catchUpDoneCh, closed, coord>>
callers == <<wpc, wch>>
signalVars == <<coordinator, callers, saw>>

Calling == {w \in Waiters : wpc[w] # "idle"}

\* Catch-up counts as done from the coordinator step that completes it until
\* the end of the one that gives it new work.
Done == caughtUp \/ reported
Observe == saw' = saw \cup (IF Done' THEN Calling ELSE {})

\* A head or a result changes what is left to do; checkDone is called next.
work ==
    /\ coord = "idle"
    /\ catchUpDoneCh < MaxChans
    /\ caughtUp' \in BOOLEAN
    /\ coord' = "check"
    /\ UNCHANGED <<reported, catchUpFlag, catchUpDoneCh, closed, callers>>
    /\ Observe

checkDoneBy(branch) ==
    /\ coord = "check"
    /\ branch
    /\ UNCHANGED <<caughtUp, closed, callers>>
    /\ Observe

casDone ==
    /\ caughtUp /\ ~catchUpFlag          \* CompareAndSwap(false, true)
    /\ catchUpFlag' = TRUE
    /\ coord' = "close"
    /\ UNCHANGED <<reported, catchUpDoneCh>>

newCh_Wrong ==
    /\ ~caughtUp
    /\ catchUpDoneCh' = catchUpDoneCh + 1
    /\ coord' = "reset"
    /\ UNCHANGED <<reported, catchUpFlag>>

newCh ==
    /\ ~caughtUp /\ catchUpFlag
    /\ catchUpDoneCh' = catchUpDoneCh + 1
    /\ coord' = "reset"
    /\ UNCHANGED <<reported, catchUpFlag>>

sameAsBefore ==
    /\ caughtUp <=> catchUpFlag
    /\ coord' = "idle" /\ reported' = caughtUp
    /\ UNCHANGED <<catchUpFlag, catchUpDoneCh>>

CheckDone == checkDoneBy(casDone) \/ checkDoneBy(newCh) \/ checkDoneBy(sameAsBefore)

closeCh ==
    /\ coord = "close"
    /\ closed' = closed \cup {catchUpDoneCh}
    /\ coord' = "idle" /\ reported' = caughtUp
    /\ UNCHANGED <<caughtUp, catchUpFlag, catchUpDoneCh, callers>>
    /\ Observe

resetFlag ==
    /\ coord = "reset"
    /\ catchUpFlag' = FALSE
    /\ coord' = "idle" /\ reported' = caughtUp
    /\ UNCHANGED <<caughtUp, catchUpDoneCh, closed, callers>>
    /\ Observe

call(w) ==
    /\ wpc[w] = "idle"
    /\ wpc' = [wpc EXCEPT ![w] = "load"]
    /\ saw' = IF Done THEN saw \cup {w} ELSE saw \ {w}
    /\ UNCHANGED <<coordinator, wch>>

load(w) ==
    /\ wpc[w] = "load"
    /\ wpc' = [wpc EXCEPT ![w] = IF catchUpFlag THEN "returned" ELSE "read"]
    /\ UNCHANGED <<coordinator, wch, saw>>

readCh(w) ==
    /\ wpc[w] = "read"
    /\ wpc' = [wpc EXCEPT ![w] = "select"]
    /\ wch' = [wch EXCEPT ![w] = catchUpDoneCh]
    /\ UNCHANGED <<coordinator, saw>>

received(w) ==
    /\ wpc[w] = "select" /\ wch[w] \in closed
    /\ wpc' = [wpc EXCEPT ![w] = "returned"]
    /\ UNCHANGED <<coordinator, wch, saw>>

\* The call is over: it returned, or its context ended.
leave(w) ==
    /\ wpc[w] \in {"select", "returned"}
    /\ wpc' = [wpc EXCEPT ![w] = "idle"]
    /\ UNCHANGED <<coordinator, wch, saw>>

SignalInit ==
    /\ caughtUp = FALSE /\ reported = FALSE /\ catchUpFlag = FALSE
    /\ catchUpDoneCh = 1 /\ closed = {} /\ coord = "idle"
    /\ wpc = [w \in Waiters |-> "idle"]
    /\ wch = [w \in Waiters |-> 1]
    /\ saw = {}

SignalNext ==
    \/ work \/ CheckDone \/ closeCh \/ resetFlag
    \/ \E w \in Waiters : call(w) \/ load(w) \/ readCh(w) \/ received(w) \/ leave(w)

SignalSpec == SignalInit /\ [][SignalNext]_signalVars

\* The coordinator finishes the checkDone it is in; a caller whose channel is
\* closed receives from it.
SignalFairness ==
    /\ WF_signalVars(CheckDone \/ closeCh \/ resetFlag)
    /\ \A w \in Waiters : WF_signalVars(load(w) \/ readCh(w) \/ received(w))

-----------------------------------------------------------------------------
\* The channel is closed once: closing a closed channel is a panic.
NoDoubleClose == coord = "close" => catchUpDoneCh \notin closed

\* No caller is left on a channel that was replaced without being closed, the
\* one way to wait for ever although catch-up was done.
NoCallerStranded ==
    \A w \in Waiters : wpc[w] = "select" => wch[w] \in closed \cup {catchUpDoneCh}

\* A call returns without error only if catch-up was done at some moment of
\* the call.
ReturnsOnlyIfDone == \A w \in Waiters : wpc[w] = "returned" => w \in saw

\* The signal of catch-up: its channel is closed at most once, nobody waits on a channel
\* that was replaced without being closed, and waitCatchUp returns without an error only
\* when catch-up was done during the call.
CatchUpSignalSound == NoDoubleClose /\ NoCallerStranded /\ ReturnsOnlyIfDone

\* A caller waiting while catch-up is done and stays done returns.
CallersReleased ==
    \A w \in Waiters : (wpc[w] = "select" /\ [](caughtUp)) ~> (wpc[w] # "select")

-----------------------------------------------------------------------------
(***************************************************************************)
(* The inductive invariant; CoreProofs has the proof.                      *)
(***************************************************************************)

\* Every variable has its type.
SignalTypeOK ==
    /\ caughtUp \in BOOLEAN /\ reported \in BOOLEAN /\ catchUpFlag \in BOOLEAN
    /\ catchUpDoneCh \in Nat /\ closed \subseteq Nat
    /\ coord \in {"idle", "check", "close", "reset"}
    /\ wpc \in [Waiters -> {"idle", "load", "read", "select", "returned"}]
    /\ wch \in [Waiters -> Nat]
    /\ saw \subseteq Waiters

\* The flag says whether the channel is closed, except in the middle of checkDone; no
\* channel is closed before it is made.
FlagMatchesChannel ==
    /\ \A c \in closed : c <= catchUpDoneCh
    /\ coord \in {"idle", "check"} => (catchUpFlag <=> catchUpDoneCh \in closed)
    /\ coord = "close" => catchUpFlag /\ caughtUp /\ catchUpDoneCh \notin closed
    /\ coord = "reset" => catchUpFlag /\ catchUpDoneCh \notin closed

\* Whoever sees the flag set, or waits on a closed channel, was calling while catch-up
\* was done.
SignalIsTrue ==
    /\ catchUpFlag => reported \/ coord = "close"
    /\ Done => Calling \subseteq saw
    /\ \A w \in Waiters : wpc[w] = "select" /\ wch[w] \in closed => w \in saw

SignalInv == SignalTypeOK /\ FlagMatchesChannel /\ SignalIsTrue /\ NoCallerStranded /\ ReturnsOnlyIfDone

=============================================================================
