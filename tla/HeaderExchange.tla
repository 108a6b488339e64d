---------------------------- MODULE HeaderExchange ----------------------------
(***************************************************************************)
(* A bridge node's header exchange: RoutingExchange, which splits a range  *)
(* at an estimate of where the availability window begins and asks the     *)
(* network for the old part and the consensus node for the new one, and    *)
(* core's Exchange, which fetches heights in parallel, stores the blocks   *)
(* and falls back to headers of the network.                               *)
(*                                                                         *)
(* The consensus node and the p2p exchange are external: the node may have *)
(* pruned blocks outside the window and may fail, the p2p exchange returns *)
(* the beginning of a range or fails.                                      *)
(*                                                                         *)
(* A definition X_Wrong in front of X is a faulty variant of it, used to   *)
(* see that the properties notice the fault.                               *)
(***************************************************************************)
EXTENDS Naturals, Sequences, FiniteSets

CONSTANTS
    ChainLength,         \* the chain's height
    BlockTimes,          \* the times that blocks may have: functions from height to time
    BlockTime,           \* the time a block is expected to take
    AvailabilityWindow,  \* the length of the availability window
    MaxDelay,            \* bound: time that passes during a request
    FetchLimit           \* concurrencyLimit

ChainHeights == 1..ChainLength

ASSUME ExchangeAssumption ==
    /\ ChainLength \in Nat \ {0} /\ BlockTime \in Nat \ {0}
    /\ {AvailabilityWindow, MaxDelay, FetchLimit} \subseteq Nat
    /\ BlockTimes \subseteq [ChainHeights -> Nat]

VARIABLES
    time,      \* the time of each block
    now,
    kind,      \* a "range" of headers or "one"
    from, to,  \* the range from + 1 .. to - 1
    pc,
    cutoff,    \* where the range is split
    lo,        \* core is asked for lo + 1 .. to - 1
    headers,   \* the headers there are
    jobs,      \* the fetch of each height: "none", "wait", "run", "block", "header" or "err"
    stored,    \* heights whose block is stored
    faults,    \* history: something failed that could have worked
    err        \* the request has failed

exchangeVars == <<time, now, kind, from, to, pc, cutoff, lo, headers, jobs, stored, faults, err>>
request == <<time, kind, from, to>>

\* IsWithinWindow: a block of exactly the window's age is still inside.
InWindow(h) == time[h] + AvailabilityWindow >= now
HeaderRange(a, b) == [i \in 1..(b - a) |-> a + i]

Return(hs, e) == pc' = "done" /\ headers' = hs /\ err' = e

-----------------------------------------------------------------------------
calculateCutoffHeight_Wrong ==
    IF time[from] + AvailabilityWindow >= now THEN 0
    ELSE from + (now - (time[from] + AvailabilityWindow)) \div BlockTime + 1

\* The last height that is taken to be outside the window; 0 if from is inside.
calculateCutoffHeight ==
    IF time[from] + AvailabilityWindow >= now THEN 0
    ELSE from + (now - (time[from] + AvailabilityWindow)) \div BlockTime

\* RoutingExchange.GetRangeByHeight: invalid ranges, and who is asked.
route ==
    /\ pc = "start" /\ kind = "range"
    /\ \/ from >= to /\ Return(<<>>, TRUE)
       \/ /\ from < to
          /\ pc' = IF from + 1 > calculateCutoffHeight THEN "core" ELSE "p2p"
          /\ UNCHANGED <<headers, err>>
    /\ lo' = from /\ cutoff' = calculateCutoffHeight
    /\ UNCHANGED <<now, jobs, stored, faults>> /\ UNCHANGED request

p2pEnd == IF to <= cutoff + 1 THEN to ELSE cutoff + 1

\* The old part from the network, and the rest from core if there is one.
getFromP2P ==
    /\ pc = "p2p"
    /\ \/ Return(<<>>, TRUE) /\ faults' = TRUE /\ UNCHANGED lo
       \/ \E k \in from..(p2pEnd - 1) :
            /\ faults' = (faults \/ k < p2pEnd - 1)
            /\ headers' = HeaderRange(from, k) /\ lo' = k
            /\ pc' = IF to <= cutoff + 1 THEN "done" ELSE "core"
            /\ UNCHANGED err
    /\ UNCHANGED <<now, cutoff, jobs, stored>> /\ UNCHANGED request

Enqueue(H) ==
    /\ jobs' = [h \in ChainHeights |-> IF h \in H THEN "wait" ELSE "none"]
    /\ pc' = IF H = {} THEN "done" ELSE "fetch"

\* RoutingExchange.Get, GetByHeight and Head: one header, from core first.
getOne ==
    /\ pc = "start" /\ kind = "one"
    /\ Enqueue({to})
    /\ UNCHANGED <<now, cutoff, lo, headers, stored, faults, err>> /\ UNCHANGED request

\* Exchange.GetRangeByHeight.
getFromCore ==
    /\ pc = "core"
    /\ Enqueue((lo + 1)..(to - 1))
    /\ UNCHANGED <<now, cutoff, lo, headers, stored, faults, err>> /\ UNCHANGED request

-----------------------------------------------------------------------------
Job(h, s) == jobs' = [jobs EXCEPT ![h] = s]

\* errgroup.SetLimit.
Running == {h \in ChainHeights : jobs[h] = "run"}

startJob(h) ==
    /\ pc = "fetch" /\ jobs[h] = "wait"
    /\ Cardinality(Running) < FetchLimit
    /\ Job(h, "run")
    /\ UNCHANGED <<now, pc, cutoff, lo, headers, stored, faults, err>> /\ UNCHANGED request

\* Get, Head and getExtendedHeaderByHeight with their fallbacks: the block is stored if
\* it is inside the window; if the node has not got it, the network may have the header.
\* A store that fails is an error.  The panic on a block of another chain is left out.
fetchBlock(h) ==
    /\ pc = "fetch" /\ jobs[h] = "run"
    /\ \/ Job(h, "block") /\ stored' = (IF InWindow(h) THEN stored \cup {h} ELSE stored) /\ UNCHANGED faults
       \/ Job(h, "header") /\ UNCHANGED <<stored, faults>>
       \/ Job(h, "err") /\ faults' = TRUE /\ UNCHANGED stored
    /\ UNCHANGED <<now, pc, cutoff, lo, headers, err>> /\ UNCHANGED request

Requested == {h \in ChainHeights : jobs[h] # "none"}
Fetched == {h \in ChainHeights : jobs[h] \in {"block", "header"}}

\* The heights fetched without a gap, in order.
prefix ==
    LET ends == {k \in lo..(to - 1) : (lo + 1)..k \subseteq Fetched}
    IN  HeaderRange(lo, CHOOSE k \in ends : \A e \in ends : e <= k)

\* getRangeByHeight after Wait: everything, or what there is up to the first failure.
collect ==
    /\ pc = "fetch" /\ \A h \in ChainHeights : jobs[h] \notin {"wait", "run"}
    /\ IF kind = "one" THEN IF to \in Fetched THEN Return(<<to>>, FALSE) ELSE Return(<<>>, TRUE)
       ELSE IF Fetched # Requested /\ prefix = <<>> THEN Return(<<>>, TRUE)
       ELSE Return(headers \o prefix, FALSE)
    /\ UNCHANGED <<now, cutoff, lo, jobs, stored, faults>> /\ UNCHANGED request

tick ==
    /\ pc # "done" /\ now < time[ChainLength] + MaxDelay
    /\ now' = now + 1
    /\ UNCHANGED <<pc, cutoff, lo, headers, jobs, stored, faults, err>> /\ UNCHANGED request

ExchangeInit ==
    /\ time \in BlockTimes /\ now = time[ChainLength]
    /\ kind \in {"range", "one"} /\ from \in ChainHeights /\ to \in ChainHeights \cup {ChainLength + 1}
    /\ kind = "one" => to \in ChainHeights /\ from = to
    /\ pc = "start" /\ cutoff = 0 /\ lo = 0 /\ headers = <<>> /\ jobs = [h \in ChainHeights |-> "none"]
    /\ stored = {} /\ faults = FALSE /\ err = FALSE

ExchangeNext ==
    \/ route \/ getFromP2P \/ getFromCore \/ getOne \/ collect \/ tick
    \/ \E h \in ChainHeights : startJob(h) \/ fetchBlock(h)

ExchangeSpec == ExchangeInit /\ [][ExchangeNext]_exchangeVars

-----------------------------------------------------------------------------
(***************************************************************************)
(* Properties.                                                             *)
(***************************************************************************)
Returned == pc = "done" /\ ~err

\* Every variable has its type.
ExchangeTypeOK ==
    /\ pc \in {"start", "p2p", "core", "fetch", "done"} /\ lo \in 0..ChainLength
    /\ jobs \in [ChainHeights -> {"none", "wait", "run", "block", "header", "err"}]
    /\ stored \subseteq ChainHeights /\ {faults, err} \subseteq BOOLEAN

\* A range without an error is the heights from the first one asked for, in order
\* and without a gap, whichever of the parallel fetches fail, and also where the
\* part of the network meets the part of core.
Contiguous == Returned /\ kind = "range" => headers = HeaderRange(from, from + Len(headers)) /\ from + Len(headers) < to

\* If nothing fails, the whole range is returned.
Complete == Returned /\ kind = "range" /\ ~faults => Len(headers) = to - from - 1

\* From the range's first header to this one blocks took longer than BlockTime on average.
Slow(h) == time[h] > time[from] + (h - from) * BlockTime

\* calculateCutoffHeight places a height outside the window that is inside: it counts in
\* blocks of BlockTime, and a block of exactly the window's age as outside.  For these the
\* comment of RoutingExchange ("Inside window: uses core exchange") is not what happens.
Misjudged(h) == h <= cutoff /\ (Slow(h) \/ time[h] + AvailabilityWindow = now)

\* The header came with its block, or from the network because core had not got the block.
HasBlock(h) == h \in stored \/ jobs[h] = "header"

\* A header inside the window comes with its block, unless core has not got it; the estimate
\* of where the window begins fails only for blocks that came slower than expected and for
\* one of exactly the window's age, and never for a block that core was asked for.
WindowHasBlocks ==
    Returned => \A i \in 1..Len(headers) :
                    InWindow(headers[i]) => HasBlock(headers[i]) \/ Misjudged(headers[i])

\* A range of headers without an error has no gap, whichever of the parallel fetches fail,
\* is whole if nothing fails, and has its blocks inside the window, unless core has not got
\* them or the window's beginning was misjudged because blocks came slower than expected.
RangeSound == ExchangeTypeOK /\ Contiguous /\ Complete /\ WindowHasBlocks

-----------------------------------------------------------------------------
(***************************************************************************)
(* The inductive invariant behind the theorem of CoreProofs.               *)
(***************************************************************************)
RequestTypeOK ==
    /\ time \in BlockTimes /\ now \in Nat /\ kind \in {"range", "one"} /\ cutoff \in Nat
    /\ from \in ChainHeights /\ to \in 1..(ChainLength + 1) /\ (kind = "one" => to \in ChainHeights)

\* What the network is asked for had left the window when the range was split, or came slowly.
OldIsOut == \A h \in ChainHeights : from <= h /\ h <= cutoff => Slow(h) \/ time[h] + AvailabilityWindow <= now

\* The headers there are so far end where core goes on, not before the window begins.
SplitSound ==
    /\ from <= lo /\ lo < to /\ headers = HeaderRange(from, lo) /\ (lo = from \/ lo <= cutoff)
    /\ OldIsOut

\* What is asked of core, and what has become of it.
JobsSound ==
    /\ pc \in {"start", "p2p", "core"} => \A h \in ChainHeights : jobs[h] = "none"
    /\ pc = "fetch" => \A h \in ChainHeights :
                          jobs[h] # "none" <=> IF kind = "one" THEN h = to ELSE lo < h /\ h < to
    /\ \A h \in ChainHeights : /\ jobs[h] = "err" => faults
                               /\ jobs[h] = "block" /\ InWindow(h) => h \in stored

ExchangeInv ==
    /\ ExchangeTypeOK /\ RequestTypeOK /\ JobsSound
    /\ pc = "start" => headers = <<>>
    /\ pc \in {"p2p", "core"} => kind = "range"
    /\ pc \in {"p2p", "core", "fetch"} /\ kind = "range" => SplitSound
    /\ Contiguous /\ Complete /\ WindowHasBlocks

=============================================================================
