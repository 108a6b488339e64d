--------------------------- MODULE DASCoordinator ---------------------------
(***************************************************************************)
(* The sampling coordinator of the DASer (das/coordinator.go, state.go,    *)
(* worker.go, stats.go, checkpoint.go).  One goroutine, the coordinator,   *)
(* owns the sampling state and hands ranges of heights to worker           *)
(* goroutines; heads, results and stats requests reach it one at a time    *)
(* through the select of samplingCoordinator.run.                          *)
(*                                                                         *)
(* Abstractions: a header is its height; the outcome of sampling a height  *)
(* is chosen nondeterministically; a retryAttempt is reduced to whether    *)
(* its backoff has elapsed ("ready"), the maps failed and inRetry to their *)
(* keys.  Job ids are drawn from JobIds and reused once the job is gone;   *)
(* the code only relies on two running jobs having different ids.          *)
(*                                                                         *)
(* A definition X_Wrong in front of X is a faulty variant of it, used to   *)
(* see that the properties notice the fault.                               *)
(***************************************************************************)
EXTENDS Integers, FiniteSets

CONSTANTS
    MaxHeight,          \* bound: the highest header of the chain
    SamplingRange,      \* Parameters.SamplingRange
    ConcurrencyLimit,   \* Parameters.ConcurrencyLimit
    JobIds              \* ids of running jobs

ASSUME MaxHeightAssumption == MaxHeight \in Nat \ {0}
ASSUME SamplingRangeAssumption == SamplingRange \in Nat \ {0}
ASSUME ConcurrencyLimitAssumption == ConcurrencyLimit \in Nat \ {0}
ASSUME JobIdsAssumption == /\ IsFiniteSet(JobIds)
                           /\ Cardinality(JobIds) > 2 * ConcurrencyLimit

Heights == 1..MaxHeight

\* Nothing depends on which ids are taken: states that differ by a permutation of
\* them are the same to TLC.
JobSymmetry == {[i \in JobIds |-> f[i]] : f \in {g \in [JobIds -> JobIds] : \A i, j \in JobIds : g[i] = g[j] => i = j}}

VARIABLES
    pc,           \* where the coordinator goroutine is
    next,         \* coordinatorState.next: all lower heights were handed out
    networkHead,  \* coordinatorState.networkHead
    worker,       \* coordinatorState.inProgress and the state of each worker
    failed,       \* keys of coordinatorState.failed
    ready,        \* the failed heights whose backoff has elapsed
    inRetry,      \* keys of coordinatorState.inRetry
    catchUpDone,  \* coordinatorState.catchUpDone
    ctxDone,      \* the context of Start was cancelled
    snap,         \* worker states read so far by a stats request
    unread,       \* workers a stats request has still to read
    tail,         \* history: header store tail the coordinator started from
    settled       \* history: heights sampled, or found outside the window

state == <<next, networkHead, failed, ready, inRetry, catchUpDone>>
stats == <<snap, unread>>
vars == <<pc, worker, ctxDone, tail, settled, state, stats>>

(***************************************************************************)
(* Workers.  A worker holds its job and "pos", the next height its loop    *)
(* will sample; workerState.curr is the last height processed.  A slot     *)
(* without a job has an empty range.                                       *)
(***************************************************************************)
JobTypes == {"catchup", "recent", "retry"}

WorkerState == [jobType : JobTypes \cup {"none"}, from : Nat, to : Nat,
                pos : Nat, failed : SUBSET Heights, running : BOOLEAN]

NoWorker == [jobType |-> "none", from |-> 1, to |-> 0, pos |-> 1,
             failed |-> {}, running |-> FALSE]

newWorker(type, from, to) ==
    [jobType |-> type, from |-> from, to |-> to, pos |-> from,
     failed |-> {}, running |-> TRUE]

Active(w) == w.jobType # "none"
InProgress(ws) == {j \in JobIds : Active(ws[j])}
FreeIds == JobIds \ InProgress(worker)
Finished(w) == Active(w) /\ w.pos > w.to
Curr(w) == IF w.pos = w.from THEN w.from ELSE w.pos - 1

MinOf(S) == CHOOSE x \in S : \A y \in S : x <= y

concurrencyLimitReached ==
    Cardinality(InProgress(worker)) >= ConcurrencyLimit

recentJobsLimitReached ==
    Cardinality(InProgress(worker)) >= 2 * ConcurrencyLimit

(***************************************************************************)
(* checkDone is the last call of every step that can finish the catch-up:  *)
(* the flag ends up telling whether nothing is left to do.                 *)
(***************************************************************************)
checkDone_Wrong ==
    catchUpDone' = (failed' = {} /\ next' > networkHead')

checkDone ==
    catchUpDone' = ( /\ InProgress(worker') = {}
                     /\ failed' = {}
                     /\ next' > networkHead' )

(***************************************************************************)
(* Stats and checkpoints, from a snapshot s of the workers' states.        *)
(***************************************************************************)
StatsFailed(s) == failed \cup inRetry \cup UNION {s[j].failed : j \in JobIds}

LowestFailedOrInProgress_Wrong(s) ==
    MinOf({next} \cup failed \cup {Curr(s[j]) : j \in InProgress(s)})

LowestFailedOrInProgress(s) ==
    MinOf({next} \cup failed \cup (UNION {s[j].failed : j \in JobIds})
            \cup {Curr(s[j]) : j \in InProgress(s)})

SampledChainHead(s) == LowestFailedOrInProgress(s) - 1
CatchupHead == next - 1

NoRange == [from |-> 1, to |-> 0]
Resumed_Wrong(w) == w.jobType = "catchup"

Resumed(w) == \/ w.jobType = "catchup"
              \/ w.jobType = "recent" /\ Curr(w) <= CatchupHead

newCheckpoint(s) ==
    [SampleFrom  |-> CatchupHead + 1,
     NetworkHead |-> networkHead,
     Failed      |-> StatsFailed(s),
     Workers     |-> [j \in JobIds |-> IF Resumed(s[j])
                                       THEN [from |-> Curr(s[j]), to |-> s[j].to]
                                       ELSE NoRange]]

CheckpointRange == [from : Nat, to : Nat]
Checkpoint == [SampleFrom : Nat, NetworkHead : Nat, Failed : SUBSET Heights,
               Workers : [JobIds -> CheckpointRange]]

-----------------------------------------------------------------------------
(***************************************************************************)
(* Actions.                                                                *)
(***************************************************************************)
Idle ==
    /\ pc = "off"
    /\ next = 1 /\ networkHead = 0
    /\ worker = [j \in JobIds |-> NoWorker]
    /\ failed = {} /\ ready = {} /\ inRetry = {}
    /\ catchUpDone = FALSE
    /\ ctxDone = FALSE
    /\ snap = [j \in JobIds |-> NoWorker]
    /\ unread = {}

\* The coordinator resumes the checkpoint's state and workers before its loop.
run(cp) ==
    /\ pc = "off"
    /\ pc' = "loop"
    /\ next' = cp.SampleFrom
    /\ networkHead' = cp.NetworkHead
    /\ failed' = cp.Failed
    /\ ready' = cp.Failed
    /\ worker' = [j \in JobIds |->
                    IF cp.Workers[j].from <= cp.Workers[j].to
                    THEN newWorker("catchup", cp.Workers[j].from, cp.Workers[j].to)
                    ELSE NoWorker]
    /\ checkDone
    /\ UNCHANGED <<inRetry, ctxDone, stats, settled>>

RetryReady == failed \cap ready # {}

retryJob(j, h) ==
    /\ pc = "loop" /\ ~concurrencyLimitReached
    /\ h \in failed \cap ready
    /\ failed' = failed \ {h}
    /\ ready' = ready \ {h}
    /\ inRetry' = inRetry \cup {h}
    /\ worker' = [worker EXCEPT ![j] = newWorker("retry", h, h)]
    /\ UNCHANGED <<pc, next, networkHead, catchUpDone, ctxDone, stats, tail, settled>>

catchupTo == MinOf({next + SamplingRange - 1, networkHead})

nextAfterRecent_Wrong(h) == h + 1

nextAfterRecent(h) == IF next = h THEN next + 1 ELSE next

catchupJob(j) ==
    /\ pc = "loop" /\ ~concurrencyLimitReached
    /\ ~RetryReady
    /\ next <= networkHead
    /\ worker' = [worker EXCEPT ![j] = newWorker("catchup", next, catchupTo)]
    /\ next' = catchupTo + 1
    /\ UNCHANGED <<pc, networkHead, failed, ready, inRetry, catchUpDone,
                   ctxDone, stats, tail, settled>>

\* The scheduling loop ends at the limit or without a next job.
toSelect ==
    /\ pc = "loop"
    /\ concurrencyLimitReached \/ (~RetryReady /\ next > networkHead)
    /\ pc' = "select"
    /\ UNCHANGED <<worker, ctxDone, tail, settled, state, stats>>

\* case head := <-sc.updHeadCh
newHead(h) ==
    /\ pc = "select"
    /\ h > networkHead
    /\ pc' = "loop"
    /\ IF recentJobsLimitReached
       THEN UNCHANGED <<worker, next>>
       ELSE /\ \E j \in FreeIds :
                 worker' = [worker EXCEPT ![j] = newWorker("recent", h, h)]
            /\ next' = nextAfterRecent(h)
    /\ networkHead' = h
    /\ UNCHANGED <<failed, ready, inRetry>>
    /\ checkDone
    /\ UNCHANGED <<ctxDone, stats, tail, settled>>

\* A head that is not new changes nothing, but lets the loop look for jobs.
knownHead ==
    /\ pc = "select"
    /\ pc' = "loop"
    /\ UNCHANGED <<worker, ctxDone, tail, settled, state, stats>>

handleRecentOrCatchupResult(res) ==
    /\ failed' = (failed \ (res.from .. res.to)) \cup res.failed
    /\ ready' = ready \ (res.from .. res.to)
    /\ UNCHANGED inRetry

handleRetryResult_DropWrong(res) ==
    /\ UNCHANGED <<failed, ready>>
    /\ inRetry' = inRetry \ (res.from .. res.to)

handleRetryResult(res) ==
    /\ failed' = failed \cup res.failed
    /\ ready' = ready \ res.failed
    /\ inRetry' = inRetry \ (res.from .. res.to)

\* case res := <-sc.resultCh
handleResult(j) ==
    /\ pc = "select"
    /\ Finished(worker[j]) /\ worker[j].running
    /\ pc' = "loop"
    /\ worker' = [worker EXCEPT ![j] = NoWorker]
    /\ IF worker[j].jobType = "retry"
       THEN handleRetryResult(worker[j])
       ELSE handleRecentOrCatchupResult(worker[j])
    /\ UNCHANGED <<next, networkHead>>
    /\ checkDone
    /\ UNCHANGED <<ctxDone, stats, tail, settled>>

\* worker.run samples one height.  A height outside the sampling window counts
\* as sampled.
sampleOk(j) ==
    /\ worker[j].running /\ worker[j].pos <= worker[j].to
    /\ settled' = settled \cup {worker[j].pos}
    /\ worker' = [worker EXCEPT ![j].pos = @ + 1]
    /\ UNCHANGED <<pc, ctxDone, tail, state, stats>>

sampleErr(j) ==
    /\ worker[j].running /\ worker[j].pos <= worker[j].to
    /\ worker' = [worker EXCEPT ![j].pos = @ + 1,
                                ![j].failed = @ \cup {worker[j].pos}]
    /\ UNCHANGED <<pc, ctxDone, tail, settled, state, stats>>

\* Cancelled while sampling, or while sending the result: the job stays in
\* inProgress.
workerCanceled(j) ==
    /\ ctxDone /\ worker[j].running
    /\ worker' = [worker EXCEPT ![j].running = FALSE]
    /\ UNCHANGED <<pc, ctxDone, tail, settled, state, stats>>

backoffElapsed(h) ==
    /\ h \in failed \ ready
    /\ ready' = ready \cup {h}
    /\ UNCHANGED <<pc, next, networkHead, worker, failed, inRetry, catchUpDone,
                   ctxDone, stats, tail, settled>>

\* case wg := <-sc.waitCh: the coordinator is paused while the requester reads
\* its state, one worker lock at a time.
pause ==
    /\ pc = "select"
    /\ pc' = "paused"
    /\ unread' = InProgress(worker)
    /\ UNCHANGED <<worker, ctxDone, tail, settled, state, snap>>

getState(j) ==
    /\ pc = "paused"
    /\ j \in unread
    /\ snap' = [snap EXCEPT ![j] = worker[j]]
    /\ unread' = unread \ {j}
    /\ UNCHANGED <<pc, worker, ctxDone, tail, settled, state>>

StatsReady == pc = "paused" /\ unread = {}

unpause ==
    /\ StatsReady
    /\ pc' = "loop"
    /\ snap' = [j \in JobIds |-> NoWorker]
    /\ UNCHANGED <<worker, ctxDone, tail, settled, state, unread>>

cancel ==
    /\ pc # "off" /\ ~ctxDone
    /\ ctxDone' = TRUE
    /\ UNCHANGED <<pc, worker, tail, settled, state, stats>>

stopping ==
    /\ pc = "select" /\ ctxDone
    /\ pc' = "stopping"
    /\ UNCHANGED <<worker, ctxDone, tail, settled, state, stats>>

indicateDone ==
    /\ pc = "stopping"
    /\ \A j \in JobIds : ~worker[j].running
    /\ pc' = "done"
    /\ UNCHANGED <<worker, ctxDone, tail, settled, state, stats>>

Terminated == pc = "done" /\ UNCHANGED vars

CoordinatorStep ==
    \/ \E j \in FreeIds : catchupJob(j) \/ \E h \in Heights : retryJob(j, h)
    \/ toSelect
    \/ \E h \in Heights : newHead(h)
    \/ knownHead
    \/ \E j \in JobIds : handleResult(j)
    \/ stopping
    \/ indicateDone

WorkerStep ==
    \/ \E j \in JobIds : sampleOk(j) \/ sampleErr(j) \/ workerCanceled(j)
    \/ \E h \in Heights : backoffElapsed(h)

StatsStep == \E j \in JobIds : getState(j)

\* A coordinator on its own, started on a store without a checkpoint
\* (DASer.checkpoint, case ErrNotFound).
freshCheckpoint(t, head) ==
    [SampleFrom |-> t, NetworkHead |-> head, Failed |-> {},
     Workers |-> [j \in JobIds |-> NoRange]]

Init ==
    /\ Idle
    /\ tail \in Heights
    /\ settled = {}

Next ==
    \/ \E head \in tail..MaxHeight : run(freshCheckpoint(tail, head)) /\ UNCHANGED tail
    \/ CoordinatorStep
    \/ WorkerStep
    \/ pause \/ StatsStep \/ unpause
    \/ cancel
    \/ Terminated

Spec == Init /\ [][Next]_vars

\* Fairness.  The goroutines run on; Go's select and the iteration over the map
\* of failed heights pick at random among what is ready, so nothing that is
\* ready again and again is passed over for ever; stats are requested again and
\* again (the background store's ticker); and a height that is sampled again
\* and again is available in the end.
Fairness ==
    /\ WF_vars(toSelect)
    /\ WF_vars(\E j \in FreeIds : catchupJob(j))
    /\ \A h \in Heights :
         /\ SF_vars(\E j \in FreeIds : retryJob(j, h))
         /\ WF_vars(backoffElapsed(h))
         /\ SF_vars(\E j \in JobIds : worker[j].pos = h /\ sampleOk(j))
    /\ \A j \in JobIds :
         /\ WF_vars(sampleOk(j) \/ sampleErr(j))
         /\ SF_vars(handleResult(j))
         /\ WF_vars(workerCanceled(j))
         /\ WF_vars(getState(j))
    /\ SF_vars(pause) /\ WF_vars(unpause)
    /\ SF_vars(stopping) /\ WF_vars(indicateDone)

\* On its own the coordinator is started as well.
LiveFairness ==
    /\ WF_vars(\E head \in tail..MaxHeight :
                  run(freshCheckpoint(tail, head)) /\ UNCHANGED tail)
    /\ Fairness

-----------------------------------------------------------------------------
(***************************************************************************)
(* Properties.                                                             *)
(***************************************************************************)

\* Every variable has its type; the fields of a worker are those of its job.
TypeOK ==
    /\ pc \in {"off", "loop", "select", "paused", "stopping", "done"}
    /\ next \in 1..(MaxHeight + 1)
    /\ networkHead \in 0..MaxHeight
    /\ worker \in [JobIds -> WorkerState]
    /\ failed \subseteq Heights /\ ready \subseteq failed /\ inRetry \subseteq Heights
    /\ catchUpDone \in BOOLEAN /\ ctxDone \in BOOLEAN
    /\ snap \in [JobIds -> WorkerState] /\ unread \subseteq JobIds
    /\ tail \in Heights /\ settled \subseteq Heights

\* A height is accounted for if it was sampled, will be reached by catch-up,
\* waits in the failed map, or is the business of a worker in progress.
Accounted(h) ==
    \/ h \in settled
    \/ h >= next
    \/ h \in failed
    \/ \E j \in JobIds : h \in worker[j].pos .. worker[j].to \/ h \in worker[j].failed

\* No interleaving of heads, results, retries and overlapping jobs makes the
\* running coordinator forget a height (state.go: "all headers before next
\* were sent to workers", and a failed one is retried until it succeeds).
NoHeightLost == pc # "off" => \A h \in tail..MaxHeight : Accounted(h)

\* When WaitCatchUp may return, every height from the tail to the network head
\* has been sampled, although checkDone never looks at inRetry.
CatchUpDoneSound == catchUpDone => \A h \in tail..networkHead : h \in settled

\* A height is kept in inRetry exactly as long as a retry job for it runs, also
\* when two retry jobs for one height overlap: a leftover would be reported as
\* failed by every later stats and checkpoint.
InRetryBacked ==
    \A h \in inRetry : \E j \in JobIds : worker[j].jobType = "retry" /\ worker[j].from = h

\* SamplingStats.SampledChainHead: all heights up to it were sampled, although
\* the workers' states were read one after another while they kept sampling.
SampledChainHeadSound ==
    StatsReady => \A h \in tail..SampledChainHead(snap) : h \in settled

\* A checkpoint covers the heights a restart from it samples again, or that
\* have been sampled.
Covers(cp) ==
    \A h \in tail..MaxHeight :
        \/ h \in settled
        \/ h >= cp.SampleFrom
        \/ h \in cp.Failed
        \/ \E j \in JobIds : h \in cp.Workers[j].from .. cp.Workers[j].to

\* The checkpoint of a running coordinator and the one taken after it stopped
\* lose no height, although they drop retry jobs and most recent jobs.
CheckpointSound ==
    /\ StatsReady => Covers(newCheckpoint(snap))
    /\ pc = "done" => Covers(newCheckpoint(worker))

\* Recent jobs ignore the concurrency limit, yet never more than twice the
\* limit of workers are in progress.
WorkersBounded == Cardinality(InProgress(worker)) <= 2 * ConcurrencyLimit

\* Every height up to a head the coordinator was told of is sampled in the end,
\* unless it is stopped: retries, backoff and the limits starve no height.
EventuallySampled ==
    \A h \in Heights :
        (tail <= h /\ h <= networkHead) ~> (h \in settled \/ ctxDone)

\* Once heads stop coming, the coordinator reports that catch-up is done: no
\* leftover in failed or inProgress keeps WaitCatchUp waiting.
EventuallyCaughtUp == (pc = "loop") ~> (catchUpDone \/ ctxDone)

\* A cancelled coordinator stops: it waits for its workers, the workers for it
\* to take their results or for the context, and stats requests for a pause.
EventuallyStopped == ctxDone ~> (pc = "done")

-----------------------------------------------------------------------------
(***************************************************************************)
(* The inductive invariant behind the theorems of DASCoordinatorProofs.    *)
(***************************************************************************)

\* What a worker has processed was sampled or is in its failed set; a retried
\* height stays known to the coordinator until it is sampled.
WorkerOK(w) ==
    \/ w = NoWorker
    \/ /\ w.jobType \in JobTypes
       /\ w.from \in Heights /\ w.to \in Heights /\ w.from <= w.to
       /\ w.from <= w.pos /\ w.pos <= w.to + 1
       /\ w.failed \subseteq w.from .. (w.pos - 1)
       /\ \A h \in w.from .. (w.pos - 1) : h \in w.failed \cup settled
       /\ w.jobType # "catchup" => w.from = w.to
       /\ w.jobType = "retry" => w.from \in inRetry \cup failed \cup settled

\* The state s of worker w was read earlier: w has only moved on since.
Earlier(s, w) ==
    /\ s.jobType = w.jobType /\ s.from = w.from /\ s.to = w.to
    /\ s.from <= s.pos /\ s.pos <= w.pos
    /\ s.failed \subseteq w.failed
    /\ \A h \in s.from .. (s.pos - 1) : h \in s.failed \cup settled

SnapOK ==
    IF pc = "paused"
    THEN /\ unread \subseteq InProgress(worker)
         /\ \A j \in JobIds : IF j \in InProgress(worker) \ unread
                               THEN Earlier(snap[j], worker[j])
                               ELSE snap[j] = NoWorker
    ELSE unread = {} /\ snap = [j \in JobIds |-> NoWorker]

DoneOK == catchUpDone => /\ pc # "off"
                         /\ InProgress(worker) = {} /\ failed = {}
                         /\ next > networkHead

\* Everything the proofs need to know of a reachable state.
IInv ==
    /\ TypeOK
    /\ \A j \in JobIds : WorkerOK(worker[j])
    /\ NoHeightLost
    /\ InRetryBacked
    /\ SnapOK
    /\ DoneOK
    /\ WorkersBounded
    /\ pc = "off" => Idle

=============================================================================
