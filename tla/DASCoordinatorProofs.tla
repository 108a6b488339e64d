------------------------ MODULE DASCoordinatorProofs ------------------------
(***************************************************************************)
(* Theorems about the sampling coordinator, for every chain length, range, *)
(* concurrency limit and set of job ids.  The inductive invariant (IInv of *)
(* DASCoordinator) is first shown to be kept by the steps of workers, by   *)
(* stats requests, by the steps that only move the coordinator goroutine,  *)
(* and by the steps that start and finish jobs: retry, catch-up and recent *)
(* jobs, and their results.                                                *)
(***************************************************************************)
EXTENDS DASCoordinator, FiniteSetTheorems, WellFoundedInduction, TLAPS

USE MaxHeightAssumption, SamplingRangeAssumption, ConcurrencyLimitAssumption

\* Intervals of integers, and what is left of one whose start is handed out.
LEMMA Intervals ==
    /\ \A a, b, x \in Int : x \in a..b <=> a <= x /\ x <= b
    /\ \A a \in Int : a .. (a - 1) = {} /\ a <= a
    /\ \A a, b \in Int : a <= b => a <= b + 1
    /\ \A a, b, x \in Int : a <= x => x >= b + 1 \/ x \in a..b
    /\ \A a, b \in Int : a <= b => ~(a > b)
OBVIOUS

\* The elements of an interval that starts at a natural number.
LEMMA NatInterval == \A a, b \in Nat : \A x \in a..b : x \in Nat /\ x <= b
OBVIOUS

\* One job more than a number below the limit is within what the recent jobs leave.
LEMMA OneMore == \A n \in Nat : ~(n >= ConcurrencyLimit) => n + 1 <= 2 * ConcurrencyLimit
OBVIOUS

\* A slot without a worker has the type of the others.
LEMMA NoWorkerIsState == NoWorker \in WorkerState
BY DEF NoWorker, WorkerState

\* The numbers in the state are integers.
LEMMA Numbers ==
    ASSUME TypeOK
    PROVE  /\ next \in Nat /\ networkHead \in Nat /\ tail \in Nat
           /\ \A j \in JobIds : /\ worker[j].pos \in Nat /\ worker[j].from \in Nat
                                 /\ worker[j].to \in Nat
                                 /\ snap[j].pos \in Nat /\ snap[j].from \in Nat
                                 /\ snap[j].to \in Nat
BY DEF TypeOK, WorkerState, Heights

\* The set of jobs in progress is finite.
LEMMA InProgressFinite ==
    /\ IsFiniteSet(InProgress(worker)) /\ Cardinality(InProgress(worker)) \in Nat
BY FS_Subset, FS_CardinalityType, JobIdsAssumption DEF InProgress

\* Starting a worker in a free slot keeps what the other workers account for.
LEMMA AddWorker ==
    ASSUME IInv, NEW j \in FreeIds, NEW type \in JobTypes,
           NEW from \in Heights, NEW to \in Heights, from <= to,
           worker' = [worker EXCEPT ![j] = newWorker(type, from, to)]
    PROVE  /\ j \in JobIds /\ worker[j] = NoWorker
           /\ worker' \in [JobIds -> WorkerState]
           /\ \A i \in JobIds \ {j} : worker'[i] = worker[i]
           /\ worker'[j] = newWorker(type, from, to)
           /\ InProgress(worker') = InProgress(worker) \cup {j}
           /\ Cardinality(InProgress(worker')) = Cardinality(InProgress(worker)) + 1
           /\ \A h : (\E i \in JobIds : h \in worker[i].pos .. worker[i].to \/ h \in worker[i].failed)
                  => (\E i \in JobIds : h \in worker'[i].pos .. worker'[i].to \/ h \in worker'[i].failed)
<1>1. j \in JobIds /\ worker[j] = NoWorker
  BY DEF IInv, FreeIds, InProgress, Active, WorkerOK, JobTypes
<1>2. newWorker(type, from, to) \in WorkerState
  BY DEF newWorker, WorkerState, Heights
<1>3. /\ worker' \in [JobIds -> WorkerState]
      /\ \A i \in JobIds \ {j} : worker'[i] = worker[i]
      /\ worker'[j] = newWorker(type, from, to)
  BY <1>1, <1>2 DEF IInv, TypeOK
<1>4. InProgress(worker') = InProgress(worker) \cup {j} /\ j \notin InProgress(worker)
  BY <1>1, <1>3 DEF InProgress, Active, newWorker, NoWorker, JobTypes
<1>5. Cardinality(InProgress(worker')) = Cardinality(InProgress(worker)) + 1
  BY <1>4, InProgressFinite, FS_AddElement, Zenon
<1>6. \A h : ~ (h \in worker[j].pos .. worker[j].to \/ h \in worker[j].failed)
  BY <1>1 DEF NoWorker
<1> QED
  BY <1>1, <1>3, <1>4, <1>5, <1>6, Zenon

\* The coordinator moves between places other than "off" and "paused".
LEMMA MoveInductive ==
    ASSUME IInv, pc \notin {"off", "paused"},
           pc' \in {"loop", "select", "stopping", "done"},
           UNCHANGED <<worker, tail, settled, state, stats>>, ctxDone' \in BOOLEAN
    PROVE  IInv'
<1>1. TypeOK' /\ NoHeightLost' /\ InRetryBacked'
  BY DEF IInv, TypeOK, NoHeightLost, Accounted, InRetryBacked, state, stats
<1>2. \A j \in JobIds : WorkerOK(worker[j])'
  BY DEF IInv, WorkerOK, state
<1>3. SnapOK' /\ DoneOK' /\ WorkersBounded' /\ (pc = "off" => Idle)'
  BY DEF IInv, SnapOK, DoneOK, WorkersBounded, InProgress, state, stats
<1> QED
  BY <1>1, <1>2, <1>3 DEF IInv

\* So do the steps of the loop that only go on to another place.
LEMMA MovesInductive ==
    ASSUME IInv, toSelect \/ knownHead \/ stopping \/ indicateDone
    PROVE  IInv'
<1>1. ctxDone' \in BOOLEAN /\ pc \notin {"off", "paused"}
  BY DEF IInv, TypeOK, toSelect, knownHead, stopping, indicateDone
<1> QED
  BY <1>1, MoveInductive DEF toSelect, knownHead, stopping, indicateDone

\* Cancelling the context changes nothing else.
LEMMA CancelInductive ==
    ASSUME IInv, cancel
    PROVE  IInv'
<1>1. TypeOK' /\ NoHeightLost' /\ InRetryBacked'
  BY DEF IInv, TypeOK, NoHeightLost, Accounted, InRetryBacked, state, stats, cancel
<1>2. \A j \in JobIds : WorkerOK(worker[j])'
  BY DEF IInv, WorkerOK, state, cancel
<1>3. SnapOK' /\ DoneOK' /\ WorkersBounded' /\ (pc = "off" => Idle)'
  BY DEF IInv, SnapOK, Earlier, DoneOK, WorkersBounded, InProgress, state, stats, cancel
<1> QED
  BY <1>1, <1>2, <1>3 DEF IInv

\* A backoff elapses.
LEMMA BackoffElapsedInductive ==
    ASSUME IInv, NEW h \in Heights, backoffElapsed(h)
    PROVE  IInv'
<1>1. TypeOK' /\ NoHeightLost' /\ InRetryBacked'
  BY DEF IInv, TypeOK, NoHeightLost, Accounted, InRetryBacked, stats, backoffElapsed
<1>2. \A j \in JobIds : WorkerOK(worker[j])'
  BY DEF IInv, WorkerOK, backoffElapsed
<1>3. SnapOK' /\ DoneOK' /\ WorkersBounded' /\ (pc = "off" => Idle)'
  BY Zenon DEF IInv, SnapOK, Earlier, DoneOK, WorkersBounded, InProgress, stats, backoffElapsed, Idle
<1> QED
  BY <1>1, <1>2, <1>3 DEF IInv

-----------------------------------------------------------------------------
(***************************************************************************)
(* Workers.                                                                *)
(***************************************************************************)

\* One height was sampled: the worker moves on and the height is settled.
LEMMA SampleOkInductive ==
    ASSUME IInv, NEW j \in JobIds, sampleOk(j)
    PROVE  IInv'
<1> USE DEF IInv
<1>1. WorkerOK(worker[j]) /\ worker[j] # NoWorker /\ worker[j].pos \in Heights
  BY DEF sampleOk, NoWorker, WorkerOK, Heights, TypeOK, WorkerState
<1>2. TypeOK'
  <2>1. worker[j] \in WorkerState /\ worker[j].pos + 1 \in Nat
    BY DEF TypeOK, WorkerState
  <2>2. [worker[j] EXCEPT !.pos = @ + 1] \in WorkerState
    BY <2>1 DEF WorkerState
  <2>3. worker' = [worker EXCEPT ![j] = [worker[j] EXCEPT !.pos = @ + 1]]
    BY DEF sampleOk
  <2>4. worker' \in [JobIds -> WorkerState]
    BY <2>2, <2>3 DEF TypeOK
  <2> QED
    BY <1>1, <2>4 DEF sampleOk, TypeOK, state, stats
<1>3. /\ \A i \in JobIds \ {j} : worker'[i] = worker[i]
      /\ worker'[j].pos = worker[j].pos + 1
      /\ worker'[j].jobType = worker[j].jobType
      /\ worker'[j].from = worker[j].from /\ worker'[j].to = worker[j].to
      /\ worker'[j].failed = worker[j].failed
  BY DEF sampleOk, TypeOK, WorkerState
<1>4. InProgress(worker') = InProgress(worker)
  BY <1>3 DEF InProgress, Active
<1>5. \A i \in JobIds : WorkerOK(worker[i])'
  <2> SUFFICES ASSUME NEW i \in JobIds PROVE WorkerOK(worker[i])'
    BY SMTT(30)
  <2>1. CASE i = j
    <3>1. worker'[j].pos \in Nat /\ worker[j].pos \in Nat /\ worker[j].from \in Nat /\ worker[j].to \in Nat
      BY SMTT(30), <1>2 DEF TypeOK, WorkerState
    <3>2. \A h \in worker[j].from .. worker[j].pos : h \in worker[j].failed \cup settled'
      BY <1>1, <3>1 DEF WorkerOK, sampleOk
    <3>3. /\ worker[j].pos <= worker[j].to
          /\ settled \subseteq settled' /\ inRetry' = inRetry /\ failed' = failed
      BY SMTT(30) DEF sampleOk, state
    <3> QED
      BY SMTT(30), <1>1, <1>3, <2>1, <3>1, <3>2, <3>3 DEF WorkerOK
  <2>2. CASE i # j
    BY SMTT(30), <1>3, <2>2 DEF WorkerOK, sampleOk, state
  <2> QED
    BY <2>1, <2>2
<1>6. NoHeightLost'
  <2> SUFFICES ASSUME pc # "off", NEW h \in tail..MaxHeight PROVE Accounted(h)'
    BY DEF NoHeightLost, sampleOk
  <2>1. Accounted(h)
    BY DEF NoHeightLost
  <2>2. \A i \in JobIds : h \in worker[i].pos .. worker[i].to =>
            h = worker[j].pos \/ h \in worker'[i].pos .. worker'[i].to
    <3>1. h \in Int /\ worker[j].pos \in Int /\ worker[j].to \in Int
      BY DEF TypeOK, WorkerState, Heights
    <3>2. h \in worker[j].pos .. worker[j].to =>
            h = worker[j].pos \/ h \in worker'[j].pos .. worker'[j].to
      BY <1>3, <3>1
    <3> QED
      BY <1>3, <3>2
  <2> QED
    BY <2>1, <2>2, <1>3 DEF Accounted, sampleOk, state
<1>7. InRetryBacked'
  BY <1>3 DEF InRetryBacked, sampleOk, state
<1>8. SnapOK'
  <2>1. pc' = pc /\ unread' = unread /\ snap' = snap /\ settled \subseteq settled'
    BY DEF sampleOk, stats
  <2>2. ASSUME NEW i \in JobIds, Earlier(snap[i], worker[i]) PROVE Earlier(snap[i], worker[i])'
    BY <2>1, <2>2, <1>3 DEF Earlier, TypeOK, WorkerState
  <2> QED
    BY <2>1, <2>2, <1>4 DEF SnapOK
<1>9. DoneOK' /\ WorkersBounded'
  BY <1>4 DEF DoneOK, WorkersBounded, sampleOk, state
<1>10. (pc = "off" => Idle)'
  BY SMTT(30), <1>1 DEF Idle, sampleOk, state, stats
<1> QED
  BY SMTT(30), <1>2, <1>5, <1>6, <1>7, <1>8, <1>9, <1>10

\* One height failed: the worker moves on and remembers the height.
LEMMA SampleErrInductive ==
    ASSUME IInv, NEW j \in JobIds, sampleErr(j)
    PROVE  IInv'
<1> USE DEF IInv
<1>1. WorkerOK(worker[j]) /\ worker[j] # NoWorker /\ worker[j].pos \in Heights
  BY DEF sampleErr, NoWorker, WorkerOK, Heights, TypeOK, WorkerState
<1>2. /\ worker' \in [JobIds -> WorkerState]
      /\ \A i \in JobIds \ {j} : worker'[i] = worker[i]
      /\ worker'[j].pos = worker[j].pos + 1
      /\ worker'[j].jobType = worker[j].jobType
      /\ worker'[j].from = worker[j].from /\ worker'[j].to = worker[j].to
      /\ worker'[j].failed = worker[j].failed \cup {worker[j].pos}
  <2> DEFINE w == [worker[j] EXCEPT !.pos = @ + 1, !.failed = @ \cup {worker[j].pos}]
  <2>1. worker[j] \in WorkerState
    BY DEF TypeOK
  <2>2. w \in WorkerState
    <3>1. worker[j].pos + 1 \in Nat /\ worker[j].failed \cup {worker[j].pos} \in SUBSET Heights
      BY <1>1, <2>1 DEF WorkerState
    <3> QED
      BY <2>1, <3>1, Zenon DEF WorkerState
  <2>3. worker' = [worker EXCEPT ![j] = w]
    BY Zenon DEF sampleErr
  <2>4. worker' \in [JobIds -> WorkerState] /\ worker'[j] = w
    BY <2>2, <2>3 DEF TypeOK
  <2> QED
    BY <2>1, <2>3, <2>4 DEF WorkerState, TypeOK
<1>3. TypeOK'
  BY <1>1, <1>2 DEF sampleErr, TypeOK, state, stats
<1>4. InProgress(worker') = InProgress(worker)
  BY SMTT(30), <1>2 DEF InProgress, Active
<1>5. \A i \in JobIds : WorkerOK(worker[i])'
  <2> SUFFICES ASSUME NEW i \in JobIds PROVE WorkerOK(worker[i])'
    OBVIOUS
  <2>1. CASE i = j
    <3>1. \A h \in worker[j].from .. worker[j].pos : h \in worker'[j].failed \cup settled
      BY SMTT(30), <1>1, <1>2, Numbers DEF WorkerOK
    <3>2. /\ worker[j].pos <= worker[j].to
          /\ settled' = settled /\ inRetry' = inRetry /\ failed' = failed
      BY SMTT(30) DEF sampleErr, state
    <3>3. worker'[j].failed \subseteq worker[j].from .. worker[j].pos
      BY SMTT(30), <1>1, <1>2, Numbers DEF WorkerOK
    <3> QED
      BY SMTT(30), <1>1, <1>2, <2>1, <3>1, <3>2, <3>3, Numbers DEF WorkerOK
  <2>2. CASE i # j
    BY Zenon, <1>2, <2>2 DEF WorkerOK, sampleErr, state
  <2> QED
    BY <2>1, <2>2
<1>6. NoHeightLost'
  <2> SUFFICES ASSUME pc # "off", NEW h \in tail..MaxHeight PROVE Accounted(h)'
    BY DEF NoHeightLost, sampleErr
  <2>1. Accounted(h) /\ h \in Int
    BY Numbers DEF NoHeightLost
  <2>2. h \in worker[j].pos .. worker[j].to =>
            h \in worker'[j].failed \/ h \in worker'[j].pos .. worker'[j].to
    BY <1>2, <2>1, Numbers
  <2>3. h \in worker[j].failed => h \in worker'[j].failed
    BY <1>2
  <2> QED
    BY Zenon, <2>1, <2>2, <2>3, <1>2 DEF Accounted, sampleErr, state
<1>7. InRetryBacked'
  BY <1>2 DEF InRetryBacked, sampleErr, state
<1>8. SnapOK'
  <2>1. pc' = pc /\ unread' = unread /\ snap' = snap /\ settled' = settled
    BY SMTT(30) DEF sampleErr, stats
  <2>2. ASSUME NEW i \in JobIds, Earlier(snap[i], worker[i]) PROVE Earlier(snap[i], worker[i])'
    BY <2>1, <2>2, <1>2, Numbers DEF Earlier
  <2> QED
    BY <2>1, <2>2, <1>4 DEF SnapOK
<1>9. DoneOK' /\ WorkersBounded'
  BY <1>4 DEF DoneOK, WorkersBounded, sampleErr, state
<1>10. (pc = "off" => Idle)'
  BY SMTT(30), <1>1 DEF Idle, sampleErr, state, stats
<1> QED
  BY <1>3, <1>5, <1>6, <1>7, <1>8, <1>9, <1>10

\* A cancelled worker leaves its job as it is.
LEMMA WorkerCanceledInductive ==
    ASSUME IInv, NEW j \in JobIds, workerCanceled(j)
    PROVE  IInv'
<1> USE DEF IInv
<1>1. worker[j] # NoWorker /\ worker[j] \in WorkerState
  BY DEF workerCanceled, NoWorker, TypeOK
<1>2. /\ worker' \in [JobIds -> WorkerState]
      /\ \A i \in JobIds \ {j} : worker'[i] = worker[i]
      /\ worker'[j].pos = worker[j].pos
      /\ worker'[j].jobType = worker[j].jobType
      /\ worker'[j].from = worker[j].from /\ worker'[j].to = worker[j].to
      /\ worker'[j].failed = worker[j].failed
  <2> DEFINE w == [worker[j] EXCEPT !.running = FALSE]
  <2>1. w \in WorkerState
    BY <1>1, Zenon DEF WorkerState
  <2>2. worker' = [worker EXCEPT ![j] = w]
    BY DEF workerCanceled
  <2>3. worker' \in [JobIds -> WorkerState] /\ worker'[j] = w
    BY SMTT(30), <2>1, <2>2 DEF TypeOK
  <2> QED
    BY <1>1, <2>2, <2>3 DEF WorkerState, TypeOK
<1>3. TypeOK' /\ InRetryBacked' /\ NoHeightLost'
  BY SMTT(30), <1>2 DEF workerCanceled, TypeOK, InRetryBacked, NoHeightLost, Accounted, state, stats
<1>4. InProgress(worker') = InProgress(worker)
  BY SMTT(30), <1>2 DEF InProgress, Active
<1>5. \A i \in JobIds : WorkerOK(worker[i])'
  BY <1>1, <1>2 DEF WorkerOK, workerCanceled, state
<1>6. SnapOK' /\ DoneOK' /\ WorkersBounded'
  <2>1. pc' = pc /\ unread' = unread /\ snap' = snap /\ settled' = settled
    BY SMTT(30) DEF workerCanceled, stats
  <2>2. ASSUME NEW i \in JobIds, Earlier(snap[i], worker[i]) PROVE Earlier(snap[i], worker[i])'
    BY Zenon, <2>1, <2>2, <1>2 DEF Earlier
  <2>3. SnapOK'
    BY <2>1, <2>2, <1>4 DEF SnapOK
  <2> QED
    BY <2>3, <1>4 DEF DoneOK, WorkersBounded, workerCanceled, state
<1>7. (pc = "off" => Idle)'
  BY <1>1 DEF Idle, workerCanceled, state, stats
<1> QED
  BY Zenon, <1>3, <1>5, <1>6, <1>7

\* A stats request pauses the coordinator, reads every worker and lets go.
LEMMA StatsInductive ==
    ASSUME IInv, pause \/ (\E j \in JobIds : getState(j)) \/ unpause
    PROVE  IInv'
<1> USE DEF IInv
<1>1. /\ UNCHANGED <<worker, ctxDone, tail, settled, state>>
      /\ pc # "off" /\ pc' \in {"loop", "paused"}
  BY DEF pause, getState, unpause, StatsReady
<1>2. NoWorker \in WorkerState
  BY Zenon, NoWorkerIsState
<1>3. unread' \subseteq JobIds /\ snap' \in [JobIds -> WorkerState]
  BY SMTT(30), <1>2 DEF pause, getState, unpause, TypeOK, InProgress
<1>4. TypeOK' /\ NoHeightLost' /\ InRetryBacked' /\ DoneOK' /\ WorkersBounded' /\ (pc = "off" => Idle)'
  BY Zenon, <1>1, <1>3 DEF TypeOK, NoHeightLost, Accounted, InRetryBacked, DoneOK, WorkersBounded, InProgress, state
<1>5. \A i \in JobIds : WorkerOK(worker[i])'
  BY Zenon, <1>1 DEF WorkerOK, state
<1>6. SnapOK'
  <2>1. CASE pause
    BY SMTT(30), <1>1, <2>1 DEF SnapOK, pause, InProgress, state
  <2>2. CASE unpause
    BY SMTT(30), <1>1, <2>2 DEF SnapOK, unpause, StatsReady
  <2>3. ASSUME NEW j \in JobIds, getState(j) PROVE SnapOK'
    <3>1. pc = "paused" /\ pc' = "paused" /\ j \in unread /\ unread' = unread \ {j}
      BY SMTT(30), <2>3 DEF getState
    <3>2. snap'[j] = worker[j] /\ \A i \in JobIds \ {j} : snap'[i] = snap[i]
      BY Zenon, <2>3 DEF getState, TypeOK
    <3>3. worker[j] # NoWorker
      BY SMTT(30), <3>1 DEF SnapOK, InProgress, Active, NoWorker
    <3>4. Earlier(worker[j], worker[j])
      BY SMTT(30), <3>3, Numbers DEF WorkerOK, Earlier
    <3>5. Earlier(snap[j], worker[j])'
      BY Zenon, <1>1, <3>2, <3>4 DEF Earlier
    <3>6. ASSUME NEW i \in JobIds, i # j, Earlier(snap[i], worker[i]) PROVE Earlier(snap[i], worker[i])'
      BY Zenon, <1>1, <3>2, <3>6 DEF Earlier
    <3>7. InProgress(worker)' = InProgress(worker)
      BY <1>1 DEF InProgress
    <3> QED
      BY Zenon, <1>1, <3>1, <3>2, <3>5, <3>6, <3>7 DEF SnapOK
  <2> QED
    BY SMTT(30), <2>1, <2>2, <2>3
<1> QED
  BY <1>4, <1>5, <1>6

-----------------------------------------------------------------------------
(***************************************************************************)
(* Jobs.                                                                   *)
(***************************************************************************)

\* A nonempty set of naturals has a least element, and MinOf is that element.
LEMMA MinOfNat ==
    ASSUME NEW S, S \subseteq Nat, S # {}
    PROVE  /\ MinOf(S) \in S
           /\ \A y \in S : MinOf(S) <= y
<1>1. \E x \in S : \A y \in S : ~ (<<y, x>> \in OpToRel(<, Nat))
  BY Zenon, NatLessThanWellFounded, WFMin
<1>2. PICK x \in S : \A y \in S : ~ (<<y, x>> \in OpToRel(<, Nat))
  BY Zenon, <1>1
<1>3. \A y \in S : x <= y
  <2> SUFFICES ASSUME NEW y \in S, y < x PROVE FALSE
    OBVIOUS
  <2>1. <<y, x>> \in {p \in Nat \X Nat : p[1] < p[2]}
    OBVIOUS
  <2>2. OpToRel(<, Nat) = {p \in Nat \X Nat : p[1] < p[2]}
    BY DEF OpToRel
  <2> QED
    BY Zenon, <1>2, <2>1, <2>2
<1> QED
  BY <1>3, Zenon DEF MinOf

-----------------------------------------------------------------------------
(***************************************************************************)
(* Facts used by several of the steps below.                               *)
(***************************************************************************)

\* A failed height moves to a retry job.
LEMMA RetryJobInductive ==
    ASSUME IInv, NEW j \in FreeIds, NEW h \in Heights, retryJob(j, h)
    PROVE  IInv'
<1> USE DEF IInv
<1>1. /\ pc = "loop" /\ pc' = pc /\ h \in failed
      /\ failed' = failed \ {h} /\ inRetry' = inRetry \cup {h}
      /\ UNCHANGED <<next, networkHead, catchUpDone, ctxDone, snap, unread, tail, settled>>
      /\ worker' = [worker EXCEPT ![j] = newWorker("retry", h, h)]
  BY DEF retryJob, stats
<1>2. h <= h /\ "retry" \in JobTypes
  BY DEF Heights, JobTypes
<1> DEFINE w == newWorker("retry", h, h)
<1>3. /\ j \in JobIds /\ worker[j] = NoWorker
      /\ worker' \in [JobIds -> WorkerState]
      /\ \A i \in JobIds \ {j} : worker'[i] = worker[i]
      /\ worker'[j] = w
      /\ InProgress(worker') = InProgress(worker) \cup {j}
      /\ Cardinality(InProgress(worker')) = Cardinality(InProgress(worker)) + 1
      /\ \A x : (\E i \in JobIds : x \in worker[i].pos .. worker[i].to \/ x \in worker[i].failed)
             => (\E i \in JobIds : x \in worker'[i].pos .. worker'[i].to \/ x \in worker'[i].failed)
  <2> HIDE DEF IInv
  <2> QED
    BY <1>1, <1>2, AddWorker, Zenon
<1>4. w.pos = h /\ w.to = h /\ w.from = h /\ w.failed = {} /\ w.jobType = "retry"
  BY SMTT(30) DEF newWorker
<1> HIDE DEF w
<1>5. TypeOK'
  BY Zenon, <1>1, <1>3 DEF TypeOK, retryJob, stats
<1>6. \A i \in JobIds : WorkerOK(worker[i])'
  <2> SUFFICES ASSUME NEW i \in JobIds PROVE WorkerOK(worker[i])'
    BY SMTT(30)
  <2>1. CASE i = j
    <3>1. h .. (h - 1) = {} /\ h <= h + 1
      BY SMTT(30) DEF Heights
    <3> QED
      BY ZenonT(30), <1>1, <1>2, <1>3, <1>4, <2>1, <3>1 DEF WorkerOK
  <2>2. CASE i # j
    BY Zenon, <1>1, <1>3, <2>2 DEF WorkerOK
  <2> QED
    BY <2>1, <2>2
<1>7. NoHeightLost'
  <2> SUFFICES ASSUME NEW x \in tail..MaxHeight PROVE Accounted(x)'
    BY <1>1 DEF NoHeightLost
  <2>1. Accounted(x)
    BY <1>1 DEF NoHeightLost
  <2>2. CASE x = h
    <3>1. x \in worker'[j].pos .. worker'[j].to
      BY SMTT(30), <1>3, <1>4, <2>2 DEF Heights
    <3> QED
      BY SMTT(30), <1>3, <3>1 DEF Accounted
  <2>3. CASE x # h
    BY Zenon, <2>1, <2>3, <1>1, <1>3 DEF Accounted
  <2> QED
    BY <2>2, <2>3
<1>8. InRetryBacked'
  BY SMTT(30), <1>1, <1>3, <1>4 DEF InRetryBacked, NoWorker
<1>9. SnapOK' /\ DoneOK' /\ (pc = "off" => Idle)'
  BY SMTT(30), <1>1 DEF SnapOK, DoneOK
<1>10. WorkersBounded'
  <2>1. Cardinality(InProgress(worker)) \in Nat /\ ~(Cardinality(InProgress(worker)) >= ConcurrencyLimit)
    BY Zenon, InProgressFinite DEF retryJob, concurrencyLimitReached
  <2>2. Cardinality(InProgress(worker)) + 1 <= 2 * ConcurrencyLimit
    BY Zenon, <2>1, OneMore
  <2> QED
    BY Zenon, <1>3, <2>2 DEF WorkersBounded
<1> QED
  BY Zenon, <1>5, <1>6, <1>7, <1>8, <1>9, <1>10

\* Catch-up hands out the next range.
LEMMA CatchupJobInductive ==
    ASSUME IInv, NEW j \in FreeIds, catchupJob(j)
    PROVE  IInv'
<1> USE DEF IInv
<1>1. /\ pc = "loop" /\ pc' = pc /\ next <= networkHead
      /\ next' = catchupTo + 1
      /\ UNCHANGED <<networkHead, failed, ready, inRetry, catchUpDone, ctxDone, snap, unread, tail, settled>>
      /\ worker' = [worker EXCEPT ![j] = newWorker("catchup", next, catchupTo)]
  BY DEF catchupJob, stats
<1>2. /\ catchupTo \in Heights /\ next \in Heights /\ next <= catchupTo
      /\ catchupTo <= networkHead /\ "catchup" \in JobTypes
  <2>1. next + SamplingRange - 1 \in Nat /\ networkHead \in Nat
    BY Numbers
  <2>2. catchupTo \in {next + SamplingRange - 1, networkHead} /\ catchupTo <= networkHead
    BY <2>1, MinOfNat DEF catchupTo
  <2> QED
    BY SMTT(30), <1>1, <2>1, <2>2 DEF TypeOK, Heights, JobTypes
<1> DEFINE w == newWorker("catchup", next, catchupTo)
<1>3. /\ j \in JobIds /\ worker[j] = NoWorker
      /\ worker' \in [JobIds -> WorkerState]
      /\ \A i \in JobIds \ {j} : worker'[i] = worker[i]
      /\ worker'[j] = w
      /\ InProgress(worker') = InProgress(worker) \cup {j}
      /\ Cardinality(InProgress(worker')) = Cardinality(InProgress(worker)) + 1
      /\ \A x : (\E i \in JobIds : x \in worker[i].pos .. worker[i].to \/ x \in worker[i].failed)
             => (\E i \in JobIds : x \in worker'[i].pos .. worker'[i].to \/ x \in worker'[i].failed)
  <2> HIDE DEF IInv
  <2> QED
    BY <1>1, <1>2, AddWorker, Zenon
<1>4. w.pos = next /\ w.to = catchupTo /\ w.from = next /\ w.failed = {} /\ w.jobType = "catchup"
  BY SMTT(30) DEF newWorker
<1> HIDE DEF w
<1>5. TypeOK'
  BY SMTT(30), <1>1, <1>2, <1>3 DEF TypeOK, Heights
<1>6. \A i \in JobIds : WorkerOK(worker[i])'
  <2> SUFFICES ASSUME NEW i \in JobIds PROVE WorkerOK(worker[i])'
    BY SMTT(30)
  <2>1. CASE i = j
    <3>1. next .. (next - 1) = {} /\ next <= next /\ next <= catchupTo + 1
      BY SMTT(30), <1>2 DEF Heights
    <3> QED
      BY ZenonT(30), <1>1, <1>2, <1>3, <1>4, <2>1, <3>1 DEF WorkerOK
  <2>2. CASE i # j
    BY Zenon, <1>1, <1>3, <2>2 DEF WorkerOK
  <2> QED
    BY <2>1, <2>2
<1>7. NoHeightLost'
  <2> SUFFICES ASSUME NEW x \in tail..MaxHeight PROVE Accounted(x)'
    BY <1>1 DEF NoHeightLost
  <2>1. Accounted(x)
    BY SMTT(30), <1>1 DEF NoHeightLost
  <2>2. CASE x >= next
    <3>1. x >= next' \/ x \in worker'[j].pos .. worker'[j].to
      <4> HIDE DEF IInv
      <4>1. x \in Int /\ next \in Int /\ catchupTo \in Int
        BY <1>2 DEF Heights
      <4>2. next <= x
        BY <2>2, <4>1
      <4>3. next' = catchupTo + 1 /\ worker'[j].pos = next /\ worker'[j].to = catchupTo
        BY Zenon, <1>1, <1>3, <1>4
      <4> QED
        BY ZenonT(30), <4>1, <4>2, <4>3, Intervals
    <3> QED
      BY Zenon, <1>3, <3>1 DEF Accounted
  <2>3. CASE ~(x >= next)
    BY Zenon, <2>1, <2>3, <1>1, <1>3 DEF Accounted
  <2> QED
    BY <2>2, <2>3
<1>8. InRetryBacked'
  BY SMTT(30), <1>1, <1>3 DEF InRetryBacked, NoWorker
<1>9. SnapOK' /\ (pc = "off" => Idle)'
  BY <1>1 DEF SnapOK
<1>10. DoneOK'
  <2>1. next \in Int /\ networkHead \in Int
    BY Numbers
  <2>2. ~(next > networkHead)
    BY Zenon, <1>1, <2>1, Intervals
  <2> QED
    BY Zenon, <1>1, <2>2 DEF DoneOK
<1>11. WorkersBounded'
  <2>1. Cardinality(InProgress(worker)) \in Nat /\ ~(Cardinality(InProgress(worker)) >= ConcurrencyLimit)
    BY Zenon, InProgressFinite DEF catchupJob, concurrencyLimitReached
  <2>2. Cardinality(InProgress(worker)) + 1 <= 2 * ConcurrencyLimit
    BY Zenon, <2>1, OneMore
  <2> QED
    BY Zenon, <1>3, <2>2 DEF WorkersBounded
<1> QED
  BY Zenon, <1>5, <1>6, <1>7, <1>8, <1>9, <1>10, <1>11

\* A new head gets a recent job unless twice the limit of jobs are running.
LEMMA NewHeadInductive ==
    ASSUME IInv, NEW h \in Heights, newHead(h)
    PROVE  IInv'
<1> USE DEF IInv
<1>1. /\ pc = "select" /\ pc' = "loop" /\ h > networkHead /\ networkHead' = h
      /\ UNCHANGED <<failed, ready, inRetry, ctxDone, snap, unread, tail, settled>>
      /\ catchUpDone' = (InProgress(worker') = {} /\ failed' = {} /\ next' > networkHead')
  BY Zenon DEF newHead, stats, checkDone
<1>2. SnapOK' /\ DoneOK' /\ (pc = "off" => Idle)'
  BY <1>1, Zenon DEF SnapOK, DoneOK
<1>3. CASE recentJobsLimitReached
  <2>1. UNCHANGED <<worker, next>>
    BY SMTT(30), <1>3 DEF newHead
  <2>2. TypeOK' /\ NoHeightLost' /\ InRetryBacked' /\ WorkersBounded'
    <3>1. TypeOK'
      <4>1. h \in 0..MaxHeight
        BY DEF Heights
      <4> QED
        BY Zenon, <1>1, <2>1, <4>1 DEF TypeOK
    <3>2. NoHeightLost' /\ InRetryBacked' /\ WorkersBounded'
      BY Zenon, <1>1, <2>1 DEF NoHeightLost, Accounted, InRetryBacked, WorkersBounded, InProgress
    <3> QED
      BY <3>1, <3>2
  <2>3. \A i \in JobIds : WorkerOK(worker[i])'
    BY Zenon, <1>1, <2>1 DEF WorkerOK
  <2> QED
    BY <1>2, <2>2, <2>3
<1>4. CASE ~recentJobsLimitReached
  <2>1. PICK j \in FreeIds : worker' = [worker EXCEPT ![j] = newWorker("recent", h, h)]
    BY <1>4 DEF newHead
  <2>2. next' = nextAfterRecent(h)
    BY <1>4 DEF newHead
  <2>3. h <= h /\ "recent" \in JobTypes
    BY DEF Heights, JobTypes
  <2> DEFINE w == newWorker("recent", h, h)
  <2>4. /\ j \in JobIds /\ worker[j] = NoWorker
        /\ worker' \in [JobIds -> WorkerState]
        /\ \A i \in JobIds \ {j} : worker'[i] = worker[i]
        /\ worker'[j] = w
        /\ Cardinality(InProgress(worker')) = Cardinality(InProgress(worker)) + 1
        /\ \A x : (\E i \in JobIds : x \in worker[i].pos .. worker[i].to \/ x \in worker[i].failed)
               => (\E i \in JobIds : x \in worker'[i].pos .. worker'[i].to \/ x \in worker'[i].failed)
    <3> HIDE DEF IInv
    <3> QED
      BY <2>1, <2>3, AddWorker, Zenon
  <2>5. w.pos = h /\ w.to = h /\ w.from = h /\ w.failed = {} /\ w.jobType = "recent"
    BY SMTT(30) DEF newWorker
  <2> HIDE DEF w
  <2>6. TypeOK'
    BY SMTT(30), <1>1, <2>2, <2>4 DEF TypeOK, Heights, nextAfterRecent
  <2>7. \A i \in JobIds : WorkerOK(worker[i])'
    <3> SUFFICES ASSUME NEW i \in JobIds PROVE WorkerOK(worker[i])'
      BY SMTT(30)
    <3>1. CASE i = j
      <4>1. h .. (h - 1) = {} /\ h <= h + 1
        BY SMTT(30) DEF Heights
      <4> QED
        BY ZenonT(30), <2>3, <2>4, <2>5, <3>1, <4>1 DEF WorkerOK
    <3>2. CASE i # j
      BY Zenon, <1>1, <2>4, <3>2 DEF WorkerOK
    <3> QED
      BY <3>1, <3>2
  <2>8. NoHeightLost'
    <3> SUFFICES ASSUME NEW x \in tail..MaxHeight PROVE Accounted(x)'
      BY <1>1 DEF NoHeightLost
    <3>1. Accounted(x)
      BY SMTT(30), <1>1 DEF NoHeightLost
    <3>2. CASE x = h
      <4>1. x \in worker'[j].pos .. worker'[j].to
        BY SMTT(30), <2>4, <2>5, <3>2 DEF Heights
      <4> QED
        BY Zenon, <2>4, <4>1 DEF Accounted
    <3>3. CASE x # h
      <4>1. x >= next => x >= next'
        BY SMTT(30), <2>2, <3>3, Numbers DEF nextAfterRecent, Heights
      <4> QED
        BY Zenon, <3>1, <4>1, <1>1, <2>4 DEF Accounted
    <3> QED
      BY SMTT(30), <3>2, <3>3
  <2>9. InRetryBacked'
    BY SMTT(30), <1>1, <2>4 DEF InRetryBacked, NoWorker
  <2>10. WorkersBounded'
    BY SMTT(30), <1>4, <2>4, InProgressFinite DEF WorkersBounded, recentJobsLimitReached
  <2> QED
    BY Zenon, <1>2, <2>6, <2>7, <2>8, <2>9, <2>10
<1> QED
  BY <1>3, <1>4

\* A result settles its range: what the worker could not sample is in failed.
LEMMA HandleResultInductive ==
    ASSUME IInv, NEW j \in JobIds, handleResult(j)
    PROVE  IInv'
<1> USE DEF IInv
<1> DEFINE res == worker[j]
<1>1. /\ pc = "select" /\ pc' = "loop"
      /\ UNCHANGED <<next, networkHead, ctxDone, snap, unread, tail, settled>>
      /\ worker' = [worker EXCEPT ![j] = NoWorker]
      /\ catchUpDone' = (InProgress(worker') = {} /\ failed' = {} /\ next' > networkHead')
      /\ IF res.jobType = "retry" THEN handleRetryResult(res) ELSE handleRecentOrCatchupResult(res)
  BY Zenon DEF handleResult, stats, checkDone
<1>2. /\ res.jobType \in JobTypes /\ res.pos = res.to + 1
      /\ res.from \in Heights /\ res.to \in Heights
      /\ res.failed \subseteq res.from .. res.to
      /\ \A h \in res.from .. res.to : h \in res.failed \cup settled
      /\ res.jobType # "catchup" => res.from = res.to
  <2>1. res # NoWorker /\ res.pos > res.to /\ WorkerOK(res)
    BY SMTT(30) DEF handleResult, Finished, Active, NoWorker
  <2>2. res.pos = res.to + 1
    BY SMTT(30), <2>1, Numbers DEF WorkerOK
  <2>3. res.pos - 1 = res.to
    BY SMTT(30), <2>2, Numbers
  <2> QED
    BY Zenon, <2>1, <2>2, <2>3 DEF WorkerOK
<1>3. /\ worker' \in [JobIds -> WorkerState]
      /\ \A i \in JobIds \ {j} : worker'[i] = worker[i]
      /\ worker'[j] = NoWorker
  BY <1>1, Zenon DEF TypeOK, NoWorker, WorkerState
\* A height the coordinator forgets was sampled.
<1>4. /\ failed' \in SUBSET Heights /\ ready' \subseteq failed' /\ inRetry' \subseteq inRetry
      /\ res.failed \subseteq failed'
      /\ failed \subseteq failed' \cup settled
      /\ inRetry \subseteq inRetry' \cup failed' \cup settled
  <2>1. res.failed \subseteq Heights
    BY SMTT(30), <1>2 DEF Heights
  <2>2. CASE res.jobType = "retry"
    <3>1. handleRetryResult(res)
      BY SMTT(30), <1>1, <2>2
    <3> QED
      BY Zenon, <3>1, <2>1, <1>2 DEF handleRetryResult, TypeOK
  <2>3. CASE res.jobType # "retry"
    <3>1. handleRecentOrCatchupResult(res)
      BY SMTT(30), <1>1, <2>3
    <3> QED
      BY Zenon, <3>1, <2>1, <1>2 DEF handleRecentOrCatchupResult, TypeOK
  <2> QED
    BY Zenon, <2>2, <2>3
<1>5. TypeOK'
  BY Zenon, <1>1, <1>3, <1>4 DEF TypeOK
<1>6. \A i \in JobIds : WorkerOK(worker[i])'
  BY Zenon, <1>1, <1>3, <1>4 DEF WorkerOK
<1>7. NoHeightLost'
  <2> SUFFICES ASSUME NEW x \in tail..MaxHeight PROVE Accounted(x)'
    BY SMTT(30), <1>1 DEF NoHeightLost
  <2>1. Accounted(x)
    BY SMTT(30), <1>1 DEF NoHeightLost
  <2>2. ~(x \in res.pos .. res.to)
    BY SMTT(30), <1>2, Numbers
  <2>3. CASE \E i \in JobIds \ {j} : x \in worker[i].pos .. worker[i].to \/ x \in worker[i].failed
    BY Zenon, <2>3, <1>3 DEF Accounted
  <2>4. CASE x \in res.failed
    BY Zenon, <2>4, <1>4 DEF Accounted
  <2>5. CASE x \in settled \/ x >= next \/ x \in failed
    BY Zenon, <2>5, <1>1, <1>4 DEF Accounted
  <2> QED
    BY Zenon, <2>1, <2>2, <2>3, <2>4, <2>5 DEF Accounted
<1>8. InRetryBacked'
  <2> SUFFICES ASSUME NEW x \in inRetry'
               PROVE  \E i \in JobIds : worker'[i].jobType = "retry" /\ worker'[i].from = x
    BY SMTT(30) DEF InRetryBacked
  <2>1. PICK i \in JobIds : worker[i].jobType = "retry" /\ worker[i].from = x
    BY SMTT(30), <1>4 DEF InRetryBacked
  <2>2. i # j
    <3> SUFFICES ASSUME i = j PROVE FALSE
      BY SMTT(30)
    <3>1. handleRetryResult(res) /\ x \in res.from .. res.to
      BY <1>1, <1>2, <2>1 DEF Heights
    <3> QED
      BY Zenon, <3>1 DEF handleRetryResult
  <2> QED
    BY Zenon, <2>1, <2>2, <1>3
<1>9. SnapOK' /\ DoneOK' /\ (pc = "off" => Idle)'
  BY <1>1, Zenon DEF SnapOK, DoneOK
<1>10. WorkersBounded'
  <2>1. InProgress(worker') \subseteq InProgress(worker)
    BY SMTT(30), <1>3 DEF InProgress, Active, NoWorker
  <2>2. Cardinality(InProgress(worker')) <= Cardinality(InProgress(worker)) /\ Cardinality(InProgress(worker')) \in Nat
    BY <2>1, FS_Subset, FS_CardinalityType, InProgressFinite
  <2> QED
    BY SMTT(30), <2>2, InProgressFinite DEF WorkersBounded
<1> QED
  BY Zenon, <1>5, <1>6, <1>7, <1>8, <1>9, <1>10

-----------------------------------------------------------------------------

\* A checkpoint a coordinator can resume from a header store with tail t: its
\* heights exist, it has no more workers than ever run, and it covers the store.
Resumable(cp, t) ==
    /\ cp.SampleFrom \in 1..(MaxHeight + 1)
    /\ cp.NetworkHead \in 0..MaxHeight
    /\ cp.Failed \subseteq Heights
    /\ \A j \in JobIds : cp.Workers[j].from <= cp.Workers[j].to
                           => cp.Workers[j].from \in Heights /\ cp.Workers[j].to \in Heights
    /\ Cardinality({j \in JobIds : cp.Workers[j].from <= cp.Workers[j].to}) <= 2 * ConcurrencyLimit
    /\ \A h \in t..MaxHeight :
           \/ h \in settled
           \/ h >= cp.SampleFrom
           \/ h \in cp.Failed
           \/ \E j \in JobIds : /\ cp.Workers[j].from <= cp.Workers[j].to
                                 /\ h \in cp.Workers[j].from .. cp.Workers[j].to

\* A coordinator that resumes such a checkpoint starts in a good state.
LEMMA RunInductive ==
    ASSUME IInv, NEW cp, run(cp), tail' \in Heights, Resumable(cp, tail')
    PROVE  IInv'
<1> USE DEF IInv
<1> DEFINE Has(j) == cp.Workers[j].from <= cp.Workers[j].to
<1> DEFINE nw(j) == newWorker("catchup", cp.Workers[j].from, cp.Workers[j].to)
<1>1. /\ pc = "off" /\ pc' = "loop" /\ next' = cp.SampleFrom /\ networkHead' = cp.NetworkHead
      /\ failed' = cp.Failed /\ ready' = cp.Failed
      /\ UNCHANGED <<inRetry, ctxDone, snap, unread, settled>>
      /\ worker' = [j \in JobIds |-> IF Has(j) THEN nw(j) ELSE NoWorker]
      /\ catchUpDone' = (InProgress(worker') = {} /\ failed' = {} /\ next' > networkHead')
  BY Zenon DEF run, stats, checkDone
<1>2. inRetry = {} /\ unread = {} /\ snap = [j \in JobIds |-> NoWorker]
  BY Zenon, <1>1 DEF Idle
<1>3. \A j \in JobIds : worker'[j] = IF Has(j) THEN nw(j) ELSE NoWorker
  <2> HIDE DEF IInv, Has, nw
  <2> QED
    BY Zenon, <1>1
<1>4. ASSUME NEW j \in JobIds, Has(j)
      PROVE  /\ nw(j) \in WorkerState
             /\ nw(j).jobType = "catchup" /\ nw(j).from = cp.Workers[j].from
             /\ nw(j).to = cp.Workers[j].to /\ nw(j).pos = cp.Workers[j].from
             /\ nw(j).failed = {}
             /\ cp.Workers[j].from \in Heights /\ cp.Workers[j].to \in Heights
  <2> DEFINE f == cp.Workers[j].from
             t == cp.Workers[j].to
  <2>1. f \in Heights /\ t \in Heights
    BY Zenon, <1>4 DEF Resumable
  <2>2. nw(j) = newWorker("catchup", f, t)
    OBVIOUS
  <2> HIDE DEF f, t, nw, IInv
  <2>3. newWorker("catchup", f, t) \in WorkerState
    BY <2>1 DEF newWorker, WorkerState, JobTypes, Heights
  <2>4. /\ nw(j).jobType = "catchup" /\ nw(j).from = f /\ nw(j).to = t
        /\ nw(j).pos = f /\ nw(j).failed = {}
    BY <2>2 DEF newWorker
  <2> QED
    BY Zenon, <2>1, <2>2, <2>3, <2>4 DEF f, t
<1>5. NoWorker \in WorkerState
  BY Zenon, NoWorkerIsState
<1> HIDE DEF nw
<1>6. TypeOK'
  <2>1. worker' \in [JobIds -> WorkerState]
    <3> HIDE DEF IInv, Has
    <3>1. \A j \in JobIds : (IF Has(j) THEN nw(j) ELSE NoWorker) \in WorkerState
      BY Zenon, <1>4, <1>5
    <3> QED
      BY Zenon, <1>1, <3>1
  <2> QED
    BY Zenon, <1>1, <2>1 DEF TypeOK, Resumable
<1>7. \A j \in JobIds : WorkerOK(worker[j])'
  <2> SUFFICES ASSUME NEW j \in JobIds PROVE WorkerOK(worker[j])'
    BY SMTT(30)
  <2>1. CASE Has(j)
    <3>1. cp.Workers[j].from .. (cp.Workers[j].from - 1) = {} /\ cp.Workers[j].from <= cp.Workers[j].to + 1
          /\ cp.Workers[j].from <= cp.Workers[j].from
      <4> HIDE DEF IInv, Has
      <4>1. cp.Workers[j].from \in Heights /\ cp.Workers[j].to \in Heights
        BY Zenon, <1>4, <2>1
      <4>2. cp.Workers[j].from \in Int /\ cp.Workers[j].to \in Int
        BY <4>1 DEF Heights
      <4>3. cp.Workers[j].from <= cp.Workers[j].to
        BY Zenon, <2>1 DEF Has
      <4> QED
        BY Zenon, <4>2, <4>3, Intervals
    <3> QED
      BY ZenonT(30), <1>3, <1>4, <2>1, <3>1 DEF WorkerOK, JobTypes
  <2>2. CASE ~Has(j)
    BY Zenon, <1>3, <2>2 DEF WorkerOK
  <2> QED
    BY Zenon, <2>1, <2>2
<1>8. NoHeightLost'
  <2> SUFFICES ASSUME NEW h \in tail'..MaxHeight PROVE Accounted(h)'
    BY DEF NoHeightLost
  <2>1. CASE \E j \in JobIds : Has(j) /\ h \in cp.Workers[j].from .. cp.Workers[j].to
    <3>1. PICK j \in JobIds : Has(j) /\ h \in cp.Workers[j].from .. cp.Workers[j].to
      BY SMTT(30), <2>1
    <3>2. h \in worker'[j].pos .. worker'[j].to
      BY Zenon, <1>3, <1>4, <3>1
    <3> QED
      BY <3>2 DEF Accounted
  <2>2. CASE h \in settled \/ h >= cp.SampleFrom \/ h \in cp.Failed
    BY Zenon, <1>1, <2>2 DEF Accounted
  <2> QED
    BY Zenon, <2>1, <2>2 DEF Resumable
<1>9. InRetryBacked' /\ SnapOK' /\ DoneOK' /\ (pc = "off" => Idle)'
  BY <1>1, <1>2, Zenon DEF InRetryBacked, SnapOK, DoneOK
<1>10. WorkersBounded'
  <2>1. InProgress(worker') = {j \in JobIds : Has(j)}
    BY SMTT(30), <1>3, <1>4 DEF InProgress, Active, NoWorker
  <2> QED
    BY Zenon, <2>1 DEF WorkersBounded, Resumable
<1> QED
  BY Zenon, <1>6, <1>7, <1>8, <1>9, <1>10

\* A checkpoint made from the header store alone can be resumed.
LEMMA FreshResumable ==
    ASSUME NEW t \in Heights, NEW head \in t..MaxHeight
    PROVE  Resumable(freshCheckpoint(t, head), t)
<1> DEFINE cp == freshCheckpoint(t, head)
<1>1. /\ cp.SampleFrom = t /\ cp.NetworkHead = head /\ cp.Failed = {}
      /\ \A j \in JobIds : cp.Workers[j].from = 1 /\ cp.Workers[j].to = 0
  BY DEF freshCheckpoint, NoRange
<1> HIDE DEF cp
<1>2. {j \in JobIds : cp.Workers[j].from <= cp.Workers[j].to} = {}
  BY <1>1
<1>3. Cardinality({j \in JobIds : cp.Workers[j].from <= cp.Workers[j].to}) = 0
  BY SMTT(30), <1>2, FS_EmptySet
<1> QED
  BY SMTT(30), <1>1, <1>2, <1>3 DEF Resumable, Heights, cp

\* An idle coordinator is in a good state.
LEMMA IdleInductive == Idle /\ tail \in Heights /\ settled \subseteq Heights => IInv
<1> SUFFICES ASSUME Idle, tail \in Heights, settled \subseteq Heights PROVE IInv
  OBVIOUS
<1>1. \A j \in JobIds : worker[j] = NoWorker /\ snap[j] = NoWorker
  BY DEF Idle
<1>2. TypeOK
  <2>1. NoWorker \in WorkerState
    BY DEF NoWorker, WorkerState
  <2>2. worker \in [JobIds -> WorkerState] /\ snap \in [JobIds -> WorkerState]
    BY <2>1 DEF Idle
  <2>3. next \in 1..(MaxHeight + 1) /\ networkHead \in 0..MaxHeight
    BY DEF Idle
  <2>4. failed = {} /\ ready = {} /\ inRetry = {} /\ unread = {}
    BY DEF Idle
  <2>5. pc = "off" /\ catchUpDone \in BOOLEAN /\ ctxDone \in BOOLEAN
    BY Zenon DEF Idle
  <2> QED
    BY SMTT(30), <2>2, <2>3, <2>4, <2>5 DEF TypeOK
<1>3. InProgress(worker) = {}
  BY <1>1 DEF InProgress, Active, NoWorker
<1>4. Cardinality(InProgress(worker)) = 0
  BY <1>3, FS_EmptySet
<1> QED
  BY SMTT(30), <1>1, <1>2, <1>3, <1>4 DEF IInv, Idle, WorkerOK, NoHeightLost, InRetryBacked, SnapOK, DoneOK, WorkersBounded

\* The coordinator starts in a good state.
LEMMA InitInductive == Init => IInv
<1> SUFFICES ASSUME Init PROVE IInv
  OBVIOUS
<1>1. Idle /\ tail \in Heights /\ settled \subseteq Heights
  BY DEF Init
<1> QED
  BY <1>1, IdleInductive

\* Every step of the coordinator keeps the invariant, alone or in the DASer.
LEMMA CoordinatorStepInductive ==
    ASSUME IInv, CoordinatorStep \/ WorkerStep \/ StatsStep \/ pause \/ unpause \/ cancel
    PROVE  IInv'
<1>1. CASE CoordinatorStep
  <2>1. CASE \E j \in FreeIds : catchupJob(j)
    BY <2>1, CatchupJobInductive
  <2>2. CASE \E j \in FreeIds : \E h \in Heights : retryJob(j, h)
    BY <2>2, RetryJobInductive
  <2>3. CASE toSelect \/ knownHead \/ stopping \/ indicateDone
    BY <2>3, MovesInductive
  <2>4. CASE \E h \in Heights : newHead(h)
    BY <2>4, NewHeadInductive
  <2>5. CASE \E j \in JobIds : handleResult(j)
    BY <2>5, HandleResultInductive
  <2> QED
    BY <1>1, <2>1, <2>2, <2>3, <2>4, <2>5 DEF CoordinatorStep
<1>2. CASE WorkerStep
  BY SMTT(30), <1>2, SampleOkInductive, SampleErrInductive, WorkerCanceledInductive,
     BackoffElapsedInductive DEF WorkerStep
<1>3. CASE StatsStep \/ pause \/ unpause
  BY <1>3, StatsInductive DEF StatsStep
<1>4. CASE cancel
  BY <1>4, CancelInductive
<1> QED
  BY <1>1, <1>2, <1>3, <1>4

\* Every step of the specification, a start included, keeps the invariant.
LEMMA NextInductive == IInv /\ [Next]_vars => IInv'
<1> SUFFICES ASSUME IInv, [Next]_vars PROVE IInv'
  OBVIOUS
<1>1. CASE \E head \in tail..MaxHeight : run(freshCheckpoint(tail, head)) /\ UNCHANGED tail
  <2>1. PICK head \in tail..MaxHeight : run(freshCheckpoint(tail, head)) /\ UNCHANGED tail
    BY SMTT(30), <1>1
  <2>2. tail \in Heights
    BY DEF IInv, TypeOK
  <2>3. Resumable(freshCheckpoint(tail, head), tail)
    BY <2>2, FreshResumable
  <2>4. tail' \in Heights /\ Resumable(freshCheckpoint(tail, head), tail')
    BY <2>1, <2>2, <2>3
  <2> QED
    BY <2>1, <2>4, RunInductive
<1>2. CASE CoordinatorStep \/ WorkerStep \/ StatsStep \/ pause \/ unpause \/ cancel
  BY SMTT(30), <1>2, CoordinatorStepInductive
<1>3. CASE UNCHANGED vars
  BY ZenonT(30), <1>3 DEF vars, state, stats, IInv, TypeOK, WorkerOK, NoHeightLost, Accounted, InRetryBacked,
              SnapOK, Earlier, InProgress, DoneOK, WorkersBounded, Idle
<1> QED
  BY <1>1, <1>2, <1>3 DEF Next, Terminated

\* The inductive invariant holds in every reachable state of the coordinator.
THEOREM Invariance == Spec => []IInv
BY InitInductive, NextInductive, PTL DEF Spec

-----------------------------------------------------------------------------
(***************************************************************************)
(* The theorems.  The constants only have to satisfy the assumptions of    *)
(* DASCoordinator; Next allows stats requests, heads and a stop anywhere.  *)
(***************************************************************************)

\* The variables of coordinatorState always have their types.
THEOREM TypeCorrect == Spec => []TypeOK
<1>1. IInv => TypeOK
  BY DEF IInv
<1> QED
  BY <1>1, Invariance, PTL

\* samplingCoordinator.run never forgets a height between the tail and any head.
THEOREM CoordinatorLosesNoHeight == Spec => []NoHeightLost
<1>1. IInv => NoHeightLost
  BY DEF IInv
<1> QED
  BY <1>1, Invariance, PTL

\* checkDone may ignore inRetry: a retried height has a job in inProgress.
THEOREM CatchUpDoneIsSound == Spec => []CatchUpDoneSound
<1>1. IInv => CatchUpDoneSound
  <2> SUFFICES ASSUME IInv, catchUpDone, NEW h \in tail..networkHead PROVE h \in settled
    BY DEF CatchUpDoneSound
  <2>1. TypeOK /\ pc # "off" /\ InProgress(worker) = {} /\ failed = {} /\ next > networkHead
    BY DEF IInv, DoneOK
  <2>2. networkHead \in 0..MaxHeight /\ next \in Nat /\ tail \in Nat
    BY Zenon, <2>1, Numbers DEF TypeOK
  <2>3. h \in tail..MaxHeight /\ ~(h >= next)
    BY SMTT(30), <2>1, <2>2
  <2>4. \A j \in JobIds : worker[j] = NoWorker
    BY Zenon, <2>1 DEF IInv, WorkerOK, InProgress, Active, JobTypes
  <2>5. \A j \in JobIds : worker[j].failed = {} /\ worker[j].pos = 1 /\ worker[j].to = 0
    BY <2>4 DEF NoWorker
  <2> QED
    BY <2>1, <2>3, <2>5 DEF IInv, NoHeightLost, Accounted
<1> QED
  BY <1>1, Invariance, PTL

\* coordinatorState.inRetry has no leftovers.
THEOREM InRetryHasNoLeftovers == Spec => []InRetryBacked
<1>1. IInv => InRetryBacked
  BY DEF IInv
<1> QED
  BY <1>1, Invariance, PTL

\* concurrencyLimitReached and recentJobsLimitReached bound the worker goroutines.
THEOREM WorkersAreBounded == Spec => []WorkersBounded
<1>1. IInv => WorkersBounded
  BY DEF IInv
<1> QED
  BY <1>1, Invariance, PTL

=============================================================================
