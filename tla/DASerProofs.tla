----------------------------- MODULE DASerProofs -----------------------------
(***************************************************************************)
(* Theorems about the checkpoints of the sampling coordinator and the      *)
(* DASer service (DASer), for all values of the constants: a snapshot of   *)
(* the workers shows no height as done that is not and loses none; nor     *)
(* does the checkpoint on disk, whatever the order in which the background *)
(* store, Stop and crashes leave it there, and a coordinator that resumes  *)
(* from it forgets none.                                                   *)
(***************************************************************************)
EXTENDS DASer, DASCoordinatorProofs

USE MaxHeightAssumption, SamplingRangeAssumption, ConcurrencyLimitAssumption

(***************************************************************************)
(* What a snapshot of the workers shows, although they are read one after  *)
(* another (DASCoordinator).                                               *)
(***************************************************************************)

\* s was read from the workers, each at some moment of its current job.
ReadFrom(s) ==
    \A j \in JobIds : IF j \in InProgress(worker) THEN Earlier(s[j], worker[j]) ELSE s[j] = NoWorker

\* The snapshot of a stats request is complete, and a worker's own state is one.
LEMMA SnapshotRead ==
    ASSUME IInv
    PROVE  /\ StatsReady => ReadFrom(snap)
           /\ ReadFrom(worker)
<1>1. StatsReady => ReadFrom(snap)
  BY Zenon DEF IInv, StatsReady, SnapOK, ReadFrom
<1>2. ASSUME NEW j \in JobIds
      PROVE  IF j \in InProgress(worker) THEN Earlier(worker[j], worker[j]) ELSE worker[j] = NoWorker
  <2>1. TypeOK /\ WorkerOK(worker[j])
    BY DEF IInv
  <2>2. CASE worker[j] = NoWorker
    BY SMTT(30), <2>2 DEF InProgress, Active, NoWorker
  <2>3. CASE worker[j] # NoWorker
    <3>1. worker[j].pos <= worker[j].pos
      BY SMTT(30), <2>1, Numbers
    <3> QED
      BY Zenon, <2>1, <2>3, <3>1 DEF WorkerOK, Earlier, InProgress, Active, JobTypes
  <2> QED
    BY <2>2, <2>3
<1> QED
  BY Zenon, <1>1, <1>2 DEF ReadFrom

\* A height that only a worker accounts for shows in a snapshot of that worker:
\* as failed, or between its current height and the end of its range.
LEMMA SnapshotShows ==
    ASSUME IInv, pc # "off", NEW s \in [JobIds -> WorkerState], ReadFrom(s),
           NEW h \in tail..MaxHeight, h \notin settled, h < next, h \notin failed
    PROVE  \E j \in InProgress(worker) : /\ s[j].jobType = worker[j].jobType
                                          /\ s[j].from = worker[j].from /\ s[j].to = worker[j].to
                                          /\ \/ h \in s[j].failed
                                             \/ Curr(s[j]) \in s[j].from..h /\ h <= s[j].to
<1>1. TypeOK /\ Accounted(h)
  BY DEF IInv, NoHeightLost
<1>2. next \in Nat /\ tail \in Nat /\ h \in Nat
  BY <1>1, Numbers
<1>3. PICK j \in JobIds : h \in worker[j].pos .. worker[j].to \/ h \in worker[j].failed
  BY SMTT(30), <1>1, <1>2 DEF Accounted
<1>4. WorkerOK(worker[j]) /\ worker[j] # NoWorker
  BY SMTT(30), <1>3 DEF IInv, NoWorker
<1>5. j \in InProgress(worker)
  BY Zenon, <1>4 DEF WorkerOK, InProgress, Active, JobTypes
<1>6. Earlier(s[j], worker[j])
  BY SMTT(30), <1>5 DEF ReadFrom
<1>7. /\ worker[j].pos \in Nat /\ worker[j].from \in Nat /\ worker[j].to \in Nat
      /\ s[j].pos \in Nat /\ s[j].from \in Nat /\ s[j].to \in Nat
  BY Zenon, <1>1, Numbers DEF WorkerState
<1>8. worker[j].from <= h /\ h <= worker[j].to
  <2>1. CASE h \in worker[j].pos .. worker[j].to
    <3>1. worker[j].from <= worker[j].pos
      BY Zenon, <1>4 DEF WorkerOK
    <3> QED
      BY <1>2, <1>7, <2>1, <3>1
  <2>2. CASE h \in worker[j].failed
    <3>1. h \in worker[j].from .. (worker[j].pos - 1) /\ worker[j].pos <= worker[j].to + 1
      BY Zenon, <1>4, <2>2 DEF WorkerOK
    <3> QED
      BY SMTT(30), <1>2, <1>7, <3>1
  <2> QED
    BY Zenon, <1>3, <2>1, <2>2
<1>9. CASE h < s[j].pos
  <2>1. h \in s[j].from .. (s[j].pos - 1)
    BY SMTT(30), <1>2, <1>6, <1>7, <1>8, <1>9 DEF Earlier
  <2> QED
    BY Zenon, <1>5, <1>6, <2>1 DEF Earlier
<1>10. CASE h >= s[j].pos
  <2>1. Curr(s[j]) \in s[j].from..h /\ h <= s[j].to
    BY SMTT(30), <1>2, <1>6, <1>7, <1>8, <1>10 DEF Earlier, Curr
  <2> QED
    BY Zenon, <1>5, <1>6, <2>1 DEF Earlier
<1> QED
  BY SMTT(30), <1>2, <1>7, <1>9, <1>10

\* A checkpoint made from such a snapshot loses no height.
LEMMA SnapshotCovers ==
    ASSUME IInv, pc # "off", NEW s \in [JobIds -> WorkerState], ReadFrom(s)
    PROVE  Covers(newCheckpoint(s))
<1> DEFINE cp == newCheckpoint(s)
<1>1. TypeOK
  BY SMTT(30) DEF IInv
<1>2. next \in Nat /\ tail \in Nat /\ CatchupHead + 1 = next
  BY SMTT(30), <1>1, Numbers DEF CatchupHead
<1>3. /\ cp.SampleFrom = next /\ cp.Failed = StatsFailed(s)
      /\ \A j \in JobIds : Resumed(s[j]) => /\ cp.Workers[j].from = Curr(s[j])
                                             /\ cp.Workers[j].to = s[j].to
  BY Zenon, <1>2 DEF newCheckpoint
<1> HIDE DEF cp
<1> SUFFICES ASSUME NEW h \in tail..MaxHeight, h \notin settled, ~(h >= next), h \notin StatsFailed(s)
             PROVE  \E j \in JobIds : h \in cp.Workers[j].from .. cp.Workers[j].to
  BY Zenon, <1>3 DEF Covers, cp
<1>4. h < next /\ h \notin failed /\ h \notin inRetry /\ \A j \in JobIds : h \notin s[j].failed
  BY SMTT(30), <1>2 DEF StatsFailed
<1>5. PICK j \in InProgress(worker) :
        /\ s[j].jobType = worker[j].jobType
        /\ s[j].from = worker[j].from /\ s[j].to = worker[j].to
        /\ \/ h \in s[j].failed
           \/ Curr(s[j]) \in s[j].from..h /\ h <= s[j].to
  BY Zenon, <1>4, SnapshotShows
<1>6. j \in JobIds /\ Curr(s[j]) \in s[j].from..h /\ h <= s[j].to
  BY Zenon, <1>4, <1>5 DEF InProgress
<1>7. /\ worker[j].from \in Nat /\ worker[j].to \in Nat
      /\ WorkerOK(worker[j]) /\ worker[j].jobType \in JobTypes
      /\ worker[j].jobType # "catchup" => worker[j].from = worker[j].to
      /\ worker[j].jobType = "retry" => worker[j].from \in inRetry \cup failed \cup settled
  <2>1. WorkerOK(worker[j])
    BY Zenon, <1>6 DEF IInv
  <2>2. worker[j].jobType # "none"
    BY Zenon, <1>5 DEF InProgress, Active
  <2>3. worker[j] # NoWorker
    BY <2>2 DEF NoWorker
  <2>4. /\ worker[j].jobType \in JobTypes
        /\ worker[j].from \in Heights /\ worker[j].to \in Heights
        /\ worker[j].jobType # "catchup" => worker[j].from = worker[j].to
        /\ worker[j].jobType = "retry" => worker[j].from \in inRetry \cup failed \cup settled
    BY Zenon, <2>1, <2>3 DEF WorkerOK
  <2> QED
    BY SMTT(30), <2>1, <2>4, Numbers DEF Heights
<1>8. worker[j].jobType # "catchup" => h = worker[j].from
  BY SMTT(30), <1>2, <1>5, <1>6, <1>7
<1>9. worker[j].jobType # "retry"
  BY Zenon, <1>4, <1>7, <1>8
<1>10. Resumed(s[j])
  BY SMTT(30), <1>2, <1>4, <1>5, <1>6, <1>7, <1>8, <1>9 DEF Resumed, JobTypes, CatchupHead
<1>11. Curr(s[j]) \in Nat /\ h \in Nat /\ Curr(s[j]) <= h /\ h <= s[j].to
  <2>1. h \in Nat /\ s[j].from \in Nat
    <3>1. tail \in Nat /\ MaxHeight \in Nat
      BY <1>2
    <3> QED
      BY Zenon, <1>5, <1>7, <3>1, NatInterval
  <2> QED
    BY Zenon, <1>6, <2>1, NatInterval
<1> QED
  <2>1. s[j].to \in Int /\ Curr(s[j]) \in Int /\ h \in Int
    BY <1>5, <1>7, <1>11
  <2>2. h \in Curr(s[j]) .. s[j].to
    BY Zenon, <1>11, <2>1, Intervals
  <2>3. cp.Workers[j].from = Curr(s[j]) /\ cp.Workers[j].to = s[j].to
    BY Zenon, <1>3, <1>6, <1>10
  <2> QED
    BY Zenon, <1>6, <2>2, <2>3

\* Below the lowest failed or running height of such a snapshot all is sampled.
LEMMA SnapshotChainHead ==
    ASSUME IInv, pc # "off", NEW s \in [JobIds -> WorkerState], ReadFrom(s)
    PROVE  \A h \in tail..SampledChainHead(s) : h \in settled
<1> DEFINE S == {next} \cup failed \cup (UNION {s[j].failed : j \in JobIds})
                  \cup {Curr(s[j]) : j \in InProgress(s)}
<1>1. TypeOK /\ next \in 1..(MaxHeight + 1) /\ tail \in Nat
  BY Zenon, Numbers DEF IInv, TypeOK
<1>2. S \subseteq Nat
  <2>1. failed \subseteq Nat
    BY <1>1 DEF TypeOK, Heights
  <2>2. ASSUME NEW j \in JobIds PROVE s[j].failed \subseteq Nat /\ Curr(s[j]) \in Nat
    <3>1. s[j].failed \subseteq Heights /\ s[j].pos \in Nat /\ s[j].from \in Nat
      BY DEF WorkerState
    <3>2. j \in InProgress(worker) => s[j].from <= s[j].pos
      BY Zenon DEF ReadFrom, Earlier
    <3>3. j \notin InProgress(worker) => s[j].from <= s[j].pos
      BY DEF ReadFrom, NoWorker
    <3> QED
      BY <3>1, <3>2, <3>3 DEF Curr, Heights
  <2>3. next \in Nat /\ InProgress(s) \subseteq JobIds
    BY <1>1 DEF InProgress
  <2>4. UNION {s[j].failed : j \in JobIds} \subseteq Nat
    BY <2>2
  <2>5. {Curr(s[j]) : j \in InProgress(s)} \subseteq Nat
    BY SMTT(30), <2>2, <2>3
  <2> QED
    BY <2>1, <2>3, <2>4, <2>5, Zenon
<1>3. MinOf(S) \in Nat /\ \A y \in S : MinOf(S) <= y
  BY <1>2, MinOfNat
<1>4. SampledChainHead(s) = MinOf(S) - 1
  BY Zenon DEF SampledChainHead, LowestFailedOrInProgress
<1>5. MinOf(S) <= next
  BY Zenon, <1>3
<1> SUFFICES ASSUME NEW h \in tail..SampledChainHead(s), h \notin settled PROVE FALSE
  BY SMTT(30)
<1>6. h \in Nat /\ h < MinOf(S) /\ h \in tail..MaxHeight
  BY SMTT(30), <1>1, <1>3, <1>4, <1>5
<1> HIDE DEF S
<1>7. h \notin S /\ \A y \in S : y \in Nat /\ h < y
  BY SMTT(30), <1>2, <1>3, <1>6
<1>8. h < next /\ h \notin failed /\ \A j \in JobIds : h \notin s[j].failed
  BY SMTT(30), <1>7 DEF S
<1>9. PICK j \in InProgress(worker) :
        /\ s[j].jobType = worker[j].jobType
        /\ h \in s[j].failed \/ Curr(s[j]) \in s[j].from..h
  BY Zenon, <1>6, <1>8, SnapshotShows
<1>10. j \in InProgress(s) /\ Curr(s[j]) \in s[j].from..h
  BY Zenon, <1>8, <1>9 DEF InProgress, Active
<1>11. Curr(s[j]) \in Nat /\ h < Curr(s[j])
  <2>1. Curr(s[j]) \in S
    BY <1>10 DEF S
  <2> QED
    BY SMTT(30), <1>7, <2>1
<1>12. s[j].from \in Nat
  BY <1>10 DEF WorkerState, InProgress
<1> QED
  BY SMTT(30), <1>6, <1>10, <1>11, <1>12

\* SamplingStats.SampledChainHead is right although unsafeStats reads the workers
\* one after another.
THEOREM SampledChainHeadIsSound == Spec => []SampledChainHeadSound
<1>1. IInv => SampledChainHeadSound
  <2> SUFFICES ASSUME IInv, StatsReady
               PROVE  \A h \in tail..SampledChainHead(snap) : h \in settled
    BY SMTT(30) DEF SampledChainHeadSound
  <2>1. ReadFrom(snap) /\ pc # "off" /\ snap \in [JobIds -> WorkerState]
    BY SMTT(30), SnapshotRead DEF StatsReady, IInv, TypeOK
  <2> QED
    BY <2>1, SnapshotChainHead
<1> QED
  BY <1>1, Invariance, PTL

\* newCheckpoint loses no height, during sampling and after the coordinator is
\* done, although it drops retry jobs and recent jobs above the catch-up head.
THEOREM CheckpointIsSound == Spec => []CheckpointSound
<1>1. IInv => CheckpointSound
  <2> SUFFICES ASSUME IInv PROVE CheckpointSound
    BY SMTT(30)
  <2>1. snap \in [JobIds -> WorkerState] /\ worker \in [JobIds -> WorkerState]
    BY DEF IInv, TypeOK
  <2>2. ASSUME StatsReady PROVE Covers(newCheckpoint(snap))
    <3>1. ReadFrom(snap) /\ pc # "off"
      BY <2>2, SnapshotRead DEF StatsReady
    <3> QED
      BY <2>1, <3>1, SnapshotCovers
  <2>3. ASSUME pc = "done" PROVE Covers(newCheckpoint(worker))
    <3>1. ReadFrom(worker) /\ pc # "off"
      BY <2>3, SnapshotRead
    <3> QED
      BY <2>1, <3>1, SnapshotCovers
  <2> QED
    BY <2>2, <2>3 DEF CheckpointSound
<1> QED
  BY <1>1, Invariance, PTL

-----------------------------------------------------------------------------
(***************************************************************************)
(* The checkpoint on disk (DASer).                                         *)
(***************************************************************************)

\* What is covered stays covered: sampling is not undone, and the tail of the
\* header store moves up.
LEMMA GoodCheckpointKept ==
    ASSUME NEW cp, NEW t \in Nat, NEW t2 \in Nat, t <= t2, NEW S, NEW S2, S \subseteq S2,
           GoodCheckpointFor(cp, t, S)
    PROVE  GoodCheckpointFor(cp, t2, S2)
<1>1. \A h \in t2..MaxHeight : h \in t..MaxHeight
  OBVIOUS
<1> QED
  BY <1>1 DEF GoodCheckpointFor

\* DASer.checkpoint brings a good stored checkpoint into the range of the header
\* store, and loses nothing that the store still has.
LEMMA StoredResumable ==
    ASSUME DInv, NEW t \in tail..MaxHeight, NEW head \in t..MaxHeight
    PROVE  Resumable(checkpoint(t, head), t)
<1> DEFINE cp == checkpoint(t, head)
<1>1. tail \in Heights /\ t \in Heights /\ head \in Heights /\ t \in Nat
  BY DEF DInv, IInv, TypeOK, Heights
<1>2. CASE stored = NoCheckpoint
  BY SMTT(30), <1>1, <1>2, FreshResumable DEF checkpoint
<1>3. CASE stored # NoCheckpoint
  <2>1. GoodCheckpoint(stored) /\ stored \in Checkpoint
    BY <1>3 DEF DInv, DTypeOK
  <2>2. /\ cp.SampleFrom = MaxOf(stored.SampleFrom, t)
        /\ cp.NetworkHead = MaxOf(stored.NetworkHead, head)
        /\ cp.Failed = {h \in stored.Failed : h >= t}
        /\ cp.Workers = resumeWorkers(t)
    BY SMTT(30), <1>3 DEF checkpoint
  <2> HIDE DEF cp
  <2>3. ASSUME NEW j \in JobIds
        PROVE  /\ stored.Workers[j] = NoRange => ~(cp.Workers[j].from <= cp.Workers[j].to)
               /\ cp.Workers[j].from <= cp.Workers[j].to
                    => cp.Workers[j].from \in Heights /\ cp.Workers[j].to \in Heights
               /\ \A h \in t..MaxHeight : h \in stored.Workers[j].from .. stored.Workers[j].to
                    => /\ cp.Workers[j].from <= cp.Workers[j].to
                       /\ h \in cp.Workers[j].from .. cp.Workers[j].to
    <3>1. /\ stored.Workers[j].to >= t => /\ cp.Workers[j].from = MaxOf(stored.Workers[j].from, t)
                                          /\ cp.Workers[j].to = stored.Workers[j].to
          /\ ~(stored.Workers[j].to >= t) => cp.Workers[j].from = 1 /\ cp.Workers[j].to = 0
      BY <2>2 DEF resumeWorkers, NoRange
    <3>2. CASE stored.Workers[j] = NoRange
      <4>1. stored.Workers[j].from = 1 /\ stored.Workers[j].to = 0
        BY <3>2 DEF NoRange
      <4> QED
        BY <1>1, <3>1, <4>1 DEF Heights
    <3>3. CASE /\ stored.Workers[j].from \in Heights /\ stored.Workers[j].to \in Heights
               /\ stored.Workers[j].from <= stored.Workers[j].to
      <4>1. stored.Workers[j] # NoRange
        BY <3>3 DEF NoRange, Heights
      <4> QED
        BY <1>1, <3>1, <3>3, <4>1 DEF Heights, MaxOf
    <3> QED
      BY Zenon, <2>1, <3>2, <3>3 DEF GoodCheckpoint, GoodCheckpointFor
  <2>4. /\ cp.SampleFrom \in 1..(MaxHeight + 1) /\ cp.NetworkHead \in 0..MaxHeight
        /\ cp.Failed \subseteq Heights
    BY <1>1, <2>1, <2>2 DEF GoodCheckpoint, GoodCheckpointFor, Checkpoint, MaxOf, Heights
  <2>5. Cardinality({j \in JobIds : cp.Workers[j].from <= cp.Workers[j].to}) <= 2 * ConcurrencyLimit
    <3> DEFINE A == {j \in JobIds : cp.Workers[j].from <= cp.Workers[j].to}
               B == {j \in JobIds : stored.Workers[j] # NoRange}
    <3>1. A \subseteq B
      BY <2>3
    <3>2. IsFiniteSet(B) /\ Cardinality(B) <= 2 * ConcurrencyLimit
      BY <2>1, JobIdsAssumption, FS_Subset DEF GoodCheckpoint, GoodCheckpointFor
    <3> HIDE DEF A, B
    <3>3. Cardinality(A) <= Cardinality(B) /\ Cardinality(A) \in Nat /\ Cardinality(B) \in Nat
      BY <3>1, <3>2, FS_Subset, FS_CardinalityType
    <3>4. Cardinality(A) <= 2 * ConcurrencyLimit
      BY SMTT(30), <3>2, <3>3
    <3> QED
      BY <3>4 DEF A
  <2>6. ASSUME NEW h \in t..MaxHeight
        PROVE  \/ h \in settled
               \/ h >= cp.SampleFrom
               \/ h \in cp.Failed
               \/ \E j \in JobIds : /\ cp.Workers[j].from <= cp.Workers[j].to
                                     /\ h \in cp.Workers[j].from .. cp.Workers[j].to
    <3>1. h \in tail..MaxHeight /\ h >= t
      BY <1>1 DEF Heights
    <3>2. h >= stored.SampleFrom => h >= cp.SampleFrom
      BY <2>2, <3>1 DEF MaxOf
    <3>3. h \in stored.Failed => h \in cp.Failed
      BY <2>2, <3>1
    <3> QED
      BY <2>1, <2>3, <3>1, <3>2, <3>3 DEF GoodCheckpoint, GoodCheckpointFor
  <2> QED
    BY Zenon, <2>3, <2>4, <2>5, <2>6 DEF Resumable, cp
<1> QED
  BY <1>2, <1>3


\* The checkpoint of a snapshot of the workers is good.
LEMMA SnapshotGood ==
    ASSUME IInv, pc # "off", NEW s \in [JobIds -> WorkerState], ReadFrom(s)
    PROVE  newCheckpoint(s) \in Checkpoint /\ GoodCheckpoint(newCheckpoint(s))
<1> DEFINE cp == newCheckpoint(s)
<1>1. TypeOK /\ next \in 1..(MaxHeight + 1) /\ networkHead \in 0..MaxHeight
  BY DEF IInv, TypeOK
<1>2. /\ cp.SampleFrom = next /\ cp.NetworkHead = networkHead /\ cp.Failed = StatsFailed(s)
      /\ cp.Workers = [j \in JobIds |-> IF Resumed(s[j])
                                         THEN [from |-> Curr(s[j]), to |-> s[j].to]
                                         ELSE NoRange]
  BY SMTT(30), <1>1 DEF newCheckpoint, CatchupHead
<1>3. ASSUME NEW j \in JobIds
      PROVE  /\ j \notin InProgress(worker) => cp.Workers[j] = NoRange
             /\ cp.Workers[j] \in CheckpointRange
             /\ \/ cp.Workers[j] = NoRange
                \/ /\ cp.Workers[j].from \in Heights /\ cp.Workers[j].to \in Heights
                   /\ cp.Workers[j].from <= cp.Workers[j].to
  <2>1. CASE ~Resumed(s[j])
    <3>1. cp.Workers[j] = NoRange
      BY <1>2, <2>1
    <3>2. NoRange \in CheckpointRange
      BY DEF CheckpointRange, NoRange
    <3> QED
      BY <3>1, <3>2
  <2>2. CASE Resumed(s[j])
    <3>1. cp.Workers[j] = [from |-> Curr(s[j]), to |-> s[j].to]
      BY <1>2, <2>2
    <3>2. j \in InProgress(worker)
      BY <2>2 DEF Resumed, ReadFrom, NoWorker
    <3>3. Earlier(s[j], worker[j]) /\ WorkerOK(worker[j]) /\ worker[j] # NoWorker
      BY SMTT(30), <3>2 DEF ReadFrom, IInv, InProgress, Active, NoWorker
    <3>4. /\ worker[j].pos \in Nat /\ s[j].pos \in Nat /\ s[j].from \in Heights /\ s[j].to \in Heights
          /\ s[j].from <= s[j].pos /\ s[j].pos <= worker[j].pos /\ worker[j].pos <= s[j].to + 1
      BY ZenonT(30), <1>1, <3>3, Numbers DEF Earlier, WorkerOK, WorkerState
    <3>5. s[j].from <= s[j].to
      <4>1. worker[j].from <= worker[j].to
        BY Zenon, <3>2, <3>3 DEF IInv, WorkerOK
      <4> QED
        BY SMTT(30), <3>3, <4>1 DEF Earlier
    <3>6. Curr(s[j]) \in Heights /\ s[j].to \in Heights /\ Curr(s[j]) <= s[j].to
      BY SMTT(30), <3>4, <3>5 DEF Curr, Heights
    <3>7. cp.Workers[j].from = Curr(s[j]) /\ cp.Workers[j].to = s[j].to /\ cp.Workers[j] \in CheckpointRange
      BY <3>1, <3>6 DEF CheckpointRange, Heights
    <3> QED
      BY <3>2, <3>6, <3>7
  <2> QED
    BY Zenon, <2>1, <2>2
<1>4. StatsFailed(s) \subseteq Heights
  <2>1. \A j \in JobIds : s[j].failed \subseteq Heights
    BY SMTT(30) DEF WorkerState
  <2> QED
    BY <1>1, <2>1 DEF StatsFailed, TypeOK
<1>5. cp \in Checkpoint
  <2>1. cp.Workers \in [JobIds -> CheckpointRange]
    BY <1>2, <1>3
  <2>2. next \in Nat /\ networkHead \in Nat
    BY <1>1
  <2> QED
    BY SMTT(30), <1>1, <1>2, <1>4, <2>1, <2>2 DEF Checkpoint, newCheckpoint
<1>6. Cardinality({j \in JobIds : cp.Workers[j] # NoRange}) <= 2 * ConcurrencyLimit
  <2> DEFINE A == {j \in JobIds : cp.Workers[j] # NoRange}
  <2>1. A \subseteq InProgress(worker)
    BY <1>3
  <2> HIDE DEF A
  <2>2. Cardinality(A) <= Cardinality(InProgress(worker)) /\ Cardinality(A) \in Nat
    BY SMTT(30), <2>1, InProgressFinite, FS_Subset, FS_CardinalityType
  <2>3. Cardinality(A) <= 2 * ConcurrencyLimit
    BY <2>2, InProgressFinite DEF IInv, WorkersBounded
  <2> QED
    BY SMTT(30), <2>3 DEF A
<1>7. Covers(cp)
  BY SnapshotCovers
<1> HIDE DEF cp
<1>8. cp.SampleFrom \in 0..(MaxHeight + 1) /\ cp.NetworkHead \in 0..MaxHeight
  BY SMTT(30), <1>1, <1>2
<1>9. GoodCheckpoint(cp)
  BY Zenon, <1>3, <1>6, <1>7, <1>8 DEF GoodCheckpoint, GoodCheckpointFor, Covers
<1> QED
  BY <1>5, <1>9 DEF cp

\* So is the zero checkpoint, which makes a restart sample the whole store.
LEMMA ZeroGood ==
    ASSUME IInv
    PROVE  ZeroCheckpoint \in Checkpoint /\ GoodCheckpoint(ZeroCheckpoint)
<1> DEFINE cp == ZeroCheckpoint
<1>1. /\ cp.SampleFrom = 0 /\ cp.NetworkHead = 0 /\ \A j \in JobIds : cp.Workers[j] = NoRange
  BY DEF ZeroCheckpoint
<1>2. cp \in Checkpoint
  <2>1. NoRange \in CheckpointRange
    BY DEF CheckpointRange, NoRange
  <2>2. [j \in JobIds |-> NoRange] \in [JobIds -> CheckpointRange]
    BY <2>1
  <2> QED
    BY <2>2 DEF ZeroCheckpoint, Checkpoint
<1> HIDE DEF cp
<1>3. {j \in JobIds : cp.Workers[j] # NoRange} = {}
  BY <1>1
<1>4. Cardinality({j \in JobIds : cp.Workers[j] # NoRange}) = 0
  BY SMTT(30), <1>3, FS_EmptySet
<1>5. tail \in Nat
  BY DEF IInv, TypeOK, Heights
<1>6. Covers(cp)
  BY SMTT(30), <1>1, <1>5 DEF Covers
<1>7. GoodCheckpoint(cp)
  BY <1>1, <1>4, <1>6 DEF GoodCheckpoint, GoodCheckpointFor, Covers
<1> QED
  BY <1>2, <1>7 DEF cp

\* No step of a coordinator turns it on or off, moves the tail, or forgets what
\* was sampled.
LEMMA CoordinatorFrame ==
    ASSUME CoordinatorStep \/ WorkerStep \/ StatsStep \/ pause \/ unpause \/ cancel
    PROVE  tail' = tail /\ settled \subseteq settled' /\ (pc' = "off" <=> pc = "off")
<1>1. CASE CoordinatorStep
  BY Zenon, <1>1 DEF CoordinatorStep, catchupJob, retryJob, toSelect, newHead, knownHead, handleResult,
              stopping, indicateDone
<1>2. CASE WorkerStep
  BY <1>2, Zenon DEF WorkerStep, sampleOk, sampleErr, workerCanceled, backoffElapsed
<1>3. CASE StatsStep \/ pause \/ unpause \/ cancel
  BY Zenon, <1>3 DEF StatsStep, getState, pause, unpause, StatsReady, cancel
<1> QED
  BY SMTT(30), <1>1, <1>2, <1>3

\* The checkpoints a step moves or leaves alone stay good, so those it leaves
\* behind are good if the new ones are.
LEMMA CheckpointsKept ==
    ASSUME DInv, settled \subseteq settled', tail' \in Nat, tail <= tail',
           stored' \in {stored, stopCp, bgCp} \/ GoodCheckpointFor(stored', tail', settled'),
           stopCp' \in {stopCp, NoCheckpoint} \/ GoodCheckpointFor(stopCp', tail', settled'),
           bgCp' \in {bgCp, NoCheckpoint} \/ GoodCheckpointFor(bgCp', tail', settled')
    PROVE  /\ stored' # NoCheckpoint => GoodCheckpoint(stored)'
           /\ stopCp' # NoCheckpoint => GoodCheckpoint(stopCp)'
           /\ bgCp' # NoCheckpoint => GoodCheckpoint(bgCp)'
<1>1. tail \in Nat
  BY DEF DInv, IInv, TypeOK, Heights
<1>2. ASSUME NEW cp \in {stored, stopCp, bgCp}, cp # NoCheckpoint
      PROVE  GoodCheckpointFor(cp, tail', settled')
  <2>1. GoodCheckpointFor(cp, tail, settled)
    BY <1>2 DEF DInv, GoodCheckpoint
  <2> QED
    BY SMTT(30), <1>1, <2>1, GoodCheckpointKept
<1>3. stored' # NoCheckpoint => GoodCheckpointFor(stored', tail', settled')
  BY <1>2
<1>4. stopCp' # NoCheckpoint => GoodCheckpointFor(stopCp', tail', settled')
  BY <1>2
<1>5. bgCp' # NoCheckpoint => GoodCheckpointFor(bgCp', tail', settled')
  BY <1>2
<1> QED
  BY SMTT(30), <1>3, <1>4, <1>5 DEF GoodCheckpoint

\* The service starts in a good state.
LEMMA DInitInductive == DInit => DInv
<1> SUFFICES ASSUME DInit PROVE DInv
  OBVIOUS
<1>1. IInv
  BY InitInductive DEF DInit
<1>2. pc = "off"
  BY DEF DInit, Init, Idle
<1> QED
  BY <1>1, <1>2 DEF DInit, DInv, DTypeOK

\* A start, on whatever checkpoint is stored, keeps the invariant.
LEMMA StartInductive ==
    ASSUME DInv, Start
    PROVE  DInv'
<1>1. PICK t \in tail..MaxHeight : \E head \in t..MaxHeight : tail' = t /\ run(checkpoint(t, head))
  BY DEF Start
<1>2. PICK head \in t..MaxHeight : tail' = t /\ run(checkpoint(t, head))
  BY SMTT(30), <1>1
<1>3. IInv /\ tail \in Heights /\ tail' \in Heights /\ tail' \in Nat /\ tail <= tail'
  BY <1>2 DEF DInv, IInv, TypeOK, Heights
<1>4. Resumable(checkpoint(t, head), tail')
  BY SMTT(30), <1>2, StoredResumable
<1>5. IInv'
  BY SMTT(30), <1>2, <1>3, <1>4, RunInductive
<1>6. /\ settled' = settled /\ pc' = "loop" /\ svc' = "running" /\ bg' = "wait" /\ prev' = 0
      /\ starts' = starts + 1 /\ UNCHANGED <<stored, stopCp, bgCp, reader>>
  BY Zenon, <1>2 DEF run, Start
<1>7. DTypeOK'
  BY SMTT(30), <1>6 DEF DInv, DTypeOK
<1>8. /\ stored' # NoCheckpoint => GoodCheckpoint(stored)'
      /\ stopCp' # NoCheckpoint => GoodCheckpoint(stopCp)'
      /\ bgCp' # NoCheckpoint => GoodCheckpoint(bgCp)'
  BY <1>3, <1>6, CheckpointsKept
<1> QED
  BY SMTT(30), <1>5, <1>6, <1>7, <1>8 DEF DInv

\* The end of the process keeps the stored checkpoint, and nothing else.
LEMMA ExitInductive ==
    ASSUME DInv, Exit
    PROVE  DInv'
<1>1. Idle'
  BY SMTT(30) DEF Exit, Idle
<1>2. tail' \in Heights /\ settled' \subseteq Heights
  BY Zenon DEF DInv, IInv, TypeOK, Exit
<1>3. (Idle /\ tail \in Heights /\ settled \subseteq Heights)' => IInv'
  BY IdleInductive, PTL
<1>4. IInv'
  BY <1>1, <1>2, <1>3
<1>5. /\ UNCHANGED <<stored, starts, tail, settled>> /\ pc' = "off" /\ svc' = "down"
      /\ stopCp' = NoCheckpoint /\ bgCp' = NoCheckpoint
      /\ bg' = "exited" /\ prev' = 0 /\ reader' = "none"
  BY DEF Exit
<1>6. DTypeOK'
  BY <1>5 DEF DInv, DTypeOK
<1>7. stored' # NoCheckpoint => GoodCheckpoint(stored)'
  BY <1>5 DEF DInv, GoodCheckpoint
<1> QED
  BY SMTT(30), <1>4, <1>5, <1>6, <1>7 DEF DInv

\* A step that moves the coordinator, or only the service, keeps the invariant
\* if the checkpoints it leaves behind are good.
LEMMA ServiceStepInductive ==
    ASSUME DInv,
           \/ UNCHANGED vars
           \/ CoordinatorStep \/ WorkerStep \/ StatsStep \/ pause \/ unpause \/ cancel,
           stored' \in {stored, stopCp, bgCp} \/ GoodCheckpointFor(stored', tail, settled),
           stopCp' \in {stopCp, NoCheckpoint} \/ GoodCheckpointFor(stopCp', tail, settled),
           bgCp' \in {bgCp, NoCheckpoint} \/ GoodCheckpointFor(bgCp', tail, settled),
           DTypeOK', (svc' = "down") <=> (svc = "down"),
           svc' = "stopStore" => stopCp' # NoCheckpoint,
           bg' = "store" => bgCp' # NoCheckpoint
    PROVE  DInv'
<1>1. IInv' /\ tail' = tail /\ settled \subseteq settled' /\ (pc' = "off" <=> pc = "off")
  <2>1. CASE UNCHANGED vars
    <3>1. IInv'
      BY SMTT(30), <2>1, NextInductive DEF DInv
    <3> QED
      BY <2>1, <3>1 DEF vars
  <2>2. CASE CoordinatorStep \/ WorkerStep \/ StatsStep \/ pause \/ unpause \/ cancel
    BY Zenon, <2>2, CoordinatorStepInductive, CoordinatorFrame DEF DInv
  <2> QED
    BY <2>1, <2>2
<1>2. tail \in Nat /\ tail' \in Nat /\ tail <= tail'
  BY SMTT(30), <1>1 DEF DInv, IInv, TypeOK, Heights
<1>3. \A cp : GoodCheckpointFor(cp, tail, settled) => GoodCheckpointFor(cp, tail', settled')
  BY SMTT(30), <1>1, <1>2, GoodCheckpointKept
<1>4. /\ stored' # NoCheckpoint => GoodCheckpoint(stored)'
      /\ stopCp' # NoCheckpoint => GoodCheckpoint(stopCp)'
      /\ bgCp' # NoCheckpoint => GoodCheckpoint(bgCp)'
  BY Zenon, <1>1, <1>2, <1>3, CheckpointsKept
<1> QED
  BY <1>1, <1>4 DEF DInv

\* The steps of the background store keep the invariant.
LEMMA BgInductive ==
    ASSUME DInv, BgStep
    PROVE  DInv'
<1>1. CASE bgPause
  <2>1. DTypeOK'
    BY SMTT(30), <1>1 DEF DInv, DTypeOK, bgPause
  <2> QED
    BY Zenon, <1>1, <2>1, ServiceStepInductive DEF bgPause, DInv
<1>2. CASE bgCheckpoint
  <2>1. unpause /\ StatsReady /\ UNCHANGED <<svc, stored, stopCp, prev, starts>> /\ reader' = "none"
    BY <1>2 DEF bgCheckpoint, unpause
  <2>2. newCheckpoint(snap) \in Checkpoint /\ GoodCheckpoint(newCheckpoint(snap))
    <3>1. IInv /\ pc # "off" /\ snap \in [JobIds -> WorkerState] /\ ReadFrom(snap)
      BY Zenon, <2>1, SnapshotRead DEF DInv, IInv, TypeOK, StatsReady
    <3> QED
      BY SMTT(30), <3>1, SnapshotGood
  <2>3. \/ bg' = "store" /\ bgCp' = newCheckpoint(snap)
        \/ bg' = "wait" /\ bgCp' = bgCp
    BY SMTT(30), <1>2 DEF bgCheckpoint
  <2>4. DTypeOK'
    BY Zenon, <2>1, <2>2, <2>3 DEF DInv, DTypeOK
  <2>5. bg' = "store" => bgCp' # NoCheckpoint
    BY <2>2, <2>3, NoCheckpointAssumption
  <2>6. bgCp' \in {bgCp, NoCheckpoint} \/ GoodCheckpointFor(bgCp', tail, settled)
    BY SMTT(30), <2>2, <2>3 DEF GoodCheckpoint
  <2> QED
    BY Zenon, <2>1, <2>4, <2>5, <2>6, ServiceStepInductive DEF DInv
<1>3. CASE bgStore
  <2>1. bgCp # NoCheckpoint /\ bgCp \in Checkpoint
    BY <1>3 DEF DInv, DTypeOK, bgStore
  <2>2. bgCp.SampleFrom \in Nat
    BY <2>1 DEF Checkpoint
  <2>3. stored' \in {stored, stopCp, bgCp} /\ bgCp' = NoCheckpoint /\ bg' = "wait"
        /\ prev' = bgCp.SampleFrom /\ UNCHANGED <<vars, svc, stopCp, reader, starts>>
    BY SMTT(30), <1>3 DEF bgStore, Put
  <2>4. DTypeOK'
    BY Zenon, <2>1, <2>2, <2>3 DEF DInv, DTypeOK
  <2> QED
    BY Zenon, <2>3, <2>4, ServiceStepInductive DEF DInv
<1>4. CASE bgExit
  <2>1. DTypeOK'
    BY Zenon, <1>4 DEF DInv, DTypeOK, bgExit
  <2> QED
    BY Zenon, <1>4, <2>1, ServiceStepInductive DEF bgExit, DInv
<1> QED
  BY SMTT(30), <1>1, <1>2, <1>3, <1>4 DEF BgStep

\* The steps of Stop keep the invariant.
LEMMA StopInductive ==
    ASSUME DInv, Stop \/ stopUnavailable \/ StopStep
    PROVE  DInv'
<1>1. CASE Stop
  <2>1. DTypeOK'
    BY Zenon, <1>1 DEF DInv, DTypeOK, Stop
  <2> QED
    BY Zenon, <1>1, <2>1, ServiceStepInductive DEF Stop, DInv
<1>2. CASE stopUnavailable
  <2>1. ZeroCheckpoint \in Checkpoint /\ GoodCheckpointFor(ZeroCheckpoint, tail, settled)
    BY ZeroGood DEF DInv, GoodCheckpoint
  <2>2. /\ stopCp' = ZeroCheckpoint /\ svc = "running" /\ svc' = "stopStore"
        /\ UNCHANGED <<vars, stored, bg, bgCp, prev, reader, starts>>
    BY SMTT(30), <1>2 DEF stopUnavailable
  <2>3. DTypeOK'
    BY Zenon, <2>1, <2>2 DEF DInv, DTypeOK
  <2>4. stopCp' # NoCheckpoint
    BY SMTT(30), <2>1, <2>2, NoCheckpointAssumption
  <2> QED
    BY Zenon, <2>1, <2>2, <2>3, <2>4, ServiceStepInductive DEF DInv
<1>3. CASE stopCheckpoint
  <2>1. /\ unpause /\ StatsReady /\ stopCp' = newCheckpoint(snap) /\ svc' = "stopStore"
        /\ reader' = "none" /\ UNCHANGED <<stored, bg, bgCp, prev, starts>>
    BY <1>3 DEF stopCheckpoint, unpause
  <2>2. /\ newCheckpoint(snap) \in Checkpoint
        /\ GoodCheckpointFor(newCheckpoint(snap), tail, settled) /\ svc # "down"
    <3>1. IInv /\ pc # "off" /\ snap \in [JobIds -> WorkerState] /\ ReadFrom(snap)
      BY ZenonT(30), <2>1, SnapshotRead DEF DInv, IInv, TypeOK, StatsReady
    <3> QED
      BY SMTT(30), <3>1, SnapshotGood DEF DInv, GoodCheckpoint
  <2>3. DTypeOK'
    BY Zenon, <2>1, <2>2 DEF DInv, DTypeOK
  <2>4. stopCp' # NoCheckpoint
    BY Zenon, <2>1, <2>2, NoCheckpointAssumption
  <2> QED
    BY Zenon, <2>1, <2>2, <2>3, <2>4, ServiceStepInductive DEF DInv
<1>4. CASE stopStore
  <2>1. /\ cancel /\ stored' \in {stored, stopCp, bgCp} /\ stopCp' = NoCheckpoint
        /\ svc = "stopStore" /\ svc' = "stopWait" /\ UNCHANGED <<bg, bgCp, prev, reader, starts>>
    BY SMTT(30), <1>4 DEF stopStore, Put
  <2>2. DTypeOK'
    BY Zenon, <2>1 DEF DInv, DTypeOK
  <2> QED
    BY Zenon, <2>1, <2>2, ServiceStepInductive DEF DInv
<1>5. CASE stopFinalStore
  <2>1. newCheckpoint(worker) \in Checkpoint /\ GoodCheckpointFor(newCheckpoint(worker), tail, settled)
    <3>1. IInv /\ pc # "off" /\ worker \in [JobIds -> WorkerState] /\ ReadFrom(worker)
      BY Zenon, <1>5, SnapshotRead DEF DInv, IInv, TypeOK, stopFinalStore
    <3> QED
      BY SMTT(30), <3>1, SnapshotGood DEF GoodCheckpoint
  <2>2. /\ stored' \in {stored, newCheckpoint(worker)} /\ svc = "stopWait" /\ svc' = "stopJoin"
        /\ UNCHANGED <<vars, stopCp, bg, bgCp, prev, reader, starts>>
    BY SMTT(30), <1>5 DEF stopFinalStore, Put
  <2>3. DTypeOK'
    BY Zenon, <2>1, <2>2 DEF DInv, DTypeOK
  <2>4. stored' \in {stored, stopCp, bgCp} \/ GoodCheckpointFor(stored', tail, settled)
    BY <2>1, <2>2
  <2> QED
    BY Zenon, <2>2, <2>3, <2>4, ServiceStepInductive DEF DInv
<1>6. CASE stopJoin
  BY <1>6, ExitInductive DEF stopJoin
<1> QED
  BY SMTT(30), <1>1, <1>2, <1>3, <1>4, <1>5, <1>6 DEF StopStep

\* Every step of the service keeps the invariant.
LEMMA DNextInductive == DInv /\ [DNext]_allVars => DInv'
<1> SUFFICES ASSUME DInv, [DNext]_allVars PROVE DInv'
  BY SMTT(30)
<1>1. CASE Coordinate
  <2>1. UNCHANGED service /\ (CoordinatorStep \/ WorkerStep \/ StatsStep)
    BY SMTT(30), <1>1 DEF Coordinate
  <2>2. DTypeOK'
    BY Zenon, <2>1 DEF DInv, DTypeOK, service
  <2> QED
    BY Zenon, <2>1, <2>2, ServiceStepInductive DEF DInv, service
<1>2. CASE UNCHANGED allVars
  <2>1. UNCHANGED service /\ UNCHANGED vars
    BY SMTT(30), <1>2 DEF allVars
  <2>2. DTypeOK'
    BY Zenon, <2>1 DEF DInv, DTypeOK, service
  <2> QED
    BY Zenon, <2>1, <2>2, ServiceStepInductive DEF DInv, service
<1>3. CASE crash
  BY <1>3, ExitInductive DEF crash
<1> QED
  BY SMTT(30), <1>1, <1>2, <1>3, StartInductive, BgInductive, StopInductive DEF DNext

\* The inductive invariant holds in every reachable state of the service.
THEOREM ServiceInvariance == DSpec => []DInv
BY DInitInductive, DNextInductive, PTL DEF DSpec

\* Whatever runBackgroundStore, Stop and crashes leave in the datastore covers
\* every height that was not sampled yet.
THEOREM StoredCheckpointIsSound == DSpec => []StoredCheckpointCovers
<1>1. DInv => StoredCheckpointCovers
  BY Zenon DEF DInv, StoredCheckpointCovers, GoodCheckpoint, GoodCheckpointFor, Covers
<1> QED
  BY <1>1, ServiceInvariance, PTL

\* A coordinator that DASer.Start resumes from the stored checkpoint, after any
\* number of crashes, forgets no height of the header store.
THEOREM RestartsLoseNoHeight == DSpec => []NoHeightLost
<1>1. DInv => NoHeightLost
  BY DEF DInv, IInv
<1> QED
  BY <1>1, ServiceInvariance, PTL

=============================================================================
