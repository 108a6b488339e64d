-------------------------------- MODULE DASer --------------------------------
(***************************************************************************)
(* The DASer service (das/daser.go, das/store.go): a sampling coordinator  *)
(* (DASCoordinator) started from the checkpoint on disk, the background    *)
(* store that saves a checkpoint now and then, and Stop, which saves one   *)
(* before and one after the coordinator has stopped.  The process may      *)
(* crash at any point; only the stored checkpoint survives.                *)
(*                                                                         *)
(* The header store is external: its tail only moves up, its head is any   *)
(* height from the tail on.  Put may fail, and is atomic.                  *)
(*                                                                         *)
(* A definition X_Wrong in front of X is a faulty variant of it, used to   *)
(* see that the properties notice the fault.                               *)
(***************************************************************************)
EXTENDS DASCoordinator

CONSTANTS
    MaxStarts,      \* bound: how often the service is started
    NoCheckpoint    \* the datastore has no checkpoint

ASSUME MaxStartsAssumption == MaxStarts \in Nat
ASSUME NoCheckpointAssumption == NoCheckpoint \notin Checkpoint

VARIABLES
    svc,      \* progress of DASer.Start and Stop
    stored,   \* the checkpoint in the datastore
    stopCp,   \* the checkpoint Stop is about to store
    bg,       \* where the background store routine is
    bgCp,     \* the checkpoint it is about to store
    prev,     \* SampleFrom of the last checkpoint it tried to store
    reader,   \* who paused the coordinator
    starts

service == <<svc, stored, stopCp, bg, bgCp, prev, reader, starts>>
allVars == <<vars, service>>

MaxOf(a, b) == IF a >= b THEN a ELSE b

resumeWorkers(t) ==
    [j \in JobIds |-> IF stored.Workers[j].to >= t
                      THEN [from |-> MaxOf(stored.Workers[j].from, t),
                            to   |-> stored.Workers[j].to]
                      ELSE NoRange]

\* DASer.checkpoint: the stored checkpoint brought into the header store's range.
checkpoint(t, head) ==
    IF stored = NoCheckpoint
    THEN freshCheckpoint(t, head)
    ELSE [SampleFrom  |-> MaxOf(stored.SampleFrom, t),
          NetworkHead |-> MaxOf(stored.NetworkHead, head),
          Failed      |-> {h \in stored.Failed : h >= t},
          Workers     |-> resumeWorkers(t)]

\* What getCheckpoint returns along with an error; Stop stores it all the same.
ZeroCheckpoint_Wrong ==
    [SampleFrom |-> networkHead + 1, NetworkHead |-> networkHead, Failed |-> {},
     Workers |-> [j \in JobIds |-> NoRange]]

ZeroCheckpoint ==
    [SampleFrom |-> 0, NetworkHead |-> 0, Failed |-> {},
     Workers |-> [j \in JobIds |-> NoRange]]

Put(cp) == stored' = cp \/ stored' = stored

-----------------------------------------------------------------------------
Start ==
    /\ svc = "down" /\ starts < MaxStarts
    /\ svc' = "running"
    /\ starts' = starts + 1
    /\ \E t \in tail..MaxHeight : \E head \in t..MaxHeight :
         /\ tail' = t
         /\ run(checkpoint(t, head))
    /\ bg' = "wait" /\ prev' = 0
    /\ UNCHANGED <<stored, stopCp, bgCp, reader>>

Coordinate ==
    /\ CoordinatorStep \/ WorkerStep \/ StatsStep
    /\ UNCHANGED service

\* runBackgroundStore: at a tick, a checkpoint of the running coordinator, and a
\* store unless catch-up has not moved since the last one.  A tick whose request
\* is not accepted before the context is cancelled has no effect.
bgPause ==
    /\ bg = "wait"
    /\ pause
    /\ bg' = "read" /\ reader' = "bg"
    /\ UNCHANGED <<svc, stored, stopCp, bgCp, prev, starts>>

bgCheckpoint ==
    /\ reader = "bg"
    /\ unpause
    /\ LET cp == newCheckpoint(snap)
       IN  IF cp.SampleFrom > prev
           THEN bg' = "store" /\ bgCp' = cp
           ELSE bg' = "wait" /\ UNCHANGED bgCp
    /\ reader' = "none"
    /\ UNCHANGED <<svc, stored, stopCp, prev, starts>>

\* A failed store is only logged, and counts as done all the same.
bgStore ==
    /\ bg = "store"
    /\ Put(bgCp)
    /\ prev' = bgCp.SampleFrom
    /\ bgCp' = NoCheckpoint
    /\ bg' = "wait"
    /\ UNCHANGED <<vars, svc, stopCp, reader, starts>>

bgExit_Wrong ==
    /\ bg = "wait" /\ ctxDone /\ pc # "done"
    /\ bg' = "exited"
    /\ UNCHANGED <<vars, svc, stored, stopCp, bgCp, prev, reader, starts>>

bgExit ==
    /\ bg = "wait" /\ ctxDone
    /\ bg' = "exited"
    /\ UNCHANGED <<vars, svc, stored, stopCp, bgCp, prev, reader, starts>>

\* Stop: a checkpoint of the running coordinator ...
Stop ==
    /\ svc = "running"
    /\ pause
    /\ svc' = "stopRead" /\ reader' = "stop"
    /\ UNCHANGED <<stored, stopCp, bg, bgCp, prev, starts>>

stopCheckpoint ==
    /\ reader = "stop"
    /\ unpause
    /\ stopCp' = newCheckpoint(snap)
    /\ svc' = "stopStore" /\ reader' = "none"
    /\ UNCHANGED <<stored, bg, bgCp, prev, starts>>

\* ... or, when Stop's context ends first, a zero checkpoint ...
stopUnavailable ==
    /\ svc = "running"
    /\ stopCp' = ZeroCheckpoint
    /\ svc' = "stopStore"
    /\ UNCHANGED <<vars, stored, bg, bgCp, prev, reader, starts>>

\* ... is stored, and the coordinator cancelled ...
stopStore ==
    /\ svc = "stopStore"
    /\ Put(stopCp)
    /\ cancel
    /\ stopCp' = NoCheckpoint
    /\ svc' = "stopWait"
    /\ UNCHANGED <<bg, bgCp, prev, reader, starts>>

\* ... and once it is done, its final state is stored.
stopFinalStore ==
    /\ svc = "stopWait" /\ pc = "done"
    /\ Put(newCheckpoint(worker))
    /\ svc' = "stopJoin"
    /\ UNCHANGED <<vars, stopCp, bg, bgCp, prev, reader, starts>>

\* The process is gone: after Stop has joined the background routine, after a
\* forced quit, or in a crash.
Exit ==
    /\ svc' = "down" /\ stopCp' = NoCheckpoint
    /\ bg' = "exited" /\ bgCp' = NoCheckpoint /\ prev' = 0 /\ reader' = "none"
    /\ pc' = "off" /\ next' = 1 /\ networkHead' = 0
    /\ worker' = [j \in JobIds |-> NoWorker]
    /\ failed' = {} /\ ready' = {} /\ inRetry' = {}
    /\ catchUpDone' = FALSE /\ ctxDone' = FALSE
    /\ snap' = [j \in JobIds |-> NoWorker] /\ unread' = {}
    /\ UNCHANGED <<stored, starts, tail, settled>>

stopJoin ==
    /\ svc = "stopJoin" /\ bg = "exited"
    /\ Exit

crash ==
    /\ svc # "down"
    /\ Exit

StopStep == stopCheckpoint \/ stopStore \/ stopFinalStore \/ stopJoin
BgStep == bgPause \/ bgCheckpoint \/ bgStore \/ bgExit

DInit ==
    /\ Init
    /\ svc = "down" /\ stored = NoCheckpoint /\ stopCp = NoCheckpoint
    /\ bg = "exited" /\ bgCp = NoCheckpoint /\ prev = 0 /\ reader = "none"
    /\ starts = 0

DNext ==
    \/ Start
    \/ Coordinate
    \/ BgStep
    \/ Stop \/ stopUnavailable \/ StopStep
    \/ crash

DSpec == DInit /\ [][DNext]_allVars

\* Fairness.  Every goroutine runs on, and a select that is entered again and
\* again with the context done takes that case in the end.
Coord(A) == A /\ UNCHANGED service
DFairness ==
    /\ WF_allVars(Coord(toSelect))
    /\ WF_allVars(Coord(\E j \in FreeIds : catchupJob(j) \/ \E h \in Heights : retryJob(j, h)))
    /\ SF_allVars(Coord(stopping)) /\ WF_allVars(Coord(indicateDone))
    /\ \A j \in JobIds : WF_allVars(Coord(workerCanceled(j))) /\ WF_allVars(Coord(getState(j)))
    /\ WF_allVars(bgCheckpoint) /\ WF_allVars(bgStore) /\ WF_allVars(bgExit)
    /\ WF_allVars(StopStep)

-----------------------------------------------------------------------------
(***************************************************************************)
(* Properties.                                                             *)
(***************************************************************************)

\* Every service variable has its type.
DTypeOK ==
    /\ svc \in {"down", "running", "stopRead", "stopStore", "stopWait", "stopJoin"}
    /\ stored \in Checkpoint \cup {NoCheckpoint}
    /\ stopCp \in Checkpoint \cup {NoCheckpoint}
    /\ bg \in {"wait", "read", "store", "exited"}
    /\ bgCp \in Checkpoint \cup {NoCheckpoint}
    /\ prev \in Nat /\ reader \in {"none", "bg", "stop"} /\ starts \in Nat

\* Whatever checkpoint is on disk, also an old one of the background store
\* written over the final one, or the zero checkpoint of a Stop that ran out of
\* time, a restart from it samples every height that was not sampled yet.
StoredCheckpointCovers == stored # NoCheckpoint => Covers(stored)

\* Once Stop has cancelled the context it returns: the coordinator, its workers,
\* the background store and Stop itself do not wait for one another in a circle.
StopReturns == (svc = "stopWait") ~> (svc = "down")

-----------------------------------------------------------------------------
(***************************************************************************)
(* The inductive invariant behind the theorems of DASerProofs.             *)
(***************************************************************************)

\* A checkpoint that was made by this service, when the header store started at t
\* and the heights S were sampled: it covers the store, and has no more workers
\* than ever run.
GoodCheckpointFor(cp, t, S) ==
    /\ cp.SampleFrom \in 0..(MaxHeight + 1)
    /\ cp.NetworkHead \in 0..MaxHeight
    /\ \A j \in JobIds : \/ cp.Workers[j] = NoRange
                          \/ /\ cp.Workers[j].from \in Heights /\ cp.Workers[j].to \in Heights
                             /\ cp.Workers[j].from <= cp.Workers[j].to
    /\ Cardinality({j \in JobIds : cp.Workers[j] # NoRange}) <= 2 * ConcurrencyLimit
    /\ \A h \in t..MaxHeight :
           \/ h \in S
           \/ h >= cp.SampleFrom
           \/ h \in cp.Failed
           \/ \E j \in JobIds : h \in cp.Workers[j].from .. cp.Workers[j].to

GoodCheckpoint(cp) == GoodCheckpointFor(cp, tail, settled)

\* The coordinator is in a good state, it runs exactly while the service is up,
\* and every checkpoint on disk or on its way there is good.
DInv ==
    /\ DTypeOK
    /\ IInv
    /\ svc = "down" <=> pc = "off"
    /\ stored # NoCheckpoint => GoodCheckpoint(stored)
    /\ stopCp # NoCheckpoint => GoodCheckpoint(stopCp)
    /\ bgCp # NoCheckpoint => GoodCheckpoint(bgCp)
    /\ svc = "stopStore" => stopCp # NoCheckpoint
    /\ bg = "store" => bgCp # NoCheckpoint

\* Bound for TLC: the last start has to show what a resumed coordinator does, not a
\* second round of Stop and of the background store.
LastStart == starts = MaxStarts => svc \in {"down", "running"} /\ bg # "store"

=============================================================================
