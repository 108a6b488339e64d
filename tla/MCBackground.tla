---------------------------- MODULE MCBackground ----------------------------
(***************************************************************************)
(* Liveness of the background services, on small instances: the sampling   *)
(* coordinator on its own ("das"), the DASer service around it             *)
(* ("service"), the callers that wait for catch-up ("catchup") and the     *)
(* pruner ("pruner").  A behaviour is one of a single instance, picked by  *)
(* part.                                                                   *)
(***************************************************************************)
EXTENDS DASCatchUp, FiniteSets

CONSTANTS j1, j2, j3, w1, w2, NoCheckpoint

VARIABLE part
VARIABLES pc, next, networkHead, worker, failed, ready, inRetry, catchUpDone, ctxDone, snap, unread,
          tail, settled
VARIABLES svc, stored, stopCp, bg, bgCp, prev, reader, starts
VARIABLES time, ptail, head, data, disk, mode, isArchival, node, cp, ctx, run, last, prevPruned, todo,
          failedSet, more, del, pstarts, adopted, givenUp, trims

Das == INSTANCE DASCoordinator WITH
    MaxHeight <- 2, SamplingRange <- 2, ConcurrencyLimit <- 1, JobIds <- {j1, j2, j3}

Service == INSTANCE DASer WITH
    MaxHeight <- 1, SamplingRange <- 1, ConcurrencyLimit <- 1, JobIds <- {j1, j2, j3}, MaxStarts <- 1

Prune == INSTANCE Pruner WITH
    MaxHeight <- 3, MaxTime <- 2, Window <- 1, BlockTime <- 1, MaxHeadersPerLoop <- 2, MaxStarts <- 1,
    Modes <- {FALSE}, tail <- ptail, starts <- pstarts

coordinatorVars == <<pc, next, networkHead, worker, failed, ready, inRetry, catchUpDone, ctxDone, snap,
                     unread, tail, settled>>
serviceVars == <<svc, stored, stopCp, bg, bgCp, prev, reader, starts>>
prunerVars == <<time, ptail, head, data, disk, mode, isArchival, node, cp, ctx, run, last, prevPruned,
                todo, failedSet, more, del, pstarts, adopted, givenUp, trims>>
allVars == <<part, coordinatorVars, serviceVars, signalVars, prunerVars>>

\* The components that do not move are in one initial state.
MCInit ==
    /\ part \in {"das", "service", "catchup", "pruner"}
    /\ IF part = "das" THEN TRUE ELSE tail = 1
    /\ IF part = "pruner" THEN TRUE ELSE time = [h \in 1..3 |-> 0] /\ ptail = 1 /\ head = 1
    /\ Prune!PrunerInit /\ Das!Init /\ Service!DInit /\ SignalInit

MCNext ==
    \/ part = "das" /\ Das!Next /\ UNCHANGED <<part, serviceVars, signalVars, prunerVars>>
    \/ part = "service" /\ Service!DNext /\ UNCHANGED <<part, signalVars, prunerVars>>
    \/ part = "catchup" /\ SignalNext /\ UNCHANGED <<part, coordinatorVars, serviceVars, prunerVars>>
    \/ part = "pruner" /\ Prune!PrunerNext /\ UNCHANGED <<part, coordinatorVars, serviceVars, signalVars>>

MCSpec == MCInit /\ [][MCNext]_allVars

-----------------------------------------------------------------------------

\* Every height up to a head the coordinator was told of is sampled in the end, unless it
\* is stopped; once heads stop coming catch-up is reported, and every caller of
\* WaitCatchUp returns; and a coordinator whose context is cancelled stops.
SamplingProgress ==
    /\ part = "das" /\ Das!LiveFairness =>
           Das!EventuallySampled /\ Das!EventuallyCaughtUp /\ Das!EventuallyStopped
    /\ part = "catchup" /\ SignalFairness => CallersReleased

\* Once Stop has cancelled the context it returns: the coordinator, its workers, the
\* background store and Stop itself do not wait for one another in a circle.
StopReturns == part = "service" /\ Service!DFairness => Service!StopReturns

\* A block that is older than the window is pruned in the end, as long as the service
\* keeps running: no failed block is forgotten, and a batch that fails does not block the
\* ones behind it for ever.
OldBlocksGetPruned == part = "pruner" /\ Prune!PrunerFairness => Prune!OldBlocksGetPruned

=============================================================================
