-------------------------------- MODULE Pruner --------------------------------
(***************************************************************************)
(* The pruner service (pruner/service.go, checkpoint.go, find.go), the     *)
(* hook that converts an archival node into a pruned one                   *)
(* (nodebuilder/pruner), and Prune of the full availability.               *)
(*                                                                         *)
(* Three goroutines meet here: the pruning routine (run), the header       *)
(* Syncer, which calls pruneOnHeaderDelete before it deletes a header, and *)
(* the start-up hooks.  checkpointMu is held for a whole pruning round     *)
(* and for the first and the last part of pruneOnHeaderDelete, but not     *)
(* while that handler prunes.  The process may crash at any point; the     *)
(* stored checkpoint, the recorded mode, the headers and the block data    *)
(* survive.                                                                *)
(*                                                                         *)
(* The header store and the Syncer are external.  Headers tail..head are   *)
(* stored; the Syncer deletes them one by one from the tail on, once they  *)
(* are older than its window, which nodebuilder/header/config.go keeps no  *)
(* shorter than the pruner's.  On an archival node it deletes none, and    *)
(* the tail is the first block (nodebuilder/header/constructors.go).       *)
(*                                                                         *)
(* A definition X_Wrong in front of X is a faulty variant of it, used to   *)
(* see that the properties notice the fault.                               *)
(***************************************************************************)
EXTENDS Integers, FiniteSets

CONSTANTS
    MaxHeight,          \* bound: the highest block
    MaxTime,            \* bound: the latest block time
    Window,             \* availability window
    BlockTime,
    MaxHeadersPerLoop,
    MaxStarts,          \* bound: how often the process is started
    Modes,              \* values of the archival flag the operator uses
    NoCheckpoint

Heights == 1..MaxHeight
Times == 0..MaxTime
Checkpoint == [LastPrunedHeight : Heights, FailedHeaders : SUBSET Heights]

ASSUME PrunerAssumption ==
    /\ {MaxTime, MaxStarts} \subseteq Nat /\ {MaxHeight, Window, BlockTime, MaxHeadersPerLoop} \subseteq Nat \ {0}
    /\ Modes \subseteq BOOLEAN /\ NoCheckpoint \notin Checkpoint

VARIABLES
    time,       \* the time of each block
    tail, head, \* the header store
    data,       \* what the node stores of each block
    disk,       \* the persisted checkpoint
    mode,       \* the recorded previous mode
    isArchival, \* how this process runs
    node,       \* the process: down, starting, converting, or up: past the conversion hook
    cp,         \* s.checkpoint
    ctx,        \* s.ctx: nil, live or done
    run,        \* the pruning routine
    last,       \* lastPrunedHeader of the round
    prevPruned,
    todo,       \* heights still to be visited by the loop it is in
    failedSet,
    more,       \* the batch was full
    del,        \* pruneOnHeaderDelete, called with height tail
    starts,
    adopted,    \* history: heights a checkpoint was set to, though nobody pruned them
    givenUp,    \* history: failed heights dropped with a warning
    trims       \* history: an archival node has run, and the checkpoint was not reset since

locals == <<last, prevPruned, todo, failedSet, more>>
routine == <<run, locals>>
store == <<time, head>>
process == <<isArchival, node, starts>>
excuses == <<adopted, givenUp, trims>>
prunerVars == <<store, tail, data, disk, mode, process, cp, ctx, routine, del, excuses>>

Cutoff == time[head] - Window
CheckpointMuFree == run \in {"off", "idle", "exited", "stopped"}

\* The routine is at p, outside a round, where its locals mean nothing.
outside(p) ==
    run' = p /\ last' = 1 /\ prevPruned' = 1 /\ todo' = {} /\ failedSet' = {} /\ more' = FALSE

-----------------------------------------------------------------------------

newCheckpoint(lastPruned) == [LastPrunedHeight |-> lastPruned, FailedHeaders |-> {}]

\* loadCheckpoint, which with nothing on disk resets the checkpoint to the tail.
loaded == IF cp # NoCheckpoint THEN cp
          ELSE IF disk # NoCheckpoint THEN disk ELSE newCheckpoint(tail)

Fresh == cp = NoCheckpoint /\ disk = NoCheckpoint
loadCheckpoint == disk' = IF Fresh THEN loaded ELSE disk

\* The tail is taken as pruned; the first block is pruned with the ones after it.
adopt == IF tail = 1 THEN adopted ELSE adopted \cup {tail}

\* ShareAvailability.Prune of the full availability: what is left of the block.
PruneBlock(h) == [data EXCEPT ![h] = IF ~isArchival THEN "none" ELSE IF @ = "none" THEN @ ELSE "ods"]

lower(a, b) == IF a <= b THEN a ELSE b

calculateEstimatedCutoff(lp) ==
    lower(lower(lp + (Cutoff - time[lp]) \div BlockTime, head), lp + MaxHeadersPerLoop)

\* findPruneableHeaders: nothing if the estimate is not beyond the last pruned block; else
\* the blocks after it, the first block included, as long as they are old, cut to one batch.
\* (Headers are fetched one by one beyond the estimate, until one is young; the head is.)
findPruneableHeaders(lp) ==
    LET first == IF lp = 1 THEN 1 ELSE lp + 1
    IN  IF time[lp] >= Cutoff \/ lp >= calculateEstimatedCutoff(lp) THEN {}
        ELSE {h \in first..head : h - first < MaxHeadersPerLoop /\ \A g \in first..h : time[g] <= Cutoff}

-----------------------------------------------------------------------------
(***************************************************************************)
(* A pruning round.                                                        *)
(***************************************************************************)

\* lastPruned: the last pruned header, or the tail if that is further up; failed
\* heights below the tail are dropped.  An error ends the round: nothing happens.
lastPruned ==
    IF tail < cp.LastPrunedHeight
    THEN last' = cp.LastPrunedHeight /\ UNCHANGED <<cp, adopted, givenUp>>
    ELSE LET gone == {h \in cp.FailedHeaders : h < tail}
         IN  /\ last' = tail
             /\ cp' = [LastPrunedHeight |-> tail, FailedHeaders |-> cp.FailedHeaders \ gone]
             /\ givenUp' = givenUp \cup gone
             /\ adopted' = IF tail > cp.LastPrunedHeight THEN adopt ELSE adopted

prune ==
    /\ run = "idle"
    /\ lastPruned
    /\ run' = "retry" /\ todo' = cp'.FailedHeaders
    /\ UNCHANGED <<store, tail, data, disk, mode, process, ctx, prevPruned, failedSet, more, del, trims>>

retryFailed_Wrong(h) ==
    /\ run = "retry" /\ h \in todo
    /\ todo' = todo \ {h}
    /\ cp' = [cp EXCEPT !.FailedHeaders = @ \ {h}]
    /\ data' \in {data, PruneBlock(h)}
    /\ UNCHANGED <<store, tail, disk, mode, process, ctx, run, last, prevPruned, failedSet, more,
                   del, excuses>>

retryFailed(h) ==
    /\ run = "retry" /\ h \in todo
    /\ todo' = todo \ {h}
    /\ \/ /\ h >= tail
          /\ data' = PruneBlock(h)
          /\ cp' = [cp EXCEPT !.FailedHeaders = @ \ {h}]
       \/ UNCHANGED <<data, cp>>
    /\ UNCHANGED <<store, tail, disk, mode, process, ctx, run, last, prevPruned, failedSet, more,
                   del, excuses>>

retried ==
    /\ run = "retry" /\ todo = {}
    /\ run' = "loop"
    /\ UNCHANGED <<store, tail, data, disk, mode, process, cp, ctx, locals, del, excuses>>

\* One iteration: find a batch; the round ends without one, on an error, and when
\* the context is done.
find ==
    /\ run = "loop"
    /\ IF ctx = "done" \/ findPruneableHeaders(last) = {}
       THEN outside("idle")
       ELSE /\ run' = "batch" /\ UNCHANGED last
            /\ todo' = findPruneableHeaders(last)
            /\ failedSet' = {}
            /\ prevPruned' = last
            /\ more' = (Cardinality(findPruneableHeaders(last)) >= MaxHeadersPerLoop)
    /\ UNCHANGED <<store, tail, data, disk, mode, process, cp, ctx, del, excuses>>

findFails ==
    /\ run = "loop"
    /\ outside("idle")
    /\ UNCHANGED <<store, tail, data, disk, mode, process, cp, ctx, del, excuses>>

\* The blocks of a batch are pruned in order.
pruneNext(h, ok) ==
    /\ run = "batch" /\ h \in todo /\ \A g \in todo : h <= g
    /\ todo' = todo \ {h}
    /\ IF ok THEN data' = PruneBlock(h) /\ last' = h /\ UNCHANGED failedSet
             ELSE failedSet' = failedSet \cup {h} /\ UNCHANGED <<data, last>>
    /\ UNCHANGED <<store, tail, disk, mode, process, cp, ctx, run, prevPruned, more, del, excuses>>

updated(lastPrunedHeight, failedHeights) ==
    [LastPrunedHeight |-> lastPrunedHeight,
     FailedHeaders    |-> cp.FailedHeaders \cup failedHeights]

updateCheckpoint ==
    /\ run = "batch" /\ todo = {}
    /\ cp' = updated(last, failedSet)
    /\ \/ /\ disk' = cp'
          /\ IF more /\ last # prevPruned THEN run' = "loop" /\ UNCHANGED locals
                                          ELSE outside("idle")
       \/ UNCHANGED disk /\ outside("idle")
    /\ UNCHANGED <<store, tail, data, mode, process, ctx, del, excuses>>

-----------------------------------------------------------------------------
(***************************************************************************)
(* pruneOnHeaderDelete, called by the Syncer with the tail.                *)
(***************************************************************************)


onDelete ==
    /\ del = "idle" /\ node # "down" /\ ctx # "done" /\ ~isArchival
    /\ tail < head /\ time[tail] < Cutoff
    /\ CheckpointMuFree
    /\ loadCheckpoint
    /\ cp' = [loaded EXCEPT !.FailedHeaders = @ \ {tail}]
    /\ givenUp' = givenUp \cup (loaded.FailedHeaders \cap {tail})
    /\ adopted' = IF tail = 1 /\ loaded.LastPrunedHeight = 1 THEN adopted \cup {1}
                  ELSE IF Fresh THEN adopt ELSE adopted
    /\ del' = IF tail <= cp'.LastPrunedHeight THEN "delete" ELSE "prune"
    /\ UNCHANGED <<store, tail, data, mode, process, ctx, routine, trims>>

\* Outside the lock; a failure is returned to the Syncer, which keeps the header.
onDeletePrune(ok) ==
    /\ del = "prune"
    /\ IF ok THEN data' = PruneBlock(tail) /\ del' = "commit" ELSE del' = "idle" /\ UNCHANGED data
    /\ UNCHANGED <<store, tail, disk, mode, process, cp, ctx, routine, excuses>>

onDeleteCommit_Wrong ==
    /\ del = "commit" /\ CheckpointMuFree
    /\ cp' = [cp EXCEPT !.LastPrunedHeight = tail]
    /\ del' = "delete"
    /\ UNCHANGED <<store, tail, data, disk, mode, process, ctx, routine, excuses>>

onDeleteCommit ==
    /\ del = "commit" /\ CheckpointMuFree
    /\ cp' = [cp EXCEPT !.LastPrunedHeight = IF tail <= @ THEN @ ELSE tail]
    /\ del' = "delete"
    /\ UNCHANGED <<store, tail, data, disk, mode, process, ctx, routine, excuses>>

deleteHeader ==
    /\ del = "delete"
    /\ tail' = tail + 1
    /\ del' = "idle"
    /\ UNCHANGED <<store, data, disk, mode, process, cp, ctx, routine, excuses>>

newBlock ==
    /\ head < MaxHeight
    /\ head' = head + 1
    /\ data' = [data EXCEPT ![head + 1] = "odsq4"]
    /\ UNCHANGED <<time, tail, disk, mode, process, cp, ctx, routine, del, excuses>>

-----------------------------------------------------------------------------
(***************************************************************************)
(* The life of the process.                                                *)
(***************************************************************************)

down ==
    /\ node' = "down" /\ cp' = NoCheckpoint /\ ctx' = "nil"
    /\ outside("off")
    /\ del' = "idle"
    /\ UNCHANGED <<store, tail, data, disk, starts, isArchival, excuses>>

boot ==
    /\ node = "down" /\ starts < MaxStarts
    /\ isArchival' \in Modes /\ (isArchival' => tail = 1)
    /\ node' = "starting" /\ starts' = starts + 1 /\ trims' = (trims \/ isArchival')
    /\ UNCHANGED <<store, tail, data, disk, mode, cp, ctx, routine, del, adopted, givenUp>>

Start ==
    /\ node = "starting" /\ ctx = "nil"
    /\ loadCheckpoint
    /\ cp' = loaded
    /\ adopted' = IF Fresh THEN adopt ELSE adopted
    /\ ctx' = "live" /\ run' = "idle"
    /\ UNCHANGED <<store, tail, data, mode, process, locals, del, givenUp, trims>>

Refused == isArchival /\ (mode = "pruned" \/ (mode = "unknown" /\ cp.LastPrunedHeight > 1))

convertToPruned ==
    /\ node = "starting" /\ ctx = "live" /\ CheckpointMuFree
    /\ IF Refused
       THEN down /\ UNCHANGED mode
       ELSE /\ mode' = IF mode = "pruned" \/ ~isArchival THEN "pruned" ELSE "archival"
            /\ node' = IF mode = "archival" /\ ~isArchival THEN "converting" ELSE "up"
            /\ UNCHANGED <<store, tail, data, disk, isArchival, starts, cp, ctx, routine, del, excuses>>

\* Everything up to the tail is taken as pruned, the first block if its header is being deleted.
ResetCheckpoint ==
    /\ node = "converting" /\ CheckpointMuFree
    /\ cp' = newCheckpoint(tail)
    /\ disk' = cp'
    /\ adopted' = IF tail = 1 /\ del # "delete" THEN adopted ELSE adopted \cup 1..tail
    /\ trims' = FALSE
    /\ node' = "up"
    /\ UNCHANGED <<store, tail, data, mode, isArchival, starts, ctx, routine, del, givenUp>>

Stop ==
    /\ node = "up" /\ ctx = "live"
    /\ ctx' = "done"
    /\ UNCHANGED <<store, tail, data, disk, mode, process, cp, routine, del, excuses>>

runExits ==
    /\ run = "idle" /\ ctx = "done"
    /\ run' = "exited"
    /\ UNCHANGED <<store, tail, data, disk, mode, process, cp, ctx, locals, del, excuses>>

stopStores ==
    /\ run = "exited"
    /\ run' = "stopped"
    /\ disk' = cp \/ UNCHANGED disk
    /\ UNCHANGED <<store, tail, data, mode, process, cp, ctx, locals, del, excuses>>

crashNode ==
    /\ node # "down"
    /\ down
    /\ UNCHANGED mode

RoutineStep ==
    \/ prune \/ retried \/ find \/ findFails \/ updateCheckpoint
    \/ \E h \in Heights : retryFailed(h) \/ \E ok \in BOOLEAN : pruneNext(h, ok)
SyncerStep == onDelete \/ onDeleteCommit \/ deleteHeader \/ \E ok \in BOOLEAN : onDeletePrune(ok)
ProcessStep == boot \/ Start \/ convertToPruned \/ ResetCheckpoint \/ Stop \/ runExits
               \/ stopStores \/ crashNode

PrunerInit ==
    /\ time \in {t \in [Heights -> Times] :
                  t[1] = 0 /\ \A h \in Heights \ {1} : t[h - 1] <= t[h]}
    /\ tail \in Heights /\ head \in tail..MaxHeight
    /\ data = [h \in Heights |-> IF h \in tail..head THEN "odsq4" ELSE "none"]
    /\ disk = NoCheckpoint /\ mode = "unknown"
    /\ isArchival = FALSE /\ node = "down" /\ starts = 0
    /\ cp = NoCheckpoint /\ ctx = "nil"
    /\ run = "off" /\ last = 1 /\ prevPruned = 1 /\ todo = {} /\ failedSet = {} /\ more = FALSE
    /\ del = "idle"
    /\ adopted = {} /\ givenUp = {} /\ trims = FALSE

PrunerNext == RoutineStep \/ SyncerStep \/ newBlock \/ ProcessStep

PrunerSpec == PrunerInit /\ [][PrunerNext]_prunerVars

\* PrunerFairness.  The ticker fires again and again, the routine and the start-up hooks
\* run on, and neither Prune nor the header store fails every time.
PrunerFairness ==
    /\ WF_prunerVars(prune \/ retried \/ updateCheckpoint \/ \E h \in Heights : retryFailed(h) \/ \E ok \in BOOLEAN : pruneNext(h, ok))
    /\ SF_prunerVars(find)
    /\ \A h \in Heights : /\ SF_prunerVars(retryFailed(h) /\ h \notin cp'.FailedHeaders)
                          /\ SF_prunerVars(pruneNext(h, TRUE))
    /\ WF_prunerVars(onDeleteCommit \/ \E ok \in BOOLEAN : onDeletePrune(ok))
    /\ WF_prunerVars(convertToPruned \/ ResetCheckpoint)

-----------------------------------------------------------------------------
(***************************************************************************)
(* Properties.                                                             *)
(***************************************************************************)

\* Every variable has its type.
PrunerTypeOK ==
    /\ time \in [Heights -> Times] /\ tail \in Heights /\ head \in Heights
    /\ data \in [Heights -> {"none", "ods", "odsq4"}]
    /\ disk \in Checkpoint \cup {NoCheckpoint} /\ cp \in Checkpoint \cup {NoCheckpoint}
    /\ mode \in {"unknown", "pruned", "archival"} /\ isArchival \in BOOLEAN
    /\ node \in {"down", "starting", "converting", "up"} /\ ctx \in {"nil", "live", "done"}
    /\ run \in {"off", "idle", "retry", "loop", "batch", "exited", "stopped"}
    /\ last \in Heights /\ prevPruned \in Heights /\ todo \subseteq Heights
    /\ failedSet \subseteq Heights /\ more \in BOOLEAN
    /\ del \in {"idle", "prune", "commit", "delete"} /\ starts \in Nat
    /\ adopted \subseteq Heights /\ givenUp \subseteq Heights /\ trims \in BOOLEAN

\* The blocks that count as pruned.  Three kinds of them may still be on disk: those that
\* were trimmed, as long as the checkpoint of an archival node was not reset, which is for good
\* if the process crashes between recording the new mode and ResetCheckpoint; the tail that a
\* new checkpoint is set to, and at a conversion what is below it, which no round prunes although
\* their headers are deleted as those of pruned blocks; and failed blocks that were given up with
\* a warning.
Gone == {h \in Heights : data[h] = "none" \/ (trims /\ data[h] = "ods")} \cup adopted \cup givenUp

\* What a checkpoint claims: every block up to the last pruned height is gone, or is a failed
\* one that will be retried; except the first block, which is pruned with the ones after it.
Sound(c, gone) == c # NoCheckpoint =>
    \A h \in 1..c.LastPrunedHeight : h \in gone \/ h \in c.FailedHeaders \/ (h = 1 /\ c.LastPrunedHeight = 1)

\* Neither a round interrupted by a crash, a failed Prune, nor the Syncer deleting
\* headers meanwhile makes the checkpoint, in memory or on disk, claim too much.
CheckpointSound == Sound(cp, Gone) /\ Sound(disk, Gone)

\* When the Syncer has deleted a header, its block counts as pruned.
NoOrphan == 1..(tail - 1) \subseteq Gone

\* A node on which the pruner ran as such, and was recorded, never gets past the
\* start-up hook as an archival node, however often it is restarted and crashes.
ArchivalIsRefused == node = "up" /\ isArchival => mode = "archival"


\* A step prunes no block inside the availability window.
OnlyOldBlocksArePruned ==
    \A h \in Heights : data'[h] # data[h] /\ data[h] # "none" => time[h] <= Cutoff

\* A step of a pruning round, or a deleted header, never moves the last pruned height back,
\* so no range of blocks is pruned over and over; only the conversion starts again.
LastPrunedNeverDecreases ==
    cp # NoCheckpoint /\ cp' # NoCheckpoint
    => cp'.LastPrunedHeight >= cp.LastPrunedHeight \/ (node = "converting" /\ node' = "up")

\* Neither a pruning round nor a deleted header moves the last pruned height back, and
\* no block inside the availability window is pruned, in either mode.
PruningStepsSound == [][OnlyOldBlocksArePruned /\ LastPrunedNeverDecreases]_prunerVars

\* A block that is older than the window by a block time is pruned in the end, as
\* long as the service keeps running, or counts as pruned (Gone): no failed block is
\* forgotten, and a batch that fails does not block the ones behind it for ever.
OldBlocksGetPruned ==
    <>[](ctx = "live") =>
    \A h \in Heights :
        (data[h] = "odsq4" /\ time[h] + BlockTime <= Cutoff) ~> (h \in Gone)

=============================================================================
