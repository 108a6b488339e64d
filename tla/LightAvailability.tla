-------------------------- MODULE LightAvailability --------------------------
(***************************************************************************)
(* Light availability (share/availability/light): concurrent calls of      *)
(* SharesAvailable and Prune, kept apart per height by Sessions            *)
(* (libs/utils/sessions.go), with a sampling result per data root in a     *)
(* batching datastore, which loses what it has not flushed in a crash.     *)
(* Two heights may have the same data root.                                *)
(*                                                                         *)
(* The getter is external: it returns a slice with the samples it could    *)
(* retrieve, empty ones for the others, or no slice at all.                *)
(*                                                                         *)
(* A definition X_Wrong in front of X is a faulty variant of it, used to   *)
(* see that the properties notice the fault.                               *)
(***************************************************************************)
EXTENDS Naturals, FiniteSets

CONSTANTS
    Samplers, Pruners,  \* calls of SharesAvailable and of Prune, each made at most once
    Heights,
    Roots,              \* Roots[h]: the data root of the header at height h
    EmptyRoot,          \* the data root of the empty block
    Coords,             \* the coordinates of a square
    SampleAmount,
    PartialResults,     \* does the getter return what it has got along with an error?
    MaxCrashes,         \* bound
    None

ASSUME SampleAssumption == SampleAmount \in Nat /\ IsFiniteSet(Coords)

Calls == Samplers \cup Pruners
Keys == {Roots[h] : h \in Heights}
SamplingResult == [available : SUBSET Coords, remaining : SUBSET Coords]
Amount == IF SampleAmount > Cardinality(Coords) THEN Cardinality(Coords) ELSE SampleAmount

ASSUME NoneAssumption == None \notin Calls \cup SamplingResult

VARIABLES
    pc,        \* where each call is
    height,    \* the height it is for
    waiting,   \* the session, that is the call, it waits for
    samples,   \* its copy of the sampling result
    result,    \* what it returns
    active,    \* Sessions: the call whose channel is stored for each height
    closed,    \* the calls whose channel is closed
    ds,        \* the datastore, as read through its batch
    disk,      \* the datastore without the batch
    got,       \* history: the coordinates retrieved, by root
    crashes

callVars == <<pc, height, waiting, samples, result>>
vars == <<pc, height, waiting, samples, result, active, closed, ds, disk, got, crashes>>

Root(c) == Roots[height[c]]
Goto(c, where) == pc' = [pc EXCEPT ![c] = where]
\* The deferred release runs after the result is known.
Finish(c, r) == Goto(c, "release") /\ result' = [result EXCEPT ![c] = r]

-----------------------------------------------------------------------------
(***************************************************************************)
(* A call begins, and has nothing to do for the empty block or, if it      *)
(* samples, for a block outside the sampling window.                       *)
(***************************************************************************)
begin(c, h) ==
    /\ pc[c] = "idle"
    /\ height' = [height EXCEPT ![c] = h]
    /\ \/ Roots[h] = EmptyRoot /\ Goto(c, "done") /\ result' = [result EXCEPT ![c] = "nil"]
       \/ Roots[h] # EmptyRoot /\ c \in Samplers /\ Goto(c, "done") /\ result' = [result EXCEPT ![c] = "outsideWindow"]
       \/ Roots[h] # EmptyRoot /\ Goto(c, "start") /\ UNCHANGED result
    /\ UNCHANGED <<waiting, samples, active, closed, ds, disk, got, crashes>>

\* StartSession: LoadOrStore.
StartSession(c) ==
    /\ pc[c] = "start"
    /\ LET h == height[c]
       IN  \/ /\ active[h] = None
              /\ active' = [active EXCEPT ![h] = c]
              /\ Goto(c, IF c \in Samplers THEN "load" ELSE "delete")
              /\ UNCHANGED waiting
           \/ /\ active[h] # None
              /\ waiting' = [waiting EXCEPT ![c] = active[h]]
              /\ Goto(c, "wait") /\ UNCHANGED active
    /\ UNCHANGED <<height, samples, result, closed, ds, disk, got, crashes>>

\* The session waited for is over: try again.
wake(c) ==
    /\ pc[c] = "wait" /\ waiting[c] \in closed
    /\ Goto(c, "start")
    /\ waiting' = [waiting EXCEPT ![c] = None]
    /\ UNCHANGED <<height, samples, result, active, closed, ds, disk, got, crashes>>

waitCanceled(c) ==
    /\ pc[c] = "wait"
    /\ Goto(c, "done")
    /\ waiting' = [waiting EXCEPT ![c] = None]
    /\ result' = [result EXCEPT ![c] = "ctxErr"]
    /\ UNCHANGED <<height, samples, active, closed, ds, disk, got, crashes>>

\* releaseLock closes the channel, and then deletes it.
release_Wrong(c) ==
    /\ pc[c] = "release"
    /\ Goto(c, "unlock")
    /\ UNCHANGED closed
    /\ UNCHANGED <<height, waiting, samples, result, active, ds, disk, got, crashes>>

release(c) ==
    /\ pc[c] = "release"
    /\ Goto(c, "unlock")
    /\ closed' = closed \cup {c}
    /\ UNCHANGED <<height, waiting, samples, result, active, ds, disk, got, crashes>>

unlock(c) ==
    /\ pc[c] = "unlock"
    /\ Goto(c, "done")
    /\ active' = [active EXCEPT ![height[c]] = None]
    /\ UNCHANGED <<height, waiting, samples, result, closed, ds, disk, got, crashes>>

-----------------------------------------------------------------------------
(***************************************************************************)
(* SharesAvailable.                                                        *)
(***************************************************************************)

\* NewSamplingResult: unique random coordinates.
NewSamplingResult ==
    {[available |-> {}, remaining |-> S] : S \in {T \in SUBSET Coords : Cardinality(T) = Amount}}

Total(s) == Cardinality(s.available) + Cardinality(s.remaining)

\* The stored result if there is one, and a new one otherwise.
load(c) ==
    /\ pc[c] = "load"
    /\ \/ /\ ds[Root(c)] = None
          /\ \E s \in NewSamplingResult : samples' = [samples EXCEPT ![c] = s]
          /\ Goto(c, "get") /\ UNCHANGED result
       \/ /\ ds[Root(c)] # None
          /\ samples' = [samples EXCEPT ![c] = ds[Root(c)]]
          /\ IF Total(ds[Root(c)]) \notin {SampleAmount, Cardinality(Coords)} THEN Finish(c, "invalid")
             ELSE IF ds[Root(c)].remaining = {} THEN Finish(c, "nil")
             ELSE Goto(c, "get") /\ UNCHANGED result
       \/ Finish(c, "dsErr") /\ UNCHANGED samples
    /\ UNCHANGED <<height, waiting, active, closed, ds, disk, got, crashes>>

Update_Restart(s, R) == [available |-> R, remaining |-> s.remaining \ R]

Update(s, R) == [available |-> s.available \cup R, remaining |-> s.remaining \ R]

\* GetSamples: a slice, and whether the context was cancelled, or no slice.
getSamples(c) ==
    /\ pc[c] = "get"
    /\ \/ \E R \in SUBSET samples[c].remaining :
            /\ R = samples[c].remaining \/ PartialResults
            /\ got' = [got EXCEPT ![Root(c)] = got[Root(c)] \cup R]
            /\ samples' = [samples EXCEPT ![c] = Update(samples[c], R)]
            /\ \E where \in {"put", "putCanceled"} : Goto(c, where)
            /\ UNCHANGED result
       \/ Finish(c, "notAvailable") /\ UNCHANGED <<samples, got>>
    /\ UNCHANGED <<height, waiting, active, closed, ds, disk, crashes>>

Verdict_Wrong(c) == IF pc[c] = "putCanceled" THEN "canceled" ELSE "nil"

Verdict(c) ==
    IF pc[c] = "putCanceled" THEN "canceled"
    ELSE IF samples[c].remaining # {} THEN "notAvailable" ELSE "nil"

put(c) ==
    /\ pc[c] \in {"put", "putCanceled"}
    /\ \/ ds' = [ds EXCEPT ![Root(c)] = samples[c]] /\ Finish(c, Verdict(c))
       \/ Finish(c, "storeErr") /\ UNCHANGED ds
    /\ UNCHANGED <<height, waiting, samples, active, closed, disk, got, crashes>>

-----------------------------------------------------------------------------
(***************************************************************************)
(* Prune, and the datastore.                                               *)
(***************************************************************************)
delete(c) ==
    /\ pc[c] = "delete"
    /\ \/ ds' = [ds EXCEPT ![Root(c)] = None] /\ Finish(c, "nil")
       \/ Finish(c, "deleteErr") /\ UNCHANGED ds
    /\ UNCHANGED <<height, waiting, samples, active, closed, disk, got, crashes>>

\* The batch is written when it is full, and by Close.
flush ==
    /\ disk # ds /\ disk' = ds
    /\ UNCHANGED callVars /\ UNCHANGED <<active, closed, ds, got, crashes>>

crash ==
    /\ crashes < MaxCrashes /\ crashes' = crashes + 1
    /\ ds' = disk
    /\ active' = [h \in Heights |-> None]
    /\ pc' = [c \in Calls |-> IF pc[c] \in {"idle", "done"} THEN pc[c] ELSE "done"]
    /\ waiting' = [c \in Calls |-> None]
    /\ result' = [c \in Calls |-> IF pc[c] \in {"idle", "done"} THEN result[c] ELSE "crashed"]
    /\ UNCHANGED <<height, samples, closed, disk, got>>

Init ==
    /\ pc = [c \in Calls |-> "idle"] /\ height = [c \in Calls |-> None]
    /\ waiting = [c \in Calls |-> None] /\ samples = [c \in Calls |-> None]
    /\ result = [c \in Calls |-> "none"]
    /\ active = [h \in Heights |-> None] /\ closed = {}
    /\ ds = [k \in Keys |-> None] /\ disk = ds
    /\ got = [k \in Keys |-> {}] /\ crashes = 0

Step(c) ==
    \/ StartSession(c) \/ wake(c) \/ release(c) \/ unlock(c)
    \/ load(c) \/ getSamples(c) \/ put(c) \/ delete(c)

Next ==
    \/ \E c \in Calls : Step(c) \/ waitCanceled(c) \/ \E h \in Heights : begin(c, h)
    \/ flush
    \/ crash

Spec == Init /\ [][Next]_vars

\* Calls run on; the getter has a deadline.
Fairness == \A c \in Calls : WF_vars(Step(c))

-----------------------------------------------------------------------------
(***************************************************************************)
(* Properties.                                                             *)
(***************************************************************************)

Places == {"idle", "start", "wait", "load", "get", "put", "putCanceled", "delete", "release", "unlock", "done"}
Results == {"none", "nil", "outsideWindow", "ctxErr", "invalid", "dsErr", "notAvailable", "canceled", "storeErr",
            "deleteErr", "crashed"}

\* A result has the full number of samples, each of them either retrieved or not.
WellFormed(s) == s \in SamplingResult /\ s.available \cap s.remaining = {} /\ Total(s) = Amount

\* Every variable has its type, and the sampling results are well formed.
TypeOK ==
    /\ pc \in [Calls -> Places] /\ height \in [Calls -> Heights \cup {None}]
    /\ waiting \in [Calls -> Calls \cup {None}] /\ result \in [Calls -> Results]
    /\ samples \in [Calls -> SamplingResult \cup {None}]
    /\ active \in [Heights -> Calls \cup {None}] /\ closed \subseteq Calls
    /\ ds \in [Keys -> SamplingResult \cup {None}] /\ disk \in [Keys -> SamplingResult \cup {None}]
    /\ got \in [Keys -> SUBSET Coords] /\ crashes \in Nat
    /\ \A c \in Calls : samples[c] # None => WellFormed(samples[c])
    /\ \A k \in Keys : (ds[k] # None => WellFormed(ds[k])) /\ (disk[k] # None => WellFormed(disk[k]))

\* The calls that report a block available, and the samples of it retrieved so far.
EnoughSampled ==
    \A c \in Samplers : result[c] = "nil" /\ Root(c) # EmptyRoot => Cardinality(got[Root(c)]) >= Amount

\* A sampling result, in the batch or on disk, never claims a sample that was not retrieved.
ClaimedIsRetrieved ==
    \A k \in Keys : /\ ds[k] # None => ds[k].available \subseteq got[k]
                    /\ disk[k] # None => disk[k].available \subseteq got[k]

\* A block is reported available only after the full number of distinct samples of it was
\* retrieved, by this call or by earlier ones, before or after a crash, also when two
\* heights with one data root are sampled and pruned at the same time; and no sampling
\* result claims a sample that was not retrieved.
AvailableIsSampled == TypeOK /\ EnoughSampled /\ ClaimedIsRetrieved

\* One call per height is in its session at a time.
InSession(c) == pc[c] \in {"load", "get", "put", "putCanceled", "delete", "release"}
OneSession == \A c, d \in Calls : InSession(c) /\ InSession(d) /\ height[c] = height[d] => c = d

\* One step does not undo the progress of a sampling result that was there before.
KeepsProgress ==
    crashes' = crashes =>
        \A k \in Keys : ds[k] # None /\ ds'[k] # None =>
            /\ ds[k].available \subseteq ds'[k].available
            /\ ds[k].available \cup ds[k].remaining = ds'[k].available \cup ds'[k].remaining

\* One call per height is in its session at a time, and calls do not undo each other's
\* progress: until the result is pruned, or lost in a crash, its samples stay the same and
\* only move from remaining to available.  (Heights with one data root share a result but
\* not a session, so this is said of heights with different roots.)
ProgressKept == [][OneSession /\ KeepsProgress]_vars

\* Every call returns; none waits for a session that is over.
CallsReturn == \A c \in Calls : pc[c] = "start" ~> pc[c] = "done"

-----------------------------------------------------------------------------
(***************************************************************************)
(* The inductive invariant behind the theorems of LightAvailabilityProofs. *)
(***************************************************************************)

\* What is known of a call: the height it is for, whose session it has, and that what its
\* copy of the sampling result claims, and what it reports, was retrieved.
CallOK(c) ==
    /\ pc[c] = "idle" => result[c] = "none"
    /\ pc[c] # "idle" => height[c] \in Heights
    /\ pc[c] \notin {"idle", "done"} => Root(c) # EmptyRoot
    /\ pc[c] = "delete" => c \notin Samplers
    /\ InSession(c) \/ pc[c] = "unlock" => active[height[c]] = c
    /\ pc[c] \in {"get", "put", "putCanceled"} => samples[c] # None /\ samples[c].available \subseteq got[Root(c)]
    /\ c \in Samplers /\ result[c] = "nil" /\ Root(c) # EmptyRoot => Cardinality(got[Root(c)]) >= Amount

IInv == TypeOK /\ ClaimedIsRetrieved /\ \A c \in Calls : CallOK(c)

\* Heights that are sampled have different data roots.
RootsDiffer == \A g, h \in Heights : Roots[g] = Roots[h] /\ Roots[h] # EmptyRoot => g = h

\* The stored result has not changed since a call in its session has read it.
CopyIsFresh(c) ==
    pc[c] \in {"get", "put", "putCanceled"} /\ ds[Root(c)] # None =>
        /\ ds[Root(c)].available \subseteq samples[c].available
        /\ ds[Root(c)].available \cup ds[Root(c)].remaining = samples[c].available \cup samples[c].remaining

=============================================================================
