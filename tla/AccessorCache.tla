---------------------------- MODULE AccessorCache ----------------------------
(***************************************************************************)
(* The cache of open block accessors (store/cache/accessor_cache.go).  An  *)
(* accessor is counted by reference: whoever takes it out of the cache, by *)
(* Remove or by eviction, marks it closed, waits until its last reader has *)
(* let go of it, and then closes the file.  Readers hold the lock of their *)
(* height from the look-up until they have a reference; Remove lets go of  *)
(* it before it closes, and evictions do not take it at all.               *)
(*                                                                         *)
(* A definition X_Wrong in front of X is a faulty variant of it, used to   *)
(* see that the properties notice the fault.                               *)
(***************************************************************************)
EXTENDS Integers, FiniteSets

CONSTANTS
    Heights, Readers, Removers,
    Objects,      \* bound: accessors in memory at a time
    CacheSize,
    Timeouts,     \* whether readers may exceed defaultCloseTimeout
    None

\* Finitely many goroutines; None is none of the values it stands in for, and the
\* goroutines that evictFn starts are no removers.
ASSUME CacheAssumption ==
    /\ IsFiniteSet(Readers)
    /\ None \notin Objects /\ None \notin Heights /\ None \notin Removers /\ None # "evictFn"
    /\ "evictFn" \notin Removers


VARIABLES
    cache,     \* the accessor of each height, or None
    acc,       \* the accessors
    reader,    \* goroutines in Get and GetOrLoad, and what they hold
    remover,   \* goroutines in Remove
    evicted    \* accessors for which evictFn has started a goroutine that calls close

vars == <<cache, acc, reader, remover, evicted>>

\* refs and isClosed are accessor's; done says whether its channel is closed, file
\* what has become of the file.  An unused object is like a new accessor.
NewAccessor == [refs |-> 0, isClosed |-> FALSE, done |-> FALSE, file |-> "none", waits |-> None]
Away == [pc |-> "away", height |-> None, obj |-> None]

Cached == {cache[h] : h \in Heights} \ {None}
Live(o) == acc[o].file = "open"

\* The lock of a height: GetOrLoad excludes everybody, Get excludes GetOrLoad.
Inside(h, pcs) == {r \in Readers : reader[r].height = h /\ reader[r].pc \in pcs}
WriteLockFree(h) == Inside(h, {"get", "load", "lookup", "insert"}) = {}
ReadLockFree(h) == Inside(h, {"load", "lookup", "insert"}) = {}

Go(r, pc) == reader' = [reader EXCEPT ![r].pc = pc]

-----------------------------------------------------------------------------
(***************************************************************************)
(* References.                                                             *)
(***************************************************************************)

\* newRefCloser: a reference to an accessor that is not closed.
addRef(o) ==
    /\ ~acc[o].isClosed
    /\ acc' = [acc EXCEPT ![o].refs = @ + 1, ![o].done = FALSE]

removeRef(o) == acc' = [acc EXCEPT ![o].refs = @ - 1, ![o].done = acc[o].refs <= 1]

\* close, up to the wait: only the first call goes on.
markClosed(o, who) ==
    acc' = IF acc[o].isClosed THEN acc
           ELSE [acc EXCEPT ![o].isClosed = TRUE, ![o].waits = who]

\* Get
Get(r, h) ==
    /\ reader[r].pc = "away" /\ ReadLockFree(h)
    /\ cache[h] # None
    /\ reader' = [reader EXCEPT ![r] = [pc |-> "get", height |-> h, obj |-> cache[h]]]
    /\ UNCHANGED <<cache, acc, remover, evicted>>

getRef(r) ==
    /\ reader[r].pc = "get"
    /\ addRef(reader[r].obj)
    /\ Go(r, "hold")
    /\ UNCHANGED <<cache, remover, evicted>>

getMiss(r) ==
    /\ reader[r].pc = "get" /\ acc[reader[r].obj].isClosed
    /\ reader' = [reader EXCEPT ![r] = Away]
    /\ UNCHANGED <<cache, acc, remover, evicted>>

\* GetOrLoad: the cached accessor, unless it is closed; or else a new one.
GetOrLoad(r, h) ==
    /\ reader[r].pc = "away" /\ WriteLockFree(h)
    /\ reader' = [reader EXCEPT ![r] = [pc |-> IF cache[h] = None THEN "load" ELSE "lookup",
                                        height |-> h, obj |-> cache[h]]]
    /\ UNCHANGED <<cache, acc, remover, evicted>>

lookupRef(r) ==
    /\ reader[r].pc = "lookup"
    /\ addRef(reader[r].obj)
    /\ Go(r, "hold")
    /\ UNCHANGED <<cache, remover, evicted>>

lookupClosed(r) ==
    /\ reader[r].pc = "lookup" /\ acc[reader[r].obj].isClosed
    /\ Go(r, "load")
    /\ UNCHANGED <<cache, acc, remover, evicted>>

Unused == {o \in Objects : acc[o].file = "none"}

load(r) ==
    /\ reader[r].pc = "load"
    /\ \/ \E o \in Unused :
            /\ acc' = [acc EXCEPT ![o] = [NewAccessor EXCEPT !.refs = 1, !.file = "open"]]
            /\ reader' = [reader EXCEPT ![r].pc = "insert", ![r].obj = o]
       \/ \* the loader fails
          reader' = [reader EXCEPT ![r] = Away] /\ UNCHANGED acc
    /\ UNCHANGED <<cache, remover, evicted>>

insert(r) ==
    LET h == reader[r].height
    IN  /\ reader[r].pc = "insert"
        /\ IF cache[h] = None /\ Cardinality(Cached) >= CacheSize
           THEN \E v \in Heights \ {h} :
                  /\ cache[v] # None
                  /\ cache' = [cache EXCEPT ![h] = reader[r].obj, ![v] = None]
                  /\ evicted' = evicted \cup {cache[v]}
           ELSE /\ cache' = [cache EXCEPT ![h] = reader[r].obj]
                /\ UNCHANGED evicted
        /\ Go(r, "hold")
        /\ UNCHANGED <<acc, remover>>

\* Close of the reader's refCloser, which counts once.
release(r) ==
    /\ reader[r].pc = "hold"
    /\ removeRef(reader[r].obj)
    /\ reader' = [reader EXCEPT ![r] = Away]
    /\ UNCHANGED <<cache, remover, evicted>>

-----------------------------------------------------------------------------
(***************************************************************************)
(* Remove and evictions.                                                   *)
(***************************************************************************)

Remove(m, h) ==
    /\ remover[m].pc = "away" /\ ReadLockFree(h) /\ cache[h] # None
    /\ remover' = [remover EXCEPT ![m] = [pc |-> "close", height |-> h, obj |-> cache[h]]]
    /\ UNCHANGED <<cache, acc, reader, evicted>>

removeClose(m) ==
    /\ remover[m].pc = "close"
    /\ markClosed(remover[m].obj, m)
    /\ remover' = [remover EXCEPT ![m].pc = IF acc[remover[m].obj].isClosed THEN "drop" ELSE "wait"]
    /\ UNCHANGED <<cache, reader, evicted>>

\* Whatever accessor the height has by now leaves the cache.
removeDrop(m) ==
    /\ remover[m].pc = "drop"
    /\ LET o == cache[remover[m].height]
       IN  /\ cache' = [cache EXCEPT ![remover[m].height] = None]
           /\ evicted' = IF o = None THEN evicted ELSE evicted \cup {o}
    /\ remover' = [remover EXCEPT ![m] = Away]
    /\ UNCHANGED <<acc, reader>>

evictClose(o) ==
    /\ o \in evicted
    /\ markClosed(o, "evictFn")
    /\ evicted' = evicted \ {o}
    /\ UNCHANGED <<cache, reader, remover>>

\* The wait for the readers is over; the one who waited closes the file.  When
\* that fails, Remove returns and leaves the closed accessor in the cache.
closeFile(o, forced) ==
    /\ acc' = [acc EXCEPT ![o].file = IF forced THEN "forced" ELSE "closed", ![o].waits = None]
    /\ \E failed \in BOOLEAN :
         remover' = [m \in Removers |->
                       IF acc[o].waits # m THEN remover[m]
                       ELSE IF failed THEN Away ELSE [remover[m] EXCEPT !.pc = "drop"]]
    /\ UNCHANGED <<cache, reader, evicted>>

waitDone_Wrong(o) == Live(o) /\ acc[o].waits # None /\ closeFile(o, FALSE)

waitDone(o) == Live(o) /\ acc[o].waits # None /\ acc[o].done /\ closeFile(o, FALSE)

waitTimeout(o) == Timeouts /\ Live(o) /\ acc[o].waits # None /\ ~acc[o].done /\ closeFile(o, TRUE)

\* A closed accessor that nobody refers to is garbage.
Garbage(o) ==
    /\ acc[o].file \in {"closed", "forced"} /\ acc[o].refs = 0
    /\ o \notin Cached \cup evicted
    /\ \A r \in Readers : reader[r].obj # o
    /\ \A m \in Removers : remover[m].obj # o

collect(o) ==
    /\ Garbage(o)
    /\ acc' = [acc EXCEPT ![o] = NewAccessor]
    /\ UNCHANGED <<cache, reader, remover, evicted>>

Init ==
    /\ cache = [h \in Heights |-> None] /\ acc = [o \in Objects |-> NewAccessor]
    /\ reader = [r \in Readers |-> Away] /\ remover = [m \in Removers |-> Away]
    /\ evicted = {}

Next ==
    \/ \E r \in Readers :
         \/ \E h \in Heights : Get(r, h) \/ GetOrLoad(r, h)
         \/ getRef(r) \/ getMiss(r) \/ lookupRef(r) \/ lookupClosed(r) \/ load(r) \/ insert(r) \/ release(r)
    \/ \E m \in Removers : (\E h \in Heights : Remove(m, h)) \/ removeClose(m) \/ removeDrop(m)
    \/ \E o \in Objects : evictClose(o) \/ waitDone(o) \/ waitTimeout(o) \/ collect(o)

Spec == Init /\ [][Next]_vars

\* Fairness.  Goroutines run on, and readers close their accessors.
Fairness ==
    /\ \A r \in Readers : WF_vars(getRef(r) \/ getMiss(r) \/ lookupRef(r) \/ lookupClosed(r)
                                  \/ load(r) \/ insert(r) \/ release(r))
    /\ \A m \in Removers : WF_vars(removeClose(m) \/ removeDrop(m))
    /\ \A o \in Objects : WF_vars(evictClose(o)) /\ WF_vars(waitDone(o))

-----------------------------------------------------------------------------
(***************************************************************************)
(* Properties.                                                             *)
(***************************************************************************)

Accessor == [refs : Nat, isClosed : BOOLEAN, done : BOOLEAN, file : {"none", "open", "closed", "forced"},
             waits : Removers \cup {"evictFn", None}]
Goroutine(pcs) == [pc : pcs, height : Heights \cup {None}, obj : Objects \cup {None}]
Getting == Goroutine({"away", "get", "lookup", "load", "insert", "hold"})
Removing == Goroutine({"away", "close", "wait", "drop"})

\* Every variable has its type.
TypeOK ==
    /\ cache \in [Heights -> Objects \cup {None}]
    /\ acc \in [Objects -> Accessor]
    /\ reader \in [Readers -> Getting]
    /\ remover \in [Removers -> Removing]
    /\ evicted \subseteq Objects

\* Nobody reads from a closed file: as long as a reader has not closed its
\* reference the file stays open, unless it has exceeded the timeout.
NoUseAfterClose ==
    \A r \in Readers : reader[r].pc \in {"hold", "insert"} => acc[reader[r].obj].file \in {"open", "forced"}

\* The count of an accessor is the number of readers that hold it, and the
\* channel that its closer waits for is closed exactly when there is none.
Holders(o) == {r \in Readers : reader[r].obj = o /\ reader[r].pc \in {"hold", "insert"}}
RefsExact ==
    \A o \in Objects : acc[o].file # "none" =>
        /\ acc[o].refs = Cardinality(Holders(o))
        /\ acc[o].done <=> acc[o].refs = 0

\* No file is left open for good: an open accessor is in the cache or about to be,
\* or somebody has undertaken to close it.
NoLeak ==
    \A o \in Objects : Live(o) =>
        \/ o \in Cached
        \/ \E r \in Readers : reader[r].pc = "insert" /\ reader[r].obj = o
        \/ acc[o].waits # None
        \/ o \in evicted

\* An accessor that was marked closed does get closed when its readers are done.
ClosedInTheEnd == \A o \in Objects : (acc[o].isClosed /\ Live(o)) ~> ~Live(o)

\* What the cache promises its readers: the reference counts are exact, nobody reads from a
\* file that the cache has closed, and no accessor is left open without anybody who will
\* close it.
AccessorsSound == TypeOK /\ NoUseAfterClose /\ RefsExact /\ NoLeak

-----------------------------------------------------------------------------
(***************************************************************************)
(* The inductive invariant behind the theorem of AccessorCacheProofs.      *)
(***************************************************************************)

\* An accessor that anybody refers to has not been collected.
InUse ==
    /\ \A h \in Heights : cache[h] # None => acc[cache[h]].file # "none"
    /\ \A o \in evicted : acc[o].file # "none"
    /\ \A r \in Readers : reader[r].obj # None => acc[reader[r].obj].file # "none"
    /\ \A m \in Removers : remover[m].obj # None => acc[remover[m].obj].file # "none"

\* A file is closed by the one who marked its accessor, and not before its last
\* reader has gone, unless that takes too long.
ClosedOnce ==
    \A o \in Objects :
        /\ acc[o].waits # None <=> acc[o].isClosed /\ Live(o)
        /\ acc[o].file \in {"closed", "forced"} => acc[o].isClosed
        /\ acc[o].file = "closed" => acc[o].refs = 0
        /\ acc[o].waits \in Removers => remover[acc[o].waits].pc = "wait" /\ remover[acc[o].waits].obj = o

\* Readers and removers that are under way know their height and their accessor.
UnderWay ==
    /\ \A r \in Readers : /\ reader[r].pc # "away" => reader[r].height \in Heights
                          /\ reader[r].pc \in {"get", "lookup", "insert", "hold"} => reader[r].obj \in Objects
    /\ \A m \in Removers : remover[m].pc # "away" => remover[m].height \in Heights /\ remover[m].obj \in Objects

\* One GetOrLoad is under way for a height, and it replaces only an accessor that was closed.
LoadAlone ==
    \A r \in Readers : reader[r].pc \in {"lookup", "load", "insert"} =>
        /\ \A s \in Readers : reader[s].pc \in {"lookup", "load", "insert"} /\ reader[s].height = reader[r].height
                                  => s = r
        /\ LET o == cache[reader[r].height]
           IN  IF reader[r].pc = "lookup" THEN o \in {None, reader[r].obj}
               ELSE o # None => acc[o].isClosed

\* Everything the proof needs to know of a reachable state.
IInv == TypeOK /\ InUse /\ ClosedOnce /\ UnderWay /\ LoadAlone /\ RefsExact /\ NoLeak

=============================================================================
