------------------------- MODULE AccessorCacheProofs -------------------------
(***************************************************************************)
(* The theorem about AccessorCache: reference counts are exact, nobody     *)
(* reads from a file that was closed, and no file stays open for good, for *)
(* any number of heights, readers and removers and any size of the cache.  *)
(***************************************************************************)
EXTENDS AccessorCache, FiniteSetTheorems, TLAPS

-----------------------------------------------------------------------------
(***************************************************************************)
(* Reference counts.                                                       *)
(***************************************************************************)

\* Only the reader r changes.
ReaderMoves(r, v) == reader' = [reader EXCEPT ![r] = v]

\* A step of one reader leaves the others where they are.
LEMMA OneReaderMoves ==
    ASSUME TypeOK, NEW r \in Readers, NEW v \in Getting, ReaderMoves(r, v)
    PROVE  /\ reader' \in [Readers -> Getting] /\ reader'[r] = v
           /\ \A s \in Readers : s # r => reader'[s] = reader[s]
  BY DEF TypeOK, ReaderMoves

\* Whoever neither held an accessor nor holds one now leaves the counts as they are.
LEMMA HoldersSame ==
    ASSUME TypeOK, NEW r \in Readers, NEW v \in Getting, ReaderMoves(r, v),
           NEW o \in Objects,
           (reader[r].obj = o /\ reader[r].pc \in {"hold", "insert"}) <=> (v.obj = o /\ v.pc \in {"hold", "insert"})
    PROVE  Holders(o)' = Holders(o)
<1>1. /\ reader'[r] = v
      /\ \A s \in Readers : s # r => reader'[s] = reader[s]
  BY OneReaderMoves
<1> QED
  BY <1>1 DEF Holders

\* A reader that takes hold of an accessor is one more, ...
LEMMA HoldersMore ==
    ASSUME TypeOK, NEW r \in Readers, NEW v \in Getting, ReaderMoves(r, v), NEW o \in Objects,
           ~(reader[r].obj = o /\ reader[r].pc \in {"hold", "insert"}), v.obj = o /\ v.pc \in {"hold", "insert"}
    PROVE  Cardinality(Holders(o)') = Cardinality(Holders(o)) + 1 /\ Cardinality(Holders(o)) \in Nat
<1>1. /\ reader'[r] = v
      /\ \A s \in Readers : s # r => reader'[s] = reader[s]
  BY OneReaderMoves
<1>2. Holders(o)' = Holders(o) \cup {r} /\ r \notin Holders(o)
  BY <1>1 DEF Holders
<1>3. IsFiniteSet(Holders(o))
  BY FS_Subset, CacheAssumption DEF Holders
<1> QED
  BY <1>2, <1>3, FS_AddElement, FS_CardinalityType

\* ... and one that lets go of it is one less.
LEMMA HoldersLess ==
    ASSUME TypeOK, NEW r \in Readers, NEW v \in Getting, ReaderMoves(r, v), NEW o \in Objects,
           reader[r].obj = o /\ reader[r].pc \in {"hold", "insert"}, v.pc \notin {"hold", "insert"}
    PROVE  Cardinality(Holders(o)') = Cardinality(Holders(o)) - 1 /\ Cardinality(Holders(o)) \in Nat \ {0}
<1>1. /\ reader'[r] = v
      /\ \A s \in Readers : s # r => reader'[s] = reader[s]
  BY OneReaderMoves
<1>2. Holders(o)' = Holders(o) \ {r} /\ r \in Holders(o)
  BY <1>1 DEF Holders
<1>3. IsFiniteSet(Holders(o))
  BY FS_Subset, CacheAssumption DEF Holders
<1> QED
  BY <1>2, <1>3, FS_RemoveElement, FS_CardinalityType, FS_EmptySet

\* Nobody reads from a closed file, because its count would not be zero.
LEMMA ReadersAreCounted ==
    ASSUME IInv
    PROVE  NoUseAfterClose
<1> SUFFICES ASSUME NEW r \in Readers, reader[r].pc \in {"hold", "insert"}
             PROVE  acc[reader[r].obj].file \in {"open", "forced"}
  BY DEF NoUseAfterClose
<1> DEFINE o == reader[r].obj
<1>1. o \in Objects /\ o # None
  BY CacheAssumption DEF IInv, UnderWay
<1>2. r \in Holders(o)
  BY DEF Holders
<1>3. IsFiniteSet(Holders(o))
  BY FS_Subset, CacheAssumption DEF Holders
<1>4. Cardinality(Holders(o)) # 0
  BY <1>2, <1>3, FS_EmptySet
<1>5. acc[o].file # "none" /\ acc[o].file # "closed"
  BY <1>1, <1>4 DEF IInv, InUse, RefsExact, ClosedOnce
<1> QED
  BY <1>1, <1>5 DEF IInv, TypeOK, Accessor

-----------------------------------------------------------------------------
(***************************************************************************)
(* Readers.                                                                *)
(***************************************************************************)

Loading == {"lookup", "load", "insert"}

\* A reader that holds nothing looks up or gives up: the accessors are as they were.
LEMMA QuietReader ==
    ASSUME IInv, NEW r \in Readers, NEW v \in Getting, ReaderMoves(r, v),
           UNCHANGED <<cache, acc, remover, evicted>>,
           reader[r].pc \notin {"hold", "insert"}, v.pc \notin {"hold", "insert"},
           v.obj # None => acc[v.obj].file # "none",
           v.pc # "away" => v.height \in Heights,
           v.pc \in {"get", "lookup"} => v.obj \in Objects,
           v.pc \in Loading =>
             /\ \A s \in Readers : reader[s].pc \in Loading /\ reader[s].height = v.height => s = r
             /\ IF v.pc = "lookup" THEN cache[v.height] \in {None, v.obj}
                ELSE cache[v.height] # None => acc[cache[v.height]].isClosed
    PROVE  IInv'
<1>1. /\ reader' \in [Readers -> Getting] /\ reader'[r] = v
      /\ \A s \in Readers : s # r => reader'[s] = reader[s]
  BY OneReaderMoves DEF IInv
<1>2. TypeOK'
  BY <1>1 DEF IInv, TypeOK
<1>3. InUse'
  BY <1>1 DEF IInv, InUse
<1>4. ClosedOnce'
  BY DEF IInv, ClosedOnce, Live
<1>5. UnderWay'
  BY <1>1 DEF IInv, UnderWay
<1>6. LoadAlone'
  BY <1>1 DEF IInv, LoadAlone, Loading
<1>7. RefsExact'
  BY HoldersSame DEF IInv, RefsExact
<1>8. NoLeak'
  BY <1>1 DEF IInv, NoLeak, Live, Cached
<1> QED
  BY <1>2, <1>3, <1>4, <1>5, <1>6, <1>7, <1>8 DEF IInv

\* Get and GetOrLoad begin: nobody holds anything more, and a look-up that begins is alone
\* at its height.
LEMMA GetStep ==
    ASSUME IInv, NEW r \in Readers, NEW h \in Heights, Get(r, h) \/ GetOrLoad(r, h)
    PROVE  IInv'
<1>0. cache[h] \in Objects \cup {None} /\ (cache[h] # None => acc[cache[h]].file # "none")
  BY DEF IInv, TypeOK, InUse
<1>1. CASE Get(r, h)
  <2> DEFINE v == [pc |-> "get", height |-> h, obj |-> cache[h]]
  <2>1. v \in Getting
    BY <1>0 DEF Getting, Goroutine
  <2> QED
    BY <1>0, <1>1, <2>1, QuietReader, Zenon DEF Get, ReaderMoves, Loading
<1>2. CASE GetOrLoad(r, h)
  <2> DEFINE pc == IF cache[h] = None THEN "load" ELSE "lookup"
             v == [pc |-> pc, height |-> h, obj |-> cache[h]]
  <2>1. v \in Getting
    BY <1>0 DEF Getting, Goroutine
  <2>2. \A s \in Readers : reader[s].pc \notin Loading \/ reader[s].height # h
    BY <1>2 DEF GetOrLoad, WriteLockFree, Inside, Loading
  <2>3. UNCHANGED <<cache, acc, remover, evicted>> /\ ReaderMoves(r, v) /\ reader[r].pc = "away"
    BY <1>2 DEF GetOrLoad, ReaderMoves
  <2>4. v.pc \in {"load", "lookup"} /\ v.height = h /\ v.obj = cache[h] /\ (v.pc = "load" <=> cache[h] = None)
    OBVIOUS
  <2> HIDE DEF v
  <2> QED
    BY <1>0, <2>1, <2>2, <2>3, <2>4, QuietReader
<1> QED
  BY <1>1, <1>2

\* A reader that finds nothing in the cache, or only a closed accessor, takes no reference.
LEMMA MissStep ==
    ASSUME IInv, NEW r \in Readers,
           getMiss(r) \/ lookupClosed(r) \/ (load(r) /\ reader' = [reader EXCEPT ![r] = Away] /\ UNCHANGED acc)
    PROVE  IInv'
<1>0. TypeOK /\ reader[r] \in Getting /\ Away \in Getting
  BY DEF IInv, TypeOK, Getting, Goroutine, Away
<1>1. CASE getMiss(r) \/ (load(r) /\ reader' = [reader EXCEPT ![r] = Away] /\ UNCHANGED acc)
  <2>1. UNCHANGED <<cache, acc, remover, evicted>> /\ ReaderMoves(r, Away) /\ reader[r].pc \in {"get", "load"}
    BY <1>1 DEF getMiss, load, ReaderMoves
  <2>2. Away.pc = "away" /\ Away.obj = None
    BY DEF Away
  <2> QED
    BY <1>0, <2>1, <2>2, QuietReader DEF Loading
<1>2. CASE lookupClosed(r)
  <2> DEFINE v == [reader[r] EXCEPT !.pc = "load"]
  <2>1. v \in Getting /\ v.pc = "load" /\ v.height = reader[r].height /\ v.obj = reader[r].obj
    BY <1>0 DEF Getting, Goroutine
  <2>2. UNCHANGED <<cache, acc, remover, evicted>> /\ ReaderMoves(r, v) /\ reader[r].pc = "lookup"
    BY <1>0, <1>2 DEF lookupClosed, Go, ReaderMoves, TypeOK
  <2>3. acc[reader[r].obj].isClosed
    BY <1>2 DEF lookupClosed
  <2> HIDE DEF v
  <2>4. \A s \in Readers : reader[s].pc \in Loading /\ reader[s].height = v.height => s = r
    BY <2>1, <2>2 DEF IInv, LoadAlone, Loading
  <2>5. cache[v.height] # None => acc[cache[v.height]].isClosed
    BY <2>1, <2>2, <2>3 DEF IInv, LoadAlone
  <2>6. reader[r].obj # None => acc[reader[r].obj].file # "none"
    BY DEF IInv, InUse
  <2>7. v.height \in Heights
    BY <2>1, <2>2 DEF IInv, UnderWay
  <2> QED
    BY <2>1, <2>2, <2>4, <2>5, <2>6, <2>7, QuietReader
<1> QED
  BY <1>1, <1>2

\* Only the accessor o changes.
LEMMA OneAccessorChanges ==
    ASSUME TypeOK, NEW o \in Objects, NEW a \in Accessor, acc' = [acc EXCEPT ![o] = a]
    PROVE  /\ acc' \in [Objects -> Accessor] /\ acc'[o] = a
           /\ \A x \in Objects : x # o => acc'[x] = acc[x]
  BY DEF TypeOK

\* Nothing that is referred to is collected.
LEMMA InUseKept ==
    ASSUME TypeOK, InUse, UNCHANGED <<cache, remover, evicted>>,
           \A x \in Objects : acc[x].file # "none" => acc'[x].file # "none",
           \A s \in Readers : reader'[s].obj = reader[s].obj \/ reader'[s].obj = None
                              \/ acc'[reader'[s].obj].file # "none"
    PROVE  InUse'
<1>1. \A h \in Heights : cache[h] \in Objects \cup {None}
  BY DEF TypeOK
<1>2. \A s \in Readers : reader[s].obj \in Objects \cup {None}
  BY DEF TypeOK, Getting, Goroutine
<1>3. \A m \in Removers : remover[m].obj \in Objects \cup {None}
  BY DEF TypeOK, Removing, Goroutine
<1>4. \A x \in evicted : x \in Objects
  BY DEF TypeOK
<1> QED
  BY <1>1, <1>2, <1>3, <1>4 DEF InUse

\* newRefCloser counts the reader, and only for an accessor that is not closed.
LEMMA AddRefStep ==
    ASSUME IInv, NEW r \in Readers, getRef(r) \/ lookupRef(r)
    PROVE  IInv'
<1>0. TypeOK /\ reader[r] \in Getting /\ reader[r].pc \in {"get", "lookup"}
  BY DEF IInv, TypeOK, getRef, lookupRef
<1>o. PICK o \in Objects : o = reader[r].obj
  BY <1>0 DEF IInv, UnderWay
<1> DEFINE v == [reader[r] EXCEPT !.pc = "hold"]
           a == [acc[o] EXCEPT !.refs = acc[o].refs + 1, !.done = FALSE]
<1>1. acc[o] \in Accessor /\ acc[o].refs \in Nat /\ o # None
  BY CacheAssumption DEF IInv, TypeOK, Accessor
<1>2. ~acc[o].isClosed /\ acc[o].file = "open" /\ acc[o].waits = None
  BY Zenon, <1>0, <1>1, <1>o DEF IInv, InUse, ClosedOnce, getRef, lookupRef, addRef, Accessor, Live
<1>3. v \in Getting /\ v.pc = "hold" /\ v.height = reader[r].height /\ v.obj = o
  BY <1>0, <1>o DEF Getting, Goroutine
<1>4. /\ a \in Accessor /\ a.refs = acc[o].refs + 1 /\ a.done = FALSE
      /\ a.file = acc[o].file /\ a.isClosed = acc[o].isClosed /\ a.waits = acc[o].waits
  <2>1. PICK n \in Nat : n = acc[o].refs + 1
    BY <1>1
  <2>2. a = [acc[o] EXCEPT !.refs = n, !.done = FALSE]
    BY <2>1
  <2> HIDE DEF a
  <2> QED
    BY <1>1, <2>1, <2>2, Zenon DEF Accessor
<1>5. ReaderMoves(r, v) /\ acc' = [acc EXCEPT ![o] = a] /\ UNCHANGED <<cache, remover, evicted>>
  BY <1>0, <1>o, Zenon DEF getRef, lookupRef, addRef, Go, ReaderMoves, TypeOK
<1> HIDE DEF v, a
<1>6. /\ reader' \in [Readers -> Getting] /\ reader'[r] = v
      /\ \A s \in Readers : s # r => reader'[s] = reader[s]
  BY <1>0, <1>3, <1>5, OneReaderMoves
<1>7. /\ acc' \in [Objects -> Accessor] /\ acc'[o] = a
      /\ \A x \in Objects : x # o => acc'[x] = acc[x]
  BY <1>0, <1>1, <1>4, <1>5, OneAccessorChanges, Zenon
<1>8. \A x \in Objects : acc'[x].file = acc[x].file /\ acc'[x].isClosed = acc[x].isClosed /\ acc'[x].waits = acc[x].waits
  BY <1>4, <1>7
<1>9. TypeOK'
  BY <1>5, <1>6, <1>7 DEF IInv, TypeOK
<1>10. InUse'
  <2>1. \A x \in Objects : acc[x].file # "none" => acc'[x].file # "none"
    BY <1>8
  <2>2. \A s \in Readers : reader'[s].obj = reader[s].obj
    BY <1>o, <1>3, <1>6
  <2> QED
    BY <1>5, <2>1, <2>2, InUseKept DEF IInv
<1>11. ClosedOnce'
  BY <1>2, <1>5, <1>7, <1>8 DEF IInv, ClosedOnce, Live
<1>12. UnderWay'
  BY <1>0, <1>3, <1>5, <1>6 DEF IInv, UnderWay
<1>13. LoadAlone'
  BY <1>3, <1>5, <1>6, <1>8 DEF IInv, LoadAlone, UnderWay, TypeOK
<1>14. RefsExact'
  <2>1. Cardinality(Holders(o)') = Cardinality(Holders(o)) + 1 /\ Cardinality(Holders(o)) \in Nat
    BY <1>0, <1>3, <1>5, HoldersMore
  <2>2. \A x \in Objects : x # o => Holders(x)' = Holders(x)
    BY <1>0, <1>3, <1>5, HoldersSame
  <2>3. acc[o].refs = Cardinality(Holders(o))
    BY <1>1, <1>2 DEF IInv, RefsExact
  <2>4. acc'[o].refs = Cardinality(Holders(o)') /\ acc'[o].refs # 0 /\ acc'[o].done = FALSE
    BY <1>4, <1>7, <2>1, <2>3
  <2>5. \A x \in Objects : x # o => acc'[x] = acc[x] /\ Holders(x)' = Holders(x)
    BY <1>7, <2>2
  <2> QED
    BY <2>4, <2>5 DEF IInv, RefsExact
<1>15. NoLeak'
  BY <1>0, <1>5, <1>6, <1>8 DEF IInv, NoLeak, Live, Cached
<1> QED
  BY <1>9, <1>10, <1>11, <1>12, <1>13, <1>14, <1>15 DEF IInv

\* The loader has opened a file; the new accessor is counted for the one who loads it.
Opens(r, o) ==
    /\ acc' = [acc EXCEPT ![o] = [NewAccessor EXCEPT !.refs = 1, !.file = "open"]]
    /\ reader' = [reader EXCEPT ![r].pc = "insert", ![r].obj = o]

\* GetOrLoad opens the file: an unused object becomes an accessor with one reference.
LEMMA OpenStep ==
    ASSUME IInv, NEW r \in Readers, load(r), NEW o \in Unused, Opens(r, o)
    PROVE  IInv'
<1>p. reader[r].pc = "load" /\ UNCHANGED <<cache, remover, evicted>>
  BY DEF load
<1> USE <1>p
<1> DEFINE v == [reader[r] EXCEPT !.pc = "insert", !.obj = o]
           a == [NewAccessor EXCEPT !.refs = 1, !.file = "open"]
<1>0. TypeOK /\ reader[r] \in Getting /\ o \in Objects /\ o # None /\ acc[o].file = "none"
  BY CacheAssumption DEF IInv, TypeOK, Unused
<1>1. v \in Getting /\ v.pc = "insert" /\ v.height = reader[r].height /\ v.obj = o
  BY <1>0, Zenon DEF Getting, Goroutine
<1>2. a \in Accessor /\ a.refs = 1 /\ a.done = FALSE /\ a.file = "open" /\ a.isClosed = FALSE /\ a.waits = None
  BY Zenon DEF Accessor, NewAccessor
<1>3. ReaderMoves(r, v) /\ acc' = [acc EXCEPT ![o] = a]
  BY <1>0, Zenon DEF Opens, ReaderMoves, TypeOK
<1> HIDE DEF v, a
<1>4. /\ reader' \in [Readers -> Getting] /\ reader'[r] = v
      /\ \A s \in Readers : s # r => reader'[s] = reader[s]
  BY <1>0, <1>1, <1>3, OneReaderMoves
<1>5. /\ acc' \in [Objects -> Accessor] /\ acc'[o] = a
      /\ \A x \in Objects : x # o => acc'[x] = acc[x]
  BY <1>0, <1>2, <1>3, OneAccessorChanges, Zenon
<1>6. /\ \A h \in Heights : cache[h] # o
      /\ o \notin evicted
      /\ \A s \in Readers : reader[s].obj # o
      /\ \A m \in Removers : remover[m].obj # o
  BY <1>0 DEF IInv, InUse
<1>7. TypeOK'
  BY <1>4, <1>5 DEF IInv, TypeOK
<1>8. InUse'
  <2>1. \A x \in Objects : acc[x].file # "none" => acc'[x].file # "none"
    BY <1>0, <1>5
  <2>2. acc'[o].file # "none"
    BY <1>2, <1>5
  <2>3. \A s \in Readers : reader'[s].obj = reader[s].obj \/ reader'[s].obj = o
    BY <1>1, <1>4
  <2> QED
    BY <2>1, <2>2, <2>3, InUseKept DEF IInv
<1>9. ClosedOnce'
  BY <1>2, <1>5, CacheAssumption DEF IInv, ClosedOnce, Live
<1>10. UnderWay'
  BY <1>0, <1>1, <1>4 DEF IInv, UnderWay
<1>11. LoadAlone'
  <2>1. \A h \in Heights : cache[h] # None => acc'[cache[h]] = acc[cache[h]]
    BY <1>0, <1>5, <1>6 DEF TypeOK
  <2>2. \A s \in Readers : /\ reader'[s].pc \in Loading => reader[s].pc \in Loading
                           /\ reader'[s].height = reader[s].height
                           /\ reader'[s].pc = "lookup" => reader'[s] = reader[s]
                           /\ reader'[s].pc \in {"load", "insert"} => reader[s].pc \in {"load", "insert"}
                           /\ reader'[s].pc \in Loading => reader[s].height \in Heights
    BY <1>1, <1>4 DEF IInv, UnderWay, Loading
  <2> SUFFICES ASSUME NEW s \in Readers, reader'[s].pc \in Loading
               PROVE  /\ \A t \in Readers : reader'[t].pc \in Loading /\ reader'[t].height = reader'[s].height => t = s
                      /\ IF reader'[s].pc = "lookup" THEN cache[reader'[s].height] \in {None, reader'[s].obj}
                         ELSE cache[reader'[s].height] # None => acc'[cache[reader'[s].height]].isClosed
    BY Zenon DEF LoadAlone, Loading
  <2>3. \A t \in Readers : reader'[t].pc \in Loading /\ reader'[t].height = reader'[s].height => t = s
    BY <2>2 DEF IInv, LoadAlone, Loading
  <2>4. CASE reader'[s].pc = "lookup"
    BY <2>2, <2>3, <2>4 DEF IInv, LoadAlone, Loading
  <2>5. CASE reader'[s].pc # "lookup"
    <3>1. reader[s].pc \in {"load", "insert"} /\ reader'[s].height = reader[s].height /\ reader[s].height \in Heights
      BY <2>2, <2>5 DEF Loading
    <3>2. cache[reader[s].height] # None => acc[cache[reader[s].height]].isClosed
      BY <3>1 DEF IInv, LoadAlone
    <3> QED
      BY <2>1, <2>3, <2>5, <3>1, <3>2
  <2> QED
    BY <2>4, <2>5
<1>12. RefsExact'
  <2>1. Holders(o) = {}
    BY <1>6 DEF Holders
  <2>2. Cardinality(Holders(o)') = Cardinality(Holders(o)) + 1
    BY <1>0, <1>1, <1>3, HoldersMore
  <2>a. Cardinality(Holders(o)) = 0
    BY <2>1, FS_EmptySet
  <2>c. Cardinality(Holders(o)') = 1
    BY <2>2, <2>a
  <2>b. acc'[o].refs = Cardinality(Holders(o)') /\ acc'[o].refs # 0 /\ acc'[o].done = FALSE
    BY <1>2, <1>5, <2>c
  <2>3. \A x \in Objects : x # o => Holders(x)' = Holders(x)
    BY <1>0, <1>1, <1>3, HoldersSame
  <2>5. \A x \in Objects : x # o => acc'[x] = acc[x] /\ Holders(x)' = Holders(x)
    BY <1>5, <2>3
  <2> QED
    BY <2>b, <2>5 DEF IInv, RefsExact
<1>13. NoLeak'
  <2>1. \A x \in Objects : x # o /\ Live(x) =>
          \/ x \in Cached
          \/ \E s \in Readers : reader'[s].pc = "insert" /\ reader'[s].obj = x
          \/ acc[x].waits # None
          \/ x \in evicted
    BY <1>4 DEF IInv, NoLeak
  <2> QED
    BY <1>1, <1>4, <1>5, <2>1 DEF NoLeak, Live, Cached
<1> QED
  BY <1>7, <1>8, <1>9, <1>10, <1>11, <1>12, <1>13 DEF IInv

\* load either opens the file or fails, which ends the call.
LEMMA LoadStep ==
    ASSUME IInv, NEW r \in Readers, load(r)
    PROVE  IInv'
  BY MissStep, OpenStep DEF load, Opens

\* The reader closes its reference: one less.
LEMMA ReleaseStep ==
    ASSUME IInv, NEW r \in Readers, release(r)
    PROVE  IInv'
<1>0. TypeOK /\ reader[r] \in Getting /\ reader[r].pc = "hold" /\ UNCHANGED <<cache, remover, evicted>>
  BY DEF IInv, TypeOK, release
<1>o. PICK o \in Objects : o = reader[r].obj
  BY <1>0 DEF IInv, UnderWay
<1>1. acc[o] \in Accessor /\ acc[o].refs \in Nat /\ o # None /\ acc[o].file # "none"
  BY <1>o, CacheAssumption DEF IInv, InUse, TypeOK, Accessor
<1>2. Away \in Getting /\ Away.pc = "away" /\ Away.obj = None
  BY DEF Getting, Goroutine, Away
<1>3. ReaderMoves(r, Away)
  BY DEF release, ReaderMoves
<1>4. acc[o].refs = Cardinality(Holders(o))
  BY <1>1 DEF IInv, RefsExact
<1>5. Cardinality(Holders(o)') = Cardinality(Holders(o)) - 1 /\ Cardinality(Holders(o)) \in Nat \ {0}
  BY <1>0, <1>2, <1>3, <1>o, HoldersLess
<1>6. PICK n \in Nat : n = acc[o].refs - 1 /\ n = Cardinality(Holders(o)')
  BY <1>4, <1>5
<1>7. (acc[o].refs <= 1) <=> n = 0
  BY <1>1, <1>6
<1> DEFINE d == acc[o].refs <= 1
<1>8. d \in BOOLEAN /\ (d <=> n = 0)
  BY <1>7
<1> HIDE DEF d
<1> DEFINE a == [acc[o] EXCEPT !.refs = n, !.done = d]
<1>9. /\ a \in Accessor /\ a.refs = n /\ a.done = d
      /\ a.file = acc[o].file /\ a.isClosed = acc[o].isClosed /\ a.waits = acc[o].waits
  BY <1>1, <1>8, Zenon DEF Accessor
<1>10. acc' = [acc EXCEPT ![o] = a]
  BY <1>0, <1>o, <1>6, Zenon DEF release, removeRef, TypeOK, d
<1> HIDE DEF a
<1>11. /\ reader' \in [Readers -> Getting] /\ reader'[r] = Away
       /\ \A s \in Readers : s # r => reader'[s] = reader[s]
  BY <1>0, <1>2, <1>3, OneReaderMoves
<1>12. /\ acc' \in [Objects -> Accessor] /\ acc'[o] = a
       /\ \A x \in Objects : x # o => acc'[x] = acc[x]
  BY <1>0, <1>9, <1>10, OneAccessorChanges, Zenon
<1>13. \A x \in Objects : acc'[x].file = acc[x].file /\ acc'[x].isClosed = acc[x].isClosed /\ acc'[x].waits = acc[x].waits
  BY <1>9, <1>12
<1>14. TypeOK'
  BY <1>0, <1>11, <1>12 DEF TypeOK
<1>15. InUse'
  BY <1>0, <1>2, <1>11, <1>13, InUseKept DEF IInv
<1>16. ClosedOnce'
  <2>1. acc[o].file # "closed"
    BY Zenon, <1>4, <1>5 DEF IInv, ClosedOnce
  <2> QED
    BY <1>0, <1>12, <1>13, <2>1 DEF IInv, ClosedOnce, Live
<1>17. UnderWay'
  BY Zenon, <1>0, <1>2, <1>11 DEF IInv, UnderWay
<1>18. LoadAlone'
  BY <1>0, <1>2, <1>11, <1>13 DEF IInv, LoadAlone, UnderWay, TypeOK
<1>19. RefsExact'
  <2>1. \A x \in Objects : x # o => acc'[x] = acc[x] /\ Holders(x)' = Holders(x)
    BY Zenon, <1>0, <1>2, <1>3, <1>o, <1>12, HoldersSame
  <2>2. acc'[o].refs = Cardinality(Holders(o)') /\ acc'[o].done = d /\ acc'[o].refs = n
    BY <1>6, <1>9, <1>12
  <2> QED
    BY <1>8, <2>1, <2>2, Zenon DEF IInv, RefsExact
<1>20. NoLeak'
  BY <1>0, <1>11, <1>13 DEF IInv, NoLeak, Live, Cached
<1> QED
  BY <1>14, <1>15, <1>16, <1>17, <1>18, <1>19, <1>20 DEF IInv

\* The new accessor enters the cache; what it replaces is closed already, and what
\* is evicted for it is handed to evictFn.
LEMMA InsertStep ==
    ASSUME IInv, NEW r \in Readers, insert(r)
    PROVE  IInv'
<1>0. TypeOK /\ reader[r] \in Getting /\ reader[r].pc = "insert" /\ UNCHANGED <<acc, remover>>
  BY DEF IInv, TypeOK, insert
<1>h. PICK h \in Heights : h = reader[r].height
  BY <1>0 DEF IInv, UnderWay
<1>o. PICK o \in Objects : o = reader[r].obj
  BY <1>0 DEF IInv, UnderWay
<1> DEFINE v == [reader[r] EXCEPT !.pc = "hold"]
<1>1. v \in Getting /\ v.pc = "hold" /\ v.height = h /\ v.obj = o
  BY <1>0, <1>h, <1>o DEF Getting, Goroutine
<1>2. ReaderMoves(r, v)
  BY <1>0 DEF insert, Go, ReaderMoves, TypeOK
<1> HIDE DEF v
<1>3. /\ reader' \in [Readers -> Getting] /\ reader'[r] = v
      /\ \A s \in Readers : s # r => reader'[s] = reader[s]
  BY <1>0, <1>1, <1>2, OneReaderMoves
<1>4. /\ cache' \in [Heights -> Objects \cup {None}] /\ cache'[h] = o
      /\ evicted' \subseteq Objects /\ evicted \subseteq evicted'
      /\ \A g \in Heights : g # h => \/ cache'[g] = cache[g]
                                     \/ cache'[g] = None /\ cache[g] \in evicted'
      /\ \A x \in evicted' : x \in evicted \/ \E g \in Heights : cache[g] = x /\ x # None
  <2>1. CASE cache' = [cache EXCEPT ![h] = o] /\ UNCHANGED evicted
    BY <1>0, <2>1 DEF TypeOK
  <2>2. CASE \E w \in Heights \ {h} : /\ cache[w] # None
                                      /\ cache' = [cache EXCEPT ![h] = o, ![w] = None]
                                      /\ evicted' = evicted \cup {cache[w]}
    <3>1. PICK w \in Heights \ {h} : /\ cache[w] # None
                                     /\ cache' = [cache EXCEPT ![h] = o, ![w] = None]
                                     /\ evicted' = evicted \cup {cache[w]}
      BY <2>2, Zenon
    <3> QED
      BY <1>0, <3>1 DEF TypeOK
  <2> QED
    BY <1>h, <1>o, <2>1, <2>2 DEF insert
<1>5. TypeOK'
  BY <1>0, <1>3, <1>4 DEF TypeOK
<1>6. o # None /\ acc[o].file # "none"
  BY <1>o, CacheAssumption DEF IInv, InUse
<1>7. InUse'
  BY <1>0, <1>1, <1>3, <1>4, <1>6 DEF IInv, InUse
<1>8. ClosedOnce'
  BY <1>0 DEF IInv, ClosedOnce, Live
<1>9. UnderWay'
  BY <1>0, <1>1, <1>3 DEF IInv, UnderWay
<1>10. LoadAlone'
  <2>1. \A s \in Readers : s # r /\ reader[s].pc \in Loading => reader[s].height \in Heights /\ reader[s].height # h
    BY Zenon, <1>0, <1>h DEF IInv, LoadAlone, UnderWay, Loading
  <2>2. \A g \in Heights : g # h => cache'[g] \in {cache[g], None}
    BY <1>4
  <2> QED
    BY <1>0, <1>1, <1>3, <2>1, <2>2 DEF IInv, LoadAlone, Loading
<1>11. RefsExact'
  BY <1>0, <1>1, <1>2, <1>o, HoldersSame DEF IInv, RefsExact
<1>12. NoLeak'
  <2> SUFFICES ASSUME NEW x \in Objects, Live(x), x # o, x \notin evicted', acc[x].waits = None,
                      ~\E s \in Readers : reader'[s].pc = "insert" /\ reader'[s].obj = x
               PROVE  \E g \in Heights : cache'[g] = x /\ cache'[g] # None
    BY <1>0, <1>4, <1>6 DEF NoLeak, Live, Cached
  <2>1. ~\E s \in Readers : reader[s].pc = "insert" /\ reader[s].obj = x
    BY <1>0, <1>o, <1>3
  <2>2. PICK g \in Heights : cache[g] = x /\ x # None
    BY <2>1, <1>4 DEF IInv, NoLeak, Cached
  <2>3. g # h
    <3>1. ~acc[x].isClosed
      BY DEF IInv, ClosedOnce
    <3>2. cache[h] # None => acc[cache[h]].isClosed
      BY Zenon, <1>0, <1>h DEF IInv, LoadAlone
    <3> QED
      BY <2>2, <3>1, <3>2
  <2> QED
    BY <1>4, <2>2, <2>3
<1> QED
  BY <1>5, <1>7, <1>8, <1>9, <1>10, <1>11, <1>12 DEF IInv

-----------------------------------------------------------------------------
(***************************************************************************)
(* Removers, evictions and the collector.                                  *)
(***************************************************************************)

\* Counts and readers are not concerned when an accessor is marked or its file closed.
LEMMA CountsKept ==
    ASSUME IInv, UNCHANGED reader,
           \A x \in Objects : /\ acc'[x].refs = acc[x].refs /\ acc'[x].done = acc[x].done
                              /\ acc'[x].file # "none" => acc[x].file # "none"
    PROVE  RefsExact'
<1>1. \A x \in Objects : Holders(x)' = Holders(x)
  BY DEF Holders
<1> QED
  BY <1>1 DEF IInv, RefsExact

\* A loading reader is not concerned when accessors are marked or leave the cache.
LEMMA LoadersKept ==
    ASSUME IInv, UNCHANGED reader,
           \A h \in Heights : cache'[h] \in {cache[h], None},
           \A h \in Heights : cache[h] # None /\ acc[cache[h]].isClosed => acc'[cache[h]].isClosed
    PROVE  LoadAlone'
<1>1. \A s \in Readers : reader[s].pc \in Loading => reader[s].height \in Heights
  BY DEF IInv, UnderWay, Loading
<1> QED
  BY Zenon, <1>1 DEF IInv, LoadAlone, Loading

\* A step of one remover leaves the others where they are.
LEMMA OneRemoverMoves ==
    ASSUME TypeOK, NEW m \in Removers, NEW v \in Removing, remover' = [remover EXCEPT ![m] = v]
    PROVE  /\ remover' \in [Removers -> Removing] /\ remover'[m] = v
           /\ \A n \in Removers : n # m => remover'[n] = remover[n]
  BY DEF TypeOK

\* Remove begins, with the accessor that the cache has for its height.
LEMMA RemoveStep ==
    ASSUME IInv, NEW m \in Removers, NEW h \in Heights, Remove(m, h)
    PROVE  IInv'
<1> DEFINE v == [pc |-> "close", height |-> h, obj |-> cache[h]]
<1>0. TypeOK /\ cache[h] \in Objects /\ acc[cache[h]].file # "none" /\ remover[m].pc = "away"
  BY Zenon DEF IInv, TypeOK, InUse, Remove
<1>1. v \in Removing /\ v.pc = "close" /\ v.height = h /\ v.obj = cache[h]
  BY Zenon, <1>0 DEF Removing, Goroutine
<1>2. UNCHANGED <<cache, acc, reader, evicted>> /\ remover' = [remover EXCEPT ![m] = v]
  BY DEF Remove
<1> HIDE DEF v
<1>3. /\ remover' \in [Removers -> Removing] /\ remover'[m] = v
      /\ \A n \in Removers : n # m => remover'[n] = remover[n]
  BY <1>0, <1>1, <1>2, OneRemoverMoves, Zenon
<1>4. TypeOK'
  BY <1>0, <1>2, <1>3 DEF TypeOK
<1>5. InUse'
  BY Zenon, <1>0, <1>1, <1>2, <1>3 DEF IInv, InUse
<1>6. ClosedOnce'
  BY Zenon, <1>0, <1>2, <1>3 DEF IInv, ClosedOnce, Live
<1>7. UnderWay'
  BY Zenon, <1>0, <1>1, <1>2, <1>3 DEF IInv, UnderWay
<1>8. LoadAlone' /\ RefsExact'
  BY <1>2, LoadersKept, CountsKept
<1>9. NoLeak'
  BY <1>2 DEF IInv, NoLeak, Live, Cached
<1> QED
  BY <1>4, <1>5, <1>6, <1>7, <1>8, <1>9 DEF IInv

\* close, up to the wait, by a remover or by evictFn: the first to mark an accessor
\* is the one who will close its file.
LEMMA MarkAccessor ==
    ASSUME IInv, NEW o \in Objects, NEW who \in Removers \cup {"evictFn"}, markClosed(o, who),
           acc[o].file # "none"
    PROVE  /\ acc' \in [Objects -> Accessor]
           /\ \A x \in Objects : /\ acc'[x].refs = acc[x].refs /\ acc'[x].done = acc[x].done
                                 /\ acc'[x].file = acc[x].file
                                 /\ acc[x].isClosed => acc'[x].isClosed
                                 /\ acc[x].waits # None => acc'[x].waits # None
                                 /\ x # o => acc'[x] = acc[x]
           /\ acc[o].isClosed => acc' = acc
           /\ ~acc[o].isClosed => acc'[o].waits = who /\ acc[o].file = "open"
           /\ acc'[o].isClosed
<1>0. TypeOK /\ acc[o] \in Accessor
  BY DEF IInv, TypeOK
<1>1. CASE acc[o].isClosed
  BY <1>0, <1>1 DEF markClosed, TypeOK
<1>2. CASE ~acc[o].isClosed
  <2> DEFINE a == [acc[o] EXCEPT !.isClosed = TRUE, !.waits = who]
  <2>1. /\ a \in Accessor /\ a.isClosed = TRUE /\ a.waits = who /\ a.refs = acc[o].refs /\ a.done = acc[o].done
        /\ a.file = acc[o].file
    BY <1>0, Zenon DEF Accessor
  <2>2. acc' = [acc EXCEPT ![o] = a]
    BY <1>0, <1>2, Zenon DEF markClosed, TypeOK
  <2>3. acc[o].file = "open"
    BY <1>0, <1>2 DEF IInv, ClosedOnce, Accessor
  <2> HIDE DEF a
  <2>4. /\ acc' \in [Objects -> Accessor] /\ acc'[o] = a
        /\ \A x \in Objects : x # o => acc'[x] = acc[x]
    BY <1>0, <2>1, <2>2, OneAccessorChanges, Zenon
  <2>5. who # None
    BY CacheAssumption
  <2> QED
    BY <1>2, <2>1, <2>3, <2>4, <2>5
<1> QED
  BY Zenon, <1>1, <1>2

\* The first to mark an accessor closed is the one who waits for its readers.
LEMMA RemoveCloseStep ==
    ASSUME IInv, NEW m \in Removers, removeClose(m)
    PROVE  IInv'
<1>0. /\ TypeOK /\ remover[m] \in Removing /\ remover[m].pc = "close"
      /\ UNCHANGED <<cache, reader, evicted>>
  BY DEF IInv, TypeOK, removeClose
<1>o. PICK o \in Objects : o = remover[m].obj
  BY <1>0 DEF IInv, UnderWay
<1>1. acc[o].file # "none"
  BY <1>o, CacheAssumption DEF IInv, InUse
<1>2. /\ acc' \in [Objects -> Accessor]
      /\ \A x \in Objects : /\ acc'[x].refs = acc[x].refs /\ acc'[x].done = acc[x].done
                            /\ acc'[x].file = acc[x].file
                            /\ acc[x].isClosed => acc'[x].isClosed
                            /\ acc[x].waits # None => acc'[x].waits # None
                            /\ x # o => acc'[x] = acc[x]
      /\ acc[o].isClosed => acc' = acc
      /\ ~acc[o].isClosed => acc'[o].waits = m /\ acc[o].file = "open"
      /\ acc'[o].isClosed
  BY <1>o, <1>1, MarkAccessor DEF removeClose
<1> DEFINE pc == IF acc[o].isClosed THEN "drop" ELSE "wait"
           v == [remover[m] EXCEPT !.pc = pc]
<1>3. v \in Removing /\ v.pc = pc /\ v.height = remover[m].height /\ v.obj = o
  BY <1>0, <1>o DEF Removing, Goroutine
<1>4. remover' = [remover EXCEPT ![m] = v]
  BY <1>0, <1>o DEF removeClose, TypeOK
<1> HIDE DEF v
<1>5. /\ remover' \in [Removers -> Removing] /\ remover'[m] = v
      /\ \A n \in Removers : n # m => remover'[n] = remover[n]
  BY <1>0, <1>3, <1>4, OneRemoverMoves, Zenon
<1>6. TypeOK'
  BY <1>0, <1>2, <1>5 DEF TypeOK
<1>7. InUse'
  <2>1. \A n \in Removers : remover'[n].obj = remover[n].obj /\ remover[n].obj \in Objects \cup {None}
    BY <1>0, <1>3, <1>5, <1>o DEF TypeOK, Removing, Goroutine
  <2>2. \A s \in Readers : reader[s].obj \in Objects \cup {None}
    BY <1>0 DEF TypeOK, Getting, Goroutine
  <2> QED
    BY <1>0, <1>2, <2>1, <2>2 DEF IInv, InUse, TypeOK
<1>8. ClosedOnce'
  <2> SUFFICES ASSUME NEW x \in Objects
               PROVE  /\ acc'[x].waits # None <=> acc'[x].isClosed /\ acc'[x].file = "open"
                      /\ acc'[x].file \in {"closed", "forced"} => acc'[x].isClosed
                      /\ acc'[x].file = "closed" => acc'[x].refs = 0
                      /\ acc'[x].waits \in Removers => /\ remover'[acc'[x].waits].pc = "wait"
                                                       /\ remover'[acc'[x].waits].obj = x
    BY DEF ClosedOnce, Live
  <2>1. acc[x].waits # m
    BY <1>0 DEF IInv, ClosedOnce
  <2>2. CASE acc'[x] = acc[x]
    BY <1>5, <2>1, <2>2 DEF IInv, ClosedOnce, Live
  <2>3. CASE acc'[x] # acc[x]
    <3>1. x = o /\ ~acc[o].isClosed
      BY Zenon, <1>2, <2>3
    <3> QED
      BY <1>2, <1>3, <1>5, <3>1, CacheAssumption
  <2> QED
    BY Zenon, <2>2, <2>3
<1>9. UnderWay'
  BY <1>0, <1>3, <1>5 DEF IInv, UnderWay
<1>10. LoadAlone' /\ RefsExact'
  <2>1. \A h \in Heights : cache[h] # None => cache[h] \in Objects
    BY <1>0 DEF TypeOK
  <2> QED
    BY <1>0, <1>2, <2>1, LoadersKept, CountsKept
<1>11. NoLeak'
  BY <1>0, <1>2 DEF IInv, NoLeak, Live, Cached
<1> QED
  BY <1>6, <1>7, <1>8, <1>9, <1>10, <1>11 DEF IInv

\* The goroutine of an eviction marks the accessor, or leaves it to whoever was first.
LEMMA EvictCloseStep ==
    ASSUME IInv, NEW o \in Objects, evictClose(o)
    PROVE  IInv'
<1>0. /\ TypeOK /\ o \in evicted /\ evicted' = evicted \ {o} /\ acc[o].file # "none"
      /\ UNCHANGED <<cache, reader, remover>>
  BY DEF IInv, InUse, evictClose
<1>2. /\ acc' \in [Objects -> Accessor]
      /\ \A x \in Objects : /\ acc'[x].refs = acc[x].refs /\ acc'[x].done = acc[x].done
                            /\ acc'[x].file = acc[x].file
                            /\ acc[x].isClosed => acc'[x].isClosed
                            /\ acc[x].waits # None => acc'[x].waits # None
                            /\ x # o => acc'[x] = acc[x]
      /\ acc[o].isClosed => acc' = acc
      /\ ~acc[o].isClosed => acc'[o].waits = "evictFn" /\ acc[o].file = "open"
      /\ acc'[o].isClosed
  BY Zenon, <1>0, MarkAccessor DEF evictClose
<1>3. TypeOK'
  BY <1>0, <1>2 DEF TypeOK
<1>4. InUse'
  <2>1. \A n \in Removers : remover[n].obj \in Objects \cup {None}
    BY <1>0 DEF TypeOK, Removing, Goroutine
  <2>2. \A s \in Readers : reader[s].obj \in Objects \cup {None}
    BY <1>0 DEF TypeOK, Getting, Goroutine
  <2> QED
    BY <1>0, <1>2, <2>1, <2>2 DEF IInv, InUse, TypeOK
<1>5. ClosedOnce'
  <2> SUFFICES ASSUME NEW x \in Objects
               PROVE  /\ acc'[x].waits # None <=> acc'[x].isClosed /\ acc'[x].file = "open"
                      /\ acc'[x].file \in {"closed", "forced"} => acc'[x].isClosed
                      /\ acc'[x].file = "closed" => acc'[x].refs = 0
                      /\ acc'[x].waits \in Removers => /\ remover'[acc'[x].waits].pc = "wait"
                                                       /\ remover'[acc'[x].waits].obj = x
    BY DEF ClosedOnce, Live
  <2>2. CASE acc'[x] = acc[x]
    BY <1>0, <2>2 DEF IInv, ClosedOnce, Live
  <2>3. CASE acc'[x] # acc[x]
    <3>1. x = o /\ ~acc[o].isClosed
      BY Zenon, <1>2, <2>3
    <3> QED
      BY <1>2, <3>1, CacheAssumption
  <2> QED
    BY Zenon, <2>2, <2>3
<1>6. UnderWay'
  BY <1>0 DEF IInv, UnderWay
<1>7. LoadAlone' /\ RefsExact'
  <2>1. \A h \in Heights : cache[h] # None => cache[h] \in Objects
    BY <1>0 DEF TypeOK
  <2> QED
    BY Zenon, <1>0, <1>2, <2>1, LoadersKept, CountsKept
<1>8. NoLeak'
  <2>1. acc'[o].file = "open" => acc'[o].waits # None
    BY <1>2, <1>5 DEF ClosedOnce, Live
  <2> QED
    BY <1>0, <1>2, <2>1 DEF IInv, NoLeak, Live, Cached
<1> QED
  BY <1>3, <1>4, <1>5, <1>6, <1>7, <1>8 DEF IInv

\* Remove drops whatever the height has by now, and evictFn will close it.
LEMMA RemoveDropStep ==
    ASSUME IInv, NEW m \in Removers, removeDrop(m)
    PROVE  IInv'
<1>0. TypeOK /\ remover[m].pc = "drop" /\ UNCHANGED <<acc, reader>> /\ remover' = [remover EXCEPT ![m] = Away]
  BY DEF IInv, removeDrop
<1>h. PICK h \in Heights : h = remover[m].height
  BY <1>0 DEF IInv, UnderWay
<1>1. cache' = [cache EXCEPT ![h] = None] /\ evicted' = IF cache[h] = None THEN evicted ELSE evicted \cup {cache[h]}
  BY <1>h DEF removeDrop
<1>2. Away \in Removing /\ Away.pc = "away" /\ Away.obj = None
  BY DEF Removing, Goroutine, Away
<1>3. /\ remover' \in [Removers -> Removing] /\ remover'[m] = Away
      /\ \A n \in Removers : n # m => remover'[n] = remover[n]
  BY <1>0, <1>2, OneRemoverMoves, Zenon
<1>4. /\ cache' \in [Heights -> Objects \cup {None}] /\ evicted' \subseteq Objects /\ evicted \subseteq evicted'
      /\ \A g \in Heights : cache'[g] = cache[g] \/ (cache'[g] = None /\ (cache[g] # None => cache[g] \in evicted'))
      /\ \A x \in evicted' : acc[x].file # "none"
  BY Zenon, <1>0, <1>1 DEF IInv, InUse, TypeOK
<1>5. TypeOK'
  BY <1>0, <1>3, <1>4 DEF TypeOK
<1>6. InUse'
  BY <1>0, <1>2, <1>3, <1>4 DEF IInv, InUse
<1>7. ClosedOnce'
  BY <1>0, <1>3 DEF IInv, ClosedOnce, Live
<1>8. UnderWay'
  BY Zenon, <1>0, <1>2, <1>3 DEF IInv, UnderWay
<1>9. LoadAlone' /\ RefsExact'
  BY Zenon, <1>0, <1>4, LoadersKept, CountsKept
<1>10. NoLeak'
  <2>1. \A x \in Cached : x \in Cached' \cup evicted'
    BY <1>4 DEF Cached
  <2> QED
    BY Zenon, <1>0, <1>4, <2>1 DEF IInv, NoLeak, Live
<1> QED
  BY <1>5, <1>6, <1>7, <1>8, <1>9, <1>10 DEF IInv

\* The wait is over: the file is closed by the one who marked its accessor, when the
\* count is zero, or by force.
LEMMA CloseFileStep ==
    ASSUME IInv, NEW o \in Objects, waitDone(o) \/ waitTimeout(o)
    PROVE  IInv'
<1>0. TypeOK /\ acc[o] \in Accessor /\ UNCHANGED <<cache, reader, evicted>> /\ acc[o].file = "open" /\ acc[o].waits # None
  BY DEF IInv, TypeOK, waitDone, waitTimeout, closeFile, Live
<1>f. PICK f \in {"closed", "forced"} : /\ acc' = [acc EXCEPT ![o].file = f, ![o].waits = None]
                                        /\ f = "closed" => acc[o].done
  BY DEF waitDone, waitTimeout, closeFile
<1>1. acc[o].isClosed /\ (f = "closed" => acc[o].refs = 0)
  BY <1>0, <1>f DEF IInv, ClosedOnce, RefsExact
<1> DEFINE a == [acc[o] EXCEPT !.file = f, !.waits = None]
<1>2. /\ a \in Accessor /\ a.file = f /\ a.waits = None /\ a.refs = acc[o].refs /\ a.done = acc[o].done
      /\ a.isClosed = acc[o].isClosed
  BY <1>0, Zenon DEF Accessor
<1>3. acc' = [acc EXCEPT ![o] = a]
  BY <1>0, <1>f, Zenon DEF TypeOK
<1> HIDE DEF a
<1>4. /\ acc' \in [Objects -> Accessor] /\ acc'[o] = a
      /\ \A x \in Objects : x # o => acc'[x] = acc[x]
  BY <1>0, <1>2, <1>3, OneAccessorChanges, Zenon
<1>5. /\ remover' \in [Removers -> Removing]
      /\ \A m \in Removers : \/ remover'[m] = remover[m] /\ acc[o].waits # m
                             \/ acc[o].waits = m /\ remover'[m] = Away
                             \/ /\ acc[o].waits = m /\ remover'[m].pc = "drop"
                                /\ remover'[m].height = remover[m].height /\ remover'[m].obj = remover[m].obj
  <2>1. PICK failed \in BOOLEAN :
          remover' = [m \in Removers |->
                        IF acc[o].waits # m THEN remover[m]
                        ELSE IF failed THEN Away ELSE [remover[m] EXCEPT !.pc = "drop"]]
    BY DEF waitDone, waitTimeout, closeFile
  <2>2. \A m \in Removers : remover[m] \in Removing
    BY <1>0 DEF TypeOK
  <2>3. \A m \in Removers : /\ [remover[m] EXCEPT !.pc = "drop"] \in Removing
                            /\ [remover[m] EXCEPT !.pc = "drop"].pc = "drop"
                            /\ [remover[m] EXCEPT !.pc = "drop"].height = remover[m].height
                            /\ [remover[m] EXCEPT !.pc = "drop"].obj = remover[m].obj
    BY <2>2 DEF Removing, Goroutine
  <2>4. Away \in Removing
    BY DEF Removing, Goroutine, Away
  <2> QED
    BY <2>1, <2>2, <2>3, <2>4
<1>6. Away.pc = "away" /\ Away.obj = None
  BY DEF Away
<1>7. TypeOK'
  BY <1>0, <1>4, <1>5 DEF TypeOK
<1>8. InUse'
  <2>1. \A n \in Removers : remover'[n].obj \in {remover[n].obj, None} /\ remover[n].obj \in Objects \cup {None}
    BY <1>0, <1>5, <1>6 DEF TypeOK, Removing, Goroutine
  <2>2. \A s \in Readers : reader[s].obj \in Objects \cup {None}
    BY <1>0 DEF TypeOK, Getting, Goroutine
  <2>3. \A x \in Objects : acc[x].file # "none" => acc'[x].file # "none"
    BY <1>2, <1>4
  <2> QED
    BY Zenon, <1>0, <2>1, <2>2, <2>3 DEF IInv, InUse, TypeOK
<1>9. ClosedOnce'
  <2> SUFFICES ASSUME NEW x \in Objects
               PROVE  /\ acc'[x].waits # None <=> acc'[x].isClosed /\ acc'[x].file = "open"
                      /\ acc'[x].file \in {"closed", "forced"} => acc'[x].isClosed
                      /\ acc'[x].file = "closed" => acc'[x].refs = 0
                      /\ acc'[x].waits \in Removers => /\ remover'[acc'[x].waits].pc = "wait"
                                                       /\ remover'[acc'[x].waits].obj = x
    BY Zenon DEF ClosedOnce, Live
  <2>1. CASE x = o
    BY <1>1, <1>2, <1>4, <2>1, Zenon, CacheAssumption
  <2>2. CASE x # o
    <3>1. acc'[x] = acc[x] /\ (acc[x].waits \in Removers => acc[x].waits # acc[o].waits)
      BY <1>4, <2>2 DEF IInv, ClosedOnce
    <3> QED
      BY <1>5, <3>1 DEF IInv, ClosedOnce, Live
  <2> QED
    BY Zenon, <2>1, <2>2
<1>10. UnderWay'
  <2>1. \A m \in Removers : acc[o].waits = m => remover[m].height \in Heights /\ remover[m].obj \in Objects
    BY Zenon DEF IInv, UnderWay, ClosedOnce
  <2> QED
    BY Zenon, <1>0, <1>5, <1>6, <2>1 DEF IInv, UnderWay
<1>11. LoadAlone' /\ RefsExact'
  <2>1. \A h \in Heights : cache[h] # None => cache[h] \in Objects
    BY <1>0 DEF TypeOK
  <2>2. \A x \in Objects : /\ acc'[x].refs = acc[x].refs /\ acc'[x].done = acc[x].done
                           /\ acc'[x].isClosed = acc[x].isClosed
                           /\ acc'[x].file # "none" => acc[x].file # "none"
    BY Zenon, <1>0, <1>2, <1>4
  <2> QED
    BY <1>0, <2>1, <2>2, LoadersKept, CountsKept, Zenon
<1>12. NoLeak'
  <2>1. \A x \in Objects : acc'[x].file = "open" => acc'[x] = acc[x]
    BY <1>2, <1>4
  <2> QED
    BY <1>0, <2>1 DEF IInv, NoLeak, Live, Cached
<1> QED
  BY <1>7, <1>8, <1>9, <1>10, <1>11, <1>12 DEF IInv

\* An accessor that nobody refers to any more is collected.
LEMMA CollectStep ==
    ASSUME IInv, NEW o \in Objects, collect(o)
    PROVE  IInv'
<1>0. TypeOK /\ Garbage(o) /\ UNCHANGED <<cache, reader, remover, evicted>> /\ acc' = [acc EXCEPT ![o] = NewAccessor]
  BY DEF IInv, collect
<1>1. /\ NewAccessor \in Accessor /\ NewAccessor.file = "none" /\ NewAccessor.isClosed = FALSE
      /\ NewAccessor.waits = None
  BY DEF NewAccessor, Accessor
<1>2. /\ acc' \in [Objects -> Accessor] /\ acc'[o] = NewAccessor
      /\ \A x \in Objects : x # o => acc'[x] = acc[x]
  BY <1>0, <1>1, OneAccessorChanges, Zenon
<1>3. /\ \A h \in Heights : cache[h] # o
      /\ o \notin evicted
      /\ \A s \in Readers : reader[s].obj # o
      /\ \A m \in Removers : remover[m].obj # o
  BY <1>0, CacheAssumption DEF Garbage, Cached
<1>4. TypeOK'
  BY <1>0, <1>2 DEF TypeOK
<1>5. /\ \A h \in Heights : cache[h] # None => acc'[cache[h]] = acc[cache[h]]
      /\ \A x \in evicted : acc'[x] = acc[x]
      /\ \A s \in Readers : reader[s].obj # None => acc'[reader[s].obj] = acc[reader[s].obj]
      /\ \A m \in Removers : remover[m].obj # None => acc'[remover[m].obj] = acc[remover[m].obj]
  <2>1. \A n \in Removers : remover[n].obj \in Objects \cup {None}
    BY <1>0 DEF TypeOK, Removing, Goroutine
  <2>2. \A s \in Readers : reader[s].obj \in Objects \cup {None}
    BY <1>0 DEF TypeOK, Getting, Goroutine
  <2> QED
    BY Zenon, <1>0, <1>2, <1>3, <2>1, <2>2 DEF TypeOK
<1>6. InUse'
  BY <1>0, <1>5 DEF IInv, InUse
<1>7. ClosedOnce'
  BY <1>0, <1>1, <1>2, Zenon, CacheAssumption DEF IInv, ClosedOnce, Live
<1>8. UnderWay'
  BY <1>0 DEF IInv, UnderWay
<1>9. LoadAlone'
  BY Zenon, <1>0, <1>5, LoadersKept
<1>10. RefsExact'
  <2>1. \A x \in Objects : Holders(x)' = Holders(x)
    BY <1>0 DEF Holders
  <2> QED
    BY Zenon, <1>1, <1>2, <2>1 DEF IInv, RefsExact
<1>11. NoLeak'
  BY Zenon, <1>0, <1>1, <1>2 DEF IInv, NoLeak, Live, Cached
<1> QED
  BY <1>4, <1>6, <1>7, <1>8, <1>9, <1>10, <1>11 DEF IInv

-----------------------------------------------------------------------------
\* The invariant holds in the beginning.
LEMMA CacheInit ==
    ASSUME Init
    PROVE  IInv
<1>1. /\ Away \in Getting /\ Away \in Removing /\ Away.pc = "away" /\ Away.obj = None
      /\ NewAccessor \in Accessor /\ NewAccessor.file = "none" /\ NewAccessor.isClosed = FALSE
      /\ NewAccessor.waits = None
  BY Zenon DEF Away, Getting, Removing, Goroutine, NewAccessor, Accessor
<1>2. TypeOK
  BY Zenon, <1>1 DEF Init, TypeOK
<1>3. InUse /\ UnderWay /\ LoadAlone
  BY Zenon, <1>1 DEF Init, InUse, UnderWay, LoadAlone
<1>4. ClosedOnce /\ RefsExact /\ NoLeak
  BY Zenon, <1>1, CacheAssumption DEF Init, ClosedOnce, RefsExact, NoLeak, Live
<1> QED
  BY <1>2, <1>3, <1>4 DEF IInv

\* Every step keeps the invariant: one lemma for each action.
LEMMA CacheNext ==
    ASSUME IInv, [Next]_vars
    PROVE  IInv'
<1>1. CASE UNCHANGED vars
  <2>1. UNCHANGED <<cache, acc, reader, remover, evicted>>
    BY <1>1 DEF vars
  <2>2. TypeOK' /\ InUse' /\ UnderWay'
    BY <2>1, Zenon DEF IInv, TypeOK, InUse, UnderWay
  <2>3. ClosedOnce' /\ NoLeak'
    <3>1. ClosedOnce /\ NoLeak
      BY DEF IInv
    <3>2. Cached' = Cached /\ \A o \in Objects : Live(o)' = Live(o)
      BY <2>1 DEF Cached, Live
    <3>3. ClosedOnce'
      BY <2>1, <3>1, <3>2, Zenon DEF ClosedOnce
    <3>4. NoLeak'
      BY <2>1, <3>1, <3>2, Zenon DEF NoLeak
    <3> QED
      BY <3>3, <3>4
  <2>4. LoadAlone' /\ RefsExact'
    BY Zenon, <2>1, LoadersKept, CountsKept
  <2> QED
    BY <2>2, <2>3, <2>4 DEF IInv
<1>2. CASE Next
  <2>1. ASSUME NEW r \in Readers,
               \/ \E h \in Heights : Get(r, h) \/ GetOrLoad(r, h)
               \/ getRef(r) \/ getMiss(r) \/ lookupRef(r) \/ lookupClosed(r) \/ load(r) \/ insert(r) \/ release(r)
        PROVE  IInv'
    BY <2>1, GetStep, AddRefStep, MissStep, LoadStep, InsertStep, ReleaseStep
  <2>2. ASSUME NEW m \in Removers, (\E h \in Heights : Remove(m, h)) \/ removeClose(m) \/ removeDrop(m)
        PROVE  IInv'
    BY <2>2, RemoveStep, RemoveCloseStep, RemoveDropStep
  <2>3. ASSUME NEW o \in Objects, evictClose(o) \/ waitDone(o) \/ waitTimeout(o) \/ collect(o)
        PROVE  IInv'
    BY <2>3, EvictCloseStep, CloseFileStep, CollectStep
  <2> QED
    BY Zenon, <1>2, <2>1, <2>2, <2>3 DEF Next
<1> QED
  BY <1>1, <1>2

\* However readers, removers and evictions interleave: the count of an accessor is the
\* number of its readers, nobody reads from a file the cache has closed in time, and an
\* open file is in the cache or has somebody who will close it.
THEOREM AccessorsAreSound ==
    Spec => []AccessorsSound
<1>1. Init => IInv
  BY CacheInit
<1>2. IInv /\ [Next]_vars => IInv'
  BY CacheNext
<1>3. IInv => AccessorsSound
  BY ReadersAreCounted DEF IInv, AccessorsSound
<1> QED
  BY <1>1, <1>2, <1>3, PTL DEF Spec
=============================================================================
