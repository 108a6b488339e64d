----------------------- MODULE LightAvailabilityProofs -----------------------
(***************************************************************************)
(* Availability is reported only of blocks that were sampled, for any      *)
(* number of calls, heights, roots and crashes and any sample amount; one  *)
(* call per height is in its session; and where heights have different     *)
(* data roots calls keep one another's progress.  The inductive invariant  *)
(* is IInv of LightAvailability.                                           *)
(***************************************************************************)
EXTENDS LightAvailability, FiniteSetTheorems, TLAPS

-----------------------------------------------------------------------------
(***************************************************************************)
(* Sampling results.                                                       *)
(***************************************************************************)

\* Sets of coordinates are finite.
LEMMA CoordsFinite ==
    ASSUME NEW S \in SUBSET Coords
    PROVE  IsFiniteSet(S) /\ Cardinality(S) \in Nat
  BY FS_Subset, FS_CardinalityType, SampleAssumption

\* The number of samples, as NewSamplingResult caps it.
LEMMA AmountType == Amount \in Nat
  BY CoordsFinite, SampleAssumption DEF Amount

\* A new result has the full number of samples.
LEMMA NewIsWellFormed ==
    ASSUME NEW s \in NewSamplingResult
    PROVE  WellFormed(s) /\ s.available = {}
<1>1. PICK S \in SUBSET Coords : Cardinality(S) = Amount /\ s = [available |-> {}, remaining |-> S]
  BY DEF NewSamplingResult
<1>2. Cardinality({}) = 0
  BY FS_EmptySet
<1> QED
  BY <1>1, <1>2, AmountType DEF WellFormed, SamplingResult, Total

\* Samples that arrive move from remaining to available, so none is lost or counted twice.
LEMMA UpdateIsWellFormed ==
    ASSUME NEW s, WellFormed(s), NEW R \in SUBSET s.remaining
    PROVE  /\ WellFormed(Update(s, R))
           /\ Update(s, R).available = s.available \cup R
           /\ Update(s, R).available \cup Update(s, R).remaining = s.available \cup s.remaining
<1>1. /\ s.available \in SUBSET Coords /\ s.remaining \in SUBSET Coords /\ R \in SUBSET Coords
      /\ s.available \cap s.remaining = {}
      /\ Cardinality(s.available) + Cardinality(s.remaining) = Amount
  BY DEF WellFormed, SamplingResult, Total
<1>2. /\ IsFiniteSet(s.available) /\ IsFiniteSet(s.remaining) /\ IsFiniteSet(R)
      /\ Cardinality(s.available) \in Nat /\ Cardinality(s.remaining) \in Nat /\ Cardinality(R) \in Nat
  BY <1>1, CoordsFinite
<1>3. Cardinality(s.available \cup R) = Cardinality(s.available) + Cardinality(R)
  <2>1. s.available \cap R = {}
    BY <1>1
  <2>2. Cardinality(s.available \cap R) = 0
    BY <2>1, FS_EmptySet
  <2>3. Cardinality(s.available \cup R)
            = Cardinality(s.available) + Cardinality(R) - Cardinality(s.available \cap R)
    BY <1>2, FS_Union
  <2> QED
    BY <1>2, <2>2, <2>3
<1>4. Cardinality(s.remaining \ R) = Cardinality(s.remaining) - Cardinality(R)
  <2>1. s.remaining \cap R = R
    OBVIOUS
  <2> QED
    BY Zenon, <1>2, <2>1, FS_Difference
<1>5. Update(s, R) = [available |-> s.available \cup R, remaining |-> s.remaining \ R]
  BY DEF Update
<1> QED
  BY <1>1, <1>2, <1>3, <1>4, <1>5, AmountType DEF WellFormed, SamplingResult, Total

\* A result with nothing remaining whose samples were retrieved: the full number was.
LEMMA NothingRemains ==
    ASSUME NEW s, WellFormed(s), s.remaining = {}, NEW G \in SUBSET Coords, s.available \subseteq G
    PROVE  Cardinality(G) >= Amount
<1>1. Cardinality(s.available) + Cardinality({}) = Amount
  BY DEF WellFormed, Total
<1>2. Cardinality({}) = 0
  BY FS_EmptySet
<1>3. Cardinality(s.available) \in Nat /\ Cardinality(G) \in Nat /\ IsFiniteSet(G)
  BY CoordsFinite DEF WellFormed, SamplingResult
<1>4. Cardinality(s.available) <= Cardinality(G)
  BY <1>3, FS_Subset
<1> QED
  BY <1>1, <1>2, <1>3, <1>4, AmountType

\* More samples are enough if fewer were.
LEMMA MoreIsEnough ==
    ASSUME NEW G \in SUBSET Coords, NEW H \in SUBSET Coords, G \subseteq H, Cardinality(G) >= Amount
    PROVE  Cardinality(H) >= Amount
<1>1. Cardinality(G) \in Nat /\ Cardinality(H) \in Nat /\ IsFiniteSet(H)
  BY CoordsFinite
<1>2. Cardinality(G) <= Cardinality(H)
  BY <1>1, FS_Subset
<1> QED
  BY <1>1, <1>2, AmountType

-----------------------------------------------------------------------------
(***************************************************************************)
(* Steps.                                                                  *)
(***************************************************************************)

\* The keys of the datastore are the roots of the heights.
LEMMA RootIsKey ==
    ASSUME NEW c \in Calls, height[c] \in Heights
    PROVE  Root(c) \in Keys
  BY DEF Root, Keys

\* Nothing that was retrieved is forgotten.
Grows == \A k \in Keys : got[k] \subseteq got'[k]

\* The call d stays where it is, and keeps its session.
Stays(d) ==
    /\ UNCHANGED <<pc[d], height[d], samples[d], result[d]>>
    /\ pc[d] # "idle" /\ active[height[d]] = d => active'[height[d]] = d

\* What is known of a call that does not move stays true.
LEMMA CallStays ==
    ASSUME IInv, TypeOK', NEW d \in Calls, Stays(d), Grows
    PROVE  CallOK(d)'
<1>1. CallOK(d) /\ got \in [Keys -> SUBSET Coords] /\ got' \in [Keys -> SUBSET Coords]
  BY DEF IInv, TypeOK
<1>2. height'[d] = height[d] /\ Root(d)' = Root(d) /\ (InSession(d)' <=> InSession(d))
  BY DEF Stays, Root, InSession
<1>3. CASE pc[d] = "idle"
  BY <1>1, <1>2, <1>3 DEF CallOK, Stays, InSession
<1>4. CASE pc[d] # "idle"
  <2>1. Root(d) \in Keys /\ got[Root(d)] \subseteq got'[Root(d)]
    BY <1>1, <1>4, RootIsKey DEF CallOK, Grows
  <2>2. d \in Samplers /\ result'[d] = "nil" /\ Root(d)' # EmptyRoot => Cardinality(got'[Root(d)]) >= Amount
    BY <1>1, <1>2, <2>1, MoreIsEnough DEF CallOK, Stays
  <2>3. pc'[d] \in {"get", "put", "putCanceled"} => samples'[d] # None /\ samples'[d].available \subseteq got'[Root(d)]
    BY <1>1, <2>1 DEF CallOK, Stays
  <2> QED
    BY <1>1, <1>2, <1>4, <2>2, <2>3 DEF CallOK, Stays
<1> QED
  BY <1>3, <1>4

\* A step of one call keeps the invariant if it leaves that call and the results in order.
LEMMA CallMoves ==
    ASSUME IInv, NEW c \in Calls, TypeOK', ClaimedIsRetrieved', CallOK(c)', Grows,
           \A d \in Calls \ {c} : Stays(d)
    PROVE  IInv'
  BY CallStays DEF IInv

\* A call begins; one that has nothing to do reports nothing of a block with data.
LEMMA BeginStep ==
    ASSUME IInv, NEW c \in Calls, NEW h \in Heights, begin(c, h)
    PROVE  IInv'
<1> USE DEF begin, Goto
<1>0. pc[c] = "idle" /\ result[c] = "none"
  BY DEF IInv, CallOK
<1>1. TypeOK'
  BY DEF IInv, TypeOK, Places, Results
<1>2. /\ height'[c] = h /\ pc'[c] \in {"done", "start"} /\ Root(c)' = Roots[h]
      /\ pc'[c] = "start" => Roots[h] # EmptyRoot
      /\ result'[c] = "nil" => Roots[h] = EmptyRoot
  BY <1>0 DEF IInv, TypeOK, Root
<1>3. CallOK(c)'
  BY <1>2 DEF CallOK, InSession
<1>4. \A d \in Calls \ {c} : Stays(d)
  BY DEF IInv, TypeOK, Stays
<1>5. ClaimedIsRetrieved' /\ Grows
  BY DEF IInv, ClaimedIsRetrieved, Grows
<1> QED
  BY <1>1, <1>3, <1>4, <1>5, CallMoves

\* A call takes the session of its height if nobody has it, and otherwise waits.
LEMMA StartSessionStep ==
    ASSUME IInv, NEW c \in Calls, StartSession(c)
    PROVE  IInv'
<1> USE DEF StartSession, Goto
<1>0. pc[c] = "start" /\ height[c] \in Heights /\ Root(c) # EmptyRoot /\ CallOK(c)
  BY DEF IInv, CallOK
<1>1. TypeOK'
  BY <1>0 DEF IInv, TypeOK, Places
<1>2. /\ height'[c] = height[c] /\ Root(c)' = Root(c) /\ result' = result /\ got' = got
      /\ pc'[c] \in {"load", "delete", "wait"} /\ (pc'[c] = "delete" => c \notin Samplers)
      /\ pc'[c] # "wait" => active'[height[c]] = c
  BY <1>0 DEF IInv, TypeOK, Root
<1>3. CallOK(c)'
  BY <1>0, <1>2 DEF CallOK, InSession
<1>4. \A d \in Calls \ {c} : Stays(d)
  BY <1>0, NoneAssumption DEF IInv, TypeOK, Stays, CallOK
<1>5. ClaimedIsRetrieved' /\ Grows
  BY DEF IInv, ClaimedIsRetrieved, Grows
<1> QED
  BY <1>1, <1>3, <1>4, <1>5, CallMoves

\* A call that waits tries again or gives up, and one that is done closes its channel.
LEMMA WaitStep ==
    ASSUME IInv, NEW c \in Calls, wake(c) \/ waitCanceled(c) \/ release(c)
    PROVE  IInv'
<1> USE DEF wake, waitCanceled, release, Goto
<1>0. /\ CallOK(c) /\ height[c] \in Heights /\ Root(c) # EmptyRoot
      /\ pc[c] = "release" => active[height[c]] = c
  BY DEF IInv, CallOK, InSession
<1>1. TypeOK'
  BY DEF IInv, TypeOK, Places, Results
<1>2. /\ height' = height /\ Root(c)' = Root(c) /\ got' = got /\ active' = active
      /\ result'[c] \in {result[c], "ctxErr"}
      /\ pc'[c] \in {"start", "done", "unlock"} /\ (pc'[c] = "unlock" => pc[c] = "release")
  BY DEF IInv, TypeOK, Root
<1>3. CallOK(c)'
  BY <1>0, <1>2 DEF CallOK, InSession
<1>4. \A d \in Calls \ {c} : Stays(d)
  BY DEF IInv, TypeOK, Stays
<1>5. ClaimedIsRetrieved' /\ Grows
  BY DEF IInv, ClaimedIsRetrieved, Grows
<1> QED
  BY <1>1, <1>3, <1>4, <1>5, CallMoves

\* The session is deleted by the call that has it, so nobody else loses one.
LEMMA UnlockStep ==
    ASSUME IInv, NEW c \in Calls, unlock(c)
    PROVE  IInv'
<1> USE DEF unlock, Goto
<1>0. CallOK(c) /\ height[c] \in Heights /\ active[height[c]] = c
  BY DEF IInv, CallOK
<1>1. TypeOK'
  BY <1>0 DEF IInv, TypeOK, Places
<1>2. height' = height /\ Root(c)' = Root(c) /\ got' = got /\ result' = result /\ pc'[c] = "done"
  BY DEF IInv, TypeOK, Root
<1>3. CallOK(c)'
  BY <1>0, <1>2 DEF CallOK, InSession
<1>4. \A d \in Calls \ {c} : Stays(d)
  BY <1>0 DEF IInv, TypeOK, Stays
<1>5. ClaimedIsRetrieved' /\ Grows
  BY DEF IInv, ClaimedIsRetrieved, Grows
<1> QED
  BY <1>1, <1>3, <1>4, <1>5, CallMoves

\* The stored result claims only what was retrieved, and a new one claims nothing; a
\* stored one with nothing remaining means that the full number was.
LEMMA LoadStep ==
    ASSUME IInv, NEW c \in Calls, load(c)
    PROVE  IInv'
<1>0. /\ CallOK(c) /\ pc[c] = "load" /\ height[c] \in Heights /\ Root(c) # EmptyRoot /\ Root(c) \in Keys
      /\ active[height[c]] = c
  BY RootIsKey DEF IInv, CallOK, InSession, load
<1>1. UNCHANGED <<height, waiting, active, closed, ds, disk, got, crashes>>
  BY Zenon DEF load
<1>2. /\ ds[Root(c)] # None => WellFormed(ds[Root(c)]) /\ ds[Root(c)].available \subseteq got[Root(c)]
      /\ got[Root(c)] \in SUBSET Coords
  BY Zenon, <1>0 DEF IInv, TypeOK, ClaimedIsRetrieved
<1>3. PICK s \in SamplingResult \cup {None}, where \in {"get", "release"}, r \in Results :
         /\ samples' = [samples EXCEPT ![c] = s] /\ pc' = [pc EXCEPT ![c] = where]
         /\ result' = [result EXCEPT ![c] = r]
         /\ s # None => WellFormed(s)
         /\ where = "get" => s # None /\ s.available \subseteq got[Root(c)]
         /\ r = "nil" => result[c] = "nil" \/ Cardinality(got[Root(c)]) >= Amount
  <2> USE <1>0 DEF load, Goto, Finish
  <2>0. /\ samples \in [Calls -> SamplingResult \cup {None}] /\ result \in [Calls -> Results]
        /\ samples[c] # None => WellFormed(samples[c])
    BY Zenon DEF IInv, TypeOK
  <2>1. CASE ds[Root(c)] = None /\ \E s \in NewSamplingResult : samples' = [samples EXCEPT ![c] = s] /\ Goto(c, "get")
                                      /\ UNCHANGED result
    <3>1. PICK s \in NewSamplingResult : samples' = [samples EXCEPT ![c] = s] /\ Goto(c, "get") /\ UNCHANGED result
      BY Zenon, <2>1
    <3>2. WellFormed(s) /\ s.available = {} /\ s # None /\ s \in SamplingResult
      BY NewIsWellFormed, NoneAssumption DEF WellFormed
    <3>3. result' = [result EXCEPT ![c] = result[c]] /\ result[c] \in Results
      BY <3>1, <2>0
    <3> QED
      BY Zenon, <3>1, <3>2, <3>3
  <2>2. CASE /\ ds[Root(c)] # None /\ samples' = [samples EXCEPT ![c] = ds[Root(c)]]
             /\ \/ Finish(c, "invalid")
                \/ ds[Root(c)].remaining = {} /\ Finish(c, "nil")
                \/ Goto(c, "get") /\ UNCHANGED result
    <3>1. PICK s \in SamplingResult : s = ds[Root(c)] /\ WellFormed(s) /\ s.available \subseteq got[Root(c)] /\ s # None
      BY Zenon, <2>2, <1>2 DEF WellFormed
    <3>2. s.remaining = {} => Cardinality(got[Root(c)]) >= Amount
      BY <3>1, <1>2, NothingRemains
    <3>3. samples' = [samples EXCEPT ![c] = s]
      BY <3>1, <2>2
    <3>4. CASE Finish(c, "invalid")
      BY Zenon, <3>1, <3>3, <3>4 DEF Results
    <3>5. CASE s.remaining = {} /\ Finish(c, "nil")
      BY Zenon, <3>1, <3>2, <3>3, <3>5 DEF Results
    <3>6. CASE Goto(c, "get") /\ UNCHANGED result
      <4>1. result' = [result EXCEPT ![c] = result[c]] /\ result[c] \in Results
        BY Zenon, <3>6, <2>0
      <4> QED
        BY Zenon, <3>1, <3>3, <3>6, <4>1
    <3> QED
      BY Zenon, <2>2, <3>1, <3>4, <3>5, <3>6
  <2>3. CASE Finish(c, "dsErr") /\ UNCHANGED samples
    <3>1. samples' = [samples EXCEPT ![c] = samples[c]] /\ samples[c] \in SamplingResult \cup {None}
      BY <2>3, <2>0
    <3> QED
      BY Zenon, <2>0, <2>3, <3>1 DEF Results
  <2> QED
    BY Zenon, <2>1, <2>2, <2>3
<1>4. TypeOK'
  BY Zenon, <1>1, <1>3 DEF IInv, TypeOK, Places
<1>5. Root(c)' = Root(c) /\ samples'[c] = s /\ pc'[c] = where /\ result'[c] = r
  BY Zenon, <1>1, <1>3 DEF IInv, TypeOK, Root
<1>6. CallOK(c)'
  BY Zenon, <1>0, <1>1, <1>3, <1>5 DEF CallOK, InSession
<1>7. \A d \in Calls \ {c} : Stays(d)
  BY Zenon, <1>1, <1>3 DEF IInv, TypeOK, Stays
<1>8. ClaimedIsRetrieved' /\ Grows
  BY <1>1 DEF IInv, ClaimedIsRetrieved, Grows
<1> QED
  BY <1>4, <1>6, <1>7, <1>8, CallMoves

\* The samples that arrive were retrieved.
LEMMA GetSamplesStep ==
    ASSUME IInv, NEW c \in Calls, getSamples(c)
    PROVE  IInv'
<1>0. /\ CallOK(c) /\ pc[c] = "get" /\ height[c] \in Heights /\ Root(c) # EmptyRoot /\ Root(c) \in Keys
      /\ active[height[c]] = c /\ samples[c] # None /\ samples[c].available \subseteq got[Root(c)]
      /\ WellFormed(samples[c]) /\ got[Root(c)] \in SUBSET Coords
  BY Zenon, RootIsKey DEF IInv, TypeOK, CallOK, InSession, getSamples
<1>1. UNCHANGED <<height, waiting, active, closed, ds, disk, crashes>>
  BY Zenon DEF getSamples
<1>2. CASE Finish(c, "notAvailable") /\ UNCHANGED <<samples, got>>
  <2> USE <1>1, <1>2 DEF Finish, Goto
  <2>1. TypeOK'
    BY DEF IInv, TypeOK, Places, Results
  <2>2. Root(c)' = Root(c) /\ pc'[c] = "release" /\ result'[c] = "notAvailable"
    BY DEF IInv, TypeOK, Root
  <2>3. CallOK(c)'
    BY <1>0, <2>2 DEF CallOK, InSession
  <2>4. \A d \in Calls \ {c} : Stays(d)
    BY DEF IInv, TypeOK, Stays
  <2>5. ClaimedIsRetrieved' /\ Grows
    BY DEF IInv, ClaimedIsRetrieved, Grows
  <2> QED
    BY <2>1, <2>3, <2>4, <2>5, CallMoves
<1>3. ASSUME NEW R \in SUBSET samples[c].remaining,
             got' = [got EXCEPT ![Root(c)] = got[Root(c)] \cup R],
             samples' = [samples EXCEPT ![c] = Update(samples[c], R)],
             NEW where \in {"put", "putCanceled"}, Goto(c, where), UNCHANGED result
      PROVE  IInv'
  <2>1. PICK s \in SamplingResult : /\ s = Update(samples[c], R) /\ WellFormed(s) /\ s # None
                                    /\ s.available = samples[c].available \cup R
    BY <1>0, UpdateIsWellFormed, NoneAssumption DEF WellFormed
  <2>2. PICK G \in SUBSET Coords : G = got[Root(c)] \cup R
    BY Zenon, <1>0 DEF WellFormed, SamplingResult
  <2> USE <1>1, <1>3, <2>1, <2>2 DEF Goto
  <2>3. samples' = [samples EXCEPT ![c] = s] /\ got' = [got EXCEPT ![Root(c)] = G]
    OBVIOUS
  <2>4. TypeOK'
    BY <1>0, <2>3 DEF IInv, TypeOK, Places
  <2>5. Root(c)' = Root(c) /\ samples'[c] = s /\ pc'[c] = where /\ result'[c] = result[c] /\ got'[Root(c)] = G
    BY Zenon, <1>0, <2>3 DEF IInv, TypeOK, Root
  <2>6. Grows
    BY Zenon, <2>3 DEF IInv, TypeOK, Grows
  <2>7. CallOK(c)'
    <3>1. Cardinality(got[Root(c)]) >= Amount => Cardinality(G) >= Amount
      BY Zenon, <1>0, MoreIsEnough
    <3> QED
      BY Zenon, <1>0, <2>5, <3>1 DEF CallOK, InSession
  <2>8. \A d \in Calls \ {c} : Stays(d)
    BY Zenon, <2>3 DEF IInv, TypeOK, Stays
  <2>9. ClaimedIsRetrieved'
    BY Zenon, <2>6 DEF IInv, ClaimedIsRetrieved, Grows
  <2> QED
    BY <2>4, <2>6, <2>7, <2>8, <2>9, CallMoves
<1> QED
  BY Zenon, <1>2, <1>3 DEF getSamples

\* The result that is stored claims what the call has retrieved, and the verdict is that
\* the block is available only if nothing remains.
LEMMA PutStep ==
    ASSUME IInv, NEW c \in Calls, put(c)
    PROVE  IInv'
<1>0. /\ CallOK(c) /\ height[c] \in Heights /\ Root(c) # EmptyRoot /\ Root(c) \in Keys
      /\ active[height[c]] = c /\ samples[c] # None /\ samples[c].available \subseteq got[Root(c)]
      /\ WellFormed(samples[c]) /\ samples[c] \in SamplingResult /\ got[Root(c)] \in SUBSET Coords
  BY Zenon, RootIsKey DEF IInv, TypeOK, CallOK, InSession, put, WellFormed
<1>1. UNCHANGED <<height, waiting, samples, active, closed, disk, got, crashes>>
  BY DEF put
<1>2. Verdict(c) \in Results /\ (Verdict(c) = "nil" => Cardinality(got[Root(c)]) >= Amount)
  BY Zenon, <1>0, NothingRemains DEF Verdict, Results
<1>3. PICK r \in Results : Finish(c, r) /\ (r = "nil" => Cardinality(got[Root(c)]) >= Amount)
  BY <1>2 DEF put, Results
<1>4. ds' = [ds EXCEPT ![Root(c)] = samples[c]] \/ ds' = ds
  BY DEF put
<1>5. /\ ds' \in [Keys -> SamplingResult \cup {None}]
      /\ \A k \in Keys : ds'[k] # None => WellFormed(ds'[k]) /\ ds'[k].available \subseteq got[k]
  BY Zenon, <1>0, <1>4 DEF IInv, TypeOK, ClaimedIsRetrieved
<1> USE <1>1, <1>3 DEF Finish, Goto
<1>6. TypeOK'
  BY Zenon, <1>5 DEF IInv, TypeOK, Places
<1>7. Root(c)' = Root(c) /\ pc'[c] = "release" /\ result'[c] = r
  BY DEF IInv, TypeOK, Root
<1>8. CallOK(c)'
  BY Zenon, <1>0, <1>7 DEF CallOK, InSession
<1>9. \A d \in Calls \ {c} : Stays(d)
  BY DEF IInv, TypeOK, Stays
<1>10. ClaimedIsRetrieved' /\ Grows
  BY <1>5 DEF IInv, ClaimedIsRetrieved, Grows
<1> QED
  BY <1>6, <1>8, <1>9, <1>10, CallMoves

\* Prune deletes the result, and reports nothing about availability.
LEMMA DeleteStep ==
    ASSUME IInv, NEW c \in Calls, delete(c)
    PROVE  IInv'
<1>0. /\ CallOK(c) /\ height[c] \in Heights /\ Root(c) # EmptyRoot /\ c \notin Samplers /\ active[height[c]] = c
      /\ Root(c) \in Keys
  BY Zenon, RootIsKey DEF IInv, CallOK, InSession, delete
<1>1. UNCHANGED <<height, waiting, samples, active, closed, disk, got, crashes>>
  BY DEF delete
<1>2. PICK r \in {"nil", "deleteErr"} : Finish(c, r)
  BY DEF delete
<1>3. ds' = [ds EXCEPT ![Root(c)] = None] \/ ds' = ds
  BY DEF delete
<1>4. /\ ds' \in [Keys -> SamplingResult \cup {None}]
      /\ \A k \in Keys : ds'[k] # None => ds'[k] = ds[k]
  BY <1>0, <1>3 DEF IInv, TypeOK
<1> USE <1>1, <1>2 DEF Finish, Goto
<1>5. TypeOK'
  BY <1>4 DEF IInv, TypeOK, Places, Results
<1>6. Root(c)' = Root(c) /\ pc'[c] = "release" /\ result'[c] = r
  BY DEF IInv, TypeOK, Root
<1>7. CallOK(c)'
  BY Zenon, <1>0, <1>6 DEF CallOK, InSession
<1>8. \A d \in Calls \ {c} : Stays(d)
  BY DEF IInv, TypeOK, Stays
<1>9. ClaimedIsRetrieved' /\ Grows
  BY <1>4 DEF IInv, ClaimedIsRetrieved, Grows
<1> QED
  BY <1>5, <1>7, <1>8, <1>9, CallMoves

\* The batch is written, or the process crashes: calls that were under way report nothing.
LEMMA DatastoreStep ==
    ASSUME IInv, flush \/ crash
    PROVE  IInv'
<1>1. CASE flush
  <2> USE <1>1 DEF flush, callVars
  <2>1. TypeOK'
    BY DEF IInv, TypeOK
  <2>2. ClaimedIsRetrieved'
    BY Zenon DEF IInv, ClaimedIsRetrieved
  <2>3. Grows /\ \A d \in Calls : Stays(d)
    BY DEF Grows, Stays
  <2> QED
    BY <2>1, <2>2, <2>3, CallStays DEF IInv
<1>2. CASE crash
  <2> USE <1>2 DEF crash
  <2>1. TypeOK'
    BY DEF IInv, TypeOK, Places, Results
  <2>2. ClaimedIsRetrieved'
    BY Zenon DEF IInv, ClaimedIsRetrieved
  <2>3. ASSUME NEW c \in Calls
        PROVE  CallOK(c)'
    <3>1. /\ pc'[c] = IF pc[c] \in {"idle", "done"} THEN pc[c] ELSE "done"
          /\ result'[c] = IF pc[c] \in {"idle", "done"} THEN result[c] ELSE "crashed"
          /\ height' = height /\ got' = got /\ Root(c)' = Root(c) /\ CallOK(c)
      BY Zenon DEF Root, IInv
    <3> QED
      BY Zenon, <3>1 DEF CallOK, InSession
  <2> QED
    BY Zenon, <2>1, <2>2, <2>3 DEF IInv
<1> QED
  BY <1>1, <1>2

\* The invariant holds in the beginning.
LEMMA LightInit == Init => IInv
<1> SUFFICES ASSUME Init PROVE IInv
  OBVIOUS
<1>1. TypeOK
  BY DEF Init, TypeOK, Places, Results
<1>2. ClaimedIsRetrieved /\ \A c \in Calls : pc[c] = "idle" /\ result[c] = "none"
  BY Zenon DEF Init, ClaimedIsRetrieved
<1> QED
  BY Zenon, <1>1, <1>2 DEF IInv, CallOK, InSession

\* Every step keeps the invariant: one lemma for each action.
LEMMA LightNext == IInv /\ [Next]_vars => IInv'
<1> SUFFICES ASSUME IInv, [Next]_vars PROVE IInv'
  OBVIOUS
<1>1. CASE UNCHANGED vars
  <2> USE <1>1 DEF vars
  <2>1. TypeOK' /\ ClaimedIsRetrieved'
    BY Zenon DEF IInv, TypeOK, ClaimedIsRetrieved
  <2>2. Grows /\ \A d \in Calls : Stays(d)
    BY Zenon DEF Grows, Stays
  <2> QED
    BY <2>1, <2>2, CallStays DEF IInv
<1>2. ASSUME NEW c \in Calls, Step(c) \/ waitCanceled(c) \/ \E h \in Heights : begin(c, h)
      PROVE  IInv'
  BY <1>2, BeginStep, StartSessionStep, WaitStep, UnlockStep, LoadStep, GetSamplesStep, PutStep, DeleteStep DEF Step
<1> QED
  BY <1>1, <1>2, DatastoreStep DEF Next

-----------------------------------------------------------------------------
(***************************************************************************)
(* Theorems.                                                               *)
(***************************************************************************)

\* However calls of SharesAvailable and of Prune interleave, also for heights with one data
\* root, and whatever the datastore loses in crashes: a block is reported available only
\* after the full number of its samples was retrieved, and no stored result claims a sample
\* that was not.
THEOREM AvailabilityIsSampled == Spec => []AvailableIsSampled
<1>1. IInv => AvailableIsSampled
  BY DEF IInv, CallOK, AvailableIsSampled, EnoughSampled, Calls
<1> QED
  BY <1>1, LightInit, LightNext, PTL DEF Spec

\* The invariant gives every call in its session the entry of its height.
LEMMA SessionIsOwn == IInv => OneSession
  BY DEF IInv, CallOK, OneSession

\* Sessions exclude one another: a call that was woken, or whose height was released by
\* another, never runs next to a second one for its height.
THEOREM SessionsExclude == Spec => []OneSession
  BY SessionIsOwn, LightInit, LightNext, PTL DEF Spec

-----------------------------------------------------------------------------
(***************************************************************************)
(* Progress is kept where heights have different data roots.               *)
(***************************************************************************)

FreshInv == IInv /\ \A c \in Calls : CopyIsFresh(c)

\* A step of one call moves no other.
LEMMA OthersStay ==
    ASSUME TypeOK, NEW c \in Calls, Step(c) \/ waitCanceled(c) \/ \E h \in Heights : begin(c, h),
           NEW d \in Calls, d # c
    PROVE  UNCHANGED <<pc[d], height[d], samples[d], crashes>>
<1> USE DEF TypeOK, Goto, Finish
<1>1. CASE \E h \in Heights : begin(c, h)
  BY Zenon, <1>1 DEF begin
<1>2. CASE StartSession(c) \/ wake(c) \/ waitCanceled(c) \/ release(c) \/ unlock(c)
  BY Zenon, <1>2 DEF StartSession, wake, waitCanceled, release, unlock
<1>3. CASE load(c)
  BY Zenon, <1>3 DEF load
<1>4. CASE getSamples(c)
  BY Zenon, <1>4 DEF getSamples
<1>5. CASE put(c) \/ delete(c)
  BY <1>5 DEF put, delete
<1> QED
  BY Zenon, <1>1, <1>2, <1>3, <1>4, <1>5 DEF Step

\* A call that does not move and whose stored result does not change has a fresh copy.
LEMMA CopyStays ==
    ASSUME NEW d \in Calls, UNCHANGED <<pc[d], height[d], samples[d]>>, CopyIsFresh(d),
           pc[d] \in {"get", "put", "putCanceled"} => ds'[Root(d)] = ds[Root(d)]
    PROVE  CopyIsFresh(d)'
<1>1. Root(d)' = Root(d)
  BY DEF Root
<1> QED
  BY <1>1 DEF CopyIsFresh

\* Two calls in their sessions are for different roots.
LEMMA RootIsOwn ==
    ASSUME RootsDiffer, IInv, NEW c \in Calls, NEW d \in Calls, d # c, InSession(c), InSession(d)
    PROVE  Root(c) # Root(d)
<1>1. /\ height[c] \in Heights /\ height[d] \in Heights /\ Root(d) # EmptyRoot
      /\ active[height[c]] = c /\ active[height[d]] = d
  BY Zenon DEF IInv, CallOK, InSession
<1> QED
  BY <1>1 DEF RootsDiffer, Root

\* A step that does not write the datastore: the call that reads or extends the result has
\* a fresh copy of it, and the others keep theirs.
LEMMA ReadStep ==
    ASSUME RootsDiffer, FreshInv, NEW c \in Calls,
           \/ \E h \in Heights : begin(c, h)
           \/ StartSession(c) \/ wake(c) \/ waitCanceled(c) \/ release(c) \/ unlock(c) \/ load(c) \/ getSamples(c)
    PROVE  (\A d \in Calls : CopyIsFresh(d)') /\ ds' = ds
<1>1. ds' = ds
  BY Zenon DEF begin, StartSession, wake, waitCanceled, release, unlock, load, getSamples
<1>2. ASSUME NEW d \in Calls, d # c
      PROVE  CopyIsFresh(d)'
  BY Zenon, <1>1, <1>2, OthersStay, CopyStays DEF FreshInv, IInv, Step
<1>3. CopyIsFresh(c)'
  <2>1. CASE \/ \E h \in Heights : begin(c, h)
             \/ StartSession(c) \/ wake(c) \/ waitCanceled(c) \/ release(c) \/ unlock(c)
    <3>1. pc'[c] \notin {"get", "put", "putCanceled"}
      BY Zenon, <2>1 DEF FreshInv, IInv, TypeOK, Goto, begin, StartSession, wake, waitCanceled, release, unlock
    <3> QED
      BY <3>1 DEF CopyIsFresh
  <2>2. CASE load(c)
    <3>1. Root(c)' = Root(c)
      BY Zenon, <2>2 DEF load, Root
    <3>2. ds[Root(c)] # None /\ pc'[c] # "release" => samples'[c] = ds[Root(c)]
      BY Zenon, <2>2 DEF FreshInv, IInv, TypeOK, load, Finish, Goto
    <3>3. pc'[c] \in {"get", "release"}
      BY Zenon, <2>2 DEF FreshInv, IInv, TypeOK, load, Finish, Goto
    <3> QED
      BY Zenon, <1>1, <3>1, <3>2, <3>3 DEF CopyIsFresh
  <2>3. CASE getSamples(c)
    <3>1. Root(c)' = Root(c) /\ pc[c] = "get" /\ samples[c] # None /\ WellFormed(samples[c])
      BY Zenon, <2>3 DEF getSamples, Root, FreshInv, IInv, TypeOK, CallOK
    <3>2. CASE Finish(c, "notAvailable") /\ UNCHANGED <<samples, got>>
      BY Zenon, <3>2 DEF CopyIsFresh, Finish, Goto, FreshInv, IInv, TypeOK
    <3>3. ASSUME NEW R \in SUBSET samples[c].remaining, samples' = [samples EXCEPT ![c] = Update(samples[c], R)]
          PROVE  CopyIsFresh(c)'
      <4>1. PICK s : /\ s = Update(samples[c], R) /\ s.available = samples[c].available \cup R
                     /\ s.available \cup s.remaining = samples[c].available \cup samples[c].remaining
        BY Zenon, <3>1, UpdateIsWellFormed
      <4>2. samples'[c] = s
        BY Zenon, <3>3, <4>1 DEF FreshInv, IInv, TypeOK
      <4> QED
        BY Zenon, <1>1, <3>1, <4>1, <4>2 DEF CopyIsFresh, FreshInv
    <3> QED
      BY Zenon, <2>3, <3>2, <3>3 DEF getSamples
  <2> QED
    BY <2>1, <2>2, <2>3
<1> QED
  BY <1>1, <1>2, <1>3

\* A step that writes the datastore writes the call's own root, and no progress is lost.
LEMMA WriteStep ==
    ASSUME RootsDiffer, FreshInv, NEW c \in Calls, put(c) \/ delete(c)
    PROVE  (\A d \in Calls : CopyIsFresh(d)') /\ KeepsProgress
<1>0. /\ height[c] \in Heights /\ Root(c) \in Keys /\ InSession(c) /\ ds \in [Keys -> SamplingResult \cup {None}]
      /\ put(c) => pc[c] \in {"put", "putCanceled"}
  BY Zenon, RootIsKey DEF put, delete, InSession, FreshInv, IInv, TypeOK, CallOK
<1>1. /\ \A k \in Keys \ {Root(c)} : ds'[k] = ds[k]
      /\ ds'[Root(c)] \in {ds[Root(c)], None} \/ (put(c) /\ ds'[Root(c)] = samples[c])
  BY Zenon, <1>0 DEF put, delete
<1>2. pc'[c] = "release"
  BY Zenon DEF put, delete, Finish, Goto, FreshInv, IInv, TypeOK
<1>3. CopyIsFresh(c)'
  BY Zenon, <1>2 DEF CopyIsFresh
<1>4. ASSUME NEW d \in Calls, d # c
      PROVE  CopyIsFresh(d)'
  <2>1. pc[d] \in {"get", "put", "putCanceled"} => ds'[Root(d)] = ds[Root(d)]
    <3> SUFFICES ASSUME pc[d] \in {"get", "put", "putCanceled"} PROVE ds'[Root(d)] = ds[Root(d)]
      OBVIOUS
    <3>1. Root(d) # Root(c)
      BY <1>0, <1>4, RootIsOwn DEF FreshInv, InSession
    <3>2. Root(d) \in Keys
      BY Zenon, RootIsKey DEF FreshInv, IInv, CallOK
    <3> QED
      BY <1>1, <3>1, <3>2
  <2> QED
    BY Zenon, <1>4, <2>1, OthersStay, CopyStays DEF FreshInv, IInv, Step
<1>5. KeepsProgress
  BY Zenon, <1>0, <1>1 DEF KeepsProgress, FreshInv, CopyIsFresh
<1> QED
  BY <1>3, <1>4, <1>5

\* Every step keeps copies fresh and progress.
LEMMA FreshNext ==
    ASSUME RootsDiffer, FreshInv, [Next]_vars
    PROVE  FreshInv' /\ KeepsProgress
<1>0. IInv'
  BY LightNext DEF FreshInv
<1>1. CASE UNCHANGED vars
  <2> USE <1>1 DEF vars
  <2>1. \A d \in Calls : CopyIsFresh(d)'
    BY Zenon, CopyStays DEF FreshInv
  <2> QED
    BY <1>0, <2>1 DEF FreshInv, KeepsProgress
<1>2. ASSUME NEW c \in Calls, Step(c) \/ waitCanceled(c) \/ \E h \in Heights : begin(c, h)
      PROVE  FreshInv' /\ KeepsProgress
  <2>1. CASE put(c) \/ delete(c)
    BY <1>0, <2>1, WriteStep DEF FreshInv
  <2>2. CASE ~(put(c) \/ delete(c))
    <3>1. (\A d \in Calls : CopyIsFresh(d)') /\ ds' = ds
      BY <1>2, <2>2, ReadStep DEF Step
    <3> QED
      BY <1>0, <3>1 DEF FreshInv, KeepsProgress
  <2> QED
    BY <2>1, <2>2
<1>3. CASE flush
  <2> USE <1>3 DEF flush, callVars
  <2>1. \A d \in Calls : CopyIsFresh(d)'
    BY Zenon, CopyStays DEF FreshInv
  <2> QED
    BY Zenon, <1>0, <2>1 DEF FreshInv, KeepsProgress
<1>4. CASE crash
  <2>1. \A d \in Calls : pc'[d] \notin {"get", "put", "putCanceled"}
    BY <1>4 DEF crash
  <2>2. crashes' # crashes
    BY <1>4 DEF crash, FreshInv, IInv, TypeOK
  <2> QED
    BY Zenon, <1>0, <2>1, <2>2 DEF FreshInv, CopyIsFresh, KeepsProgress
<1> QED
  BY <1>1, <1>2, <1>3, <1>4 DEF Next

\* Where heights have different data roots, calls do not undo one another's progress: a
\* sampling result that is there keeps its samples, which only move to available, until it
\* is pruned or lost in a crash; and sessions exclude one another.
THEOREM ProgressIsKept ==
    ASSUME RootsDiffer
    PROVE  Spec => ProgressKept
<1>1. Init => FreshInv
  <2>1. Init => \A c \in Calls : CopyIsFresh(c)
    BY Zenon DEF Init, CopyIsFresh
  <2> QED
    BY <2>1, LightInit DEF FreshInv
<1>2. FreshInv /\ [Next]_vars => FreshInv' /\ [OneSession /\ KeepsProgress]_vars
  BY FreshNext, SessionIsOwn DEF FreshInv
<1> QED
  BY <1>1, <1>2, PTL DEF Spec, ProgressKept

=============================================================================
