------------------------------ MODULE CoreProofs ------------------------------
(***************************************************************************)
(* A bridge node on its consensus nodes.                                   *)
(*                                                                         *)
(* The listener announces each block once, only what it can serve, and     *)
(* stores no block of another chain, for any number of sources, heights,   *)
(* events in flight and restarts.  The inductive invariant is IInv of      *)
(* CoreListener: what the listener is about to publish it has not          *)
(* published before, although the header exchange stores blocks meanwhile  *)
(* and a crash forgets what was under way.                                 *)
(*                                                                         *)
(* A range of the header exchange (HeaderExchange) has no gap, for any     *)
(* chain whose blocks take no longer than expected and whichever fetches   *)
(* fail.  Its inductive invariant, ExchangeInv, says how the part of the   *)
(* network and the part of core meet, and what has become of each fetch.   *)
(*                                                                         *)
(* The first part is about the other signal that the blocks of a node pass *)
(* on: catch-up (DASCatchUp).                                              *)
(***************************************************************************)
EXTENDS CoreListener, HeaderExchange, DASCatchUp, TLAPS

-----------------------------------------------------------------------------
(***************************************************************************)
(* Sequences.                                                              *)
(***************************************************************************)

\* A queue that has room, a queue without its first element and an empty queue fit.
LEMMA QueueGrows ==
    ASSUME NEW S, NEW q \in Seq(S), NEW x \in S, NEW n \in Nat, Len(q) < n
    PROVE  Append(q, x) \in Seq(S) /\ Len(Append(q, x)) <= n
  OBVIOUS

LEMMA QueueShrinks ==
    ASSUME NEW S, NEW q \in Seq(S), q # <<>>, NEW n \in Nat, Len(q) <= n
    PROVE  Head(q) \in S /\ Tail(q) \in Seq(S) /\ Len(Tail(q)) <= n
  OBVIOUS

LEMMA QueueEmpty ==
    ASSUME NEW S, NEW n \in Nat
    PROVE  <<>> \in Seq(S) /\ Len(<<>>) <= n
  OBVIOUS

\* One channel changes.
LEMMA ChannelChanges ==
    ASSUME ch \in [Sources -> Seq(BlockHeights)], \A t \in Sources : Len(ch[t]) <= Capacity,
           NEW s \in Sources, NEW q \in Seq(BlockHeights), Len(q) <= Capacity, ch' = [ch EXCEPT ![s] = q]
    PROVE  ch' \in [Sources -> Seq(BlockHeights)] /\ \A t \in Sources : Len(ch'[t]) <= Capacity
<1>1. \A t \in Sources : ch'[t] = IF t = s THEN q ELSE ch[t]
  BY Zenon
<1> QED
  BY Zenon, <1>1

LEMMA SeqConcat ==
    ASSUME NEW S, NEW s \in Seq(S), NEW t \in Seq(S)
    PROVE  /\ s \o t \in Seq(S) /\ Len(s \o t) = Len(s) + Len(t)
           /\ \A i \in 1..(Len(s) + Len(t)) : (s \o t)[i] = IF i <= Len(s) THEN s[i] ELSE t[i - Len(s)]
  OBVIOUS

LEMMA SeqSame ==
    ASSUME NEW S, NEW s \in Seq(S), NEW t \in Seq(S), Len(s) = Len(t), \A i \in 1..Len(s) : s[i] = t[i]
    PROVE  s = t
  OBVIOUS

-----------------------------------------------------------------------------
(***************************************************************************)
(* The catch-up signal (DASCatchUp), for any number of callers and of      *)
(* channels.                                                               *)
(***************************************************************************)

\* A step of checkDone: the callers stay where they are, and those that call while
\* catch-up is done are recorded.
LEMMA SignalStep ==
    ASSUME SignalInv, work \/ CheckDone \/ closeCh \/ resetFlag
    PROVE  SignalInv'
<1> USE DEF SignalInv, SignalTypeOK
<1>1. UNCHANGED <<wpc, wch>> /\ Observe
  BY DEF work, CheckDone, checkDoneBy, closeCh, resetFlag, callers
<1>2. Calling' = Calling /\ Calling \subseteq Waiters
  BY <1>1 DEF Calling
<1>3. saw \subseteq saw' /\ saw' \subseteq Waiters /\ (Done' => Calling' \subseteq saw')
  BY <1>1, <1>2 DEF Observe
<1>4. \A w \in Waiters : wpc[w] # "idle" /\ Done' => w \in saw'
  BY <1>2, <1>3 DEF Calling
<1> USE <1>1, <1>2, <1>3, <1>4 DEF FlagMatchesChannel, SignalIsTrue, NoCallerStranded, ReturnsOnlyIfDone, Done
<1>5. CASE work
  BY <1>5 DEF work, callers
<1>6. CASE checkDoneBy(casDone)
  BY <1>6 DEF checkDoneBy, casDone, callers
<1>7. CASE checkDoneBy(newCh)
  BY <1>7 DEF checkDoneBy, newCh, callers
<1>8. CASE checkDoneBy(sameAsBefore)
  BY <1>8 DEF checkDoneBy, sameAsBefore, callers
<1>9. CASE closeCh
  BY <1>9 DEF closeCh, callers
<1>10. CASE resetFlag
  BY Zenon, <1>10 DEF resetFlag, callers
<1> QED
  BY Zenon, <1>5, <1>6, <1>7, <1>8, <1>9, <1>10 DEF CheckDone

\* A step of a caller: it sees what the coordinator has left.
LEMMA WaiterStep ==
    ASSUME SignalInv, NEW w \in Waiters, call(w) \/ load(w) \/ readCh(w) \/ received(w) \/ leave(w)
    PROVE  SignalInv'
<1> USE DEF SignalInv, SignalTypeOK
<1>1. UNCHANGED coordinator /\ Done' = Done
  BY DEF call, load, readCh, received, leave, coordinator, Done
<1>2. \A v \in Waiters \ {w} : UNCHANGED <<wpc[v], wch[v]>> /\ (v \in saw' <=> v \in saw)
  BY DEF call, load, readCh, received, leave
<1> USE <1>1, <1>2 DEF FlagMatchesChannel, SignalIsTrue, NoCallerStranded, ReturnsOnlyIfDone, Calling, coordinator
<1>3. CASE call(w)
  BY <1>3 DEF call
<1>4. CASE load(w)
  BY <1>4 DEF load, Done
<1>5. CASE readCh(w)
  BY <1>5 DEF readCh, Done
<1>6. CASE received(w)
  BY <1>6 DEF received
<1>7. CASE leave(w)
  BY <1>7 DEF leave
<1> QED
  BY Zenon, <1>3, <1>4, <1>5, <1>6, <1>7

\* However checkDone and the callers of waitCatchUp interleave, the channel is closed
\* once, no caller is left on a channel that nobody closes, and a call returns without an
\* error only if catch-up was done during the call.
THEOREM CatchUpSignalIsSound == SignalSpec => []CatchUpSignalSound
<1>1. SignalInit => SignalInv
  <2> SUFFICES ASSUME SignalInit PROVE SignalInv
    OBVIOUS
  <2>1. SignalTypeOK
    BY Zenon DEF SignalInit, SignalTypeOK
  <2>2. ~Done /\ \A w \in Waiters : wpc[w] = "idle"
    BY DEF SignalInit, Done
  <2>3. FlagMatchesChannel /\ SignalIsTrue
    BY <2>2 DEF SignalInit, FlagMatchesChannel, SignalIsTrue
  <2> QED
    BY <2>1, <2>2, <2>3 DEF SignalInv, NoCallerStranded, ReturnsOnlyIfDone
<1>2. SignalInv /\ [SignalNext]_signalVars => SignalInv'
  <2> SUFFICES ASSUME SignalInv, [SignalNext]_signalVars PROVE SignalInv'
    OBVIOUS
  <2>1. CASE UNCHANGED signalVars
    BY <2>1 DEF signalVars, coordinator, callers, SignalInv, SignalTypeOK, FlagMatchesChannel, SignalIsTrue, NoCallerStranded,
       ReturnsOnlyIfDone, Done, Calling
  <2> QED
    BY <2>1, SignalStep, WaiterStep DEF SignalNext
<1>3. SignalInv => CatchUpSignalSound
  BY DEF SignalInv, FlagMatchesChannel, CatchUpSignalSound, NoDoubleClose
<1> QED
  BY <1>1, <1>2, <1>3, PTL DEF SignalSpec

-----------------------------------------------------------------------------
(***************************************************************************)
(* Time.                                                                   *)
(***************************************************************************)

\* A block that has left the window does not come back.
LEMMA WindowMovesOn ==
    ASSUME TypeOK, head' \in BlockHeights, head' >= head, NEW h \in BlockHeights, Kept(h)'
    PROVE  Kept(h)
<1>1. CASE Archival
  BY Zenon, <1>1 DEF Kept
<1>2. CASE ~Archival
  <2>1. head' - h < Window
    BY Zenon, <1>2 DEF Kept, IsWithinWindow
  <2>2. IsWithinWindow(h)
    <3>1. head \in Int /\ head' \in Int /\ h \in Int /\ Window \in Int
      BY HeightAssumption DEF TypeOK, BlockHeights
    <3>2. \A a, b, c, d \in Int : b >= a /\ b - c < d => a - c < d
      OBVIOUS
    <3> QED
      BY Zenon, <2>1, <3>1, <3>2 DEF IsWithinWindow
  <2> QED
    BY Zenon, <2>2 DEF Kept
<1> QED
  BY <1>1, <1>2

\* So what can be served, or need not be, stays so while the block is there.
LEMMA StoredStays ==
    ASSUME TypeOK, head' \in BlockHeights, head' >= head, NEW h \in BlockHeights, Stored(h), store'[h] \in {store[h], "ours"}
    PROVE  Stored(h)'
  BY WindowMovesOn DEF Stored

-----------------------------------------------------------------------------
(***************************************************************************)
(* Steps that handle no block.                                             *)
(***************************************************************************)

\* The listener is not about to publish a block that it has not looked up.
LEMMA Unhandled ==
    ASSUME IInv, TypeOK', UNCHANGED <<store, hashed, published>>, head' >= head,
           \/ UNCHANGED <<lpc, ev>>
           \/ lpc' \in {"off", "select"}
           \/ lpc' = "has" /\ ev' \in Event
    PROVE  IInv'
<1>1. \A h \in BlockHeights : (Kept(h)' => Kept(h)) /\ (Stored(h) => Stored(h)')
  BY WindowMovesOn, StoredStays DEF IInv, TypeOK
<1>2. \A e \in Event : e.height \in BlockHeights
  BY DEF Event
<1>3. HandledIsNew'
  BY <1>1, <1>2 DEF IInv, HandledIsNew
<1>4. NoForeignBlocks' /\ hashed' \subseteq BlockHeights
  BY DEF IInv, TypeOK, NoForeignBlocks
<1> QED
  BY <1>1, <1>3, <1>4 DEF IInv

\* Channels are made empty.
LEMMA NoEvents ==
    ASSUME ch' = [s \in Sources |-> <<>>]
    PROVE  ch' \in [Sources -> Seq(BlockHeights)] /\ \A s \in Sources : Len(ch'[s]) <= Capacity
<1>1. <<>> \in Seq(BlockHeights) /\ Len(<<>>) <= Capacity
  BY HeightAssumption
<1> QED
  BY <1>1

\* The consensus nodes and the streams from them.
LEMMA SourceStep ==
    ASSUME IInv, NEW s \in Sources,
           redirect(s) \/ subscribe(s) \/ streamFails(s) \/ receive(s) \/ forwardExit(s)
    PROVE  IInv'
<1>0. TypeOK
  BY DEF IInv
<1>1. UNCHANGED <<head, store, hashed, published, lpc, ev>>
  BY DEF redirect, subscribe, streamFails, receive, forwardExit, fanVars, lisVars
<1>2. TypeOK'
  <2> USE <1>0, HeightAssumption DEF TypeOK, fanVars, lisVars
  <2>2. CASE redirect(s)
    BY <2>2 DEF redirect
  <2>3. CASE subscribe(s)
    BY <2>3 DEF subscribe, BlockHeights
  <2>4. CASE streamFails(s)
    BY <2>4 DEF streamFails
  <2>5. CASE receive(s)
    <3>1. pos[s] + 1 \in BlockHeights /\ pos' \in [Sources -> 0..MaxHeight]
      BY <2>5 DEF receive, BlockHeights
    <3>2. PICK q \in Seq(BlockHeights) : q = Append(ch[s], pos[s] + 1) /\ Len(q) <= Capacity
      <4>1. ch[s] \in Seq(BlockHeights) /\ Len(ch[s]) < Capacity /\ Capacity \in Nat
        BY Zenon, <2>5 DEF receive
      <4> HIDE <1>0 DEF TypeOK
      <4> QED
        BY Zenon, <3>1, <4>1, QueueGrows
    <3>3. ch' \in [Sources -> Seq(BlockHeights)] /\ \A t \in Sources : Len(ch'[t]) <= Capacity
      BY Zenon, <2>5, <3>2, ChannelChanges DEF receive
    <3> QED
      BY Zenon, <2>5, <3>1, <3>3 DEF receive
  <2>6. CASE forwardExit(s)
    <3>1. PICK q \in Seq(BlockHeights) : q = <<>> /\ Len(q) <= Capacity
      BY Zenon, QueueEmpty
    <3>2. ch' \in [Sources -> Seq(BlockHeights)] /\ \A t \in Sources : Len(ch'[t]) <= Capacity
      BY Zenon, <2>6, <3>1, ChannelChanges DEF forwardExit
    <3>3. pos' \in [Sources -> 0..MaxHeight]
      BY <2>6 DEF forwardExit
    <3> QED
      BY Zenon, <2>6, <3>2, <3>3 DEF forwardExit
  <2> QED
    BY Zenon, <2>2, <2>3, <2>4, <2>5, <2>6
<1>3. head' >= head
  BY <1>0, <1>1 DEF TypeOK, BlockHeights
<1> QED
  BY <1>1, <1>2, <1>3, Unhandled

\* The listener starts, stops, takes an event or ends with the process.
LEMMA ListenStep ==
    ASSUME IInv, Start \/ Stop \/ exit \/ crash \/ \E s \in Sources : next(s)
    PROVE  IInv'
<1>0. TypeOK
  BY DEF IInv
<1>1. UNCHANGED <<store, hashed, published, head>>
  BY DEF Start, Stop, exit, crash, next, sourceVars
<1>2. /\ TypeOK'
      /\ UNCHANGED <<lpc, ev>> \/ lpc' \in {"off", "select"} \/ (lpc' = "has" /\ ev' \in Event)
  <2> USE <1>0, <1>1 DEF TypeOK, sourceVars, fanVars
  <2>1. CASE Start
    BY Zenon, <2>1, NoEvents DEF Start
  <2>2. CASE Stop
    BY <2>2 DEF Stop
  <2>3. CASE exit
    BY <2>3 DEF exit
  <2>4. CASE crash
    <3>1. pos' \in [Sources -> 0..MaxHeight]
      BY <2>4, HeightAssumption DEF crash
    <3> QED
      BY Zenon, <2>4, <3>1, NoEvents DEF crash
  <2>5. ASSUME NEW s \in Sources, next(s)
        PROVE  TypeOK' /\ lpc' = "has" /\ ev' \in Event
    <3>1. PICK q \in Seq(BlockHeights) : q = Tail(ch[s]) /\ Len(q) <= Capacity /\ Head(ch[s]) \in BlockHeights
      BY Zenon, <2>5, QueueShrinks, HeightAssumption DEF next
    <3>2. ch' \in [Sources -> Seq(BlockHeights)] /\ \A t \in Sources : Len(ch'[t]) <= Capacity
      BY Zenon, <2>5, <3>1, ChannelChanges DEF next
    <3>3. ev' \in Event
      BY <2>5, <3>1 DEF next, Event
    <3> QED
      BY Zenon, <2>5, <3>2, <3>3 DEF next
  <2> QED
    BY Zenon, <2>1, <2>2, <2>3, <2>4, <2>5
<1>3. head' >= head
  BY <1>0, <1>1 DEF TypeOK, BlockHeights
<1> QED
  BY <1>1, <1>2, <1>3, Unhandled

-----------------------------------------------------------------------------
(***************************************************************************)
(* Steps that handle a block.                                              *)
(***************************************************************************)

\* The listener alone moves; the types that its moves leave to it.
LEMMA GotoTypes ==
    ASSUME TypeOK, NEW where \in {"select", "fetch", "store", "hash", "header"}, Goto(where),
           ev' \in {ev, NoEvent}, foreign' \in BOOLEAN, syncing' \in BOOLEAN,
           store' \in [BlockHeights -> {"none", "ours", "other"}], hashed' \subseteq BlockHeights,
           published' \in [BlockHeights -> Nat]
    PROVE  TypeOK'
  BY Zenon DEF TypeOK, Goto, sourceVars, fanVars

\* The event is dropped, with nothing stored or announced.
LEMMA DropStep ==
    ASSUME IInv, Drop, UNCHANGED <<store, hashed, published>>
    PROVE  IInv'
<1>1. TypeOK'
  BY Zenon, GotoTypes DEF IInv, TypeOK, Drop
<1>2. lpc' = "select" /\ head' = head
  BY DEF Drop, Goto, sourceVars
<1>3. head' >= head
  BY <1>2 DEF IInv, TypeOK, BlockHeights
<1> QED
  BY <1>1, <1>2, <1>3, Unhandled

\* What the invariant says of a height depends on the head only.
LEMMA KeptSame ==
    ASSUME head' = head, NEW h
    PROVE  Kept(h)' <=> Kept(h)
  BY DEF Kept, IsWithinWindow

\* The dedup gate: a height it lets through is not stored, so it was not published
\* unless it has left the window.
LEMMA HasByHeightStep ==
    ASSUME IInv, hasByHeight
    PROVE  IInv'
<1>0. TypeOK /\ HandledIsNew /\ lpc = "has" /\ ev \in Event /\ UNCHANGED <<store, hashed, published>>
  BY DEF IInv, HandledIsNew, hasByHeight
<1>1. CASE Drop
  BY <1>0, <1>1, DropStep
<1>2. CASE store[ev.height] = "none" /\ Goto("fetch") /\ UNCHANGED <<ev, foreign, syncing>>
  <2>1. TypeOK'
    BY <1>0, <1>2, GotoTypes DEF TypeOK
  <2>2. head' = head /\ lpc' = "fetch" /\ ev.height \in BlockHeights
    BY <1>0, <1>2 DEF Goto, sourceVars, Event
  <2>3. Kept(ev.height) => published[ev.height] = 0
    BY <1>2, <2>2 DEF IInv, Stored
  <2>4. HandledIsNew'
    BY <1>0, <1>2, <2>2, <2>3, KeptSame DEF HandledIsNew
  <2> QED
    BY <1>0, <2>1, <2>2, <2>4, KeptSame DEF IInv, Stored, NoForeignBlocks, TypeOK
<1> QED
  BY Zenon, <1>1, <1>2 DEF hasByHeight

\* The block is fetched: it goes on only inside the window, so it was not published.
LEMMA FetchStep ==
    ASSUME IInv, fetch
    PROVE  IInv'
<1>0. TypeOK /\ HandledIsNew /\ lpc = "fetch" /\ ev \in Event /\ UNCHANGED <<store, hashed, published>>
  BY DEF IInv, HandledIsNew, fetch
<1>1. CASE Drop
  BY <1>0, <1>1, DropStep
<1>2. ASSUME NEW b, NEW st, Kept(ev.height), Goto("store"), foreign' = (b = "other"),
             syncing' = (st = "syncing"), UNCHANGED ev
      PROVE  IInv'
  <2>1. TypeOK'
    BY <1>0, <1>2, GotoTypes DEF TypeOK
  <2>2. head' = head /\ lpc' = "store"
    BY <1>2 DEF Goto, sourceVars
  <2>3. HandledIsNew'
    BY Zenon, <1>0, <1>2, <2>2 DEF HandledIsNew
  <2> QED
    BY <1>0, <2>1, <2>2, <2>3, KeptSame DEF IInv, Stored, NoForeignBlocks, TypeOK
<1> QED
  BY <1>1, <1>2 DEF fetch

\* The block is stored: it is served now, or was too old to be.
LEMMA StoreStep ==
    ASSUME IInv, storeEDS
    PROVE  IInv'
<1>0. TypeOK /\ HandledIsNew /\ lpc = "store" /\ ev \in Event /\ UNCHANGED <<hashed, published>>
  BY Zenon DEF IInv, HandledIsNew, storeEDS
<1>1. CASE Drop /\ UNCHANGED store
  BY <1>0, <1>1, DropStep
<1>2. CASE /\ Goto("hash") /\ UNCHANGED <<ev, foreign, syncing>>
           /\ store' = IF Kept(ev.height) THEN [store EXCEPT ![ev.height] = "ours"] ELSE store
  <2>1. ev.height \in BlockHeights /\ head' = head /\ lpc' = "hash"
    BY <1>0, <1>2 DEF Goto, sourceVars, Event
  <2>2. store' \in [BlockHeights -> {"none", "ours", "other"}]
    BY Zenon, <1>0, <1>2 DEF TypeOK
  <2>3. TypeOK'
    BY <1>0, <1>2, <2>2, GotoTypes DEF TypeOK
  <2>4. \A h \in BlockHeights : store'[h] \in {store[h], "ours"}
    BY <1>0, <1>2 DEF TypeOK
  <2>5. Stored(ev.height)'
    BY <1>0, <1>2, <2>1, KeptSame DEF TypeOK, Stored
  <2>6. \A h \in BlockHeights : Stored(h) => Stored(h)'
    BY Zenon, <2>1, <2>4, KeptSame DEF Stored
  <2>7. HandledIsNew'
    BY <1>0, <1>2, <2>1, <2>5 DEF HandledIsNew
  <2>8. NoForeignBlocks'
    BY <2>4 DEF IInv, NoForeignBlocks
  <2> QED
    BY <1>0, <2>3, <2>6, <2>7, <2>8 DEF IInv, TypeOK
<1> QED
  BY <1>1, <1>2 DEF storeEDS, FetchedBlock

\* The data hash is announced of a block that is served.
LEMMA HashStep ==
    ASSUME IInv, hashBroadcaster
    PROVE  IInv'
<1>0. TypeOK /\ HandledIsNew /\ lpc = "hash" /\ ev \in Event /\ UNCHANGED <<store, published>>
  BY Zenon DEF IInv, HandledIsNew, hashBroadcaster
<1>1. Goto("header") /\ UNCHANGED <<ev, foreign, syncing>> /\ hashed' \in {hashed, hashed \cup {ev.height}}
  BY DEF hashBroadcaster
<1>2. ev.height \in BlockHeights /\ head' = head /\ lpc' = "header" /\ Stored(ev.height)
  BY <1>0, <1>1 DEF Goto, sourceVars, Event, HandledIsNew
<1>3. TypeOK'
  BY Zenon, <1>0, <1>1, <1>2, GotoTypes DEF TypeOK
<1>4. \A h \in BlockHeights : Stored(h) => Stored(h)'
  BY <1>0, <1>2, KeptSame DEF Stored
<1>5. HandledIsNew'
  BY Zenon, <1>0, <1>1, <1>2, <1>4 DEF HandledIsNew
<1>6. \A h \in hashed' : Stored(h)'
  BY <1>0, <1>1, <1>2, <1>4 DEF IInv, TypeOK
<1> QED
  BY <1>0, <1>3, <1>4, <1>5, <1>6 DEF IInv, NoForeignBlocks

\* The header is published for the first time.
LEMMA HeaderStep ==
    ASSUME IInv, headerBroadcaster
    PROVE  IInv'
<1>0. TypeOK /\ HandledIsNew /\ lpc = "header" /\ ev \in Event /\ UNCHANGED <<store, hashed>> /\ Drop
  BY DEF IInv, HandledIsNew, headerBroadcaster
<1>1. CASE UNCHANGED published
  BY <1>0, <1>1, DropStep
<1>2. CASE published' = [published EXCEPT ![ev.height] = published[ev.height] + 1]
  <2>1. ev.height \in BlockHeights /\ head' = head /\ lpc' = "select" /\ Goto("select") /\ ev' = NoEvent
        /\ foreign' = FALSE /\ syncing' = FALSE
    BY <1>0 DEF Goto, Drop, sourceVars, Event
  <2>2. published[ev.height] = 0 /\ Stored(ev.height)
    BY Zenon, <1>0 DEF HandledIsNew
  <2>3. published' = [published EXCEPT ![ev.height] = 1]
    BY <1>2, <2>2
  <2>4. TypeOK'
    BY Zenon, <1>0, <2>1, <2>3, GotoTypes DEF TypeOK
  <2>5. \A h \in BlockHeights : Stored(h) => Stored(h)'
    BY Zenon, <1>0, <2>1, KeptSame DEF Stored
  <2>6. \A h \in BlockHeights : published'[h] # 0 => published'[h] = 1 /\ Stored(h)'
    BY <1>0, <2>1, <2>2, <2>3, <2>5 DEF IInv, TypeOK
  <2>7. HandledIsNew'
    BY Zenon, <2>1 DEF HandledIsNew
  <2> QED
    BY <1>0, <2>4, <2>5, <2>6, <2>7 DEF IInv, NoForeignBlocks, TypeOK
<1> QED
  BY <1>1, <1>2 DEF headerBroadcaster

\* The header exchange stores a block next to the listener, at any of its steps.
LEMMA ExchangeStep ==
    ASSUME IInv, NEW g \in BlockHeights, exchangeStore(g)
    PROVE  IInv'
<1>0. TypeOK /\ HandledIsNew /\ UNCHANGED <<hashed, published, lpc, ev>> /\ head' = head
  BY DEF IInv, exchangeStore, lisVars, sourceVars
<1>1. store' = [store EXCEPT ![g] = "ours"]
  BY DEF exchangeStore
<1>2. TypeOK'
  BY <1>0, <1>1 DEF exchangeStore, TypeOK, sourceVars, fanVars, lisVars
<1>3. \A h \in BlockHeights : store'[h] \in {store[h], "ours"}
  BY <1>0, <1>1 DEF TypeOK
<1>4. \A h \in BlockHeights : Stored(h) => Stored(h)'
  BY Zenon, <1>0, <1>3, KeptSame DEF Stored
<1>5. \A e \in Event : e.height \in BlockHeights
  BY DEF Event
<1>6. HandledIsNew'
  BY Zenon, <1>0, <1>4, <1>5, KeptSame DEF HandledIsNew
<1> QED
  BY Zenon, <1>0, <1>2, <1>3, <1>4, <1>6 DEF IInv, NoForeignBlocks, TypeOK

-----------------------------------------------------------------------------

\* The listener starts with nothing stored and nothing announced.
LEMMA ListenerInit ==
    ASSUME Init
    PROVE  IInv
<1>1. <<>> \in Seq(BlockHeights) /\ Len(<<>>) <= Capacity
  BY HeightAssumption
<1>2. ch \in [Sources -> Seq(BlockHeights)] /\ \A s \in Sources : Len(ch[s]) <= Capacity
  BY <1>1 DEF Init
<1>3. TypeOK
  <2>1. head \in BlockHeights /\ pos \in [Sources -> 0..MaxHeight] /\ published \in [BlockHeights -> Nat]
    BY HeightAssumption DEF Init, BlockHeights
  <2>2. ev \in Event \cup {NoEvent} /\ {foreign, syncing, ctxDone} \subseteq BOOLEAN
    BY Zenon DEF Init
  <2> QED
    BY <1>2, <2>1, <2>2 DEF Init, TypeOK
<1>4. HandledIsNew /\ NoForeignBlocks
  BY DEF Init, HandledIsNew, NoForeignBlocks
<1>5. \A h \in BlockHeights : published[h] = 0
  BY DEF Init
<1> QED
  BY <1>3, <1>4, <1>5 DEF Init, IInv

\* Every step keeps the invariant.
LEMMA ListenerInductive ==
    ASSUME IInv, [Next]_vars
    PROVE  IInv'
<1>1. CASE UNCHANGED vars
  <2>1. TypeOK' /\ UNCHANGED <<store, hashed, published, head, lpc, ev>>
    BY <1>1 DEF IInv, TypeOK, vars
  <2>2. head' >= head
    BY <2>1 DEF IInv, TypeOK, BlockHeights
  <2> QED
    BY <2>1, <2>2, Unhandled
<1>2. CASE produce
  <2>1. head' = head + 1 /\ UNCHANGED <<store, hashed, published, lpc, ev>>
    BY <1>2 DEF produce, lisVars
  <2>2. TypeOK' /\ head' >= head
    BY <1>2, <2>1, HeightAssumption DEF IInv, TypeOK, produce, BlockHeights, fanVars, lisVars
  <2> QED
    BY <2>1, <2>2, Unhandled
<1>3. CASE \E s \in Sources : redirect(s) \/ subscribe(s) \/ streamFails(s) \/ receive(s) \/ forwardExit(s)
  BY <1>3, SourceStep
<1>4. CASE Start \/ Stop \/ exit \/ crash \/ \E s \in Sources : next(s)
  BY <1>4, ListenStep
<1>5. CASE Handle
  BY <1>5, HasByHeightStep, FetchStep, StoreStep, HashStep, HeaderStep DEF Handle
<1>6. CASE \E h \in BlockHeights : exchangeStore(h)
  BY <1>6, ExchangeStep
<1> QED
  BY <1>1, <1>2, <1>3, <1>4, <1>5, <1>6 DEF Next

\* However many consensus nodes announce a height, in whatever order, however often the
\* streams break and the process restarts: the listener publishes its header at most
\* once, announces the data hash only of blocks it can serve, and stores no block of
\* another chain (handleNewBlockEvent and handleNewSignedBlock of core/listener.go).
THEOREM AnnouncementsAreSound == Spec => []AnnouncementsSound
<1>1. Init => IInv
  BY ListenerInit
<1>2. IInv /\ [Next]_vars => IInv'
  BY ListenerInductive
<1>3. IInv => AnnouncementsSound
  <2>1. ASSUME IInv, NEW h \in BlockHeights
        PROVE  published[h] <= 1
    BY <2>1 DEF IInv
  <2> QED
    BY <2>1 DEF IInv, TypeOK, AnnouncementsSound, PublishedOnce, AnnouncedIsStored, Stored
<1> QED
  BY <1>1, <1>2, <1>3, PTL DEF Spec

-----------------------------------------------------------------------------
(***************************************************************************)
(* Ranges of the header exchange (HeaderExchange).                         *)
(***************************************************************************)

\* The request's numbers are naturals.
LEMMA RequestTypes ==
    ASSUME RequestTypeOK
    PROVE  /\ from \in Nat /\ to \in Nat /\ now \in Nat /\ cutoff \in Nat /\ from >= 1 /\ from <= ChainLength
           /\ to <= ChainLength + 1 /\ time \in [ChainHeights -> Nat] /\ ChainLength \in Nat
  BY ExchangeAssumption DEF RequestTypeOK, ChainHeights

\* A range is a sequence of heights.
LEMMA RangeFacts ==
    ASSUME NEW a \in Nat, NEW b \in Nat, a <= b
    PROVE  /\ HeaderRange(a, b) \in Seq(Nat) /\ Len(HeaderRange(a, b)) = b - a
           /\ \A i \in 1..(b - a) : HeaderRange(a, b)[i] = a + i
<1>1. b - a \in Nat
  OBVIOUS
<1>2. \A i \in 1..(b - a) : a + i \in Nat
  OBVIOUS
<1> QED
  BY <1>1, <1>2 DEF HeaderRange

LEMMA EmptyRange ==
    ASSUME NEW a \in Nat
    PROVE  HeaderRange(a, a) = <<>>
<1>1. HeaderRange(a, a) \in Seq(Nat) /\ Len(HeaderRange(a, a)) = 0
  BY RangeFacts
<1> QED
  BY <1>1

\* The quotient of calculateCutoffHeight times the block time is not more than the time.
LEMMA DivBelow ==
    ASSUME NEW x \in Nat, NEW b \in Nat \ {0}
    PROVE  x \div b \in Nat /\ (x \div b) * b <= x
  OBVIOUS

LEMMA MulMonotone ==
    ASSUME NEW m \in Nat, NEW n \in Nat, NEW b \in Nat, m <= n
    PROVE  m * b <= n * b
  OBVIOUS

\* Two ranges that meet are one.
LEMMA RangeJoin ==
    ASSUME NEW a \in Nat, NEW b \in Nat, NEW c \in Nat, a <= b, b <= c
    PROVE  HeaderRange(a, b) \o HeaderRange(b, c) = HeaderRange(a, c)
<1> DEFINE s == HeaderRange(a, b)
           t == HeaderRange(b, c)
           u == HeaderRange(a, c)
<1>1. s \in Seq(Nat) /\ Len(s) = b - a /\ \A i \in 1..(b - a) : s[i] = a + i
  BY RangeFacts
<1>2. t \in Seq(Nat) /\ Len(t) = c - b /\ \A i \in 1..(c - b) : t[i] = b + i
  BY RangeFacts
<1>3. a <= c
  OBVIOUS
<1>4. u \in Seq(Nat) /\ Len(u) = c - a /\ \A i \in 1..(c - a) : u[i] = a + i
  BY <1>3, RangeFacts
<1> HIDE DEF s, t, u
<1>5. /\ s \o t \in Seq(Nat) /\ Len(s \o t) = Len(s) + Len(t)
      /\ \A i \in 1..(Len(s) + Len(t)) : (s \o t)[i] = IF i <= Len(s) THEN s[i] ELSE t[i - Len(s)]
  BY <1>1, <1>2, SeqConcat, Zenon
<1>6. Len(s \o t) = Len(u)
  BY <1>1, <1>2, <1>4, <1>5
<1>7. ASSUME NEW i \in 1..Len(s \o t) PROVE (s \o t)[i] = u[i]
  <2>1. i \in 1..(c - a) /\ i \in 1..(Len(s) + Len(t))
    BY <1>1, <1>2, <1>5
  <2>2. CASE i <= Len(s)
    <3>1. i \in 1..(b - a)
      BY <1>1, <2>1, <2>2
    <3> QED
      BY <1>1, <1>4, <1>5, <2>1, <2>2, <3>1, Zenon
  <2>3. CASE ~(i <= Len(s))
    <3>1. i - Len(s) \in 1..(c - b) /\ b + (i - Len(s)) = a + i
      BY <1>1, <2>1, <2>3
    <3>2. t[i - Len(s)] = b + (i - Len(s))
      BY <1>2, <3>1, Zenon
    <3>3. (s \o t)[i] = t[i - Len(s)]
      BY <1>5, <2>1, <2>3, Zenon
    <3>4. u[i] = a + i
      BY <1>4, <2>1, Zenon
    <3> QED
      BY <3>1, <3>2, <3>3, <3>4, Zenon
  <2> QED
    BY <2>2, <2>3
<1>8. s \o t = u
  BY <1>4, <1>5, <1>6, <1>7, SeqSame, Zenon
<1> QED
  BY <1>8 DEF s, t, u

\* A request that is over stays as it is.
LEMMA ExchangeStutter ==
    ASSUME ExchangeInv, UNCHANGED exchangeVars
    PROVE  ExchangeInv'
  BY Zenon DEF ExchangeInv, exchangeVars, ExchangeTypeOK, RequestTypeOK, JobsSound, SplitSound, OldIsOut, Contiguous, Complete,
         WindowHasBlocks, HasBlock, Misjudged, Slow, InWindow, Returned

\* While nothing is returned, what is returned is in order.
LEMMA NotReturned ==
    ASSUME pc # "done"
    PROVE  Contiguous /\ Complete /\ WindowHasBlocks
  BY DEF Contiguous, Complete, WindowHasBlocks, Returned

\* Time passes.
LEMMA TickStep ==
    ASSUME ExchangeInv, tick
    PROVE  ExchangeInv'
<1>1. pc # "done" /\ pc' = pc /\ now' = now + 1 /\ UNCHANGED <<cutoff, lo, headers, jobs, stored, faults, err, time, kind, from, to>>
  BY DEF tick, request
<1>2. ExchangeTypeOK /\ RequestTypeOK /\ JobsSound
  BY DEF ExchangeInv
<1>3. ExchangeTypeOK' /\ RequestTypeOK'
  BY <1>1, <1>2 DEF ExchangeTypeOK, RequestTypeOK
<1>4. \A h \in ChainHeights : time[h] \in Nat
  BY <1>2, ExchangeAssumption DEF RequestTypeOK
<1>5. AvailabilityWindow \in Nat /\ now \in Nat
  BY <1>2, ExchangeAssumption DEF RequestTypeOK
<1>6. JobsSound'
  <2>1. \A h \in ChainHeights : time[h] + AvailabilityWindow >= now + 1 => time[h] + AvailabilityWindow >= now
    BY <1>4, <1>5
  <2> QED
    BY <1>1, <1>2, <2>1, Zenon DEF JobsSound, InWindow
<1>7. OldIsOut => OldIsOut'
  <2>1. \A h \in ChainHeights : time[h] + AvailabilityWindow <= now => time[h] + AvailabilityWindow <= now + 1
    BY <1>4, <1>5
  <2> QED
    BY <1>1, <2>1, Zenon DEF OldIsOut, Slow
<1>8. SplitSound => SplitSound'
  BY <1>1, <1>7, Zenon DEF SplitSound
<1>9. pc' # "done"
  BY <1>1
<1>10. (Contiguous /\ Complete /\ WindowHasBlocks)'
  BY <1>9, Zenon DEF Contiguous, Complete, WindowHasBlocks, Returned
<1> QED
  BY <1>1, <1>3, <1>6, <1>8, <1>10, Zenon DEF ExchangeInv

\* Headers that come from the network are of heights outside the window, or are misjudged.
HeadersAreOld == \A i \in 1..Len(headers) : InWindow(headers[i]) => Misjudged(headers[i])

LEMMA OldHaveLeft ==
    ExchangeTypeOK /\ RequestTypeOK /\ SplitSound => HeadersAreOld
<1> SUFFICES ASSUME ExchangeTypeOK, RequestTypeOK, SplitSound, NEW i \in 1..Len(headers)
             PROVE  InWindow(headers[i]) => Misjudged(headers[i])
  BY DEF HeadersAreOld
<1>1. from \in Nat /\ lo \in Nat /\ from >= 1 /\ lo <= ChainLength /\ ChainLength \in Nat /\ cutoff \in Nat
  BY RequestTypes DEF ExchangeTypeOK
<1>2. Len(headers) = lo - from /\ \A j \in 1..(lo - from) : headers[j] = from + j
  BY Zenon, <1>1, RangeFacts DEF SplitSound
<1>3. headers[i] = from + i /\ i \in 1..(lo - from)
  BY <1>2
<1>4. from + i \in ChainHeights /\ from <= from + i /\ from + i <= cutoff
  BY <1>1, <1>3 DEF SplitSound, ChainHeights
<1>5. Slow(from + i) \/ time[from + i] + AvailabilityWindow <= now
  BY <1>4, Zenon DEF SplitSound, OldIsOut, Slow
<1>6. time[from + i] \in Nat /\ now \in Nat /\ AvailabilityWindow \in Nat
  BY <1>4, RequestTypes, ExchangeAssumption
<1>7. InWindow(from + i) => Misjudged(from + i)
  BY <1>4, <1>5, <1>6 DEF InWindow, Misjudged
<1> QED
  BY <1>3, <1>7, Zenon

\* The part of the network is there, or the request has failed.
LEMMA P2PStep ==
    ASSUME ExchangeInv, getFromP2P
    PROVE  ExchangeInv'
<1>1. pc = "p2p" /\ UNCHANGED <<now, cutoff, jobs, stored, time, kind, from, to>>
  BY DEF getFromP2P, request
<1>2. ExchangeTypeOK /\ RequestTypeOK /\ JobsSound /\ SplitSound /\ kind = "range"
  BY <1>1, Zenon DEF ExchangeInv
<1>3. /\ from \in Nat /\ to \in Nat /\ cutoff \in Nat /\ ChainLength \in Nat /\ from >= 1 /\ to <= ChainLength + 1
      /\ from < to /\ lo \in 0..ChainLength
  BY <1>2, RequestTypes DEF SplitSound, ExchangeTypeOK
<1>4. RequestTypeOK' /\ OldIsOut'
  BY <1>1, <1>2, Zenon DEF RequestTypeOK, SplitSound, OldIsOut, Slow
<1>5. CASE Return(<<>>, TRUE) /\ faults' = TRUE /\ UNCHANGED lo
  <2>1. pc' = "done" /\ err' = TRUE
    BY <1>5, Zenon DEF Return
  <2>2. ExchangeTypeOK' /\ JobsSound'
    BY <1>1, <1>2, <1>5, <2>1 DEF ExchangeTypeOK, JobsSound, InWindow
  <2>3. (Contiguous /\ Complete /\ WindowHasBlocks)'
    BY <2>1, Zenon DEF Contiguous, Complete, WindowHasBlocks, Returned
  <2> QED
    BY <1>1, <1>4, <2>1, <2>2, <2>3 DEF ExchangeInv
<1>6. ASSUME NEW k \in from..(p2pEnd - 1), faults' = (faults \/ k < p2pEnd - 1), headers' = HeaderRange(from, k), lo' = k,
             pc' = (IF to <= cutoff + 1 THEN "done" ELSE "core"), UNCHANGED err
      PROVE  ExchangeInv'
  <2>1. k \in Nat /\ from <= k /\ k < to /\ k <= cutoff
    BY <1>3 DEF p2pEnd
  <2>2. pc' \in {"core", "done"} /\ faults' \in BOOLEAN /\ (faults => faults')
    BY <1>2, <1>6 DEF ExchangeTypeOK
  <2>3. ExchangeTypeOK'
    BY <1>1, <1>2, <1>3, <1>6, <2>1, <2>2 DEF ExchangeTypeOK
  <2>4. JobsSound'
    BY <1>1, <1>2, <2>2, Zenon DEF JobsSound, InWindow
  <2>5. SplitSound'
    BY <1>1, <1>4, <1>6, <2>1 DEF SplitSound
  <2>6. headers' \in Seq(Nat) /\ Len(headers') = k - from
    BY Zenon, <1>3, <1>6, <2>1, RangeFacts
  <2>7. Contiguous'
    <3>1. from + (k - from) = k
      BY <1>3, <2>1
    <3> QED
      BY <1>1, <1>6, <2>1, <2>6, <3>1 DEF Contiguous
  <2>8. Complete'
    <3>1. ASSUME pc' = "done", ~faults' PROVE k - from = to - from - 1
      <4>1. ~(k < p2pEnd - 1)
        BY <1>6, <3>1, Zenon
      <4>2. to <= cutoff + 1
        BY <1>6, <3>1
      <4> QED
        BY <1>3, <2>1, <4>1, <4>2 DEF p2pEnd
    <3> QED
      BY <1>1, <2>6, <3>1, Zenon DEF Complete, Returned
  <2>9. WindowHasBlocks'
    <3>1. ExchangeTypeOK' /\ RequestTypeOK' /\ SplitSound'
      BY <1>4, <2>3, <2>5
    <3>2. HeadersAreOld'
      BY <3>1, OldHaveLeft, PTL
    <3> QED
      BY <3>2, Zenon DEF HeadersAreOld, WindowHasBlocks
  <2> QED
    BY <1>1, <1>2, <1>4, <2>2, <2>3, <2>4, <2>5, <2>7, <2>8, <2>9 DEF ExchangeInv
<1> QED
  BY Zenon, <1>5, <1>6 DEF getFromP2P

\* Core is asked for some heights.
LEMMA EnqueueJobs ==
    ASSUME ExchangeTypeOK, JobsSound, NEW H, Enqueue(H), pc \in {"start", "core"}
    PROVE  /\ pc' = IF H = {} THEN "done" ELSE "fetch"
           /\ jobs' \in [ChainHeights -> {"none", "wait", "run", "block", "header", "err"}]
           /\ \A h \in ChainHeights : jobs'[h] \in {"none", "wait"} /\ (jobs'[h] # "none" <=> h \in H)
<1>1. jobs' = [h \in ChainHeights |-> IF h \in H THEN "wait" ELSE "none"] /\ pc' = IF H = {} THEN "done" ELSE "fetch"
  BY Zenon DEF Enqueue
<1>2. \A h \in ChainHeights : jobs'[h] \in {"none", "wait"} /\ (jobs'[h] # "none" <=> h \in H)
  BY <1>1
<1>3. jobs' \in [ChainHeights -> {"none", "wait", "run", "block", "header", "err"}]
  BY <1>1
<1> QED
  BY <1>1, <1>2, <1>3

\* One header.
LEMMA OneStep ==
    ASSUME ExchangeInv, getOne
    PROVE  ExchangeInv'
<1>1. /\ pc = "start" /\ kind = "one" /\ Enqueue({to})
      /\ UNCHANGED <<now, cutoff, lo, headers, stored, faults, err, time, kind, from, to>>
  BY DEF getOne, request
<1>2. ExchangeTypeOK /\ RequestTypeOK /\ JobsSound
  BY DEF ExchangeInv
<1>3. /\ pc' = "fetch"
      /\ jobs' \in [ChainHeights -> {"none", "wait", "run", "block", "header", "err"}]
      /\ \A h \in ChainHeights : jobs'[h] \in {"none", "wait"} /\ (jobs'[h] # "none" <=> h = to)
  BY <1>1, <1>2, EnqueueJobs
<1>4. ExchangeTypeOK'
  BY <1>1, <1>2, <1>3 DEF ExchangeTypeOK
<1>5. RequestTypeOK'
  BY <1>1, <1>2, Zenon DEF RequestTypeOK
<1>6. JobsSound'
  BY <1>1, <1>2, <1>3 DEF JobsSound, InWindow
<1>7. (Contiguous /\ Complete /\ WindowHasBlocks)'
  BY Zenon, <1>3 DEF Contiguous, Complete, WindowHasBlocks, Returned
<1> QED
  BY <1>1, <1>3, <1>4, <1>5, <1>6, <1>7 DEF ExchangeInv

\* The rest of a range.
LEMMA CoreStep ==
    ASSUME ExchangeInv, getFromCore
    PROVE  ExchangeInv'
<1> DEFINE H == (lo + 1)..(to - 1)
<1>1. /\ pc = "core" /\ Enqueue(H)
      /\ UNCHANGED <<now, cutoff, lo, headers, stored, faults, err, time, kind, from, to>>
  BY DEF getFromCore, request
<1>2. ExchangeTypeOK /\ RequestTypeOK /\ JobsSound /\ SplitSound /\ kind = "range"
  BY <1>1, Zenon DEF ExchangeInv
<1>3. /\ pc' = IF H = {} THEN "done" ELSE "fetch"
      /\ jobs' \in [ChainHeights -> {"none", "wait", "run", "block", "header", "err"}]
      /\ \A h \in ChainHeights : jobs'[h] \in {"none", "wait"} /\ (jobs'[h] # "none" <=> h \in H)
  <2> HIDE DEF H
  <2> QED
    BY <1>1, <1>2, EnqueueJobs
<1>4. /\ from \in Nat /\ to \in Nat /\ lo \in Nat /\ from <= lo /\ lo < to /\ headers = HeaderRange(from, lo)
      /\ ChainLength \in Nat
  BY <1>2, RequestTypes DEF SplitSound, ExchangeTypeOK
<1>5. \A h \in ChainHeights : h \in H <=> lo < h /\ h < to
  BY <1>4 DEF ChainHeights
<1>6. pc' = "done" => lo = to - 1
  BY <1>3, <1>4
<1> HIDE DEF H
<1>7. ExchangeTypeOK'
  BY <1>1, <1>2, <1>3 DEF ExchangeTypeOK
<1>8. RequestTypeOK' /\ SplitSound'
  BY <1>1, <1>2, Zenon DEF RequestTypeOK, SplitSound, OldIsOut, Slow
<1>9. JobsSound'
  BY <1>1, <1>2, <1>3, <1>5 DEF JobsSound, InWindow
<1>10. headers' = headers /\ Len(headers) = lo - from /\ from + (lo - from) = lo
  <2>1. Len(HeaderRange(from, lo)) = lo - from
    BY <1>4, RangeFacts, Zenon
  <2>2. from + (lo - from) = lo
    BY <1>4
  <2> QED
    BY <1>1, <1>4, <2>1, <2>2, Zenon
<1>11. Contiguous'
  BY <1>1, <1>4, <1>10, Zenon DEF Contiguous
<1>12. Complete'
  <2>1. pc' = "done" => lo - from = to - from - 1
    BY <1>4, <1>6
  <2> QED
    BY <1>1, <1>10, <2>1, Zenon DEF Complete, Returned
<1>13. WindowHasBlocks'
  <2>1. ExchangeTypeOK' /\ RequestTypeOK' /\ SplitSound'
    BY <1>7, <1>8
  <2>2. HeadersAreOld'
    BY <2>1, OldHaveLeft, PTL
  <2> QED
    BY <2>2, Zenon DEF HeadersAreOld, WindowHasBlocks
<1>14. pc' \in {"fetch", "done"}
  BY <1>3
<1> QED
  BY <1>7, <1>8, <1>9, <1>11, <1>12, <1>13, <1>14 DEF ExchangeInv

\* A fetch begins.
LEMMA StartJobStep ==
    ASSUME ExchangeInv, NEW h \in ChainHeights, startJob(h)
    PROVE  ExchangeInv'
<1>1. /\ pc = "fetch" /\ jobs[h] = "wait" /\ jobs' = [jobs EXCEPT ![h] = "run"]
      /\ UNCHANGED <<now, pc, cutoff, lo, headers, stored, faults, err, time, kind, from, to>>
  BY DEF startJob, Job, request
<1>2. ExchangeTypeOK /\ RequestTypeOK /\ JobsSound
  BY DEF ExchangeInv
<1>3. \A i \in ChainHeights : jobs'[i] = IF i = h THEN "run" ELSE jobs[i]
  BY <1>1, <1>2 DEF ExchangeTypeOK
<1>4. ExchangeTypeOK'
  <2>1. jobs' \in [ChainHeights -> {"none", "wait", "run", "block", "header", "err"}]
    BY <1>1, <1>2 DEF ExchangeTypeOK
  <2> QED
    BY <1>1, <1>2, <2>1, Zenon DEF ExchangeTypeOK
<1>5. RequestTypeOK' /\ (SplitSound => SplitSound')
  BY <1>1, <1>2, Zenon DEF RequestTypeOK, SplitSound, OldIsOut, Slow
<1>6. JobsSound'
  <2>1. \A i \in ChainHeights : /\ jobs'[i] # "none" <=> jobs[i] # "none"
                               /\ jobs'[i] \in {"err", "block"} => jobs'[i] = jobs[i]
    BY <1>1, <1>3
  <2> QED
    BY <1>1, <1>2, <2>1 DEF JobsSound, InWindow
<1>7. (Contiguous /\ Complete /\ WindowHasBlocks)'
  BY Zenon, <1>1 DEF Contiguous, Complete, WindowHasBlocks, Returned
<1> QED
  BY <1>1, <1>4, <1>5, <1>6, <1>7 DEF ExchangeInv

\* A fetch ends.
LEMMA FetchBlockStep ==
    ASSUME ExchangeInv, NEW h \in ChainHeights, fetchBlock(h)
    PROVE  ExchangeInv'
<1>1. /\ pc = "fetch" /\ jobs[h] = "run"
      /\ UNCHANGED <<now, pc, cutoff, lo, headers, err, time, kind, from, to>>
  BY DEF fetchBlock, request
<1>2. ExchangeTypeOK /\ RequestTypeOK /\ JobsSound
  BY DEF ExchangeInv
<1>3. PICK s \in {"block", "header", "err"} :
         /\ jobs' = [jobs EXCEPT ![h] = s]
         /\ s = "err" => faults'
         /\ s = "block" /\ InWindow(h) => h \in stored'
         /\ faults' \in BOOLEAN /\ (faults => faults') /\ stored \subseteq stored' /\ stored' \subseteq ChainHeights
  <2>1. faults \in BOOLEAN /\ stored \subseteq ChainHeights
    BY <1>2 DEF ExchangeTypeOK
  <2>2. CASE Job(h, "block") /\ stored' = (IF InWindow(h) THEN stored \cup {h} ELSE stored) /\ UNCHANGED faults
    BY <2>1, <2>2 DEF Job
  <2>3. CASE Job(h, "header") /\ UNCHANGED <<stored, faults>>
    BY <2>1, <2>3 DEF Job
  <2>4. CASE Job(h, "err") /\ faults' = TRUE /\ UNCHANGED stored
    BY <2>1, <2>4 DEF Job
  <2> QED
    BY <2>2, <2>3, <2>4, Zenon DEF fetchBlock
<1>4. \A i \in ChainHeights : jobs'[i] = IF i = h THEN s ELSE jobs[i]
  BY <1>2, <1>3 DEF ExchangeTypeOK
<1>5. ExchangeTypeOK'
  <2>1. jobs' \in [ChainHeights -> {"none", "wait", "run", "block", "header", "err"}]
    BY <1>2, <1>3 DEF ExchangeTypeOK
  <2>2. {faults', err'} \subseteq BOOLEAN
    BY <1>1, <1>2, <1>3 DEF ExchangeTypeOK
  <2> QED
    BY <1>1, <1>2, <1>3, <2>1, <2>2, Zenon DEF ExchangeTypeOK
<1>6. RequestTypeOK' /\ (SplitSound => SplitSound')
  BY <1>1, <1>2, Zenon DEF RequestTypeOK, SplitSound, OldIsOut, Slow
<1>7. JobsSound'
  <2>1. \A i \in ChainHeights : jobs'[i] # "none" <=> jobs[i] # "none"
    BY <1>1, <1>4
  <2>2. \A i \in ChainHeights : jobs'[i] = "err" => faults'
    BY <1>2, <1>3, <1>4, Zenon DEF JobsSound, InWindow
  <2>3. \A i \in ChainHeights : jobs'[i] = "block" /\ InWindow(i) => i \in stored'
    BY <1>2, <1>3, <1>4, Zenon DEF JobsSound, InWindow
  <2> QED
    BY <1>1, <1>2, <2>1, <2>2, <2>3 DEF JobsSound, InWindow
<1>8. (Contiguous /\ Complete /\ WindowHasBlocks)'
  BY Zenon, <1>1 DEF Contiguous, Complete, WindowHasBlocks, Returned
<1> QED
  BY <1>1, <1>5, <1>6, <1>7, <1>8 DEF ExchangeInv

\* A height that was fetched from core, and is inside the window, is stored.
LEMMA FetchedIsStored ==
    ASSUME JobsSound, NEW h \in Fetched, InWindow(h)
    PROVE  HasBlock(h)
  BY DEF JobsSound, Fetched, HasBlock

\* Before a request nothing is under way.
LEMMA ExchangeStarts ==
    ExchangeInit => ExchangeInv
<1> SUFFICES ASSUME ExchangeInit PROVE ExchangeInv
  OBVIOUS
<1>1. ExchangeTypeOK
  <2>1. 0 \in 0..ChainLength
    BY ExchangeAssumption
  <2>2. jobs \in [ChainHeights -> {"none", "wait", "run", "block", "header", "err"}]
    BY DEF ExchangeInit
  <2>3. lo = 0 /\ pc = "start" /\ stored = {} /\ faults = FALSE /\ err = FALSE
    BY Zenon DEF ExchangeInit
  <2> QED
    BY <2>1, <2>2, <2>3, Zenon DEF ExchangeTypeOK
<1>2. RequestTypeOK
  <2>1. time \in BlockTimes /\ time \in [ChainHeights -> Nat] /\ ChainLength \in ChainHeights
    BY ExchangeAssumption DEF ExchangeInit, ChainHeights
  <2>2. to \in 1..(ChainLength + 1)
    BY ExchangeAssumption DEF ExchangeInit, ChainHeights
  <2> QED
    BY <2>1, <2>2 DEF ExchangeInit, RequestTypeOK
<1>3. JobsSound /\ pc = "start" /\ headers = <<>>
  BY DEF ExchangeInit, JobsSound, InWindow
<1>4. Contiguous /\ Complete /\ WindowHasBlocks
  BY <1>3 DEF Contiguous, Complete, WindowHasBlocks, Returned
<1> QED
  BY <1>1, <1>2, <1>3, <1>4 DEF ExchangeInv

-----------------------------------------------------------------------------
(***************************************************************************)
(* Where a range is split, and where it ends.                              *)
(***************************************************************************)

LOCAL INSTANCE WellFoundedInduction

\* A nonempty set of naturals has a least element.
LEMMA LeastNat ==
    ASSUME NEW S, S \subseteq Nat, S # {}
    PROVE  \E x \in S : \A y \in S : x <= y
<1>1. PICK x \in S : \A y \in S : ~ (<<y, x>> \in OpToRel(<, Nat))
  BY Zenon, NatLessThanWellFounded, WFMin
<1>2. \A y \in S : x <= y
  <2> SUFFICES ASSUME NEW y \in S, y < x PROVE FALSE
    OBVIOUS
  <2>1. <<y, x>> \in {p \in Nat \X Nat : p[1] < p[2]}
    OBVIOUS
  <2>2. OpToRel(<, Nat) = {p \in Nat \X Nat : p[1] < p[2]}
    BY DEF OpToRel
  <2> QED
    BY Zenon, <1>1, <2>1, <2>2
<1> QED
  BY <1>2

\* A nonempty set of naturals with a bound has a greatest element.
LEMMA GreatestNat ==
    ASSUME NEW b \in Nat, NEW S, S \subseteq 0..b, S # {}
    PROVE  \E x \in S : \A y \in S : y <= x
<1> DEFINE D == {d \in Nat : b - d \in S}
<1>1. \A y \in S : b - y \in D
  OBVIOUS
<1>2. PICK d \in D : \A e \in D : d <= e
  <2>1. D \subseteq Nat /\ D # {}
    BY Zenon, <1>1
  <2> HIDE DEF D
  <2> QED
    BY Zenon, <2>1, LeastNat
<1>3. b - d \in S /\ d \in Nat
  OBVIOUS
<1>4. \A y \in S : d <= b - y
  BY Zenon, <1>1, <1>2
<1>5. \A y \in S : y <= b - d
  BY <1>3, <1>4
<1> QED
  BY <1>3, <1>5

\* What is below the cutoff has left the window, or came slowly.
LEMMA CutoffIsOut ==
    ASSUME RequestTypeOK, NEW h \in ChainHeights, from <= h, h <= calculateCutoffHeight
    PROVE  Slow(h) \/ time[h] + AvailabilityWindow <= now
<1>1. /\ from \in Nat /\ from >= 1 /\ now \in Nat /\ time \in [ChainHeights -> Nat] /\ BlockTime \in Nat \ {0}
      /\ AvailabilityWindow \in Nat /\ h \in Nat /\ time[from] \in Nat /\ time[h] \in Nat /\ from \in ChainHeights
      /\ time \in BlockTimes
  BY ExchangeAssumption DEF RequestTypeOK, ChainHeights
<1>2. CASE time[from] + AvailabilityWindow >= now
  BY <1>1, <1>2 DEF calculateCutoffHeight
<1>3. CASE ~(time[from] + AvailabilityWindow >= now)
  <2> SUFFICES ASSUME ~Slow(h) PROVE time[h] + AvailabilityWindow <= now
    OBVIOUS
  <2> DEFINE x == now - (time[from] + AvailabilityWindow)
             q == x \div BlockTime
  <2>1. x \in Nat
    BY <1>1, <1>3
  <2>2. q \in Nat /\ q * BlockTime <= x
    <3> HIDE DEF x
    <3> QED
      BY <1>1, <2>1, DivBelow
  <2>3. calculateCutoffHeight = from + q
    BY <1>3, Zenon DEF calculateCutoffHeight
  <2> HIDE DEF q
  <2>4. h - from \in Nat /\ h - from <= q
    BY <1>1, <2>2, <2>3
  <2>5. (h - from) * BlockTime <= q * BlockTime
    BY <1>1, <2>2, <2>4, MulMonotone
  <2>6. (h - from) * BlockTime \in Nat /\ q * BlockTime \in Nat
    BY <1>1, <2>2, <2>4
  <2>7. time[h] <= time[from] + (h - from) * BlockTime
    BY <1>1, <2>6 DEF Slow
  <2> DEFINE m == (h - from) * BlockTime
             k == q * BlockTime
  <2>8. m \in Nat /\ k \in Nat /\ m <= k /\ k <= x /\ time[h] <= time[from] + m
    BY <2>2, <2>5, <2>6, <2>7
  <2> HIDE DEF m, k
  <2> QED
    BY <1>1, <2>8
<1> QED
  BY <1>2, <1>3

-----------------------------------------------------------------------------
\* The prefix of what core has fetched: a range that ends before the first failure, and all
\* there is if there is none.
LEMMA PrefixFacts ==
    ASSUME lo \in Nat, to \in Nat, lo < to
    PROVE  \E k \in lo..(to - 1) : /\ prefix = HeaderRange(lo, k)
                                   /\ \A h \in (lo + 1)..k : h \in Fetched
                                   /\ (lo + 1)..(to - 1) \subseteq Fetched => k = to - 1
<1> DEFINE ends == {k \in lo..(to - 1) : (lo + 1)..k \subseteq Fetched}
           k == CHOOSE i \in ends : \A e \in ends : e <= i
<1>1. lo \in ends /\ ends \subseteq 0..to /\ ends \subseteq lo..(to - 1)
  OBVIOUS
<1>2. \E i \in ends : \A e \in ends : e <= i
  <2> HIDE DEF ends
  <2>1. ends # {}
    BY <1>1
  <2> QED
    BY <1>1, <2>1, GreatestNat, Zenon
<1>3. k \in ends /\ \A e \in ends : e <= k
  <2> HIDE DEF ends
  <2> QED
    BY <1>2, Zenon
<1>4. prefix = HeaderRange(lo, k)
  BY Zenon DEF prefix
<1> HIDE DEF k
<1>5. (lo + 1)..(to - 1) \subseteq Fetched => to - 1 \in ends
  OBVIOUS
<1>6. (lo + 1)..k \subseteq Fetched /\ k \in lo..(to - 1)
  BY <1>3
<1>7. (lo + 1)..(to - 1) \subseteq Fetched => k = to - 1
  <2> HIDE DEF ends
  <2> QED
    BY <1>3, <1>5, <1>6
<1> QED
  BY <1>4, <1>6, <1>7

\* A range is refused, or split.
LEMMA RouteStep ==
    ASSUME ExchangeInv, route
    PROVE  ExchangeInv'
<1>1. /\ pc = "start" /\ kind = "range" /\ lo' = from /\ cutoff' = calculateCutoffHeight /\ headers = <<>>
      /\ UNCHANGED <<now, jobs, stored, faults, time, kind, from, to>>
  BY DEF route, request, ExchangeInv
<1>2. ExchangeTypeOK /\ RequestTypeOK /\ JobsSound
  BY DEF ExchangeInv
<1>3. calculateCutoffHeight \in Nat
  <2>1. /\ from \in Nat /\ now \in Nat /\ time[from] \in Nat /\ BlockTime \in Nat \ {0} /\ AvailabilityWindow \in Nat
    BY <1>2, ExchangeAssumption DEF RequestTypeOK, ChainHeights
  <2>2. CASE time[from] + AvailabilityWindow >= now
    BY <2>2 DEF calculateCutoffHeight
  <2>3. CASE ~(time[from] + AvailabilityWindow >= now)
    <3> DEFINE x == now - (time[from] + AvailabilityWindow)
    <3>1. x \in Nat
      BY <2>1, <2>3
    <3>2. calculateCutoffHeight = from + x \div BlockTime
      BY <2>3, Zenon DEF calculateCutoffHeight
    <3> HIDE DEF x
    <3>3. x \div BlockTime \in Nat
      BY <2>1, <3>1, DivBelow
    <3> QED
      BY <2>1, <3>2, <3>3
  <2> QED
    BY <2>2, <2>3
<1>4. /\ pc' \in {"p2p", "core", "done"} /\ err' \in BOOLEAN /\ headers' = <<>>
      /\ pc' = "done" => err'
      /\ pc' # "done" => from < to
  <2>1. err \in BOOLEAN
    BY <1>2 DEF ExchangeTypeOK
  <2> QED
    BY Zenon, <1>1, <2>1 DEF route, Return
<1>5. ExchangeTypeOK'
  <2>1. from \in 0..ChainLength
    BY <1>2, RequestTypes
  <2> QED
    BY <1>1, <1>2, <1>4, <2>1 DEF ExchangeTypeOK
<1>6. RequestTypeOK'
  BY <1>1, <1>2, <1>3 DEF RequestTypeOK
<1>7. JobsSound'
  BY Zenon, <1>1, <1>2, <1>4 DEF JobsSound, InWindow
<1>8. OldIsOut'
  <2>1. \A h \in ChainHeights : from <= h /\ h <= calculateCutoffHeight => Slow(h) \/ time[h] + AvailabilityWindow <= now
    BY <1>2, CutoffIsOut, Zenon
  <2> QED
    BY <1>1, <2>1, Zenon DEF OldIsOut, Slow
<1>9. pc' # "done" => SplitSound'
  <2>1. HeaderRange(from, from) = <<>> /\ from <= from
    BY <1>2, EmptyRange, RequestTypes
  <2> QED
    BY <1>1, <1>4, <1>8, <2>1, Zenon DEF SplitSound
<1>10. (Contiguous /\ Complete /\ WindowHasBlocks)'
  BY <1>4, Zenon DEF Contiguous, Complete, WindowHasBlocks, Returned
<1> QED
  BY <1>1, <1>4, <1>5, <1>6, <1>7, <1>9, <1>10, Zenon DEF ExchangeInv

\* The part of core is put behind the part of the network.
LEMMA CollectRange ==
    ASSUME ExchangeTypeOK, RequestTypeOK, JobsSound, SplitSound, pc = "fetch", kind = "range",
           \A h \in ChainHeights : jobs[h] \notin {"wait", "run"}
    PROVE  \E k \in lo..(to - 1) :
             /\ headers \o prefix = HeaderRange(from, k) /\ Len(headers \o prefix) = k - from
             /\ ~faults => k = to - 1
             /\ \A i \in 1..(k - from) : /\ (headers \o prefix)[i] = from + i
                                         /\ (InWindow(from + i) => Misjudged(from + i)) \/ from + i \in Fetched
<1>1. /\ from \in Nat /\ to \in Nat /\ lo \in Nat /\ from <= lo /\ lo < to /\ headers = HeaderRange(from, lo)
      /\ ChainLength \in Nat /\ to <= ChainLength + 1 /\ from >= 1
  BY RequestTypes DEF SplitSound, ExchangeTypeOK
<1>2. PICK k \in lo..(to - 1) : /\ prefix = HeaderRange(lo, k)
                                /\ \A h \in (lo + 1)..k : h \in Fetched
                                /\ (lo + 1)..(to - 1) \subseteq Fetched => k = to - 1
  BY <1>1, PrefixFacts, Zenon
<1>3. k \in Nat /\ lo <= k /\ k < to /\ from <= k
  BY <1>1
<1>4. headers \o prefix = HeaderRange(from, k)
  BY <1>1, <1>2, <1>3, RangeJoin, Zenon
<1>5. Len(HeaderRange(from, k)) = k - from /\ \A i \in 1..(k - from) : HeaderRange(from, k)[i] = from + i
  BY <1>1, <1>3, RangeFacts, Zenon
<1>6. ~faults => k = to - 1
  <2> SUFFICES ASSUME ~faults PROVE (lo + 1)..(to - 1) \subseteq Fetched
    BY <1>2, Zenon
  <2> SUFFICES ASSUME NEW h \in (lo + 1)..(to - 1) PROVE h \in Fetched
    OBVIOUS
  <2>1. h \in ChainHeights /\ lo < h /\ h < to
    BY <1>1 DEF ChainHeights
  <2>2. jobs[h] # "none" /\ jobs[h] # "err"
    BY <2>1 DEF JobsSound, InWindow
  <2>3. jobs[h] \in {"none", "wait", "run", "block", "header", "err"}
    BY <2>1 DEF ExchangeTypeOK
  <2> QED
    BY <2>1, <2>2, <2>3 DEF Fetched
<1>7. ASSUME NEW i \in 1..(k - from)
      PROVE  (InWindow(from + i) => Misjudged(from + i)) \/ from + i \in Fetched
  <2>1. from + i \in ChainHeights /\ from <= from + i
    BY <1>1, <1>3 DEF ChainHeights
  <2>2. CASE from + i <= lo
    <3>1. from + i <= cutoff
      BY <1>1, <2>2, RequestTypes DEF SplitSound
    <3>2. Slow(from + i) \/ time[from + i] + AvailabilityWindow <= now
      BY <2>1, <3>1, Zenon DEF SplitSound, OldIsOut, Slow
    <3>3. time[from + i] \in Nat /\ now \in Nat /\ AvailabilityWindow \in Nat
      BY <2>1, RequestTypes, ExchangeAssumption
    <3> QED
      BY <3>1, <3>2, <3>3 DEF InWindow, Misjudged
  <2>3. CASE ~(from + i <= lo)
    <3>1. from + i \in (lo + 1)..k
      BY <1>1, <1>3, <2>3
    <3> QED
      BY <1>2, <3>1, Zenon
  <2> QED
    BY <2>2, <2>3
<1> QED
  BY <1>4, <1>5, <1>6, <1>7, Zenon

\* The result is put together.
LEMMA CollectStep ==
    ASSUME ExchangeInv, collect
    PROVE  ExchangeInv'
<1>1. /\ pc = "fetch" /\ \A h \in ChainHeights : jobs[h] \notin {"wait", "run"}
      /\ UNCHANGED <<now, cutoff, lo, jobs, stored, faults, time, kind, from, to>>
  BY DEF collect, request
<1>2. ExchangeTypeOK /\ RequestTypeOK /\ JobsSound /\ (kind = "range" => SplitSound)
  BY <1>1, Zenon DEF ExchangeInv
<1>3. pc' = "done" /\ err' \in BOOLEAN
  BY Zenon DEF collect, Return
<1>4. ExchangeTypeOK' /\ RequestTypeOK'
  BY <1>1, <1>2, <1>3 DEF ExchangeTypeOK, RequestTypeOK
<1>5. JobsSound'
  BY <1>1, <1>2, <1>3 DEF JobsSound, InWindow
<1>6. (Contiguous /\ Complete /\ WindowHasBlocks)'
  <2>1. CASE err'
    BY <2>1, Zenon DEF Contiguous, Complete, WindowHasBlocks, Returned
  <2>2. CASE ~err' /\ kind = "one"
    <3>1. to \in Fetched /\ headers' = <<to>>
      BY <2>2, Zenon DEF collect, Return
    <3>2. \A i \in 1..Len(headers') : headers'[i] = to
      BY <3>1
    <3>3. WindowHasBlocks'
      BY <1>1, <1>2, <3>1, <3>2, FetchedIsStored, Zenon DEF WindowHasBlocks, HasBlock, Misjudged, Slow, InWindow
    <3> QED
      BY <1>1, <2>2, <3>3 DEF Contiguous, Complete
  <2>3. CASE ~err' /\ kind = "range"
    <3>1. headers' = headers \o prefix
      BY <2>3 DEF collect, Return
    <3>2. PICK k \in lo..(to - 1) :
             /\ headers \o prefix = HeaderRange(from, k) /\ Len(headers \o prefix) = k - from
             /\ ~faults => k = to - 1
             /\ \A i \in 1..(k - from) : /\ (headers \o prefix)[i] = from + i
                                         /\ (InWindow(from + i) => Misjudged(from + i)) \/ from + i \in Fetched
      BY <1>1, <1>2, <2>3, CollectRange, Zenon
    <3>3. from + (k - from) = k /\ k < to /\ (k = to - 1 => k - from = to - from - 1)
      BY <1>2, RequestTypes DEF ExchangeTypeOK
    <3>4. Contiguous'
      BY <1>1, <3>1, <3>2, <3>3, Zenon DEF Contiguous
    <3>5. Complete'
      BY <1>1, <3>1, <3>2, <3>3, Zenon DEF Complete
    <3>6. WindowHasBlocks'
      <4>1. \A i \in 1..(k - from) : InWindow(from + i) => HasBlock(from + i) \/ Misjudged(from + i)
        BY <1>2, <3>2, FetchedIsStored, Zenon
      <4>2. ASSUME NEW h
            PROVE  (InWindow(h))' = InWindow(h) /\ (HasBlock(h))' = HasBlock(h) /\ (Misjudged(h))' = Misjudged(h)
        BY <1>1, Zenon DEF InWindow, HasBlock, Misjudged, Slow
      <4>3. Len(headers') = k - from /\ \A i \in 1..(k - from) : headers'[i] = from + i
        BY <3>1, <3>2, Zenon
      <4> QED
        BY <4>1, <4>2, <4>3, Zenon DEF WindowHasBlocks
    <3> QED
      BY <3>4, <3>5, <3>6
  <2>4. kind \in {"range", "one"}
    BY <1>2 DEF RequestTypeOK
  <2> QED
    BY <2>1, <2>2, <2>3, <2>4
<1> QED
  BY <1>3, <1>4, <1>5, <1>6 DEF ExchangeInv

\* RangeSound, for every length and pace of the chain, every window, and any number of fetches
\* that run and fail in any order.
THEOREM RangesAreSound == ExchangeSpec => []RangeSound
<1>1. ExchangeInv /\ [ExchangeNext]_exchangeVars => ExchangeInv'
  <2> SUFFICES ASSUME ExchangeInv, [ExchangeNext]_exchangeVars PROVE ExchangeInv'
    OBVIOUS
  <2>1. ASSUME NEW h \in ChainHeights, startJob(h) \/ fetchBlock(h) PROVE ExchangeInv'
    BY <2>1, StartJobStep, FetchBlockStep, Zenon
  <2> QED
    BY <2>1, RouteStep, P2PStep, CoreStep, OneStep, CollectStep, TickStep, ExchangeStutter, Zenon DEF ExchangeNext
<1>2. ExchangeInv => RangeSound
  BY DEF ExchangeInv, RangeSound
<1> QED
  BY <1>1, <1>2, ExchangeStarts, PTL DEF ExchangeSpec

=============================================================================
