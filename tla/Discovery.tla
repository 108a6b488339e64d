------------------------------- MODULE Discovery -------------------------------
(***************************************************************************)
(* share/shwap/p2p/discovery: finding peers of a topic, connecting to them *)
(* and keeping them in a set of about Limit peers.                         *)
(*                                                                         *)
(* The discoveryLoop, up to Limit workers, the disconnectsLoop, Advertise  *)
(* and callers of Peers run concurrently.  The locks of the set and of the *)
(* backoff cache are held for single accesses only, so every access is a   *)
(* step.  Discard offers to trigger a discovery on a channel nobody reads, *)
(* so it always takes the default branch; that is left out.  The callback  *)
(* onUpdatedPeers is UpdateNodePool of PeerManager, which takes it in any  *)
(* order; the tags in the connection manager are read by nobody here.      *)
(***************************************************************************)
EXTENDS Integers, Sequences, FiniteSets, FiniteSetTheorems, TLAPS

CONSTANTS
    Peers,          \* peers of the topic
    Self,           \* the host itself
    Offered,       \* what the rendezvous returns: peers of the topic, maybe the host itself
    advertise,      \* the node also advertises itself
    Limit,          \* Parameters.PeersLimit
    Callers,        \* callers of Peers
    MaxDisconnects  \* bound on lost connections

\* Parameters.Validate refuses a limit that is not positive.
ASSUME DiscoveryAssumption == Limit \in Nat \ {0} /\ Offered \subseteq Peers \cup {Self}

\* The goroutines of the errgroup, as many as its SetLimit allows.
Workers_Wrong == 1..(2 * Limit)

Workers == 1..Limit

VARIABLES
    ctx,        \* "new", "running" or "stopped"
    conn,       \* the connected peers
    lost,       \* number of connections lost
    events,     \* disconnect events in the subscription's buffer
    set,        \* limitedSet.ps
    cache,      \* backoffConnector.cacheData: the peers whose nexttry is ahead
    loop,       \* discoveryLoop: its place, and the peer it wants to hand to a worker
    findDone,   \* findCtx is cancelled
    worker,     \* the errgroup's goroutines
    disc,       \* disconnectsLoop and the Discard it is in
    adv,        \* Advertise
    caller,     \* callers of Peers: their place and what they got
    missed      \* history: peers that were added when the loss of their connection had been handled

vars == <<ctx, conn, lost, events, set, cache, loop, findDone, worker, disc, adv, caller, missed>>

\* The soft limit is reached.
Full == Cardinality(set) >= Limit

\* A goroutine at pc works on a peer.
At(pc, p) == [pc |-> pc, peer |-> p]

Init ==
    /\ ctx = "new" /\ conn = {} /\ lost = 0 /\ events = <<>>
    /\ set = {} /\ cache = {}
    /\ loop = At("off", Self) /\ findDone = TRUE
    /\ worker = [w \in Workers |-> At("idle", Self)]
    /\ disc = At("off", Self) /\ adv = "off"
    /\ caller = [c \in Callers |-> [pc |-> "idle", got |-> {}]]
    /\ missed = {}

-----------------------------------------------------------------------------
(***************************************************************************)
(* The network: peers connect to us, connections are lost, time passes.    *)
(***************************************************************************)

\* Connections are lost only as often as MaxDisconnects, and are reported to
\* the subscription that Start made.
Connected(p) ==
    /\ p \notin conn
    /\ conn' = conn \cup {p}
    /\ UNCHANGED <<ctx, lost, events, set, cache, loop, findDone, worker, disc, adv, caller, missed>>

Disconnected(p) ==
    /\ p \in conn /\ lost < MaxDisconnects
    /\ conn' = conn \ {p} /\ lost' = lost + 1
    /\ events' = IF ctx = "running" THEN Append(events, p) ELSE events
    /\ UNCHANGED <<ctx, set, cache, loop, findDone, worker, disc, adv, caller, missed>>

\* The delay of a peer's backoff is over. The entries that GC deletes are such ones.
backoffEnds(p) ==
    /\ p \in cache /\ cache' = cache \ {p}
    /\ UNCHANGED <<ctx, conn, lost, events, set, loop, findDone, worker, disc, adv, caller, missed>>

HasBackoff(p) == p \in cache
Backoff(p) == cache' = cache \cup {p}

-----------------------------------------------------------------------------
(***************************************************************************)
(* Start, Stop and Advertise.                                              *)
(***************************************************************************)

Start ==
    /\ ctx = "new" /\ ctx' = "running"
    /\ loop' = At("select", Self) /\ disc' = At("recv", Self) /\ adv' = (IF advertise THEN "advertise" ELSE "done")
    /\ UNCHANGED <<conn, lost, events, set, cache, findDone, worker, caller, missed>>

Stop ==
    /\ ctx = "running" /\ ctx' = "stopped" /\ findDone' = TRUE
    /\ UNCHANGED <<conn, lost, events, set, cache, loop, worker, disc, adv, caller, missed>>

\* One round of Advertise: it ends when the context is cancelled, also while the
\* rendezvous is failing, and otherwise waits and advertises again.
Advertising ==
    /\ \/ adv = "advertise" /\ adv' \in (IF ctx = "stopped" THEN {"done", "wait"} ELSE {"retry", "wait"})
       \/ adv \in {"retry", "wait"} /\ ctx = "stopped" /\ adv' = "done"
       \/ adv \in {"retry", "wait"} /\ adv' = "advertise"
    /\ UNCHANGED <<ctx, conn, lost, events, set, cache, loop, findDone, worker, disc, caller, missed>>

-----------------------------------------------------------------------------
(***************************************************************************)
(* discoveryLoop and discover.                                             *)
(***************************************************************************)

\* A tick: discovery is skipped when the set is full, and FindPeers may fail at once.
tick ==
    /\ loop.pc = "select" /\ ~Full
    /\ loop' = At("find", Self) /\ findDone' = (ctx = "stopped")
    /\ UNCHANGED <<ctx, conn, lost, events, set, cache, worker, disc, adv, caller, missed>>

\* FindPeers yields a peer, which waits in wg.Go for a free goroutine.
found(p) ==
    /\ loop.pc = "find" /\ loop' = At("go", p)
    /\ UNCHANGED <<ctx, conn, lost, events, set, cache, findDone, worker, disc, adv, caller, missed>>

\* wg.SetLimit bounds the goroutines of the group.
mayGo(w) == worker[w].pc = "idle"

goWorker(w) ==
    /\ loop.pc = "go" /\ mayGo(w)
    /\ worker' = [worker EXCEPT ![w] = At("start", loop.peer)]
    /\ loop' = At("find", Self)
    /\ UNCHANGED <<ctx, conn, lost, events, set, cache, findDone, disc, adv, caller, missed>>

\* findPeersTimeout.
findTimeout ==
    /\ loop.pc \in {"find", "go", "wait"} /\ ~findDone /\ findDone' = TRUE
    /\ UNCHANGED <<ctx, conn, lost, events, set, cache, loop, worker, disc, adv, caller, missed>>

\* The channel of peers is closed, or findCtx is done: discover waits for the workers.
findEnds ==
    /\ loop.pc = "find" /\ loop' = At("wait", Self)
    /\ UNCHANGED <<ctx, conn, lost, events, set, cache, findDone, worker, disc, adv, caller, missed>>

discovered ==
    /\ loop.pc = "wait" /\ \A w \in Workers : worker[w].pc = "idle"
    /\ loop' = At("select", Self) /\ findDone' = TRUE
    /\ UNCHANGED <<ctx, conn, lost, events, set, cache, worker, disc, adv, caller, missed>>

loopEnds ==
    /\ loop.pc = "select" /\ ctx = "stopped" /\ loop' = At("done", Self)
    /\ UNCHANGED <<ctx, conn, lost, events, set, cache, findDone, worker, disc, adv, caller, missed>>

-----------------------------------------------------------------------------
(***************************************************************************)
(* A worker of discover: handleDiscoveredPeer and what follows it.         *)
(***************************************************************************)

Moves(w, pc) == worker' = [worker EXCEPT ![w].pc = pc]

\* A find that was cancelled in between skips the peer, as do the host itself and every
\* peer once the set is full.
workerStarts(w) ==
    /\ worker[w].pc = "start"
    /\ Moves(w, IF findDone \/ worker[w].peer = Self \/ Full THEN "idle" ELSE "connect")
    /\ UNCHANGED <<ctx, conn, lost, events, set, cache, loop, findDone, disc, adv, caller, missed>>

connectPeer_Wrong(w) ==
    LET p == worker[w].peer IN
    /\ worker[w].pc = "connect"
    /\ \/ p \notin conn /\ ~HasBackoff(p) /\ Moves(w, "dial") /\ UNCHANGED cache
       \/ Moves(w, "idle") /\ UNCHANGED cache
    /\ UNCHANGED <<ctx, conn, lost, events, set, loop, findDone, disc, adv, caller, missed>>

\* A connected peer is backed off too; another is dialled unless it is backed off or has
\* a connectedness that is not supported.
connectPeer(w) ==
    LET p == worker[w].peer IN
    /\ worker[w].pc = "connect"
    /\ \/ p \in conn /\ Backoff(p) /\ Moves(w, "add")
       \/ p \notin conn /\ ~HasBackoff(p) /\ Moves(w, "dial") /\ UNCHANGED cache
       \/ p \notin conn /\ Moves(w, "idle") /\ UNCHANGED cache
    /\ UNCHANGED <<ctx, conn, lost, events, set, loop, findDone, disc, adv, caller, missed>>

\* Host.Connect succeeds, fails or times out, all of which back off the peer, or is cancelled.
dialled(w) ==
    LET p == worker[w].peer IN
    /\ worker[w].pc = "dial"
    /\ \/ conn' = conn \cup {p} /\ Backoff(p) /\ Moves(w, "add")
       \/ p \notin conn /\ Backoff(p) /\ Moves(w, "idle") /\ UNCHANGED conn
       \/ ctx = "stopped" /\ Moves(w, "idle") /\ UNCHANGED <<conn, cache>>
    /\ UNCHANGED <<ctx, lost, events, set, loop, findDone, disc, adv, caller, missed>>

\* The connection of p is lost and Discard will not hear of it any more, or has looked already.
LossHandled(p) ==
    /\ p \notin conn /\ \A i \in 1..Len(events) : events[i] # p
    /\ disc # At("contains", p)

addPeer(w) ==
    LET p == worker[w].peer IN
    /\ worker[w].pc = "add"
    /\ Moves(w, IF p \in set THEN "idle" ELSE "wake")
    /\ set' = set \cup {p}
    /\ missed' = IF p \notin set /\ LossHandled(p) THEN missed \cup {p} ELSE missed
    /\ UNCHANGED <<ctx, conn, lost, events, cache, loop, findDone, disc, adv, caller>>

Waiting == {c \in Callers : caller[c].pc = "wait"}

\* limitedSet.Add hands the peer to every caller that is waiting now.
wakeCaller(w) ==
    /\ worker[w].pc = "wake"
    /\ IF Waiting = {} THEN Moves(w, "size") /\ UNCHANGED caller
       ELSE \E c \in Waiting :
                /\ caller' = [caller EXCEPT ![c] = [pc |-> "done", got |-> {worker[w].peer}]]
                /\ UNCHANGED worker
    /\ UNCHANGED <<ctx, conn, lost, events, set, cache, loop, findDone, disc, adv, missed>>

\* A worker that finds the set full cancels the find.
workerEnds(w) ==
    /\ worker[w].pc = "size" /\ Moves(w, "idle") /\ findDone' = (findDone \/ Full)
    /\ UNCHANGED <<ctx, conn, lost, events, set, cache, loop, disc, adv, caller, missed>>

-----------------------------------------------------------------------------
(***************************************************************************)
(* disconnectsLoop and Discard, and the callers of Peers.                  *)
(***************************************************************************)

onDisconnect ==
    /\ disc.pc = "recv" /\ events # <<>>
    /\ events' = Tail(events) /\ disc' = At("contains", Head(events))
    /\ UNCHANGED <<ctx, conn, lost, set, cache, loop, findDone, worker, adv, caller, missed>>

disconnectsLoopEnds ==
    /\ disc.pc = "recv" /\ ctx = "stopped" /\ disc' = At("done", Self)
    /\ UNCHANGED <<ctx, conn, lost, events, set, cache, loop, findDone, worker, adv, caller, missed>>

Discard ==
    /\ \/ /\ disc.pc = "contains" /\ UNCHANGED <<set, cache, missed>>
          /\ disc' = IF disc.peer \in set THEN At("backoff", disc.peer) ELSE At("recv", Self)
       \/ /\ disc.pc = "backoff" /\ Backoff(disc.peer) /\ UNCHANGED <<set, missed>>
          /\ disc' = At("remove", disc.peer)
       \/ /\ disc.pc = "remove" /\ set' = set \ {disc.peer} /\ missed' = missed \ {disc.peer} /\ UNCHANGED cache
          /\ disc' = At("recv", Self)
    /\ UNCHANGED <<ctx, conn, lost, events, loop, findDone, worker, adv, caller>>

\* Peers returns the set if it is not empty, and otherwise waits for a peer to be added:
\* between the two it holds no lock.
callPeers(c) ==
    /\ caller[c].pc = "idle"
    /\ caller' = [caller EXCEPT ![c] = IF set = {} THEN [pc |-> "empty", got |-> {}]
                                       ELSE [pc |-> "done", got |-> set]]
    /\ UNCHANGED <<ctx, conn, lost, events, set, cache, loop, findDone, worker, disc, adv, missed>>

waitPeer(c) ==
    /\ caller[c].pc = "empty" /\ caller' = [caller EXCEPT ![c].pc = "wait"]
    /\ UNCHANGED <<ctx, conn, lost, events, set, cache, loop, findDone, worker, disc, adv, missed>>

giveUp(c) ==
    /\ caller[c].pc = "wait" /\ caller' = [caller EXCEPT ![c].pc = "gaveUp"]
    /\ UNCHANGED <<ctx, conn, lost, events, set, cache, loop, findDone, worker, disc, adv, missed>>

-----------------------------------------------------------------------------

LoopStep == tick \/ findEnds \/ discovered \/ loopEnds \/ \E w \in Workers : goWorker(w)

WorkerStep(w) ==
    \/ workerStarts(w) \/ connectPeer(w) \/ dialled(w) \/ addPeer(w) \/ wakeCaller(w) \/ workerEnds(w)

DisconnectStep == onDisconnect \/ disconnectsLoopEnds \/ Discard

Next ==
    \/ Start \/ Stop \/ Advertising \/ findTimeout \/ LoopStep \/ DisconnectStep
    \/ \E p \in Peers : Connected(p) \/ Disconnected(p) \/ backoffEnds(p)
    \/ \E p \in Offered : found(p)
    \/ \E w \in Workers : WorkerStep(w)
    \/ \E c \in Callers : callPeers(c) \/ waitPeer(c) \/ giveUp(c)

Spec == Init /\ [][Next]_vars

\* The goroutines run, timers fire and backoffs end.
Running ==
    /\ WF_vars(Start) /\ WF_vars(LoopStep) /\ WF_vars(DisconnectStep) /\ WF_vars(Advertising)
    /\ SF_vars(loopEnds) /\ SF_vars(findEnds) /\ SF_vars(disconnectsLoopEnds) /\ SF_vars(Advertising /\ adv' = "done")
    /\ \A w \in Workers : WF_vars(WorkerStep(w))
    /\ \A c \in Callers : WF_vars(waitPeer(c))
    /\ \A p \in Peers : WF_vars(backoffEnds(p))

\* The network keeps returning each peer, not always just before the find's timeout, and
\* does not refuse a connection for ever.
Reachable ==
    /\ \A p \in Offered \ {Self} : SF_vars(found(p) /\ ~findDone)
    /\ \A w \in Workers :
           /\ SF_vars(goWorker(w) /\ ~findDone)
           /\ SF_vars(workerStarts(w) /\ worker'[w].pc = "connect")
           /\ SF_vars(worker[w].pc = "connect" /\ WorkerStep(w) /\ worker'[w].pc = "dial")
           /\ SF_vars(worker[w].pc = "dial" /\ WorkerStep(w) /\ worker'[w].pc = "add")

Fairness == Running /\ Reachable

-----------------------------------------------------------------------------

\* Every variable has its type.
TypeOK ==
    /\ ctx \in {"new", "running", "stopped"} /\ conn \subseteq Peers /\ lost \in 0..MaxDisconnects
    /\ events \in Seq(Peers) /\ set \subseteq Peers /\ cache \subseteq Peers
    /\ findDone \in BOOLEAN
    /\ loop \in [pc : {"off", "select", "find", "go", "wait", "done"}, peer : Peers \cup {Self}]
    /\ \A w \in Workers : worker[w].peer \in Peers \cup {Self}
    /\ \A c \in Callers : caller[c].got \subseteq Peers
    /\ missed \subseteq Peers

\* The workers that have seen room in the set and have not added their peer yet.
Adding == {w \in Workers : worker[w].pc \in {"connect", "dial", "add"}}

\* The workers look at the size of the set before they connect to a peer, and add it later,
\* concurrently; still the set stays below twice the limit, with all that they may add, and
\* has only peers of the topic, never the host itself, which the rendezvous may return.
SetBounded ==
    /\ set \subseteq Peers
    /\ Cardinality(set) + Cardinality(Adding) < 2 * Limit

\* Unless it is stopped, discovery has the wanted number of peers again in the end, as long
\* as the network offers them, and they are connected: a connection that is lost in any state
\* of the workers frees its place, save one that is lost, and its event handled, between a
\* worker's dial and its addPeer.  Such a peer stays in the set without a connection.
Refilled == <>[](ctx = "running") => []<>(Cardinality(set \cap (conn \cup missed)) >= Limit)

\* After Stop the loops and all workers end, also when a dial hangs or all goroutines of
\* the group are taken.
StopEnds ==
    [](ctx = "stopped" => <>(loop.pc = "done" /\ disc.pc = "done" /\ adv = "done"
                             /\ \A w \in Workers : worker[w].pc = "idle"))

-----------------------------------------------------------------------------
(***************************************************************************)
(* SetBounded for every limit, every set of peers and every rendezvous.    *)
(* What makes it inductive is where the peer of each goroutine comes from, *)
(* and that a worker past workerStarts does not hold the host itself: a    *)
(* worker gets there only while the set is below the limit, when the other *)
(* Limit - 1 workers may be there too, and from then on the sum of both    *)
(* cardinalities does not grow.                                            *)
(***************************************************************************)

AddingPlaces == {"connect", "dial", "add"}
WorkerStates == [pc : AddingPlaces \cup {"idle", "start", "wake", "size"}, peer : Peers \cup {Self}]

IInv ==
    /\ loop.peer \in Peers \cup {Self}
    /\ worker \in [Workers -> WorkerStates]
    /\ \A w \in Adding : worker[w].peer # Self
    /\ IsFiniteSet(set)
    /\ SetBounded

\* There are never more workers about to add a peer than wg.SetLimit allows goroutines.
LEMMA AddingFinite ==
    ASSUME NEW A \in SUBSET Workers
    PROVE  IsFiniteSet(A) /\ Cardinality(A) \in Nat /\ Cardinality(A) <= Limit
<1>1. IsFiniteSet(Workers) /\ Cardinality(Workers) = Limit
  BY FS_Interval, DiscoveryAssumption DEF Workers
<1>2. IsFiniteSet(A) /\ Cardinality(A) <= Cardinality(Workers)
  BY <1>1, FS_Subset
<1> QED  BY <1>1, <1>2, FS_CardinalityType

\* A step that leaves the set and the workers alone.
LEMMA SetKept ==
    ASSUME IInv, UNCHANGED <<set, worker>>, loop'.peer \in Peers \cup {Self}
    PROVE  IInv'
<1>1. Adding' = Adding  BY DEF Adding
<1> QED  BY <1>1 DEF IInv, SetBounded

\* A step of a worker that leaves the set alone: it comes to be about to add a peer only
\* while the set has room, and never with the host itself.
LEMMA WorkerMoves ==
    ASSUME IInv, NEW w \in Workers, NEW v \in WorkerStates,
           worker' = [worker EXCEPT ![w] = v], set' = set, loop'.peer \in Peers \cup {Self},
           v.pc \in AddingPlaces => (w \in Adding \/ ~Full) /\ v.peer # Self
    PROVE  IInv'
<1>1. worker' \in [Workers -> WorkerStates]  BY DEF IInv
<1>2. /\ worker'[w] = v
      /\ \A u \in Workers \ {w} : worker'[u] = worker[u]
  BY DEF IInv
<1>3. \A u \in Adding' : worker'[u].peer # Self
  BY <1>2 DEF IInv, Adding, AddingPlaces
<1>4. Adding \in SUBSET Workers /\ Adding' \in SUBSET Workers
  BY DEF Adding
<1>5. /\ Cardinality(set) \in Nat /\ Cardinality(Adding) \in Nat /\ Cardinality(Adding') \in Nat
      /\ Cardinality(Adding') <= Limit /\ IsFiniteSet(Adding)
  BY <1>4, AddingFinite, FS_CardinalityType DEF IInv
<1>6. Cardinality(set) + Cardinality(Adding') < 2 * Limit
  <2>1. CASE v.pc \in AddingPlaces /\ ~Full
    BY <2>1, <1>5, DiscoveryAssumption DEF Full
  <2>2. CASE v.pc \notin AddingPlaces \/ w \in Adding
    <3>1. Adding' \subseteq Adding
      BY <2>2, <1>2 DEF Adding, AddingPlaces
    <3>2. Cardinality(Adding') <= Cardinality(Adding)
      BY <3>1, <1>5, FS_Subset
    <3> QED  BY <3>2, <1>5, DiscoveryAssumption DEF IInv, SetBounded
  <2> QED  BY <2>1, <2>2
<1> QED  BY <1>1, <1>3, <1>6 DEF IInv, SetBounded

\* addPeer: the worker gives up its place when its peer comes into the set.
LEMMA AddPeer ==
    ASSUME IInv, NEW w \in Workers, addPeer(w)
    PROVE  IInv'
<1> DEFINE p == worker[w].peer
           v == [worker[w] EXCEPT !.pc = IF p \in set THEN "idle" ELSE "wake"]
<1>1. worker \in [Workers -> WorkerStates] /\ worker[w] \in WorkerStates
  BY DEF IInv
<1>2. w \in Adding /\ p \in Peers
  BY <1>1 DEF addPeer, Adding, IInv, WorkerStates
<1>3. v \in WorkerStates /\ v.pc \notin AddingPlaces
  BY <1>1 DEF WorkerStates, AddingPlaces
<1>4. worker' = [worker EXCEPT ![w] = v] /\ set' = set \cup {p} /\ loop' = loop
  BY <1>1 DEF addPeer, Moves
<1> HIDE DEF v
<1>5. worker' \in [Workers -> WorkerStates] /\ worker'[w] = v
      /\ \A u \in Workers \ {w} : worker'[u] = worker[u]
  BY <1>1, <1>3, <1>4
<1>6. Adding' = Adding \ {w}
  BY <1>3, <1>5 DEF Adding, AddingPlaces
<1>7. IsFiniteSet(Adding) /\ Cardinality(Adding) \in Nat
  BY AddingFinite DEF Adding
<1>8. Cardinality(Adding') = Cardinality(Adding) - 1
  BY Zenon, <1>2, <1>6, <1>7, FS_RemoveElement
<1>9. IsFiniteSet(set') /\ Cardinality(set) \in Nat /\ Cardinality(set') \in Nat
      /\ Cardinality(set') <= Cardinality(set) + 1
  <2>1. IsFiniteSet(set) /\ Cardinality(set) \in Nat
    BY FS_CardinalityType DEF IInv
  <2>2. /\ IsFiniteSet(set \cup {p})
        /\ Cardinality(set \cup {p}) = IF p \in set THEN Cardinality(set) ELSE Cardinality(set) + 1
    BY <2>1, FS_AddElement, Zenon
  <2> QED  BY <1>4, <2>1, <2>2
<1>10. Cardinality(set') + Cardinality(Adding') < 2 * Limit
  BY <1>7, <1>8, <1>9, DiscoveryAssumption DEF IInv, SetBounded
<1>11. \A u \in Adding' : worker'[u].peer # Self
  BY <1>5, <1>6 DEF IInv, Adding
<1>12. set' \subseteq Peers
  BY <1>2, <1>4 DEF IInv, SetBounded
<1> QED  BY <1>4, <1>5, <1>9, <1>10, <1>11, <1>12 DEF IInv, SetBounded

\* Discard: a peer leaves the set, at whatever step the workers are.
LEMMA DiscardKeeps ==
    ASSUME IInv, Discard
    PROVE  IInv'
<1>1. CASE set' = set
  BY <1>1, SetKept DEF Discard, IInv
<1>2. CASE set' = set \ {disc.peer}
  <2>1. IsFiniteSet(set') /\ Cardinality(set') <= Cardinality(set)
        /\ Cardinality(set) \in Nat /\ Cardinality(set') \in Nat
    <3>1. IsFiniteSet(set) /\ Cardinality(set) \in Nat
      BY FS_CardinalityType DEF IInv
    <3>2. set' \in SUBSET set
      BY <1>2
    <3>3. IsFiniteSet(set') /\ Cardinality(set') <= Cardinality(set)
      BY <3>1, <3>2, FS_Subset, Zenon
    <3> QED  BY <3>1, <3>3, FS_CardinalityType, Zenon
  <2>2. Adding' = Adding /\ worker' = worker /\ loop' = loop
    BY DEF Discard, Adding
  <2>3. Cardinality(Adding) \in Nat
    BY AddingFinite DEF Adding
  <2>4. Cardinality(set') + Cardinality(Adding') < 2 * Limit
    BY <2>1, <2>2, <2>3, DiscoveryAssumption DEF IInv, SetBounded
  <2> QED  BY <1>2, <2>1, <2>2, <2>4 DEF IInv, SetBounded
<1> QED  BY <1>1, <1>2 DEF Discard

\* The steps of a worker.
LEMMA WorkerKeeps ==
    ASSUME IInv, NEW w \in Workers, WorkerStep(w)
    PROVE  IInv'
<1>1. worker \in [Workers -> WorkerStates] /\ worker[w] \in WorkerStates /\ loop.peer \in Peers \cup {Self}
  BY DEF IInv
<1>2. ASSUME NEW pc \in AddingPlaces \cup {"idle", "start", "wake", "size"}, Moves(w, pc), set' = set, loop' = loop,
             pc \in AddingPlaces => w \in Adding \/ (~Full /\ worker[w].peer # Self)
      PROVE  IInv'
  <2> DEFINE v == [worker[w] EXCEPT !.pc = pc]
  <2>1. v \in WorkerStates /\ v.pc = pc /\ v.peer = worker[w].peer
    BY <1>1 DEF WorkerStates
  <2>2. worker' = [worker EXCEPT ![w] = v]
    BY <1>1, <1>2 DEF Moves
  <2>3. v.pc \in AddingPlaces => (w \in Adding \/ ~Full) /\ v.peer # Self
    BY <1>2, <2>1 DEF IInv
  <2> HIDE DEF v
  <2> QED  BY Zenon, <1>1, <1>2, <2>1, <2>2, <2>3, WorkerMoves
<1>3. CASE workerStarts(w)
  BY <1>2, <1>3 DEF workerStarts, AddingPlaces
<1>4. CASE connectPeer(w)
  BY <1>2, <1>4 DEF connectPeer, AddingPlaces, Adding
<1>5. CASE dialled(w)
  BY <1>2, <1>5 DEF dialled, AddingPlaces, Adding
<1>6. CASE addPeer(w)
  BY <1>6, AddPeer
<1>7. CASE wakeCaller(w)
  <2>1. CASE Moves(w, "size")
    BY <1>2, <1>7, <2>1 DEF wakeCaller, AddingPlaces
  <2>2. CASE UNCHANGED worker
    BY <1>1, <1>7, <2>2, SetKept DEF wakeCaller
  <2> QED  BY <1>7, <2>1, <2>2 DEF wakeCaller
<1>8. CASE workerEnds(w)
  BY <1>2, <1>8 DEF workerEnds, AddingPlaces
<1> QED  BY <1>3, <1>4, <1>5, <1>6, <1>7, <1>8 DEF WorkerStep

\* discoveryLoop: a goroutine starts with a peer that the rendezvous returned.
LEMMA LoopKeeps ==
    ASSUME IInv, LoopStep
    PROVE  IInv'
<1>1. CASE tick \/ findEnds \/ discovered \/ loopEnds
  BY <1>1, SetKept DEF tick, findEnds, discovered, loopEnds, At
<1>2. CASE \E w \in Workers : goWorker(w)
  <2>1. PICK w \in Workers : goWorker(w)  BY <1>2
  <2> DEFINE v == At("start", loop.peer)
  <2>2. v \in WorkerStates /\ v.pc \notin AddingPlaces
    BY DEF At, WorkerStates, AddingPlaces, IInv
  <2>3. worker' = [worker EXCEPT ![w] = v] /\ set' = set /\ loop'.peer \in Peers \cup {Self}
    BY <2>1 DEF goWorker, At
  <2> HIDE DEF v
  <2> QED  BY Zenon, <2>2, <2>3, WorkerMoves
<1> QED  BY <1>1, <1>2 DEF LoopStep

\* The soft limit of limitedSet in every behaviour: SetBounded is an invariant of discovery.
THEOREM SetStaysBounded == Spec => []SetBounded
<1>1. Init => IInv
  <2> SUFFICES ASSUME Init PROVE IInv  OBVIOUS
  <2>1. Adding = {}
    BY DEF Init, Adding, At
  <2>2. worker \in [Workers -> WorkerStates]
    BY DEF Init, At, WorkerStates, AddingPlaces
  <2>3. IsFiniteSet(set) /\ Cardinality(set) = 0 /\ Cardinality(Adding) = 0
    BY <2>1, FS_EmptySet DEF Init
  <2>4. Cardinality(set) + Cardinality(Adding) < 2 * Limit
    BY <2>3, DiscoveryAssumption
  <2> QED  BY <2>1, <2>2, <2>3, <2>4 DEF Init, IInv, SetBounded, At
<1>2. IInv /\ [Next]_vars => IInv'
  <2> SUFFICES ASSUME IInv, [Next]_vars PROVE IInv'  OBVIOUS
  <2> loop.peer \in Peers \cup {Self}  BY DEF IInv
  <2>1. CASE Start \/ Stop \/ Advertising \/ findTimeout
    BY <2>1, SetKept DEF Start, Stop, Advertising, findTimeout, At
  <2>2. CASE LoopStep
    BY <2>2, LoopKeeps
  <2>3. CASE onDisconnect \/ disconnectsLoopEnds
    BY <2>3, SetKept DEF onDisconnect, disconnectsLoopEnds
  <2>4. CASE Discard
    BY <2>4, DiscardKeeps
  <2>5. CASE \E p \in Peers : Connected(p) \/ Disconnected(p) \/ backoffEnds(p)
    BY <2>5, SetKept DEF Connected, Disconnected, backoffEnds
  <2>6. CASE \E p \in Offered : found(p)
    BY <2>6, SetKept, DiscoveryAssumption DEF found, At
  <2>7. CASE \E w \in Workers : WorkerStep(w)
    BY <2>7, WorkerKeeps
  <2>8. CASE \E c \in Callers : callPeers(c) \/ waitPeer(c) \/ giveUp(c)
    BY <2>8, SetKept DEF callPeers, waitPeer, giveUp
  <2>9. CASE UNCHANGED vars
    BY <2>9, SetKept DEF vars
  <2> QED
    BY <2>1, <2>2, <2>3, <2>4, <2>5, <2>6, <2>7, <2>8, <2>9 DEF Next, DisconnectStep
<1>3. IInv => SetBounded
  BY DEF IInv
<1> QED  BY <1>1, <1>2, <1>3, PTL DEF Spec

=============================================================================
