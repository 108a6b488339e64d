----------------------------- MODULE PeerManager -----------------------------
(***************************************************************************)
(* The peer manager (share/shwap/p2p/shrex/peers/manager.go): pools of     *)
(* peers by data hash, filled by shrexsub notifications (Validate), proved *)
(* by headers (subscribeHeader) or by use (Peer), and collected by GC; the *)
(* pool of nodes, filled by discovery and from the proved pools; and the   *)
(* blacklists.  Each of these runs in its own goroutine and takes the      *)
(* manager's lock, or a pool's, for one step at a time.  A goroutine keeps *)
(* its pointer to a pool that GC has taken out of the map meanwhile, so    *)
(* pools are objects here, and the map from hashes to objects is separate. *)
(*                                                                         *)
(* A pool (see PeerPool) is the set of the peers it has; tryGet yields one *)
(* of them, or none when all are on cooldown, which is why putOnCooldown   *)
(* leaves no trace here.  A peer may be disconnected at any time.          *)
(*                                                                         *)
(* A definition X_Wrong in front of X is a faulty variant of it, used to   *)
(* see that the properties notice the fault.                               *)
(***************************************************************************)
EXTENDS Integers, FiniteSets, FiniteSetsExt

CONSTANTS
    Peers,
    Hashes,
    ChainHeight,        \* the height of each hash in the chain, 0 for a hash that is not in it
    MaxHeight,          \* bound: the last height of the chain
    StoredPools,        \* storedPoolsAmount
    EnableBlackListing,
    MaxObjects,         \* bound: pools in memory at a time, in the map or not
    Validators,         \* goroutines that run Validate
    Clients,            \* goroutines that call Peer
    None

VARIABLES
    pools,               \* the object of each hash, or None
    obj,                 \* the pool objects
    nodes,
    blacklistedHashes,
    blocked,             \* peers blocked by the connection gater
    head,                \* height of the last header received
    initialHeight, storeFrom,
    proc,                \* the goroutines, but for GC
    gc,                  \* the GC goroutine
    wasNode, vouched     \* history: peers ever added to nodes; peers that discovery has
                         \* found or that announced a hash of the chain

heights == <<head, initialHeight, storeFrom>>
black == <<blacklistedHashes, blocked>>
vars == <<pools, obj, nodes, black, heights, proc, gc, wasNode, vouched>>

HeaderSub == "headerSub"
Procs == Validators \cup Clients \cup {HeaderSub}
Objects == 1..MaxObjects
InChain(hash) == ChainHeight[hash] # 0

NewPool(h) == [height |-> h, validated |-> FALSE, peers |-> {}, expired |-> FALSE]
Idle == [pc |-> "idle", hash |-> None, height |-> 0, peer |-> None, ref |-> None, snap |-> {}]
GCIdle == [pc |-> "idle", todo |-> {}, cur |-> None, list |-> {}]

\* Pools that nobody refers to any more are all alike.
Used(m, pr) == {m[hash] : hash \in Hashes} \cup {pr[g].ref : g \in Procs}
Tidy(o, m, pr) == [i \in Objects |-> IF i \in Used(m, pr) THEN o[i] ELSE NewPool(0)]

Step(g, r) == proc' = [proc EXCEPT ![g] = r]
Drop(g, r) == Step(g, r) /\ obj' = Tidy(obj, pools, [proc EXCEPT ![g] = r])
addNodes(S) == nodes' = nodes \cup S /\ wasNode' = wasNode \cup S
MapLockFree == gc.pc \notin {"scan", "act"}

-----------------------------------------------------------------------------
getOrCreatePool(g, at) ==
    LET hash == proc[g].hash
    IN  /\ MapLockFree
        /\ IF pools[hash] # None
           THEN /\ Step(g, [proc[g] EXCEPT !.ref = pools[hash], !.pc = at])
                /\ UNCHANGED <<pools, obj>>
           ELSE LET free == Objects \ Used(pools, proc)
                IN  /\ free # {}
                    /\ pools' = [pools EXCEPT ![hash] = Min(free)]
                    /\ obj' = [obj EXCEPT ![Min(free)] = NewPool(proc[g].height)]
                    /\ Step(g, [proc[g] EXCEPT !.ref = Min(free), !.pc = at])

\* validatedPool: get or create, mark as validated, and the first to do so copies
\* the peers to nodes.
create(g) ==
    /\ proc[g].pc = "create"
    /\ getOrCreatePool(g, "mark")
    /\ UNCHANGED <<nodes, black, heights, gc, wasNode, vouched>>

mark(g) ==
    /\ proc[g].pc = "mark"
    /\ obj' = [obj EXCEPT ![proc[g].ref].validated = TRUE]
    /\ Step(g, [proc[g] EXCEPT !.pc = IF obj[proc[g].ref].validated THEN "use" ELSE "read"])
    /\ UNCHANGED <<pools, nodes, black, heights, gc, wasNode, vouched>>

read(g) ==
    /\ proc[g].pc = "read"
    /\ Step(g, [proc[g] EXCEPT !.pc = "copy", !.snap = obj[proc[g].ref].peers])
    /\ UNCHANGED <<pools, obj, nodes, black, heights, gc, wasNode, vouched>>

copy(g) ==
    /\ proc[g].pc = "copy"
    /\ addNodes(proc[g].snap)
    /\ Step(g, [proc[g] EXCEPT !.pc = "use", !.snap = {}])
    /\ UNCHANGED <<pools, obj, black, heights, gc, vouched>>

validatedPool(g) == create(g) \/ mark(g) \/ read(g) \/ copy(g)

-----------------------------------------------------------------------------
(***************************************************************************)
(* subscribeHeader: the chain's headers in order, from any height on.      *)
(***************************************************************************)

receiveHeader ==
    /\ proc[HeaderSub].pc = "idle"
    /\ \E hash \in Hashes :
         /\ InChain(hash)
         /\ IF head = 0 THEN TRUE ELSE ChainHeight[hash] = head + 1
         /\ head' = ChainHeight[hash]
         /\ Step(HeaderSub, [Idle EXCEPT !.pc = "create", !.hash = hash, !.height = head'])
    /\ UNCHANGED <<pools, obj, nodes, black, initialHeight, storeFrom, gc, wasNode, vouched>>

storeInitialHeight ==
    /\ proc[HeaderSub].pc = "use"
    /\ initialHeight' = IF initialHeight = 0 THEN head ELSE initialHeight
    /\ Drop(HeaderSub, [Idle EXCEPT !.pc = "store"])
    /\ UNCHANGED <<pools, nodes, black, head, storeFrom, gc, wasNode, vouched>>

storeStoreFrom ==
    /\ proc[HeaderSub].pc = "store"
    /\ storeFrom' = IF head > StoredPools THEN head - StoredPools ELSE 0
    /\ Step(HeaderSub, Idle)
    /\ UNCHANGED <<pools, obj, nodes, black, head, initialHeight, gc, wasNode, vouched>>

subscribeHeader ==
    receiveHeader \/ validatedPool(HeaderSub) \/ storeInitialHeight \/ storeStoreFrom

-----------------------------------------------------------------------------
(***************************************************************************)
(* Validate: a notification carries a hash and any height.  Rejected ones, *)
(* ignored ones and those of the node itself leave no trace.               *)
(***************************************************************************)

Validate(v) ==
    /\ proc[v].pc = "idle"
    /\ \E p \in Peers \ blocked, hash \in Hashes \ blacklistedHashes, h \in 1..MaxHeight :
         /\ h >= storeFrom
         /\ Step(v, [Idle EXCEPT !.pc = "get", !.hash = hash, !.height = h, !.peer = p])
         /\ vouched' = IF InChain(hash) THEN vouched \cup {p} ELSE vouched
    /\ UNCHANGED <<pools, obj, nodes, black, heights, gc, wasNode>>

getPool(v) ==
    /\ proc[v].pc = "get"
    /\ getOrCreatePool(v, "add")
    /\ UNCHANGED <<nodes, black, heights, gc, wasNode, vouched>>

addPeer(v) ==
    /\ proc[v].pc = "add"
    /\ obj' = [obj EXCEPT ![proc[v].ref].peers = @ \cup {proc[v].peer}]
    /\ Step(v, [proc[v] EXCEPT !.pc = "load"])
    /\ UNCHANGED <<pools, nodes, black, heights, gc, wasNode, vouched>>

loadValidated(v) ==
    /\ proc[v].pc = "load"
    /\ IF obj[proc[v].ref].validated
       THEN Step(v, [proc[v] EXCEPT !.pc = "node"]) /\ UNCHANGED obj
       ELSE Drop(v, Idle)
    /\ UNCHANGED <<pools, nodes, black, heights, gc, wasNode, vouched>>

addToNodes(v) ==
    /\ proc[v].pc = "node"
    /\ addNodes({proc[v].peer})
    /\ Drop(v, Idle)
    /\ UNCHANGED <<pools, black, heights, gc, vouched>>

validate(v) == Validate(v) \/ getPool(v) \/ addPeer(v) \/ loadValidated(v) \/ addToNodes(v)

-----------------------------------------------------------------------------
(***************************************************************************)
(* Peer, for a header of the chain, and the DoneFunc it returns.           *)
(***************************************************************************)

Peer(c) ==
    /\ proc[c].pc = "idle"
    /\ \E hash \in Hashes :
         /\ InChain(hash)
         /\ Step(c, [Idle EXCEPT !.pc = "create", !.hash = hash, !.height = ChainHeight[hash]])
    /\ UNCHANGED <<pools, obj, nodes, black, heights, gc, wasNode, vouched>>

\* A peer of the pool that is blocked or not among the nodes is removed, and Peer
\* starts again.
removeIfUnreachable(c) ==
    /\ proc[c].pc = "use"
    /\ \E p \in obj[proc[c].ref].peers :
         /\ p \in blocked \/ p \notin nodes
         /\ obj' = [obj EXCEPT ![proc[c].ref].peers = @ \ {p}]
    /\ Step(c, [proc[c] EXCEPT !.pc = "create"])
    /\ UNCHANGED <<pools, nodes, black, heights, gc, wasNode, vouched>>

\* A reachable peer of the pool, or any node; without one, Peer waits.
newPeer(c) ==
    /\ proc[c].pc = "use"
    /\ \E p \in nodes : Drop(c, [Idle EXCEPT !.pc = "got", !.peer = p])
    /\ UNCHANGED <<pools, nodes, black, heights, gc, wasNode, vouched>>

ctxDone(c) ==
    /\ proc[c].pc = "use"
    /\ Drop(c, Idle)
    /\ UNCHANGED <<pools, nodes, black, heights, gc, wasNode, vouched>>

\* blacklistPeers for one peer: out of nodes, then blocked.
removeNode(p) == nodes' = nodes \ {p}
blockPeer(p) == blocked' = blocked \cup {p} \/ blocked' = blocked

done(c) ==
    /\ proc[c].pc = "got"
    /\ \/ Step(c, Idle) /\ UNCHANGED nodes
       \/ /\ EnableBlackListing
          /\ removeNode(proc[c].peer)
          /\ Step(c, [proc[c] EXCEPT !.pc = "block"])
    /\ UNCHANGED <<pools, obj, black, heights, gc, wasNode, vouched>>

doneBlock(c) ==
    /\ proc[c].pc = "block"
    /\ blockPeer(proc[c].peer)
    /\ Step(c, Idle)
    /\ UNCHANGED <<pools, obj, nodes, blacklistedHashes, heights, gc, wasNode, vouched>>

client(c) ==
    \/ Peer(c) \/ validatedPool(c) \/ removeIfUnreachable(c) \/ newPeer(c) \/ ctxDone(c)
    \/ done(c) \/ doneBlock(c)

-----------------------------------------------------------------------------
(***************************************************************************)
(* Discovery and connectedness events.                                     *)
(***************************************************************************)

\* UpdateNodePool, where the check of the blacklist and the addition are one step.
UpdateNodePool(p) ==
    /\ \/ p \notin blocked /\ addNodes({p}) /\ vouched' = vouched \cup {p}
       \/ removeNode(p) /\ UNCHANGED <<wasNode, vouched>>
    /\ UNCHANGED <<pools, obj, black, heights, proc, gc>>

subscribeDisconnectedPeers(p) ==
    /\ p \in nodes /\ removeNode(p)
    /\ UNCHANGED <<pools, obj, black, heights, proc, gc, wasNode, vouched>>

-----------------------------------------------------------------------------
(***************************************************************************)
(* GC.  cleanUp holds the lock of the map, not the pools'.                 *)
(***************************************************************************)

Delete(hash) ==
    /\ pools' = [pools EXCEPT ![hash] = None]
    /\ obj' = Tidy(obj, pools', proc)

cleanUp ==
    /\ gc.pc = "idle" /\ initialHeight # 0
    /\ gc' = [GCIdle EXCEPT !.pc = "scan", !.todo = {hash \in Hashes : pools[hash] # None}]
    /\ UNCHANGED <<pools, obj, nodes, black, heights, proc, wasNode, vouched>>

cleanUpLoad ==
    /\ gc.pc = "scan"
    /\ \E hash \in gc.todo :
         LET p == obj[pools[hash]]
         IN  IF p.validated
             THEN /\ IF p.height < storeFrom THEN Delete(hash) ELSE UNCHANGED <<pools, obj>>
                  /\ gc' = [gc EXCEPT !.todo = @ \ {hash}]
             ELSE /\ gc' = [gc EXCEPT !.pc = "act", !.cur = hash, !.todo = @ \ {hash}]
                  /\ UNCHANGED <<pools, obj>>
    /\ UNCHANGED <<nodes, black, heights, proc, wasNode, vouched>>

cleanUpAct ==
    /\ gc.pc = "act"
    /\ LET p == obj[pools[gc.cur]]
           back == [gc EXCEPT !.pc = "scan", !.cur = None]
       IN  IF p.height < initialHeight
           THEN /\ Delete(gc.cur)
                /\ gc' = back /\ UNCHANGED blacklistedHashes
           ELSE IF p.expired
           THEN /\ Delete(gc.cur)
                /\ blacklistedHashes' = blacklistedHashes \cup {gc.cur}
                /\ gc' = [back EXCEPT !.list = @ \cup p.peers]
           ELSE /\ gc' = back
                /\ UNCHANGED <<pools, obj, blacklistedHashes>>
    /\ UNCHANGED <<nodes, blocked, heights, proc, wasNode, vouched>>

cleanUpReturn ==
    /\ gc.pc = "scan" /\ gc.todo = {}
    /\ gc' = [gc EXCEPT !.pc = "blacklist"]
    /\ UNCHANGED <<pools, obj, nodes, black, heights, proc, wasNode, vouched>>

\* GC after cleanUp: the peers found are blacklisted one by one.
gcRemoveNode ==
    /\ gc.pc = "blacklist" /\ EnableBlackListing
    /\ \E p \in gc.list :
         /\ removeNode(p)
         /\ gc' = [gc EXCEPT !.pc = "block", !.cur = p]
    /\ UNCHANGED <<pools, obj, black, heights, proc, wasNode, vouched>>

gcBlock ==
    /\ gc.pc = "block"
    /\ blockPeer(gc.cur)
    /\ gc' = [gc EXCEPT !.pc = "blacklist", !.cur = None, !.list = @ \ {gc.cur}]
    /\ UNCHANGED <<pools, obj, nodes, blacklistedHashes, heights, proc, wasNode, vouched>>

gcDone ==
    /\ gc.pc = "blacklist" /\ (gc.list = {} \/ ~EnableBlackListing)
    /\ gc' = GCIdle
    /\ UNCHANGED <<pools, obj, nodes, black, heights, proc, wasNode, vouched>>

GC == cleanUp \/ cleanUpLoad \/ cleanUpAct \/ cleanUpReturn \/ gcRemoveNode \/ gcBlock \/ gcDone

\* PoolValidationTimeout passes for a pool.  It is long: GC does not take that
\* long for one pass, and a hash of the chain that somebody announced has had its
\* header within that time.
expire(hash) ==
    /\ pools[hash] # None /\ ~obj[pools[hash]].expired /\ gc.pc = "idle"
    /\ InChain(hash) => ChainHeight[hash] <= head /\ proc[HeaderSub].pc = "idle"
    /\ obj' = [obj EXCEPT ![pools[hash]].expired = TRUE]
    /\ UNCHANGED <<pools, nodes, black, heights, proc, gc, wasNode, vouched>>

Init ==
    /\ pools = [hash \in Hashes |-> None] /\ obj = [i \in Objects |-> NewPool(0)]
    /\ nodes = {} /\ blacklistedHashes = {} /\ blocked = {}
    /\ head = 0 /\ initialHeight = 0 /\ storeFrom = 0
    /\ proc = [g \in Procs |-> Idle] /\ gc = GCIdle
    /\ wasNode = {} /\ vouched = {}

Next ==
    \/ subscribeHeader \/ GC
    \/ \E v \in Validators : validate(v)
    \/ \E c \in Clients : client(c)
    \/ \E p \in Peers : UpdateNodePool(p) \/ subscribeDisconnectedPeers(p)
    \/ \E hash \in Hashes : expire(hash)

Spec == Init /\ [][Next]_vars

\* Fairness.  The goroutines run on, GC's ticker ticks, and timeouts pass.
Fairness ==
    /\ WF_vars(GC)
    /\ \A hash \in Hashes : SF_vars(expire(hash))
    /\ WF_vars(validatedPool(HeaderSub) \/ storeInitialHeight \/ storeStoreFrom)

-----------------------------------------------------------------------------
(***************************************************************************)
(* Properties.                                                             *)
(***************************************************************************)

\* Every variable has its type, and a goroutine at work on a pool has one.
TypeOK ==
    /\ pools \in [Hashes -> Objects \cup {None}]
    /\ obj \in [Objects -> [height : 0..MaxHeight, validated : BOOLEAN, peers : SUBSET Peers,
                            expired : BOOLEAN]]
    /\ nodes \subseteq Peers /\ blocked \subseteq Peers /\ blacklistedHashes \subseteq Hashes
    /\ head \in 0..MaxHeight /\ initialHeight \in 0..head /\ storeFrom \in 0..head
    /\ \A g \in Procs :
         /\ proc[g].pc \in {"idle", "create", "mark", "read", "copy", "use", "store",
                           "get", "add", "load", "node", "got", "block"}
         /\ proc[g].pc \in {"mark", "read", "copy", "use", "add", "load", "node"} => proc[g].ref \in Objects
    /\ gc.pc \in {"idle", "scan", "act", "blacklist", "block"}

\* Only peers that discovery found, or that announced a hash of the chain, become
\* nodes, from which Peer picks for any hash: an announcement that no header has
\* confirmed is not enough.
NodesAreVouchedFor == wasNode \subseteq vouched

\* A peer that announced a hash becomes a node when the hash is validated, in
\* whatever order Validate and validatedPool pass one another: one of the two sees
\* what the other did.
NoPeerForgotten ==
    \A i \in Objects : obj[i].validated =>
        \A p \in obj[i].peers :
            \/ p \in wasNode
            \/ \E g \in Procs :
                  /\ proc[g].ref = i
                  /\ \/ proc[g].pc = "read"
                     \/ proc[g].pc = "copy" /\ p \in proc[g].snap
                     \/ proc[g].pc \in {"load", "node"} /\ proc[g].peer = p

\* Pools of old heights do not pile up: each leaves the map in the end.
OldPoolsCollected ==
    \A hash \in Hashes :
        (pools[hash] # None /\ obj[pools[hash]].height < storeFrom) ~> (pools[hash] = None)

=============================================================================
