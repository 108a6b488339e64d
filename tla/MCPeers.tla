------------------------------- MODULE MCPeers -------------------------------
(***************************************************************************)
(* Small instances of the components that find and hand out peers.  They   *)
(* share no state here, so a behaviour is one of a single instance, picked *)
(* by part: "pool" (PeerPool), "manager" (PeerManager, with an announced   *)
(* hash that is not in the chain) or "gc" (PeerManager, two blocks, and    *)
(* blacklisting off).                                                      *)
(***************************************************************************)
EXTENDS Naturals, TLC

CONSTANTS p1, p2, p3, w1, h1, h2, v1, c1, None

VARIABLE part
VARIABLES peersList, statuses, items, after, fired, activeCount, hasPeer, chClosed, panicked, waiter, wch
VARIABLES pools, obj, nodes, blacklistedHashes, blocked, head, initialHeight, storeFrom, proc, gc, wasNode, vouched

Pool == INSTANCE PeerPool WITH
    Peers <- {p1, p2, p3}, Waiters <- {w1}, TTL <- 2, CleanupThreshold <- 2, MaxFired <- 2, NoTimer <- None

Manager == INSTANCE PeerManager WITH
    Peers <- {p1}, Hashes <- {h1, h2}, ChainHeight <- (h1 :> 1 @@ h2 :> 0), MaxHeight <- 1,
    StoredPools <- 0, EnableBlackListing <- TRUE, MaxObjects <- 4, Validators <- {v1}, Clients <- {c1}

Collect == INSTANCE PeerManager WITH
    Peers <- {p1}, Hashes <- {h1, h2}, ChainHeight <- (h1 :> 1 @@ h2 :> 2), MaxHeight <- 2,
    StoredPools <- 0, EnableBlackListing <- FALSE, MaxObjects <- 4, Validators <- {v1}, Clients <- {}

poolVars == <<peersList, statuses, items, after, fired, activeCount, hasPeer, chClosed, panicked,
              waiter, wch>>
managerVars == <<pools, obj, nodes, blacklistedHashes, blocked, head, initialHeight, storeFrom, proc,
                 gc, wasNode, vouched>>
vars == <<part, poolVars, managerVars>>

Init ==
    /\ part \in {"pool", "manager", "gc"}
    /\ Pool!Init
    /\ IF part = "gc" THEN Collect!Init ELSE Manager!Init

Next ==
    \/ part = "pool" /\ Pool!Next /\ UNCHANGED <<part, managerVars>>
    \/ part = "manager" /\ Manager!Next /\ UNCHANGED <<part, poolVars>>
    \/ part = "gc" /\ Collect!Next /\ UNCHANGED <<part, poolVars>>

Spec == Init /\ [][Next]_vars

-----------------------------------------------------------------------------
(***************************************************************************)
(* The components' properties, each for the instances it is about.         *)
(***************************************************************************)

\* The pool of a hash: every variable has its type; the list, the statuses and the count of
\* active peers agree; the timed queue holds exactly the peers on cooldown, oldest first, and a timer is armed for
\* the first of them; the waiters' channel is closed exactly while there are active peers,
\* is never closed twice, and nobody waits on one that was dropped.  The manager: a peer that
\* announced a hash becomes a node when the hash is validated, in whatever order Validate and
\* validatedPool pass one another, and only peers that discovery found, or that announced a
\* hash of the chain, become nodes.
PeersSound ==
    /\ part = "pool" => /\ Pool!TypeOK /\ Pool!PoolConsistent /\ Pool!CooldownConsistent /\ Pool!TimerArmed
                        /\ Pool!ChannelMatchesPool /\ Pool!NoWaiterForgotten
    /\ part = "manager" => Manager!TypeOK /\ Manager!NoPeerForgotten /\ Manager!NodesAreVouchedFor

\* A peer on cooldown becomes active again unless it is removed, and a caller of next that
\* waits while a peer stays active gets a peer; and pools of old heights do not pile up:
\* each leaves the map in the end.
PeersProgress ==
    /\ part = "pool" /\ Pool!Fairness => Pool!CooldownEnds /\ Pool!WaiterServed
    /\ part = "gc" /\ Collect!Fairness => Collect!OldPoolsCollected

=============================================================================
