------------------------------- MODULE PeerPool -------------------------------
(***************************************************************************)
(* A pool of peers (share/shwap/p2p/shrex/peers/pool.go) with its cooldown *)
(* queue (timedqueue.go).  Every operation holds the pool's lock; what     *)
(* runs outside it are the goroutines of next, between a failed tryGet,    *)
(* the read of hasPeerCh and the wait on it, and the timer functions,      *)
(* which may have been started when their timer is stopped.                *)
(*                                                                         *)
(* Time is counted in ticks.  A channel that the pool has replaced can no  *)
(* longer change, so it is enough to know, for each waiting goroutine,     *)
(* whether it holds the pool's current channel, or an older one and        *)
(* whether that one was closed.                                            *)
(*                                                                         *)
(* A definition X_Wrong in front of X is a faulty variant of it, used to   *)
(* see that the properties notice the fault.                               *)
(***************************************************************************)
EXTENDS Integers, Sequences, FiniteSets, SequencesExt

CONSTANTS
    Peers,
    Waiters,            \* goroutines of next
    TTL,                \* peerCooldownTime in ticks
    CleanupThreshold,   \* defaultCleanupThreshold
    MaxFired,           \* bound: timer functions waiting for the lock
    NoTimer

VARIABLES
    peersList,
    statuses,     \* "absent" stands for a peer that is not in the map
    items,        \* the cooldown queue, with the ticks each item still has to stay
    after,        \* ticks until the timer fires
    fired,        \* timer functions that were started and have no lock yet
    activeCount, hasPeer,
    chClosed,     \* hasPeerCh is closed
    panicked,     \* a closed channel was closed again
    waiter, wch   \* where each goroutine of next is, and the channel it holds

queue == <<items, after, fired>>
vars == <<peersList, statuses, queue, activeCount, hasPeer, chClosed, panicked, waiter, wch>>

WithStatus(st) == {p \in Peers : statuses[p] = st}
Known(p) == statuses[p] \in {"active", "cooldown"}

-----------------------------------------------------------------------------
\* timedQueue.schedule for the queue q: the timer follows the first item.
schedule(q) == after' = IF q = <<>> THEN NoTimer ELSE q[1].left

newChannel ==
    /\ chClosed' = FALSE
    /\ wch' = [w \in Waiters |-> IF wch[w] # "current" THEN wch[w]
                                 ELSE IF chClosed THEN "closed" ELSE "dead"]

closeChannel ==
    /\ chClosed' = TRUE /\ panicked' = (panicked \/ chClosed)
    /\ UNCHANGED wch

\* checkHasPeers, once the active peers are n.
checkHasPeers(n) ==
    /\ activeCount' = n
    /\ IF n > 0 /\ ~hasPeer THEN hasPeer' = TRUE /\ closeChannel
       ELSE IF n = 0 /\ hasPeer THEN hasPeer' = FALSE /\ newChannel /\ UNCHANGED panicked
       ELSE UNCHANGED <<hasPeer, chClosed, panicked, wch>>

add(p) ==
    /\ ~Known(p)
    /\ peersList' = IF statuses[p] = "absent" THEN Append(peersList, p) ELSE peersList
    /\ statuses' = [statuses EXCEPT ![p] = "active"]
    /\ checkHasPeers(activeCount + 1)
    /\ UNCHANGED <<queue, waiter>>

dequeue_Wrong(p) ==
    /\ items' = SelectSeq(items, LAMBDA it : it.id # p)
    /\ after' = IF items # <<>> /\ items[1].id = p THEN NoTimer ELSE after
    /\ UNCHANGED fired

\* timedQueue.remove
dequeue(p) ==
    LET rest == SelectSeq(items, LAMBDA it : it.id # p)
    IN  /\ items' = rest
        /\ IF items # <<>> /\ items[1].id = p THEN schedule(rest) ELSE UNCHANGED after
        /\ UNCHANGED fired

\* remove, with the cleanup of removed peers once there are many.
remove(p) ==
    /\ dequeue(p)
    /\ LET n       == activeCount - (IF statuses[p] = "active" THEN 1 ELSE 0)
           marked  == IF Known(p) THEN [statuses EXCEPT ![p] = "removed"] ELSE statuses
           cleanup == Len(peersList) >= n + CleanupThreshold
       IN  /\ statuses' = IF cleanup
                          THEN [q \in Peers |-> IF marked[q] = "removed" THEN "absent" ELSE marked[q]]
                          ELSE marked
           /\ peersList' = IF cleanup
                           THEN SelectSeq(peersList, LAMBDA q : marked[q] # "removed")
                           ELSE peersList
           /\ checkHasPeers(n)
    /\ UNCHANGED waiter

putOnCooldown(p) ==
    /\ statuses[p] = "active"
    /\ items' = Append(items, [id |-> p, left |-> TTL])
    /\ IF Len(items') = 1 THEN schedule(items') ELSE UNCHANGED after
    /\ statuses' = [statuses EXCEPT ![p] = "cooldown"]
    /\ checkHasPeers(activeCount - 1)
    /\ UNCHANGED <<peersList, fired, waiter>>

\* releaseCooldown and timedQueue.releaseExpired: the expired head of the queue.
releaseCooldown ==
    /\ fired > 0
    /\ fired' = fired - 1
    /\ LET n == Cardinality({i \in 1..Len(items) : \A k \in 1..i : items[k].left = 0})
           released == {items[i].id : i \in 1..n}
       IN  /\ items' = SubSeq(items, n + 1, Len(items))
           /\ statuses' = [p \in Peers |-> IF p \in released THEN "active" ELSE statuses[p]]
           /\ schedule(items')
           /\ checkHasPeers(activeCount + n)
    /\ UNCHANGED <<peersList, waiter>>

timerFires ==
    /\ after = 0 /\ fired < MaxFired
    /\ after' = NoTimer
    /\ fired' = fired + 1
    /\ UNCHANGED <<peersList, statuses, items, activeCount, hasPeer, chClosed, panicked, waiter, wch>>

tick ==
    /\ items # <<>> /\ \E i \in 1..Len(items) : items[i].left > 0
    /\ items' = [i \in 1..Len(items) |-> [items[i] EXCEPT !.left = IF @ > 0 THEN @ - 1 ELSE 0]]
    /\ after' = IF after = NoTimer \/ after = 0 THEN after ELSE after - 1
    /\ UNCHANGED <<peersList, statuses, fired, activeCount, hasPeer, chClosed, panicked, waiter, wch>>

-----------------------------------------------------------------------------
(***************************************************************************)
(* A goroutine of next.                                                    *)
(***************************************************************************)

Goto(w, s) == waiter' = [waiter EXCEPT ![w] = s]
poolVars == <<peersList, statuses, queue, activeCount, hasPeer, chClosed, panicked>>

next(w) ==
    /\ waiter[w] = "idle"
    /\ Goto(w, "try")
    /\ UNCHANGED <<poolVars, wch>>

\* tryGet finds an active peer unless there is none; which one depends on chance
\* and on the scores.
Selectable == {p \in ToSet(peersList) : statuses[p] = "active"}

tryGet(w) ==
    /\ waiter[w] = "try"
    /\ Goto(w, IF activeCount # 0 /\ Selectable # {} THEN "got" ELSE "load")
    /\ UNCHANGED <<poolVars, wch>>

loadCh(w) ==
    /\ waiter[w] = "load"
    /\ wch' = [wch EXCEPT ![w] = "current"]
    /\ Goto(w, "wait")
    /\ UNCHANGED poolVars

ChClosed(w) == wch[w] = "closed" \/ (wch[w] = "current" /\ chClosed)

signalled_Wrong(w) ==
    /\ waiter[w] = "wait" /\ ChClosed(w)
    /\ wch' = [wch EXCEPT ![w] = "none"]
    /\ Goto(w, "load")
    /\ UNCHANGED poolVars

signalled(w) ==
    /\ waiter[w] = "wait" /\ ChClosed(w)
    /\ wch' = [wch EXCEPT ![w] = "none"]
    /\ Goto(w, "try")
    /\ UNCHANGED poolVars

\* The caller takes the peer, or its context ends.
leave(w) ==
    /\ waiter[w] \in {"got", "wait"}
    /\ wch' = [wch EXCEPT ![w] = "none"]
    /\ Goto(w, "idle")
    /\ UNCHANGED poolVars

Init ==
    /\ peersList = <<>> /\ statuses = [p \in Peers |-> "absent"]
    /\ items = <<>> /\ after = NoTimer /\ fired = 0
    /\ activeCount = 0 /\ hasPeer = FALSE /\ chClosed = FALSE /\ panicked = FALSE
    /\ waiter = [w \in Waiters |-> "idle"] /\ wch = [w \in Waiters |-> "none"]

Next ==
    \/ \E p \in Peers : add(p) \/ remove(p) \/ putOnCooldown(p)
    \/ releaseCooldown \/ timerFires \/ tick
    \/ \E w \in Waiters : next(w) \/ tryGet(w) \/ loadCh(w) \/ signalled(w) \/ leave(w)

Spec == Init /\ [][Next]_vars

\* Fairness.  Time passes, a timer that is due fires, its function gets the lock,
\* and the goroutines of next run on.
Fairness ==
    /\ WF_vars(tick) /\ WF_vars(timerFires) /\ WF_vars(releaseCooldown)
    /\ \A w \in Waiters : WF_vars(tryGet(w)) /\ WF_vars(loadCh(w)) /\ WF_vars(signalled(w))

-----------------------------------------------------------------------------
(***************************************************************************)
(* Properties.                                                             *)
(***************************************************************************)

\* Every variable has its type.
TypeOK ==
    /\ peersList \in Seq(Peers)
    /\ statuses \in [Peers -> {"absent", "active", "cooldown", "removed"}]
    /\ items \in Seq([id : Peers, left : 0..TTL])
    /\ after \in (0..TTL) \cup {NoTimer} /\ fired \in Nat
    /\ activeCount \in Nat /\ hasPeer \in BOOLEAN /\ chClosed \in BOOLEAN /\ panicked \in BOOLEAN
    /\ waiter \in [Waiters -> {"idle", "try", "load", "wait", "got"}]
    /\ wch \in [Waiters -> {"none", "current", "closed", "dead"}]

\* The count, the statuses and the list never drift apart, whatever the order of
\* additions, removals, cleanups and cooldowns: a peer is listed once and exactly
\* while it has a status, and the active ones are counted exactly.
PoolConsistent ==
    /\ activeCount = Cardinality(WithStatus("active"))
    /\ ToSet(peersList) = Peers \ WithStatus("absent")
    /\ IsInjective(peersList)

\* The queue holds exactly the peers on cooldown, each once, oldest first: a peer
\* that is removed and added again cannot be released by its old entry.
CooldownConsistent ==
    /\ {items[i].id : i \in 1..Len(items)} = WithStatus("cooldown")
    /\ \A i, k \in 1..Len(items) : i < k => items[i].id # items[k].id /\ items[i].left <= items[k].left

\* As long as a peer is on cooldown, a timer set for the first one is running or
\* a timer function is about to release it: no peer stays on cooldown for good.
TimerArmed == items # <<>> => fired > 0 \/ after = items[1].left

\* hasPeerCh is never closed twice, which would panic, and it is closed exactly
\* while there are active peers.
ChannelMatchesPool == ~panicked /\ hasPeer = chClosed /\ (hasPeer <=> activeCount > 0)

\* No goroutine waits on a channel that nobody will ever close.
NoWaiterForgotten == \A w \in Waiters : wch[w] # "dead"

\* A peer on cooldown becomes available again, or is removed.
CooldownEnds == \A p \in Peers : (statuses[p] = "cooldown") ~> (statuses[p] # "cooldown")

\* A caller of next that waits while a peer stays active gets a peer, unless it
\* gives up.
WaiterServed ==
    \A w \in Waiters : <>[](hasPeer /\ waiter[w] # "idle") => <>(waiter[w] = "got")

=============================================================================
