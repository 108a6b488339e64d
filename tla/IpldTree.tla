-------------------------------- MODULE IpldTree --------------------------------
(***************************************************************************)
(* share/ipld: walking the namespaced Merkle tree of a row (or a column)   *)
(* with concurrent workers: GetLeaves collects all its leaves,             *)
(* CollectLeavesByNamespace those of a namespace with their proof.         *)
(*                                                                         *)
(* A node is its depth and its position there, from the left.  The main    *)
(* loop takes jobs from a channel and submits each to the pool; a worker   *)
(* fetches the node, and then records the leaf or sends one job per child. *)
(* The bounds are two atomics that are updated one after the other.  Which *)
(* nodes the block getter fails to return is chosen initially.             *)
(***************************************************************************)
EXTENDS Integers, Sequences, FiniteSets, SequencesExt

CONSTANTS
    Depth,      \* of the tree, which has 2^Depth leaves
    Rows,       \* sequences of the leaves' namespaces, in order
    Parity,     \* the namespace of parity shares
    Targets,    \* namespaces to collect
    Losses      \* sets of nodes, one of which cannot be fetched

VARIABLES
    call,       \* "leaves" (GetLeaves) or "namespace" (CollectLeavesByNamespace)
    row, target, missing,
    main,       \* the caller: "loop", "wait" or its outcome: "ok", "error", "cancelled" or "outside"
    ctx,        \* "alive" or "done"
    jobs,       \* the channel of jobs
    closed,     \* it is closed
    panicked,   \* a job was sent to, or a close made of, a closed channel
    counter,    \* chanGroup.counter, or the sync.WaitGroup
    loops,      \* iterations of GetLeaves that are left
    working,    \* jobs the workers are at, with what they have to do next
    failed,     \* retrievalErr
    low, high,  \* fetchedBounds
    leaves,     \* positions whose leaf was recorded
    left, right,\* proofCollector: the node at each depth
    absent,     \* isAbsentNamespace
    absenceLeaf \* position of absenceProofLeaf

vars == <<call, row, target, missing, main, ctx, jobs, closed, panicked, counter, loops, working,
          failed, low, high, leaves, left, right, absent, absenceLeaf>>
tree == <<call, row, target, missing>>
found == <<low, high, leaves, left, right, absent, absenceLeaf>>

-----------------------------------------------------------------------------
(***************************************************************************)
(* The tree.                                                               *)
(***************************************************************************)

maxShares == 2^Depth
Root == <<0, 0>>
Leaf(p) == <<Depth, p>>
None == <<-1, -1>>
Child(nd, i) == <<nd[1] + 1, 2 * nd[2] + i>>

\* The first leaf under a node, and all of them.
FirstUnder(nd) == nd[2] * 2^(Depth - nd[1])
Under(nd) == FirstUnder(nd)..(FirstUnder(nd) + 2^(Depth - nd[1]) - 1)
Namespaces(nd) == {row[p + 1] : p \in Under(nd)}

\* The namespace range of a node. Parity is ignored unless there is nothing else.
MinNs(nd) == CHOOSE n \in Namespaces(nd) : \A m \in Namespaces(nd) : n <= m
MaxNs(nd) ==
    LET data == Namespaces(nd) \ {Parity} IN
    IF data = {} THEN Parity ELSE CHOOSE n \in data : \A m \in data : n >= m

IsBelowMin(n, nd) == n < MinNs(nd)
IsAboveMax(n, nd) == n > MaxNs(nd)
IsOutsideRange(n, l, r) == IsBelowMin(n, l) \/ IsAboveMax(n, r)

-----------------------------------------------------------------------------
(***************************************************************************)
(* Walks to one leaf.                                                      *)
(***************************************************************************)

\* GetLeaf: the node that the walk ends at.
RECURSIVE getLeaf(_, _, _)
getLeaf(nd, leaf, total) ==
    IF nd[1] = Depth THEN nd
    ELSE IF leaf < total \div 2 THEN getLeaf(Child(nd, 0), leaf, total \div 2)
    ELSE getLeaf(Child(nd, 1), leaf - total \div 2, total \div 2)

\* getProof: the sibling on the right is appended before the walk goes on, the one on the
\* left after it has come back.
RECURSIVE getProof(_, _, _, _)
getProof(nd, proof, leaf, total) ==
    IF nd[1] = Depth THEN proof
    ELSE IF leaf < total \div 2
         THEN getProof(Child(nd, 0), Append(proof, Child(nd, 1)), leaf, total \div 2)
    ELSE Append(getProof(Child(nd, 1), proof, leaf - total \div 2, total \div 2), Child(nd, 0))

GetProof(leaf) == Reverse(getProof(Root, <<>>, leaf, maxShares))

-----------------------------------------------------------------------------
(***************************************************************************)
(* Calls, the main loop and the workers.                                   *)
(***************************************************************************)

Job(nd, isAbsent) == [nd |-> nd, isAbsent |-> isAbsent]
At(j, do, next) == [job |-> j, do |-> do, next |-> next]

\* The call starts with a job for the root, unless the namespace is not in its range.
Init ==
    /\ call \in {"leaves", "namespace"}
    /\ row \in (IF call = "leaves" THEN {CHOOSE r \in Rows : TRUE} ELSE Rows)
    /\ target \in Targets /\ missing \in Losses
    /\ main = IF call = "namespace" /\ IsOutsideRange(target, Root, Root) THEN "outside" ELSE "loop"
    /\ ctx = "alive" /\ jobs = <<Job(Root, FALSE)>> /\ closed = FALSE /\ panicked = FALSE
    /\ counter = (IF call = "leaves" THEN 2 * maxShares - 1 ELSE 1)
    /\ loops = 2 * maxShares - 1
    /\ working = {} /\ failed = FALSE
    /\ low = maxShares /\ high = 0 /\ leaves = {} /\ absent = FALSE /\ absenceLeaf = -1
    /\ left = [d \in 0..Depth |-> None] /\ right = [d \in 0..Depth |-> None]

\* A job goes to the pool. GetLeaves stops taking jobs when it has taken one per node.
submit ==
    /\ main = "loop" /\ jobs # <<>>
    /\ working' = working \cup {At(Head(jobs), "fetch", <<>>)} /\ jobs' = Tail(jobs)
    /\ loops' = IF call = "leaves" THEN loops - 1 ELSE loops
    /\ main' = IF call = "leaves" /\ loops = 1 THEN "wait" ELSE "loop"
    /\ UNCHANGED <<tree, ctx, closed, panicked, counter, failed, found>>

\* The channel is closed, the group is done, or the context.
return ==
    /\ \/ main = "loop" /\ call = "namespace" /\ jobs = <<>> /\ closed /\ main' = (IF failed THEN "error" ELSE "ok")
       \/ main = "wait" /\ counter = 0 /\ main' = "ok"
       \/ main = "loop" /\ ctx = "done" /\ main' = "cancelled"
    /\ UNCHANGED <<tree, ctx, jobs, closed, panicked, counter, loops, working, failed, found>>

cancel ==
    /\ ctx = "alive" /\ main \in {"loop", "wait"} /\ ctx' = "done"
    /\ UNCHANGED <<tree, main, jobs, closed, panicked, counter, loops, working, failed, found>>

Continues(w, do, next) == working' = (working \ {w}) \cup {At(w.job, do, next)}

\* chanGroup.done closes the channel when the last job is done; GetLeaves only counts.
done(w) ==
    /\ w.do = "done" /\ working' = working \ {w} /\ counter' = counter - 1
    /\ closed' = (closed \/ (call = "namespace" /\ counter = 1))
    /\ panicked' = (panicked \/ (call = "namespace" /\ counter = 1 /\ closed))
    /\ UNCHANGED <<tree, main, ctx, jobs, loops, failed, found>>

\* The nodes for the next jobs under the node of a job, and what becomes of the proof.
\* Next to the path to the namespace lie the nodes that prove it.
collectNDWithProofs(nd) ==
    LET l == Child(nd, 0) r == Child(nd, 1)
        above == IsAboveMax(target, l) below == IsBelowMin(target, r) IN
    [jobs |-> (IF above THEN <<>> ELSE <<Job(l, FALSE)>>)
              \o (IF above /\ below THEN <<Job(r, TRUE)>> ELSE IF below THEN <<>> ELSE <<Job(r, FALSE)>>),
     left |-> IF above THEN l ELSE None,
     right |-> IF below /\ ~above THEN r ELSE None,
     absent |-> above /\ below]

\* Only the first leaf under the node is wanted.
collectAbsenceProofs(nd) ==
    [jobs |-> <<Job(Child(nd, 0), TRUE)>>, left |-> None, right |-> Child(nd, 1), absent |-> FALSE]

traverseLinks(j) == IF j.isAbsent THEN collectAbsenceProofs(j.nd) ELSE collectNDWithProofs(j.nd)

Put(proofs, d, nd) == IF nd = None THEN proofs ELSE [proofs EXCEPT ![d] = nd]

\* The getter fails, surely once the context is done: GetLeaves drops the node, the
\* collector remembers the error, and its bounds still take the position.
fetchFails(w) ==
    /\ w.do = "fetch" /\ (w.job.nd \in missing \/ ctx = "done")
    /\ IF call = "leaves" THEN Continues(w, "done", <<>>) /\ UNCHANGED failed
       ELSE Continues(w, "low", <<>>) /\ failed' = TRUE
    /\ UNCHANGED <<tree, main, ctx, jobs, closed, panicked, counter, loops, found>>

fetchLeaf(w) ==
    /\ w.do = "fetch" /\ w.job.nd[1] = Depth /\ w.job.nd \notin missing
    /\ IF call = "leaves" THEN Continues(w, "done", <<>>) /\ leaves' = leaves \cup {w.job.nd[2]}
       ELSE Continues(w, "low", <<w.job>>) /\ UNCHANGED leaves
    /\ UNCHANGED <<tree, main, ctx, jobs, closed, panicked, counter, loops, failed, low, high, left, right,
                   absent, absenceLeaf>>

fetchInner(w) ==
    LET nd == w.job.nd next == traverseLinks(w.job) IN
    /\ w.do = "fetch" /\ nd[1] < Depth /\ nd \notin missing
    /\ IF call = "leaves"
       THEN /\ Continues(w, "send", <<Job(Child(nd, 0), FALSE), Job(Child(nd, 1), FALSE)>>)
            /\ UNCHANGED <<left, right, absent>>
       ELSE /\ Continues(w, "add", next.jobs)
            /\ left' = Put(left, nd[1], next.left) /\ right' = Put(right, nd[1], next.right)
            /\ absent' = (absent \/ next.absent)
    /\ UNCHANGED <<tree, main, ctx, jobs, closed, panicked, counter, loops, failed, low, high, leaves, absenceLeaf>>

\* addLeaf: the bounds, lowest first, then the leaf.
addLeaf(w) ==
    LET p == w.job.nd[2] IN
    /\ \/ /\ w.do = "low" /\ Continues(w, "high", w.next)
          /\ low' = (IF p < low THEN p ELSE low) /\ UNCHANGED <<high, leaves, absenceLeaf>>
       \/ /\ w.do = "high" /\ Continues(w, "leaf", w.next)
          /\ high' = (IF p > high THEN p ELSE high) /\ UNCHANGED <<low, leaves, absenceLeaf>>
       \/ /\ w.do = "leaf" /\ Continues(w, "done", <<>>)
          /\ absenceLeaf' = (IF absent /\ w.next # <<>> THEN p ELSE absenceLeaf)
          /\ leaves' = (IF absent \/ w.next = <<>> THEN leaves ELSE leaves \cup {p})
          /\ UNCHANGED <<low, high>>
    /\ UNCHANGED <<tree, main, ctx, jobs, closed, panicked, counter, loops, failed, left, right, absent>>

\* chanGroup.add, before each job is sent.
add_Wrong(w) ==
    /\ w.do = "add" /\ Continues(w, "send", w.next)
    /\ UNCHANGED <<tree, main, ctx, jobs, closed, panicked, counter, loops, failed, found>>

add(w) ==
    /\ w.do = "add" /\ Continues(w, "send", w.next)
    /\ counter' = counter + 1
    /\ UNCHANGED <<tree, main, ctx, jobs, closed, panicked, loops, failed, found>>

\* The jobs are sent one by one, as the channel has room, unless the context is done.
send(w) ==
    /\ w.do = "send"
    /\ \/ /\ Len(jobs) < (maxShares + 1) \div 2
          /\ jobs' = Append(jobs, Head(w.next)) /\ panicked' = (panicked \/ closed)
          /\ IF Len(w.next) = 1 THEN Continues(w, "done", <<>>)
             ELSE Continues(w, IF call = "leaves" THEN "send" ELSE "add", Tail(w.next))
       \/ ctx = "done" /\ Continues(w, "done", <<>>) /\ UNCHANGED <<jobs, panicked>>
    /\ UNCHANGED <<tree, main, ctx, closed, counter, loops, failed, found>>

Next ==
    \/ submit \/ return \/ cancel
    \/ \E w \in working :
        fetchFails(w) \/ fetchLeaf(w) \/ fetchInner(w) \/ addLeaf(w) \/ add(w) \/ send(w) \/ done(w)

-----------------------------------------------------------------------------
(***************************************************************************)
(* What is to be found.                                                    *)
(***************************************************************************)

\* proofCollector.Nodes, in the order in which the tree is traversed.
Nodes == SelectSeq([d \in 1..(Depth + 1) |-> left[d - 1]], LAMBDA nd : nd # None)
         \o Reverse(SelectSeq([d \in 1..(Depth + 1) |-> right[d - 1]], LAMBDA nd : nd # None))

\* The leaves within the bounds.
Leaves == IF low = maxShares \/ absent THEN {} ELSE leaves \cap (low..high)

\* The largest subtrees outside a range of leaves, from the left to the right.
AllNodes == UNION {{<<d, p>> : p \in 0..(2^d - 1)} : d \in 0..Depth}
Outside(lo, hi) ==
    {nd \in AllNodes \ {Root} :
        /\ Under(nd) \cap (lo..hi) = {}
        /\ Under(<<nd[1] - 1, nd[2] \div 2>>) \cap (lo..hi) # {}}
Canonical(lo, hi) == SetToSortSeq(Outside(lo, hi), LAMBDA a, b : FirstUnder(a) < FirstUnder(b))

\* Positions of the namespace, and of the first leaf above it.
Wanted == {p \in 0..(maxShares - 1) : row[p + 1] = target}
Above == {p \in 0..(maxShares - 1) : row[p + 1] > target}
FirstAbove == CHOOSE p \in Above : \A q \in Above : p <= q

\* Whatever the order in which the workers fetch the nodes and update what they share,
\* CollectLeavesByNamespace returns without an error exactly the leaves of the namespace
\* with the proof for their range, or, if there are none, the proof for the first leaf
\* above it; and it misses no node without an error.
CollectedExact ==
    main = "ok" /\ call = "namespace" =>
        /\ Wanted # {} => Leaves = Wanted /\ ~absent /\ Nodes = Canonical(low, high)
                         /\ low = (CHOOSE p \in Wanted : \A q \in Wanted : p <= q)
                         /\ high = low + Cardinality(Wanted) - 1
        /\ Wanted = {} => absent /\ Leaves = {} /\ absenceLeaf = FirstAbove /\ low = FirstAbove
                         /\ high = FirstAbove /\ Nodes = Canonical(low, high)

\* Unless the context is done, GetLeaves returns only with all leaves that can be fetched,
\* and not at all if an inner node cannot.
LeavesComplete ==
    main = "ok" /\ call = "leaves" /\ ctx = "alive" =>
        leaves = {p \in 0..(maxShares - 1) : Leaf(p) \notin missing} /\ \A nd \in missing : nd[1] = Depth

\* The channel of jobs is closed once, when no worker is left that would send to it.
ClosedOnce == ~panicked /\ (closed => working = {} /\ jobs = <<>>)

\* GetProof gives the nodes next to the path of the leaf that GetLeaf finds, in order.
WalksExact ==
    \A p \in 0..(maxShares - 1) :
        getLeaf(Root, p, maxShares) = Leaf(p) /\ GetProof(p) = Canonical(p, p)

=============================================================================
