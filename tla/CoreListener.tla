---------------------------- MODULE CoreListener ----------------------------
(***************************************************************************)
(* A bridge node's listener (core/listener.go) on several consensus nodes  *)
(* (core/multisource.go, core/fetcher.go): each source announces heights   *)
(* on a stream that may break and be renewed, the streams are merged into  *)
(* one channel, and the listener fetches, stores and broadcasts each       *)
(* announced block once, whichever source is first.  The header exchange   *)
(* stores blocks next to it.                                               *)
(*                                                                         *)
(* Time is the height of the chain: a block is inside the availability     *)
(* window while it is one of the Window newest.  The consensus nodes and   *)
(* the pubsub are external.                                                *)
(*                                                                         *)
(* A definition X_Wrong in front of X is a faulty variant of it, used to   *)
(* see that the properties notice the fault.                               *)
(***************************************************************************)
EXTENDS Integers, Sequences, FiniteSets

CONSTANTS
    Sources,      \* endpoints of consensus nodes
    NoSource,
    Good,         \* the ones that are up, synced and on the right chain all the time
    MaxHeight,    \* bound
    Capacity,     \* events of a source that wait for the listener
    Window,       \* blocks inside the availability window
    Archival,     \* BOOLEAN
    Exchanging,   \* BOOLEAN: the header exchange stores blocks as well
    Faults,       \* BOOLEAN: the store and the pubsub may fail, the process may crash
    MaxStarts     \* bound

ASSUME HeightAssumption == MaxHeight \in Nat \ {0} /\ Window \in Nat /\ Capacity \in Nat

BlockHeights == 1..MaxHeight
Event == [height : BlockHeights, addr : Sources]
NoEvent == [height |-> 0, addr |-> NoSource]

VARIABLES
    head,        \* the chain's height
    chain,       \* the network each source is on: "ours" or "other"
    pos,         \* the last height each source has announced on its stream
    subscribed,  \* the sources with a stream
    ch,          \* events of each source in its channel and in the merged one
    running,     \* the sources whose forwarding goroutine runs
    lpc,         \* where the listener is
    ev,          \* the event it handles
    foreign,     \* the block it has fetched is of another chain
    syncing,     \* the source it has it from is catching up
    ctxDone,
    store,       \* the block stored for each height: "none", "ours" or "other"
    hashed,      \* heights whose data hash was announced to the network
    published,   \* how often the header of each height was published
    mine,        \* history: heights stored by the listener
    heard,       \* history: heights announced by a good source to a running listener
    starts

sourceVars == <<head, chain, pos, subscribed>>
fanVars == <<ch, running>>
lisVars == <<lpc, ev, foreign, syncing, ctxDone>>
vars == <<head, chain, pos, subscribed, ch, running, lpc, ev, foreign, syncing, ctxDone, store, hashed, published, mine, heard, starts>>

IsWithinWindow(h) == head - h < Window
Kept(h) == Archival \/ IsWithinWindow(h)

-----------------------------------------------------------------------------
(***************************************************************************)
(* The consensus nodes.                                                    *)
(***************************************************************************)
produce ==
    /\ head < MaxHeight /\ head' = head + 1
    /\ UNCHANGED <<chain, pos, subscribed, store, hashed, published, mine, heard, starts>>
    /\ UNCHANGED fanVars /\ UNCHANGED lisVars

\* The endpoint is taken over by a node of another network.
redirect(s) ==
    /\ s \notin Good /\ chain[s] = "ours"
    /\ chain' = [chain EXCEPT ![s] = "other"]
    /\ UNCHANGED <<head, pos, subscribed, store, hashed, published, mine, heard, starts>>
    /\ UNCHANGED fanVars /\ UNCHANGED lisVars

\* SubscribeNewHeights: from the head on, or from where a node catches up.
subscribe(s) ==
    /\ s \in running \ subscribed /\ ~ctxDone
    /\ subscribed' = subscribed \cup {s}
    /\ \E p \in 0..head : (s \in Good => p = head) /\ pos' = [pos EXCEPT ![s] = p]
    /\ UNCHANGED <<head, chain, store, hashed, published, mine, heard, starts>>
    /\ UNCHANGED fanVars /\ UNCHANGED lisVars

\* The stream fails: heights announced until it is renewed are missed.
streamFails(s) ==
    /\ s \in subscribed \ Good
    /\ subscribed' = subscribed \ {s} /\ pos' = [pos EXCEPT ![s] = 0]
    /\ UNCHANGED <<head, chain, store, hashed, published, mine, heard, starts>>
    /\ UNCHANGED fanVars /\ UNCHANGED lisVars

\* receive and subscribe: the next height goes to the source's channel and on to the
\* merged one, as long as there is room.
receive(s) ==
    /\ s \in subscribed /\ pos[s] < head /\ Len(ch[s]) < Capacity
    /\ pos' = [pos EXCEPT ![s] = pos[s] + 1]
    /\ ch' = [ch EXCEPT ![s] = Append(ch[s], pos[s] + 1)]
    /\ heard' = IF s \in Good THEN heard \cup {pos[s] + 1} ELSE heard
    /\ UNCHANGED <<head, chain, subscribed, running, store, hashed, published, mine, starts>>
    /\ UNCHANGED lisVars

forwardExit_Wrong(s) ==
    /\ s \in running /\ ctxDone /\ ch[s] = <<>>
    /\ running' = running \ {s} /\ subscribed' = subscribed \ {s}
    /\ pos' = [pos EXCEPT ![s] = 0] /\ ch' = [ch EXCEPT ![s] = <<>>]
    /\ UNCHANGED <<head, chain, store, hashed, published, mine, heard, starts>>
    /\ UNCHANGED lisVars

\* The goroutines of a source end with the context, also while they wait to send.
forwardExit(s) ==
    /\ s \in running /\ ctxDone
    /\ running' = running \ {s} /\ subscribed' = subscribed \ {s}
    /\ pos' = [pos EXCEPT ![s] = 0] /\ ch' = [ch EXCEPT ![s] = <<>>]
    /\ UNCHANGED <<head, chain, store, hashed, published, mine, heard, starts>>
    /\ UNCHANGED lisVars

-----------------------------------------------------------------------------
(***************************************************************************)
(* Listener.                                                               *)
(***************************************************************************)

\* Start: Verify keeps the sources that confirm the chain, and fails without any.
Verified(K) == K # {} /\ Good \subseteq K /\ \A s \in K : chain[s] = "ours"

Start ==
    /\ lpc = "off" /\ running = {} /\ starts < MaxStarts
    /\ \E K \in SUBSET Sources : Verified(K) /\ running' = K
    /\ lpc' = "select" /\ ctxDone' = FALSE
    /\ ch' = [s \in Sources |-> <<>>] /\ starts' = starts + 1
    /\ UNCHANGED <<ev, foreign, syncing, store, hashed, published, mine, heard>>
    /\ UNCHANGED sourceVars

Stop ==
    /\ lpc # "off" /\ ~ctxDone
    /\ ctxDone' = TRUE
    /\ UNCHANGED <<lpc, ev, foreign, syncing, store, hashed, published, mine, heard, starts>>
    /\ UNCHANGED sourceVars /\ UNCHANGED fanVars

\* listen: an event, or the end of the context or of the channel.
next(s) ==
    /\ lpc = "select" /\ s \in running /\ ch[s] # <<>>
    /\ ev' = [height |-> Head(ch[s]), addr |-> s] /\ ch' = [ch EXCEPT ![s] = Tail(ch[s])] /\ lpc' = "has"
    /\ UNCHANGED <<running, foreign, syncing, ctxDone, store, hashed, published, mine, heard, starts>>
    /\ UNCHANGED sourceVars

exit ==
    /\ lpc = "select" /\ ctxDone
    /\ lpc' = "off"
    /\ UNCHANGED <<ev, foreign, syncing, ctxDone, store, hashed, published, mine, heard, starts>>
    /\ UNCHANGED sourceVars /\ UNCHANGED fanVars

\* The listener alone moves on to a step, or back to its select.
Goto(where) ==
    /\ lpc' = where
    /\ UNCHANGED <<ctxDone, heard, starts>>
    /\ UNCHANGED sourceVars /\ UNCHANGED fanVars
Drop == Goto("select") /\ ev' = NoEvent /\ foreign' = FALSE /\ syncing' = FALSE

hasByHeight_Wrong ==
    /\ lpc = "has"
    /\ Goto("fetch") /\ UNCHANGED <<ev, foreign, syncing>>
    /\ UNCHANGED <<store, hashed, published, mine>>

\* handleNewBlockEvent: the dedup gate.
hasByHeight ==
    /\ lpc = "has"
    /\ \/ (store[ev.height] # "none" \/ Faults) /\ Drop
       \/ store[ev.height] = "none" /\ Goto("fetch") /\ UNCHANGED <<ev, foreign, syncing>>
    /\ UNCHANGED <<store, hashed, published, mine>>

\* The source that announced the height, and no other, is asked for the block and
\* whether it is catching up; a good one fails only when the context ends.
MayFail == IF ev.addr \notin Good \/ ctxDone THEN {"err"} ELSE {}
GetSignedBlockFrom == {chain[ev.addr]} \cup MayFail
IsSyncingFrom == (IF ev.addr \in Good THEN {"synced"} ELSE {"synced", "syncing"}) \cup MayFail

\* handleNewBlockEvent: the block, unless it is historic, and the source's state.
fetch ==
    /\ lpc = "fetch"
    /\ \E b \in GetSignedBlockFrom, st \in IsSyncingFrom :
         \/ "err" \in {b, st} /\ Drop
         \/ ~Kept(ev.height) /\ Drop
         \/ /\ "err" \notin {b, st} /\ Kept(ev.height)
            /\ Goto("store") /\ foreign' = (b = "other") /\ syncing' = (st = "syncing") /\ UNCHANGED ev
    /\ UNCHANGED <<store, hashed, published, mine>>

\* handleNewSignedBlock: the block, whose header names our chain, is stored if it is still
\* inside the window.
FetchedBlock == IF foreign THEN "other" ELSE "ours"
storeEDS ==
    /\ lpc = "store" /\ ~foreign
    /\ \/ /\ Goto("hash") /\ UNCHANGED <<ev, foreign, syncing>>
          /\ IF Kept(ev.height)
             THEN store' = [store EXCEPT ![ev.height] = FetchedBlock] /\ mine' = mine \cup {ev.height}
             ELSE UNCHANGED <<store, mine>>
       \/ Faults /\ Drop /\ UNCHANGED <<store, mine>>
    /\ UNCHANGED <<hashed, published>>

\* The data hash goes to the network unless the source is catching up; a failure is logged.
hashBroadcaster ==
    /\ lpc = "hash"
    /\ Goto("header") /\ UNCHANGED <<ev, foreign, syncing>>
    /\ \/ ~syncing /\ hashed' = hashed \cup {ev.height}
       \/ (syncing \/ Faults \/ ctxDone) /\ UNCHANGED hashed
    /\ UNCHANGED <<store, published, mine>>

\* So does the header, or it is published to local subscribers only.
headerBroadcaster ==
    /\ lpc = "header"
    /\ Drop
    /\ \/ published' = [published EXCEPT ![ev.height] = published[ev.height] + 1]
       \/ (Faults \/ ctxDone) /\ UNCHANGED published
    /\ UNCHANGED <<store, hashed, mine>>

\* The process ends: a block of another chain panics, or it crashes.
crash ==
    /\ lpc # "off" /\ (Faults \/ (lpc = "store" /\ foreign))
    /\ lpc' = "off" /\ ev' = NoEvent /\ foreign' = FALSE /\ syncing' = FALSE /\ ctxDone' = FALSE
    /\ running' = {} /\ subscribed' = {} /\ ch' = [s \in Sources |-> <<>>]
    /\ pos' = [s \in Sources |-> 0]
    /\ UNCHANGED <<head, chain, store, hashed, published, mine, heard, starts>>

-----------------------------------------------------------------------------
\* Exchange.getExtendedHeaderByHeight, called by the header syncer.
exchangeStore(h) ==
    /\ Exchanging /\ h <= head /\ Kept(h) /\ store[h] = "none"
    /\ store' = [store EXCEPT ![h] = "ours"]
    /\ UNCHANGED <<hashed, published, mine, heard, starts>>
    /\ UNCHANGED sourceVars /\ UNCHANGED fanVars /\ UNCHANGED lisVars

Init ==
    /\ head = 1 /\ chain \in [Sources -> {"ours", "other"}] /\ (\A s \in Good : chain[s] = "ours")
    /\ pos = [s \in Sources |-> 0] /\ subscribed = {}
    /\ ch = [s \in Sources |-> <<>>] /\ running = {}
    /\ lpc = "off" /\ ev = NoEvent /\ foreign = FALSE /\ syncing = FALSE /\ ctxDone = FALSE
    /\ store = [h \in BlockHeights |-> "none"] /\ hashed = {} /\ published = [h \in BlockHeights |-> 0]
    /\ mine = {} /\ heard = {} /\ starts = 0

Handle == hasByHeight \/ fetch \/ storeEDS \/ hashBroadcaster \/ headerBroadcaster

Next ==
    \/ produce
    \/ \E s \in Sources : redirect(s) \/ subscribe(s) \/ streamFails(s) \/ receive(s) \/ next(s) \/ forwardExit(s)
    \/ Start \/ Stop \/ exit \/ Handle \/ crash
    \/ \E h \in BlockHeights : exchangeStore(h)

Spec == Init /\ [][Next]_vars

\* The listener and the goroutines of the sources run on; events of all sources
\* pass through one queue, so each has its turn; a select
\* that is entered again and again with the context done takes that case in the end.
Fairness ==
    /\ WF_vars(Handle) /\ SF_vars(exit) /\ WF_vars(crash /\ foreign)
    /\ \A s \in Sources : SF_vars(next(s)) /\ WF_vars(forwardExit(s))

-----------------------------------------------------------------------------
(***************************************************************************)
(* Properties.                                                             *)
(***************************************************************************)

\* Every variable has its type; the channels keep to their capacity.
TypeOK ==
    /\ head \in BlockHeights /\ chain \in [Sources -> {"ours", "other"}] /\ pos \in [Sources -> 0..MaxHeight]
    /\ subscribed \subseteq running /\ running \subseteq Sources
    /\ ch \in [Sources -> Seq(BlockHeights)] /\ \A s \in Sources : Len(ch[s]) <= Capacity
    /\ lpc \in {"off", "select", "has", "fetch", "store", "hash", "header"}
    /\ ev \in Event \cup {NoEvent} /\ {foreign, syncing, ctxDone} \subseteq BOOLEAN
    /\ store \in [BlockHeights -> {"none", "ours", "other"}]
    /\ hashed \subseteq BlockHeights /\ published \in [BlockHeights -> Nat]

\* However many sources announce a height, in whatever order and with whatever
\* restarts in between, its header is published at most once.
PublishedOnce == \A h \in BlockHeights : published[h] <= 1

\* The network is told only of blocks that can then be served.
AnnouncedIsStored == \A h \in hashed : Kept(h) => store[h] = "ours"

\* No block of another chain is stored, also when an endpoint changes hands after
\* it was verified.
NoForeignBlocks == \A h \in BlockHeights : store[h] # "other"

\* However many sources announce a height, in whatever order and with whatever restarts
\* in between, its header is published at most once, and the network is told only of
\* blocks that can then be served; and no block of another chain is stored, also when an
\* endpoint changes hands after it was verified.
AnnouncementsSound == PublishedOnce /\ AnnouncedIsStored /\ NoForeignBlocks

\* A source that fails, lags or runs ahead does not keep a block from being stored
\* that a good source has announced.
GoodSourceSuffices ==
    \A h \in BlockHeights : (h \in heard /\ lpc # "off") ~> (store[h] # "none" \/ ~Kept(h) \/ ctxDone \/ lpc = "off")

\* After Stop the listener and all goroutines of the fan-in end, also the ones that
\* wait to send to a listener that no longer receives.
StopEnds == ctxDone ~> (lpc = "off" /\ running = {})

\* As "any failure below returns without storing so another source's announcement
\* retries the height": a block the listener has stored and is done with was published.
FailureRetried ==
    lpc # "off" /\ ~ctxDone => \A h \in mine : ev.height # h /\ Kept(h) => published[h] > 0

-----------------------------------------------------------------------------
(***************************************************************************)
(* The inductive invariant behind the theorem of CoreProofs.               *)
(***************************************************************************)

\* The block can be served as long as it is to be kept.
Stored(h) == Kept(h) => store[h] = "ours"

\* The block that the listener handles, from its dedup gate to the broadcast of its
\* header, was not published before, unless it is too old to be published now.
HandledIsNew ==
    /\ lpc \notin {"off", "select"} => ev \in Event
    /\ lpc = "fetch" /\ Kept(ev.height) => published[ev.height] = 0
    /\ lpc \in {"store", "hash", "header"} => published[ev.height] = 0
    /\ lpc \in {"hash", "header"} => Stored(ev.height)

IInv ==
    /\ TypeOK
    /\ HandledIsNew
    /\ \A h \in BlockHeights : published[h] # 0 => published[h] = 1 /\ Stored(h)
    /\ \A h \in hashed : Stored(h)
    /\ NoForeignBlocks

=============================================================================
