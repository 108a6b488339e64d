----------------------------- MODULE MCProgress -----------------------------
(***************************************************************************)
(* Liveness of the components that retrieve and keep blocks, on small      *)
(* instances.  They share no state, so a behaviour is one of a single      *)
(* instance, picked by part: "cache" (AccessorCache), "light"              *)
(* (LightAvailability, all calls for one height), "listener" (CoreListener *)
(* with a good source and another one), "discovery" (Discovery) and        *)
(* "subscription" (BlobSubscription).  SamplingSpec is safety of           *)
(* LightAvailability alone, on a larger instance: two heights with one     *)
(* data root and a height with the empty block.                            *)
(***************************************************************************)
EXTENDS LightAvailability, TLC

CONSTANTS r1, r2, m1, o1, o2, o3, c1, c2, c3, root, x1, x2, x3, h1, h2, h3, p1, s1, s2, NoSource, Self

VARIABLE part
VARIABLES cache, acc, reader, remover, evicted
VARIABLES head, chain, pos, subscribed, ch, running, lpc, ev, foreign, syncing, ctxDone, store, hashed,
          published, mine, heard, starts
VARIABLES ctx, conn, lost, events, set, backoff, loop, findDone, worker, disc, adv, caller, missed
VARIABLES kind, shead, headerCh, headerEnd, sctx, svc, spc, sheight, blobCh, sclosed, full, received

\* One height, and three of them for SamplingSpec.
MCRoots == h1 :> root
SamplingRoots == h1 :> root @@ h2 :> root @@ h3 :> EmptyRoot
Symmetry == Permutations(Samplers) \cup Permutations(Coords)

Cache == INSTANCE AccessorCache WITH
    Heights <- {1}, Readers <- {r1, r2}, Removers <- {m1}, Objects <- {o1, o2, o3}, CacheSize <- 1,
    Timeouts <- FALSE
Listener == INSTANCE CoreListener WITH
    Sources <- {s1, s2}, Good <- {s1}, MaxHeight <- 2, Capacity <- 1, Window <- 2, Archival <- FALSE,
    Exchanging <- FALSE, Faults <- FALSE, MaxStarts <- 1
Discover == INSTANCE Discovery WITH
    Peers <- {r1}, Offered <- {r1}, advertise <- TRUE, Limit <- 1, Callers <- {}, MaxDisconnects <- 1,
    cache <- backoff
Subscription == INSTANCE BlobSubscription WITH
    Buffer <- 2, Genesis <- 2, MaxHeight <- 5, head <- shead, ctx <- sctx, pc <- spc, height <- sheight,
    closed <- sclosed

cacheVars == <<cache, acc, reader, remover, evicted>>
listenerVars == <<head, chain, pos, subscribed, ch, running, lpc, ev, foreign, syncing, ctxDone, store,
                  hashed, published, mine, heard, starts>>
discoveryVars == <<ctx, conn, lost, events, set, backoff, loop, findDone, worker, disc, adv, caller, missed>>
subscriptionVars == <<kind, shead, headerCh, headerEnd, sctx, svc, spc, sheight, blobCh, sclosed, full,
                      received>>
others == <<part, cacheVars, listenerVars, discoveryVars, subscriptionVars>>
allVars == <<others, vars>>

\* The components that do not move are in one initial state.
MCInit ==
    /\ part \in {"cache", "light", "listener", "discovery", "subscription"}
    /\ part = "listener" \/ chain = [s \in {s1, s2} |-> "ours"]
    /\ part = "subscription" \/ kind = "Subscribe"
    /\ Cache!Init /\ Init /\ Listener!Init /\ Discover!Init /\ Subscription!Init

MCNext ==
    \/ /\ part = "cache" /\ Cache!Next
       /\ UNCHANGED <<part, vars, listenerVars, discoveryVars, subscriptionVars>>
    \/ /\ part = "light" /\ Next
       /\ UNCHANGED <<part, cacheVars, listenerVars, discoveryVars, subscriptionVars>>
    \/ /\ part = "listener" /\ Listener!Next
       /\ UNCHANGED <<part, cacheVars, vars, discoveryVars, subscriptionVars>>
    \/ /\ part = "discovery" /\ Discover!Next
       /\ UNCHANGED <<part, cacheVars, vars, listenerVars, subscriptionVars>>
    \/ /\ part = "subscription" /\ Subscription!Next
       /\ UNCHANGED <<part, cacheVars, vars, listenerVars, discoveryVars>>

MCSpec == MCInit /\ [][MCNext]_allVars
SamplingSpec == (part = "light" /\ MCInit) /\ [][Next /\ UNCHANGED others]_allVars

-----------------------------------------------------------------------------

\* Every call of SharesAvailable returns, none waits for a session that is over; and an
\* accessor that was removed or evicted does get closed when its readers are done.
RetrievalProgress ==
    /\ part = "light" /\ Fairness => CallsReturn
    /\ part = "cache" /\ Cache!Fairness => Cache!ClosedInTheEnd

\* A source that fails, lags or runs ahead does not keep a block from being stored
\* that a good source has announced; and after Stop the listener and all goroutines of the
\* fan-in end, also the ones that wait to send to it.
ListenerProgress ==
    part = "listener" /\ Listener!Fairness => Listener!GoodSourceSuffices /\ Listener!StopEnds

\* Unless it is stopped, discovery has the wanted number of connected peers again in the end, as
\* long as the network offers them, save for a peer whose connection was lost and forgotten
\* before it was added; and after Stop its loops and workers end, also when a dial hangs.
DiscoveryProgress ==
    /\ part = "discovery" /\ Discover!Fairness => Discover!Refilled
    /\ part = "discovery" /\ Discover!Running => Discover!StopEnds

\* A subscription to blobs delivers a run of heights, none missing and none twice, however
\* often a height had to be asked for; and it ends and closes its channel when its caller or
\* the service stops, also when nobody receives from it.
SubscriptionSound ==
    /\ [](part = "subscription" => Subscription!TypeOK /\ Subscription!InOrder)
    /\ part = "subscription" /\ Subscription!Fairness => Subscription!SubscriptionEnds

=============================================================================
