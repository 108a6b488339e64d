# Verification of celestia-node

TLA+ models of the services of a celestia node, the TLC runs that check them on
small instances, and TLAPS proofs of the properties that matter most for every
size of the system. `PROJECT.json` maps each definition to the source lines it
models.

## The system and its modules

A **bridge** node follows consensus nodes, stores the blocks they produce and
serves them. A **light** node follows headers and samples random shares of each
block. Both find peers, exchange shares over the shrex protocol, prune what has
left the availability window, and offer an API.

| Part of the system | Module | Source |
| --- | --- | --- |
| sampling coordinator and its workers | `DASCoordinator` | `das/coordinator.go`, `state.go`, `worker.go` |
| the DASer service, its checkpoint, Stop and restarts | `DASer` | `das/daser.go`, `store.go`, `checkpoint.go` |
| the catch-up signal, access by access | `DASCatchUp` | `das/state.go` |
| sampling a block on a light node | `LightAvailability` | `share/availability/light`, `libs/utils/sessions.go` |
| one block's files, link and caches | `EdsStore` | `store/store.go`, `store_cache.go`, `share/availability/full` |
| open accessors, counted by reference | `AccessorCache` | `store/cache` |
| reading a stored square | `EdsAccessor` | `store/file`, `share/eds` |
| pruning rounds, header deletion, archival mode | `Pruner` | `pruner`, `nodebuilder/pruner` |
| listener on several consensus nodes | `CoreListener` | `core/listener.go`, `multisource.go` |
| connections, retried calls, blocks from parts | `CoreFetch` | `core/fetcher.go`, `nodebuilder/core` |
| header ranges from core and from the network | `HeaderExchange` | `core/exchange.go`, `routing_exchange.go` |
| which headers become trusted | `HeaderChain` | `header` |
| header and blobstream calls | `HeaderService` | `nodebuilder/header`, `nodebuilder/blobstream` |
| one shrex request and its handler | `ShrexExchange` | `share/shwap/p2p/shrex` |
| samples from several peers in parallel | `ShrexGetter` | `.../shrex/shrex_getter` |
| division of a caller's time | `GetterDeadlines` | `libs/utils/ctx.go`, the getters |
| the share module over its getters | `ShareService` | `nodebuilder/share`, `store/getter.go` |
| ranges and namespaces, with verification | `ShwapNamespace` | `share/shwap` |
| identifiers and rows | `ShwapIds` | `share/shwap/*_id.go`, `row.go` |
| retrieval by quadrants, bad encoding | `Retriever` | `share/eds/retriever.go`, `byzantine` |
| walks over Merkle trees | `IpldTree` | `share/ipld` |
| pool of peers, peer manager, discovery | `PeerPool`, `PeerManager`, `Discovery` | `.../shrex/peers`, `.../p2p/discovery` |
| finding blobs, subscriptions to blobs | `BlobRetrieval`, `BlobSubscription` | `blob` |
| transactions and balances | `StateAccess` | `state` |
| fibre client | `Fibre` | `fibre` |
| RPC server and tokens | `ApiServer` | `api/rpc`, `libs/authtoken` |
| permissions of the methods, clients of the API | `RpcApi` | `nodebuilder/*/`, `api/rpc/client`, `api/client` |
| directory of a node | `NodeStore` | `nodebuilder/store.go`, `libs/keystore` |
| how a node is assembled, starts and stops | `NodeLifecycle` | `nodebuilder` |

A module has the component's state as variables and one action per operation,
handler or step between two points where other goroutines can run. A critical
section under a lock is one action; an access without a lock is one of its own.
A `context` is a flag that may be set at any time. Data is reduced to what the
properties tell apart: a header is its height, a block its content's name, an
error one of its causes.

Components meet in three ways. `DASer` extends `DASCoordinator`: its actions run,
cancel and restart the coordinator and share its state. Others stand in for a
neighbour by what it may do: `ShrexGetter` takes any outcome that `ShrexExchange`
shows, and `EdsStore` has a cached accessor only there or not, since its life is
in `AccessorCache`. The rest share no state, and an `MC` module puts several of
them side by side: a variable `part`, chosen initially, says which one moves. It
EXTENDS one component, so that a property checked there is the one that is
proved, and takes the others with INSTANCE.

A definition `X_Wrong` (or `X_DropWrong`, `X_Restart`) before `X` is a faulty
variant of `X`: put in the place of `X`, it must make the property it is listed
with in `PROJECT.json` fail.

## Runs

| Run | Instances | What it shows |
| --- | --- | --- |
| `das_coordinator` | 3 headers, range 2, limit 2, 5 jobs | no height is forgotten; catch-up, the sampled head and checkpoints are right |
| `das_service` | 2 headers, limit 1, 2 starts | the stored checkpoint covers all that was not sampled, after crashes, Stop timeouts and the background store |
| `background` | coordinator with 2 headers, service with 1, 2 callers and 3 channels, pruner with 3 headers | sampling, catch-up, Stop and pruning make progress; the lock-free signal is right |
| `storage` | 2 puts, 1 prune, 1 cached reader, in both modes; pruner with 4 headers; 3 starts with changing modes | blocks are stored whole and removed whole; the pruner's checkpoint and steps are right |
| `shrex` | 3 pieces; 2 samples, 2 attempts; deadlines 0 to 15; a 4x4 square; cache of 1 with 2 readers, 2 removers, 2 heights | requests return what they claim and end; accessors are counted exactly |
| `sampling` | 2 samplers, 1 pruner, 3 heights (two with one root, one empty), 3 coordinates, 1 crash | availability is never reported without the samples |
| `core` | 2 sources, 2 heights, window 1; ranges of up to 6 headers; 5 validator sets; 3 parts | the listener announces once and only what is stored; ranges, headers and blocks are right |
| `peers` | 3 peers and a waiter; 2 hashes | pools, cooldowns and nodes are consistent, with and without blacklisting, waiters are served, old pools go |
| `shares` | 2x2 and 3x3 squares, 4x4 for blobs, trees of depth 2 | every read, range, namespace, blob and identifier is exact, also of ranges that cross from one namespace into another |
| `progress` | 3 calls for a height; 2 readers; 2 sources; a peer; a buffer of 2 | calls return, accessors close, one good source suffices, discovery refills, subscriptions end |
| `services` | 2 processes, 4 commands, 1 crash; 3 requests; 2 submitters, 3 setups; 2 callers; 2 peers; 16 configurations | directory, server, clients, transactions, fibre hosts, discovery and lifecycle are sound |
| `listener_retry` | 2 sources, 2 heights | a violation: see below |

### Bounds

The bounds are constants of the modules or of the instances in the `MC` modules,
and each is chosen so that the case a property is about happens. Two jobs of each
kind fit next to one another in `das_coordinator` (the limit is doubled for
recent jobs, and a fifth id is left free); three headers with ranges of two give
a range that is cut short and a retry below it. Two puts and a prune meet in every
order in `storage`; two is also what it takes for one put to recover what another
one left behind in a crash. Two readers and two removers of one accessor, with a
cache of one entry for two heights, give every race of reference, removal and
eviction. Three coordinates with two samples leave a choice. Where a counter in
the code is unbounded (starts, crashes, ticks, channels, attempts), the bound is a
constant named `Max...` that guards the action. `LastStart` in `DASer` restricts
what the last start explores, not what the first one does.

In `core`, chains of several paces, slower than `BlockTime` among them, decide where
a range is split. In `shrex`, a getter may get its peers at once or after any wait.
In `storage`, three starts allow an archival node to be converted, and to crash at
any step of it. In `services`, four commands allow a directory to be initialised,
opened, and reset or reconfigured while another process opens it.

Deadlock is checked in `das_coordinator`. Elsewhere behaviours may end, because
the processes stop or a bound is reached, and `CHECK_DEADLOCK FALSE` says so.

### Fairness

Safety is checked without fairness. Liveness is stated as an implication from a
fairness condition of the module, which has a comment that justifies it:

- goroutines run on (`WF` of their steps): Go's scheduler is preemptive;
- a `select` with a case that is ready again and again takes it in the end (`SF`):
  Go picks at random among the ready cases;
- timers and tickers fire, and requests have deadlines (`WF`);
- in `DASCoordinator`, a height that is sampled again and again is available in
  the end, and in `Pruner`, neither Prune nor the header store fails every time
  (`SF`): these are assumptions on the network and the disk, without which the
  code makes no promise;
- in `Discovery`, `Refilled` assumes also that the rendezvous keeps returning peers
  and that connections are not refused for ever (`Reachable`).

Peers, consensus nodes and callers are never assumed to act.

## Proofs

TLAPS checks these theorems for every value of the constants. Each safety theorem
has an inductive invariant (`IInv`; `DInv` for the service of the DASer, `SignalInv`,
`ExchangeInv` and `ServerInv` for `DASCatchUp`, `HeaderExchange` and `ApiServer`) with
one lemma per action, or per group of actions that disturb the same conjuncts, and TLC has
checked the invariant on a small instance before it was proved.

| Module | Theorem | Property of a run |
| --- | --- | --- |
| `DASCoordinatorProofs` | `CoordinatorLosesNoHeight` | `NoHeightLost` |
| | `CatchUpDoneIsSound` | `CatchUpDoneSound` |
| | `TypeCorrect`, `InRetryHasNoLeftovers`, `WorkersAreBounded` | |
| `DASerProofs` | `SampledChainHeadIsSound` | `SampledChainHeadSound` |
| | `CheckpointIsSound` | `CheckpointSound` |
| | `StoredCheckpointIsSound` | `StoredCheckpointCovers` |
| | `RestartsLoseNoHeight` | `NoHeightLost`, with restarts |
| `EdsStoreProofs` | `StoreIsComplete` | `StoredIsComplete` |
| `AccessorCacheProofs` | `AccessorsAreSound` | `AccessorsSound` |
| `LightAvailabilityProofs` | `AvailabilityIsSampled` | `AvailableIsSampled` |
| | `SessionsExclude` | |
| | `ProgressIsKept` | `ProgressKept`, an action property |
| `CoreProofs` | `CatchUpSignalIsSound` (of `DASCatchUp`) | `CatchUpSignalSound` |
| | `AnnouncementsAreSound` (of `CoreListener`) | `AnnouncementsSound` |
| | `RangesAreSound` (of `HeaderExchange`) | `RangeSound` |
| `Discovery` | `SetStaysBounded` | `SetBounded` |
| `ApiServer` | `ServerIsSound` | `ServerSound` |

**Sampling coordinator.** That no height is lost is not inductive: a height may be
known only to a worker, and the worker's own numbers decide what it still owes.
`IInv` adds that what a worker has passed was sampled or is in its failed set
(`WorkerOK`), that a height in `inRetry` has a retry job (`InRetryBacked`), what a
snapshot of the workers that is still being collected already says (`SnapOK`),
and what the catch-up flag means (`DoneOK`). `WorkersBounded` needs the cardinality of the set of
jobs. Assumed: positive length, range and limit, and more job ids than jobs can run.
The two theorems on snapshots follow from `SnapOK` and are in `DASerProofs`, next to the
lemmas on checkpoints that the service needs too.
`DInv` adds that every checkpoint on its way to the disk, in Stop or in the
background store, covers what was not sampled.

**Catch-up signal.** The flag and the channel are read and written without a lock.
`SignalInv` says when they may disagree (`FlagMatchesChannel`: only inside `checkDone`)
and that whoever is about to return was calling while catch-up was done
(`SignalIsTrue`). Nothing is assumed of the constants.

**Block store.** `IInv` records what the goroutine with the locks has achieved at
each step of a put or a removal (`LockedOK`), and that a pruner removes the link
before the file, so that no reader can cache a block that is going away
(`PrunerOK`). Assumed: goroutines that put and that prune are different ones.

**Accessor cache.** The count of references equals the number of holders, a
statement on cardinalities that `IInv` carries through every step of readers,
removers, evictions and the collection of unused accessors. `ClosedOnce` says who
may close a file, `InUse` that nobody refers to an accessor that was collected.
Assumed: finitely many readers. "Closed in time" excludes readers that exceed
the close timeout, which the code lets run into a closed file.

**Light availability.** `CallOK` says what a call knows: the height whose session
it has, and that its copy of the result claims only retrieved samples. From it
follows that sessions exclude one another, and that a success has its samples, also
when two heights share a data root and write the same entry. `ProgressIsKept` has
the hypothesis `RootsDiffer`: sessions are per height and results per root, so two
calls for heights with one root can overwrite one another's progress. Then some
samples are fetched again; `AvailabilityIsSampled` does not need the hypothesis.
Its invariant adds that the stored result has not changed since the call read it
(`CopyIsFresh`).

**Core listener.** "Published at most once" depends on the dedup gate, which looks
at the store and not at what was published, while the header exchange stores blocks
next to the listener, blocks leave the window, and a crash forgets what was under
way. `HandledIsNew` says that a height past the gate was not published unless it
has left the window; that `fetch` then lets only kept heights through, and that a
height which has left the window never comes back (`WindowMovesOn`), closes the
argument. Assumed: at least one height, and natural numbers for window and capacity.

**Ranges of headers.** A range is split at a cutoff that is estimated in blocks of
`BlockTime`, its older part comes from the network, its younger one from core by
parallel fetches, any of which may fail, while time passes. `ExchangeInv` says where
the headers so far end (`SplitSound`), which fetches there are and what a finished
one means (`JobsSound`), and that what is taken for old has left the window, unless
blocks came slower than `BlockTime` since the range's first header (`OldIsOut`). For
these `RangeSound` promises no block: the estimate misjudges them, as it does a block
of exactly the window's age. Nothing else is excused: a header that was asked of core
comes with its block, or core had not got it. Assumed: a positive length and
`BlockTime`; block times need not even grow.

**RPC server.** That an acknowledged revocation holds rests on the mutex that Verify
and Revoke share (`MutexHeld`), on what Revoke has done at each of its steps
(`RevokeOK`), and on `CancelledOK`: a request is served with a revoked token only if it
is cancelled, or the call of Revoke that will cancel it is under way. The limits need
cardinalities: a limiter has let pass at most what it counted (`LimitersOK`), and the
semaphore is the number of requests inside (`PlacesHeld`). Assumed: finitely many
requests and room for at least one limiter. The proof is at the end of the module.

**Discovery.** The limit of the set is a soft one: workers look at its size, dial, and
add their peer later. The bound counts the peers in the set and the workers past that
look: one gets there only below the limit, when at most all workers are there, so the
sum stays below twice the limit, and from then on it does not grow. `IInv` adds where
the goroutines' peers come from, and that no worker past the look holds the host
itself. Assumed: a positive limit, which `Parameters.Validate` demands, and a
rendezvous that returns peers of the topic or the host. The proof is at the end of
the module.

The assumptions on constants are ASSUMEs of the modules that declare them, and TLC
evaluates them in the runs whose module extends these.

### What stays with TLC

- Liveness: `SamplingProgress`, `StopReturns`, `OldBlocksGetPruned`,
  `PeersProgress`, `RetrievalProgress`, `ListenerProgress`, `DiscoveryProgress`,
  `RequestsEnd` and the end of subscriptions need fairness and ENABLED, which TLAPS
  does not handle.
- `EdsAccessor`, `ShwapNamespace`, `ShwapIds`, `BlobRetrieval`, `IpldTree`,
  `Retriever` and `HeaderChain`: what they compute over sequences and squares would
  need induction over data, which the installed provers cannot do.
- `GetterDeadlines`: nonlinear arithmetic on divisions.
- `Pruner`, `PeerPool`, `PeerManager`, `ShrexExchange`, `ShrexGetter`,
  `ShareService`, `StateAccess`, `Fibre`, `NodeStore`, `RpcApi`,
  `NodeLifecycle`, `HeaderService` and `CoreFetch`: nothing stands in the way of
  their safety properties in principle; they are only model-checked so far.

## Where the code and its text differ

`listener_retry` (`FailureRetried`): the comment of `handleNewBlockEvent` in
`core/listener.go` says "any failure below returns without storing so another
source's announcement retries the height". A header that could not be broadcast is
logged after its block was stored, so the gate skips the height from then on.

Seen while modelling, without a run of their own. Where a property concerns one of
these, its comment names the exception and states what holds in spite of it.

Sampling, pruning and blocks:

- `DASer.Start` that fails after it has set `running` (`das/daser.go:72`) leaves it
  set, so a second Start reports that the DASer is started.
- A conversion from archival to pruned records the new mode before `ResetCheckpoint`
  (`nodebuilder/pruner/module.go:126`): after a crash in between, the next start finds
  nothing to convert, and the original squares below the checkpoint stay. A header
  that is deleted between Start and the reset has its block skipped too.
- A new checkpoint is set to the tail, which then counts as pruned and never is, while
  the comment of `pruneOnHeaderDelete` (`pruner/service.go:254`) says the data "is
  always pruned". A failed block that is given up is the other case (`Gone` in
  `Pruner`).
- `RoutingExchange` says "Inside window: uses core exchange" (`core/routing_exchange.go:16`);
  blocks slower than `BlockTime` make it take the network for some of them
  (`Misjudged` in `HeaderExchange`).
- `ValidateODSSize` (`store/file/ods.go:139`) opens the file and does not close it.

Peers and retrieval:

- `discoveryLoop` "ensures we always have '~peerLimit' connected peers"
  (`discovery.go:211`); a connection that is lost, and its event handled, between a
  worker's dial and its `addPeer` leaves a peer in the set without a connection
  (`missed` in `Discovery`).
- `triggerDisc` of discovery has no reader, so `Discard` never triggers a discovery.
- The wait for a peer after the first attempt has no share of the time of its own
  (`waited` in `GetterDeadlines`).
- A range of two namespaces is cut short with an error (`ShwapIds`), and a light node's
  `GetRange` of the empty block is always one (`FallsBack` in `ShareService`).
- The samples of an empty block are checked against the upper bounds of their
  coordinates only (`emptySamples`, `AnswerInBounds` in `ShareService`).
- `BlockFetcher` subscribes again at once when a subscription cannot be made
  (`core/fetcher.go:186`), without a pause.

Services:

- `fsStore.Close` releases the lock of the directory before it closes the datastore
  (`nodebuilder/store.go:142`), so a reset may meet one that is being closed. A crash
  can leave a key half written, or an empty configuration (`LocksSound`).
- The listener's hook is before that of shrexsub: a block that arrives in between is
  broadcast on a topic that is not there yet (`StartsLater` in `NodeLifecycle`).
- `TxClient.Stop` closes the estimator's connection without `clientLk`, which
  `setupClient` holds while it opens one (`ConnectionsOwned`).
- In the fibre client an older answer may be stored after a newer one, and a host that
  was known before a failed query is used although it may be old (`HostsSound`).
- `Client.Close` of `api/rpc/client` "closes the connections to all namespaces"
  (`client.go:59`), but `newClient` collects their closers in a variable of its own.

## What is not modelled

- Shrexsub: a thin layer over gossipsub; `PeerManager` has what its validator decides.
- Scores of peers and all metrics: they only bias a choice, or observe.
- Command line tools: flags and printing; the commands that change a node's
  directory are in `NodeStore`.
- Protobuf encodings, generated code and mocks.
- The removal of samples of an old format on a light node's start
  (`share/availability/light/legacy_samples.go`), the shared file of the empty block
  and lookups by hash in the store.
- `blob.Service.GetAll` for several namespaces at once: `BlobRetrieval` has it for one.
- External: libp2p, go-header, rsmt2d, nmt, celestia-app, fx, badger and gRPC. What
  the code relies on is modelled where it is used, and marked so in `PROJECT.json`.
