---------------------------- MODULE NodeLifecycle ----------------------------
(***************************************************************************)
(* How nodebuilder assembles a node, and how the node starts and stops.    *)
(*                                                                         *)
(* Every module of nodebuilder provides constructors and invokes a few     *)
(* functions.  fx runs a constructor the first time its result is needed,  *)
(* after those of its parameters, in their order, and the hooks of         *)
(* components are appended as the constructors return.  Start runs the     *)
(* start hooks in that order and Stop the stop hooks in the opposite one,  *)
(* so who starts before whom follows from the parameters of constructors.  *)
(*                                                                         *)
(* A component is named by its constructor's result, and its parameters    *)
(* are the sequence of the components they need; values (configuration,    *)
(* network, keys) are left out.  One additional core endpoint is           *)
(* configured.  fx itself is external.                                     *)
(***************************************************************************)
EXTENDS Naturals, Sequences, FiniteSets, SequencesExt

CONSTANT Configs        \* the configurations of the node

VARIABLES
    conf,               \* the node's type and configuration
    hooks,              \* fx: the components with hooks, in the order they were appended
    phase,              \* where fx's goroutine is
    numStarted,         \* fx: the hooks that Start has passed and Stop has not
    up,                 \* the components whose start hook ran and whose stop hook did not
    ctxDone,            \* the context of the current call has ended
    startErr, stopErr,  \* newNode: whether the channels of hookErrCapturer hold an error
    ret                 \* what Node.Start and Node.Stop returned

vars == <<conf, hooks, phase, numStarted, up, ctxDone, startErr, stopErr, ret>>

-----------------------------------------------------------------------------
(***************************************************************************)
(* The parameters of constructors, module by module.                       *)
(***************************************************************************)

newHost == <<"peerStore", "connectionManager", "connectionGater", "resourceManager">>
newDHT == <<"ctx", "HostBase", "ds">>
pubSubParams == <<"ctx", "host">>

p2pModule ==
    [HostBase |-> newHost,
     peerStore |-> <<"ctx", "ds">>,
     connectionManager |-> <<>>,
     connectionGater |-> <<"ds">>,
     resourceManager |-> <<"ctx">>,
     dht |-> newDHT,
     host |-> <<"HostBase", "dht">>,
     pubsub |-> pubSubParams,
     p2pModule |-> <<"HostBase", "pubsub", "connectionGater", "resourceManager">>]

grpcClient == <<>>

coreModule(c) ==
    [grpc |-> grpcClient,
     additional |-> <<>>,
     BlockFetcher |-> <<"grpc">>,
     Fetcher |-> <<"grpc", "additional">>,
     coreExchange |-> <<"BlockFetcher", "edsStore", "p2pExchange">>,
     Exchange |-> IF c.tp = "Bridge" THEN <<"coreExchange", "p2pExchange">> ELSE <<"p2pExchange">>,
     listener |-> <<"subscriber", "Fetcher", "shrexsub", "edsStore">>]

newP2PExchange == <<"host", "connectionGater", "pidstore">>
newSyncer == <<"Exchange", "headerStore", "subscriber">>
newStore == <<"ds">>
newHeaderService == <<"syncer", "subscriber", "exchangeServer", "headerStore">>

headerModule ==
    [headerService |-> newHeaderService,
     headerStore |-> newStore,
     syncer |-> newSyncer,
     subscriber |-> <<"pubsub">>,
     exchangeServer |-> <<"host", "headerStore">>,
     p2pExchange |-> newP2PExchange,
     pidstore |-> <<"ctx", "ds">>]

\* The syncer is a parameter only so that it starts first.
fullDiscoveryAndPeerManager_Wrong == <<"host", "connectionGater", "dht", "shrexsub", "subscriber">>
fullDiscoveryAndPeerManager == <<"host", "connectionGater", "dht", "shrexsub", "subscriber", "syncer">>
archivalDiscoveryAndPeerManager == <<"fullDisc", "host", "dht", "connectionGater">>
bridgeGetter == <<"edsStore", "shrexGetter">>
lightGetter == <<"shrexGetter">>

shrexComponents ==
    [shrexsub |-> <<"ctx", "host">>,
     shrexClient |-> <<"host">>,
     shrexGetter |-> <<"shrexClient", "archivalDisc">>,
     shrexServer |-> <<"host", "edsStore">>]
availabilityComponents(c) ==
    IF c.tp = "Light" THEN [lightAvail |-> <<"getter", "ds">>]
                      ELSE [fullAvail |-> <<"edsStore", "getter">>]
Availability(c) == IF c.tp = "Light" THEN "lightAvail" ELSE "fullAvail"
shareModule(c) ==
    [shareService |-> <<"getter", Availability(c), "headerService">>,
     getter |-> IF c.tp = "Bridge" THEN bridgeGetter ELSE lightGetter,
     fullDisc |-> fullDiscoveryAndPeerManager,
     archivalDisc |-> archivalDiscoveryAndPeerManager,
     edsStore |-> <<>>]

newTxClient == <<"grpc", "additional">>
coreAccessor == <<"txClient", "syncer", "grpc">>
stateModule(c) ==
    IF c.endpoint THEN [txClient |-> newTxClient, stateService |-> coreAccessor]
                  ELSE [stateService |-> <<>>]

newDASer(c) == <<Availability(c), "subscriber", "headerStore", "ds">>
dasModule(c) ==
    IF c.das THEN [daser |-> newDASer(c), dasService |-> <<"daser">>] ELSE [dasService |-> <<>>]

blobModule == [blobService |-> <<"stateService", "getter", "headerService">>]
newAppFibreClient == <<"grpc", "headerStore">>
fibreModule(c) ==
    IF c.endpoint
    THEN [fibreClient |-> newAppFibreClient, fibreService |-> <<"fibreClient", "txClient", "grpc", "additional">>]
    ELSE [fibreService |-> <<>>]
nodeModule == [nodeService |-> <<"verifier">>, verifier |-> <<"ds">>]
newPrunerService(c) == <<Availability(c), "headerStore", "syncer", "ds">>
blobstreamModule == [blobstreamService |-> <<"headerStore">>]
rpcModule == [rpcServer |-> <<"verifier">>]
registerEndpoints ==
    <<"stateService", "shareService", "headerService", "dasService", "p2pModule", "nodeService", "blobService",
      "blobstreamService", "fibreService", "rpcServer">>

\* What functions that are invoked need, in the order of ConstructModule's list, and the
\* node's own fields, which are populated last.
Invoked(c) ==
    [Listen |-> <<"host">>,
     reachabilityCheck |-> <<"ctx", "HostBase">>,
     connectToBootstrappers |-> <<"ctx", "host">>,
     shrexsubHook |-> <<"shrexsub">>,
     RemoveLegacySamples |-> <<"ds">>,
     convertToPruned |-> <<"ds", "pruner">>,
     registerEndpoints |-> registerEndpoints,
     Node |-> <<"rpcServer", "host", "connectionGater", "dht", "pubsub", "shareService", "headerService",
                "stateService", "blobService", "dasService", "nodeService", "fibreService", "blobstreamService">>]
ConstructModule(c) ==
    CASE c.tp = "Light" -> <<"Listen", "RemoveLegacySamples", "pruner", "registerEndpoints", "Node">>
      [] c.tp = "Bridge" -> <<"listener", "Listen", "reachabilityCheck", "connectToBootstrappers", "shrexServer",
                             "shrexsubHook", "pruner", "convertToPruned", "registerEndpoints", "Node">>

Merge(f, g) == [x \in DOMAIN f \cup DOMAIN g |-> IF x \in DOMAIN f THEN f[x] ELSE g[x]]
Params(c) ==
    FoldLeft(Merge, [ctx |-> <<>>, ds |-> <<>>, pruner |-> newPrunerService(c)],
        <<p2pModule, coreModule(c), headerModule, shrexComponents, availabilityComponents(c), shareModule(c),
          stateModule(c), dasModule(c), blobModule, fibreModule(c), nodeModule, blobstreamModule, rpcModule,
          Invoked(c)>>)

-----------------------------------------------------------------------------
(***************************************************************************)
(* fx: the order of construction, and of hooks.                            *)
(***************************************************************************)

RECURSIVE Construct(_, _, _)
Construct(params, done, x) ==
    IF x \in Range(done) THEN done
    ELSE Append(FoldLeft(LAMBDA d, y : Construct(params, d, y), done, params[x]), x)

StartHooks ==
    {"grpc", "additional", "dht", "subscriber", "listener", "headerStore", "p2pExchange", "syncer",
     "exchangeServer", "fullDisc", "archivalDisc", "shrexGetter", "shrexServer", "shrexsubHook", "daser",
     "txClient", "stateService", "blobService", "fibreClient", "pruner", "rpcServer", "RemoveLegacySamples",
     "convertToPruned"}
\* Nothing is left running by the two hooks that only start; the context, the host, the block
\* store and light availability only stop.
StopHooks ==
    (StartHooks \ {"RemoveLegacySamples", "convertToPruned"}) \cup {"ctx", "HostBase", "edsStore", "lightAvail"}

\* A stub of the state service has no hooks.
Hooked(c) == (StartHooks \cup StopHooks) \ (IF c.endpoint THEN {} ELSE {"stateService"})
Hooks(c) ==
    LET params == Params(c)
        order == FoldLeft(LAMBDA d, x : Construct(params, d, x), <<>>, ConstructModule(c))
    IN  SelectSeq(order, LAMBDA x : x \in Hooked(c))

-----------------------------------------------------------------------------
Init ==
    /\ conf \in Configs /\ hooks = Hooks(conf)
    /\ phase = "built" /\ numStarted = 0 /\ up = {} /\ ctxDone = FALSE
    /\ startErr = FALSE /\ stopErr = FALSE
    /\ ret = [start |-> "", stop |-> ""]

\* Node.Start: the hooks run in a goroutine of fx.
Start ==
    /\ phase = "built" /\ phase' = "starting"
    /\ UNCHANGED <<conf, hooks, numStarted, up, ctxDone, startErr, stopErr, ret>>

Running(k) == IF hooks[k] \in StartHooks /\ hooks[k] \in StopHooks THEN {hooks[k]} ELSE {}

\* The next start hook succeeds.
hookStarts ==
    /\ phase = "starting" /\ ~ctxDone /\ numStarted < Len(hooks)
    /\ numStarted' = numStarted + 1
    /\ up' = up \cup Running(numStarted + 1)
    /\ UNCHANGED <<conf, hooks, phase, ctxDone, startErr, stopErr, ret>>

\* The next start hook fails, also because its context ended; hookErrCapturer keeps the
\* error, and fx rolls back.
hookFails ==
    /\ phase = "starting" /\ numStarted < Len(hooks) /\ hooks[numStarted + 1] \in StartHooks
    /\ startErr' = TRUE
    /\ phase' = "rollback"
    /\ UNCHANGED <<conf, hooks, numStarted, up, ctxDone, stopErr, ret>>

\* The hook ignored the end of its context and succeeded; fx looks at the context between
\* two hooks and fails.
startExpires ==
    /\ phase = "starting" /\ ctxDone /\ numStarted < Len(hooks)
    /\ \/ numStarted' = numStarted + 1 /\ up' = up \cup Running(numStarted + 1)
       \/ UNCHANGED <<numStarted, up>>
    /\ phase' = "rollback"
    /\ UNCHANGED <<conf, hooks, ctxDone, startErr, stopErr, ret>>

\* The last hook that is started stops, with or without an error, which stops nothing.
hookStops ==
    /\ phase \in {"rollback", "stopping"} /\ ~ctxDone /\ numStarted > 0
    /\ numStarted' = numStarted - 1
    /\ up' = up \ {hooks[numStarted]}
    /\ \/ stopErr' = stopErr
       \/ hooks[numStarted] \in StopHooks /\ stopErr' = TRUE
    /\ UNCHANGED <<conf, hooks, phase, ctxDone, startErr, ret>>

\* fx's goroutine ends: everything is started, or stopped, or the context ended.
settled ==
    /\ \/ phase = "starting" /\ numStarted = Len(hooks) /\ phase' = "started"
       \/ phase = "rollback" /\ (numStarted = 0 \/ ctxDone) /\ phase' = "failed"
       \/ phase = "stopping" /\ (numStarted = 0 \/ ctxDone) /\ phase' = "stopped"
    /\ UNCHANGED <<conf, hooks, numStarted, up, ctxDone, startErr, stopErr, ret>>

\* The timeout of Start or Stop, or a signal.
expire ==
    /\ phase \in {"starting", "rollback", "stopping"} /\ ~ctxDone
    /\ ctxDone' = TRUE
    /\ UNCHANGED <<conf, hooks, phase, numStarted, up, startErr, stopErr, ret>>

\* Node.Start returns: at once when the context has ended, with the error of the hook that
\* hung if it fails soon enough (withHookCause), and otherwise when the goroutine has ended.
startReturns ==
    /\ ret.start = "" /\ phase \in {"starting", "rollback", "started", "failed"}
    /\ \/ /\ ctxDone /\ startErr
          /\ ret' = [ret EXCEPT !.start = "timeout and cause"] /\ startErr' = FALSE
       \/ /\ ctxDone
          /\ ret' = [ret EXCEPT !.start = "timeout"] /\ UNCHANGED startErr
       \/ /\ ~ctxDone /\ phase = "started"
          /\ ret' = [ret EXCEPT !.start = "ok"] /\ UNCHANGED startErr
       \/ /\ ~ctxDone /\ phase = "failed"
          /\ ret' = [ret EXCEPT !.start = "error"] /\ UNCHANGED startErr
    /\ UNCHANGED <<conf, hooks, phase, numStarted, up, ctxDone, stopErr>>

\* cmd.Start stops the node after a signal, and only a node whose Start succeeded.
Stop ==
    /\ phase = "started" /\ ret.start = "ok"
    /\ phase' = "stopping"
    /\ UNCHANGED <<conf, hooks, numStarted, up, ctxDone, startErr, stopErr, ret>>

stopReturns ==
    /\ ret.stop = "" /\ phase \in {"stopping", "stopped"}
    /\ \/ /\ ctxDone /\ stopErr
          /\ ret' = [ret EXCEPT !.stop = "timeout and cause"] /\ stopErr' = FALSE
       \/ /\ ctxDone
          /\ ret' = [ret EXCEPT !.stop = "timeout"] /\ UNCHANGED stopErr
       \/ /\ ~ctxDone /\ phase = "stopped"
          /\ ret' = [ret EXCEPT !.stop = IF stopErr THEN "error" ELSE "ok"] /\ UNCHANGED stopErr
    /\ UNCHANGED <<conf, hooks, phase, numStarted, up, ctxDone, startErr>>

Next ==
    \/ Start \/ hookStarts \/ hookFails \/ startExpires \/ hookStops \/ settled \/ expire \/ startReturns
    \/ Stop \/ stopReturns

Spec == Init /\ [][Next]_vars

-----------------------------------------------------------------------------
(***************************************************************************)
(* What a component calls, once it runs, in components with hooks of their *)
(* own.  The managers of peers start with the shrex getter.                *)
(***************************************************************************)

Calls(c) ==
    [listener |-> {"grpc", "additional", "subscriber", "shrexsubHook"},
     syncer |-> {"p2pExchange", "headerStore", "subscriber"} \cup (IF c.tp = "Bridge" THEN {"grpc"} ELSE {}),
     exchangeServer |-> {"headerStore"},
     shrexGetter |-> {"subscriber", "syncer"},
     daser |-> {"subscriber", "headerStore", "shrexGetter", "syncer"},
     pruner |-> {"headerStore", "syncer"},
     convertToPruned |-> {"pruner"},
     stateService |-> {"txClient", "syncer", "grpc"},
     blobService |-> {"stateService", "shrexGetter", "subscriber"},
     fibreClient |-> {"grpc", "headerStore"},
     rpcServer |-> {"daser", "stateService", "shrexGetter", "syncer", "headerStore", "blobService",
                    "fibreClient", "exchangeServer"}]

\* The listener is constructed first, and broadcasts with shrexsub, whose hook is appended later:
\* until that ran, a block of the consensus node meets a topic that is nil.
StartsLater(x) == IF x = "listener" /\ phase # "started" THEN {"shrexsubHook"} ELSE {}

\* While a component runs, everything it calls runs, and in a started node also the topic of
\* the listener: headers have a validator (the syncer's) before the managers of peers subscribe
\* to them, the pruner starts after the syncer, and the API serves requests only between the
\* last start and the first stop of what it serves.
CalleesRun ==
    \A x \in up \cap DOMAIN Calls(conf) : Calls(conf)[x] \cap Range(hooks) \subseteq up \cup StartsLater(x)

\* A Start that failed before its time is over has stopped all it started, in spite of stop
\* hooks that fail; and a node is reported started only if all of it is.
FailedStartIsUndone ==
    /\ ret.start = "error" => up = {}
    /\ ret.start = "ok" /\ phase = "started" => \A k \in 1 .. Len(hooks) : Running(k) \subseteq up

NodeSound == CalleesRun /\ FailedStartIsUndone

=============================================================================
