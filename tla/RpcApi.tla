-------------------------------- MODULE RpcApi --------------------------------
(***************************************************************************)
(* The API of a node and its clients: the permission that the tag of every *)
(* method names (nodebuilder/*/, the types API), the modules that are      *)
(* stubs when the node has no core endpoint or does not sample, the check  *)
(* that RegisterService puts in front of every method, and the clients of  *)
(* api/client and api/rpc/client, from the first connection to Close.      *)
(*                                                                         *)
(* A client of api/client that submits signs with a keyring of its own and *)
(* talks to a consensus node; everything else goes to a bridge node.  Any  *)
(* step of making a client may fail.                                       *)
(***************************************************************************)
EXTENDS Naturals, Sequences, SequencesExt

VARIABLES
    cfg,        \* of the node: whether auth is skipped, has a core endpoint, samples
    kind,       \* of the client: "read" and "submit" (api/client) or "rpc" (api/rpc/client)
    allow,      \* the permissions of its token
    pc,         \* "new", "read", "init", "ready", "closing", "closed" or "failed"
    open,       \* connections that are open, and services that run
    closers,    \* the connections that Close of the client knows of
    call        \* the last call, and where it ended

vars == <<cfg, kind, allow, pc, open, closers, call>>

-----------------------------------------------------------------------------
(***************************************************************************)
(* The tags of the methods.                                                *)
(***************************************************************************)

shareAPI ==
    [read |-> {"SharesAvailable", "GetShare", "GetSamples", "GetEDS", "GetRow", "GetNamespaceData", "GetRange"}]
stateAPI ==
    [read  |-> {"AccountAddress", "Balance", "BalanceForAddress", "QueryDelegationRewards", "QueryDelegation",
                "QueryUnbonding", "QueryRedelegations"},
     write |-> {"Transfer", "SubmitPayForBlob", "CancelUnbondingDelegation", "BeginRedelegate", "Undelegate",
                "Delegate", "WithdrawDelegatorReward", "GrantFee", "RevokeGrantFee"}]
headerAPI ==
    [read |-> {"LocalHead", "GetByHash", "GetRangeByHeight", "GetByHeight", "WaitForHeight", "SyncState",
               "SyncWait", "NetworkHead", "Tail", "Subscribe"}]
dasAPI == [read |-> {"SamplingStats", "WaitCatchUp"}]
p2pAPI ==
    [admin |-> {"Info", "Network", "Peers", "PeerInfo", "Connect", "ClosePeer", "Connectedness", "NATStatus",
                "BlockPeer", "UnblockPeer", "ListBlockedPeers", "Protect", "Unprotect", "IsProtected",
                "BandwidthStats", "BandwidthForPeer", "BandwidthForProtocol", "ResourceState", "PubSubPeers",
                "PubSubTopics", "Ping", "ConnectionState"}]
nodeAPI ==
    [read  |-> {"Ready"},
     admin |-> {"Info", "LogLevelSet", "AuthRevoke", "AuthVerify", "AuthNew", "AuthNewWithExpiry"}]
blobAPI ==
    [write |-> {"Submit"},
     read  |-> {"Get", "GetAll", "GetProof", "Included", "GetCommitmentProof", "Subscribe",
                "SubscribeFromStartHeight"}]
blobstreamAPI == [read |-> {"GetDataRootTupleRoot", "GetDataRootTupleInclusionProof"}]
fibreAPI ==
    [write |-> {"Submit", "Upload", "Deposit", "Withdraw"},
     read  |-> {"Download", "QueryEscrowAccount", "PendingWithdrawals"}]

\* The namespaces that are registered with the server, which moduleMap gives to a client.
registerEndpoints ==
    [share |-> shareAPI, state |-> stateAPI, header |-> headerAPI, das |-> dasAPI, p2p |-> p2pAPI,
     node |-> nodeAPI, blob |-> blobAPI, blobstream |-> blobstreamAPI, fibre |-> fibreAPI]
moduleMap == DOMAIN registerEndpoints

\* The methods of the types API, which pass the call on to the field of their name.
Methods(ns) == UNION {registerEndpoints[ns][p] : p \in DOMAIN registerEndpoints[ns]}
perm(ns, m) == CHOOSE p \in DOMAIN registerEndpoints[ns] : m \in registerEndpoints[ns][p]

DefaultPerms == {"public"}
ReadPerms == DefaultPerms \cup {"read"}
ReadWritePerms == ReadPerms \cup {"write"}
AllPerms == ReadWritePerms \cup {"admin"}

\* Modules of a node without a core endpoint, or that does not sample, return an error.
stubbedStateModule == ~cfg.core
stubbedFibreModule == ~cfg.core
daserStub == ~cfg.sampling

\* A call at the node: the service itself if auth is skipped, or else the proxy that looks for
\* the method's permission among those of the token.
RegisterService(ns, m) ==
    IF ~cfg.skipAuth /\ perm(ns, m) \notin allow THEN "denied"
    ELSE IF (ns = "state" /\ stubbedStateModule) \/ (ns = "fibre" /\ stubbedFibreModule)
            \/ (ns = "das" /\ daserStub) THEN "stub"
    ELSE "node"

-----------------------------------------------------------------------------
(***************************************************************************)
(* Making a client.                                                        *)
(***************************************************************************)

Connections == <<"share", "blobstream", "header", "blob", "fibre">>
Services == <<"txclient", "core", "blobsvc", "fibreclient">>

NoCall == [ns |-> "none", m |-> "none", at |-> "none"]

Init ==
    /\ cfg \in [skipAuth : BOOLEAN, core : BOOLEAN, sampling : BOOLEAN]
    /\ kind \in {"read", "submit", "rpc"} /\ allow \in {DefaultPerms, ReadPerms, ReadWritePerms, AllPerms}
    /\ pc = "new" /\ open = {} /\ closers = {} /\ call = NoCall

Fail == pc' = "failed" /\ closers' = {}

\* ReadConfig.Validate: the address, and one way only to give the token.
validate ==
    /\ pc = "new" /\ kind \in {"read", "submit"}
    /\ \/ pc' = "read" /\ UNCHANGED closers
       \/ Fail
    /\ UNCHANGED <<cfg, kind, allow, open, call>>

\* NewReadClient: one connection for each namespace, in order.  Those that were made stay open
\* when a later one fails.
NewReadClient ==
    /\ pc = "read"
    /\ LET n == Len(SelectSeq(Connections, LAMBDA c : c \in open)) + 1
       IN  \/ open' = open \cup {Connections[n]} /\ closers' = closers \cup {Connections[n]}
              /\ pc' = IF n < Len(Connections) THEN "read" ELSE IF kind = "read" THEN "ready" ELSE "init"
           \/ Fail /\ UNCHANGED open
    /\ UNCHANGED <<cfg, kind, allow, call>>

\* New: SubmitConfig.Validate, a keyring that is nil and the connection to the consensus node
\* may fail.  The client that reads is not closed then.
grpcClient ==
    /\ pc = "init" /\ "grpc" \notin open
    /\ \/ open' = open \cup {"grpc"} /\ closers' = closers \cup {"grpc"} /\ UNCHANGED pc
       \/ Fail /\ UNCHANGED open
    /\ UNCHANGED <<cfg, kind, allow, call>>

\* What is stopped when the nth service cannot be made or started.
stopped(n) == ToSet(SubSeq(Services, 1, n - 1))

\* initTxClient: the services start one after the other; if one fails, those that run are stopped,
\* and New closes the client that reads.  The connection to the consensus node stays open.
initTxClient ==
    /\ pc = "init" /\ "grpc" \in open
    /\ LET n == Len(SelectSeq(Services, LAMBDA s : s \in open)) + 1
       IN  \/ open' = open \cup {Services[n]} /\ closers' = closers \cup {Services[n]}
              /\ pc' = IF n < Len(Services) THEN "init" ELSE "ready"
           \/ open' = open \ (stopped(n) \cup ToSet(Connections)) /\ Fail
    /\ UNCHANGED <<cfg, kind, allow, call>>

\* newClient of api/rpc/client: the namespaces in the order of a map.  The closers are registered
\* with a variable of newClient, and not with the client that is returned.
newClient ==
    /\ pc = "new" /\ kind = "rpc"
    /\ \/ \E ns \in moduleMap \ open :
             /\ open' = open \cup {ns}
             /\ pc' = IF open' = moduleMap THEN "ready" ELSE "new"
       \/ pc' = "failed" /\ UNCHANGED open
    /\ UNCHANGED <<cfg, kind, allow, closers, call>>

-----------------------------------------------------------------------------
(***************************************************************************)
(* Calls, and Close.                                                       *)
(***************************************************************************)

\* The modules a client has.
namespaces ==
    CASE kind = "rpc" -> moduleMap
      [] kind = "read" -> ToSet(Connections)
      [] kind = "submit" -> ToSet(Connections) \cup {"state"}

\* readOnlyBlobAPI.Submit returns ErrReadOnlyMode; blobSubmitClient.Submit, State and Fibre of a
\* client that submits are served by the client's own services.
route(ns, m) ==
    IF kind = "read" /\ ns = "blob" /\ m = "Submit" THEN "readonly"
    ELSE IF kind = "submit" /\ (ns \in {"state", "fibre"} \/ (ns = "blob" /\ m = "Submit")) THEN "client"
    ELSE RegisterService(ns, m)

Call ==
    /\ pc = "ready"
    /\ \E ns \in namespaces : \E m \in Methods(ns) : call' = [ns |-> ns, m |-> m, at |-> route(ns, m)]
    /\ UNCHANGED <<cfg, kind, allow, pc, open, closers>>

\* The connections to the bridge node first, then everything else, whatever errors there are.
Close ==
    /\ pc = "ready" /\ pc' = "closing" /\ open' = open \ (closers \cap moduleMap)
    /\ UNCHANGED <<cfg, kind, allow, closers, call>>

closeOrder == <<"fibreclient", "blobsvc", "core", "txclient", "grpc">>

closer ==
    /\ pc = "closing"
    /\ LET rest == SelectSeq(closeOrder, LAMBDA s : s \in closers /\ s \in open)
       IN  IF rest = <<>> THEN pc' = "closed" /\ UNCHANGED open
           ELSE open' = open \ {Head(rest)} /\ UNCHANGED pc
    /\ UNCHANGED <<cfg, kind, allow, closers, call>>

Next ==
    \/ validate \/ NewReadClient \/ grpcClient \/ initTxClient \/ newClient
    \/ Call \/ Close \/ closer

-----------------------------------------------------------------------------
(***************************************************************************)
(* Properties.                                                             *)
(***************************************************************************)

TypeOK ==
    /\ pc \in {"new", "read", "init", "ready", "closing", "closed", "failed"}
    /\ open \cup closers \subseteq moduleMap \cup ToSet(Services) \cup {"grpc"}
    /\ call.at \in {"none", "denied", "stub", "node", "readonly", "client"}

\* Methods that sign something with the key of whoever serves them, or act on the node itself.
Signing ==
    {<<"blob", "Submit">>} \cup {<<"fibre", m>> : m \in {"Submit", "Upload", "Deposit", "Withdraw"}} \cup
    {<<"state", m>> : m \in {"Transfer", "SubmitPayForBlob", "CancelUnbondingDelegation", "BeginRedelegate",
                             "Undelegate", "Delegate", "WithdrawDelegatorReward", "GrantFee", "RevokeGrantFee"}}
Managing ==
    {<<"p2p", m>> : m \in {"Connect", "ClosePeer", "BlockPeer", "UnblockPeer", "Protect", "Unprotect"}} \cup
    {<<"node", m>> : m \in {"LogLevelSet", "AuthRevoke", "AuthNew", "AuthNewWithExpiry"}}

\* Unless auth is skipped, the node signs for those only whose token has the permission to write,
\* and is managed by those only who may do everything; and a client with a keyring of its own
\* never lets the node sign.
SignsForAllowed ==
    call.at = "node" =>
        /\ <<call.ns, call.m>> \in Signing => (cfg.skipAuth \/ ReadWritePerms \subseteq allow) /\ kind # "submit"
        /\ <<call.ns, call.m>> \in Managing => cfg.skipAuth \/ allow = AllPerms

\* A service runs only while the connection it uses is open, also while the client is closed; when
\* making the client failed, none runs; and after Close of a client of api/client nothing is open.
\* Close of a client of api/rpc/client closes nothing, for newClient gives that client no closers.
NothingLeftRunning ==
    /\ ToSet(Services) \cap open # {} => "grpc" \in open
    /\ pc = "failed" => ToSet(Services) \cap open = {}
    /\ pc = "closed" /\ kind # "rpc" => open = {}
    /\ pc = "ready" /\ kind = "submit" => open = ToSet(Connections) \cup ToSet(Services) \cup {"grpc"}

ClientSound == TypeOK /\ SignsForAllowed /\ NothingLeftRunning

=============================================================================
