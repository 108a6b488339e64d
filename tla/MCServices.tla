----------------------------- MODULE MCServices -----------------------------
(***************************************************************************)
(* Small instances of the services around a node: its directory, its API   *)
(* server, its access to the state machine, the fibre client,              *)
(* discovery, and how all of them start and stop.  They share no state     *)
(* here, so a behaviour is one of a single instance, picked by part:       *)
(* "state" (StateAccess), "fibre" (Fibre), "directory" (NodeStore), "api"  *)
(* (ApiServer), "set" (Discovery, with a worker for each of two peers),    *)
(* "callers" (Discovery with one peer, a caller of Peers, a rendezvous     *)
(* that returns the host itself, and connections that are lost), "node"    *)
(* (NodeLifecycle, in every configuration) and "client" (RpcApi, every     *)
(* client of every node).                                                  *)
(***************************************************************************)
EXTENDS Discovery, ApiServer

CONSTANTS n1, c1

VARIABLE part
VARIABLES sctx, lk, client, estimator, open, opened, workers, stop, sub, sent, count, access
VARIABLES chain, now, lastHost, lastRefresh, call, prefetch, asked, doing, escrow, upload
VARIABLES root, keys, data, config, account, identity, flk, badger, proc, commands, crashes, touched
VARIABLES conf, hooks, phase, numStarted, up, ctxDone, startErr, stopErr, ret
VARIABLES node, rpc, allow, making, connected, closers, called

-----------------------------------------------------------------------------
(***************************************************************************)
(* Options of transactions: prices, gas limits and maxima that bind or do  *)
(* not, signers by address and by key, right and wrong ones.               *)
(***************************************************************************)

NoOptions ==
    [gasPrice |-> 0, isGasPriceSet |-> FALSE, maxGasPrice |-> 0, gas |-> 0,
     signerAddress |-> "", keyName |-> "", feeGranter |-> ""]
Options ==
    {[NoOptions EXCEPT !.gasPrice = p, !.isGasPriceSet = TRUE, !.gas = g, !.maxGasPrice = m] :
         p \in {-1, 0, 2, 5}, g \in {0, 2}, m \in {0, 1}}
    \cup {[NoOptions EXCEPT !.signerAddress = a, !.keyName = k] :
         a \in {"", "addr1", "addr2", "malformed"}, k \in {"", "default", "other", "unknown"}}
    \cup {[NoOptions EXCEPT !.feeGranter = "malformed"]}

State == INSTANCE StateAccess WITH
    Submitters <- {"p", "q"}, Configs <- [p |-> Options, q |-> {}], DefaultMax <- 3, Prices <- {1, 4},
    Gas <- {1, 2}, MaxInt <- 8, Workers <- {0, 2}, MaxSetups <- 3,
    ctx <- sctx, conn <- estimator
Hosts == INSTANCE Fibre WITH
    Hosts <- {"h1", "h2"}, Callers <- {"a", "b"}, Interval <- 2, MaxNow <- 4, MaxHeight <- 4, Conns <- 2
Directory == INSTANCE NodeStore WITH Procs <- {"p", "q"}, MaxCommands <- 4, MaxCrashes <- 1
\* Two requests with a token and one without, all of one IP.
RequestIP == [r \in Reqs |-> "i"]
RequestToken == [r \in Reqs |-> IF r = "r3" THEN NoToken ELSE "t"]
Called == INSTANCE Discovery WITH
    Peers <- {n1}, Offered <- {n1, Self}, advertise <- FALSE, Callers <- {c1}, MaxDisconnects <- 1

Configs == [tp : {"Light", "Bridge"}, archival : BOOLEAN, das : BOOLEAN, endpoint : BOOLEAN]
Life == INSTANCE NodeLifecycle
Rpc == INSTANCE RpcApi WITH
    cfg <- node, kind <- rpc, pc <- making, open <- connected, call <- called

stateVars == <<sctx, lk, client, estimator, open, opened, workers, stop, sub, sent, count, access>>
fibreVars == <<chain, now, lastHost, lastRefresh, call, prefetch, asked, doing, escrow, upload>>
directoryVars == <<root, keys, data, config, account, identity, flk, badger, proc, commands, crashes, touched>>
nodeVars == <<conf, hooks, phase, numStarted, up, ctxDone, startErr, stopErr, ret>>
rpcVars == <<node, rpc, allow, making, connected, closers, called>>
servicesVars == <<part, stateVars, fibreVars, directoryVars, serverVars, vars, nodeVars, rpcVars>>

\* The components that do not move are in one initial state.
ServicesInit ==
    /\ part \in {"state", "fibre", "directory", "api", "set", "callers", "node", "client"}
    /\ part = "state" \/ (workers = 0 /\ access = [pc |-> "unused", held |-> "nothing", balance |-> "unknown"])
    /\ part = "fibre" \/ (chain = <<"h1", "h1">> /\ doing = "hosts")
    /\ part = "directory" \/ root = FALSE
    /\ part = "node" \/ conf = [tp |-> "Light", archival |-> FALSE, das |-> TRUE, endpoint |-> FALSE]
    /\ part = "client" \/ (node = [skipAuth |-> FALSE, core |-> TRUE, sampling |-> TRUE] /\ rpc = "read"
                          /\ allow = {"public"})
    /\ Rpc!Init /\ Life!Init /\ State!Init /\ Hosts!Init /\ Directory!Init /\ ServerInit
    /\ IF part = "set" THEN Init ELSE Called!Init

ServicesNext ==
    \/ /\ part = "state" /\ State!Next
       /\ UNCHANGED <<part, fibreVars, directoryVars, serverVars, vars, nodeVars, rpcVars>>
    \/ /\ part = "fibre" /\ Hosts!Next
       /\ UNCHANGED <<part, stateVars, directoryVars, serverVars, vars, nodeVars, rpcVars>>
    \/ /\ part = "directory" /\ Directory!Next
       /\ UNCHANGED <<part, stateVars, fibreVars, serverVars, vars, nodeVars, rpcVars>>
    \/ /\ part = "api" /\ ServerNext
       /\ UNCHANGED <<part, stateVars, fibreVars, directoryVars, vars, nodeVars, rpcVars>>
    \/ /\ part = "set" /\ Next
       /\ UNCHANGED <<part, stateVars, fibreVars, directoryVars, serverVars, nodeVars, rpcVars>>
    \/ /\ part = "callers" /\ Called!Next
       /\ UNCHANGED <<part, stateVars, fibreVars, directoryVars, serverVars, nodeVars, rpcVars>>
    \/ /\ part = "node" /\ Life!Next
       /\ UNCHANGED <<part, stateVars, fibreVars, directoryVars, serverVars, vars, rpcVars>>
    \/ /\ part = "client" /\ Rpc!Next
       /\ UNCHANGED <<part, stateVars, fibreVars, directoryVars, serverVars, vars, nodeVars>>

ServicesSpec == ServicesInit /\ [][ServicesNext]_servicesVars

-----------------------------------------------------------------------------
(***************************************************************************)
(* The components' properties, each for the instances it is about.         *)
(***************************************************************************)

\* However calls that submit transactions meet one another, a setup that fails and Stop: the
\* client is set up once and no setup that fails leaves a connection behind, nor does Stop,
\* unless a setup ends while it looks; what reaches the app has the price, gas and signer that
\* the caller asked for, an estimated price is within the caller's limit, and each blob
\* transaction is counted once; and a balance is what the account holds.
TransactionsSound == part = "state" => State!TransactionsSound

\* Whatever the endpoint answers and however calls overlap, hosts of validators are ones the
\* chain has registered, and the chain is asked at most once in an interval; the escrow
\* account is reported missing only if no connection found it; and a payment is settled only
\* for a promise of the blob.
FibreSound == part = "fibre" => Hosts!FibreSound

\* Processes that run commands in one directory at the same time, and that may die at any
\* step: one node at a time runs there, with its lock, its datastore and a whole key, and no
\* command changes the files under a running node.  A node that is closing its datastore has
\* given its lock back, and is not running any more.
StoreSound == part = "directory" => Directory!StoreSound

\* Whichever hook fails or hangs while a node starts or stops: a component runs only while
\* all that it calls runs, save for the listener's topic in a node that is not started yet or
\* stops, and a Start that failed has stopped what it started.  And whoever calls, with whichever token
\* and client: the node signs and is managed for those only who may ask for it, a client with
\* keys of its own never lets the node sign, and a client of api/client that failed or was closed leaves no
\* service running.
NodeSound == (part = "node" => Life!NodeSound) /\ (part = "client" => Rpc!ClientSound)

=============================================================================
