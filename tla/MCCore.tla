------------------------------- MODULE MCCore -------------------------------
(***************************************************************************)
(* Small instances of the components of a bridge node that follow the      *)
(* consensus nodes.  They share no state here, so a behaviour is one of a  *)
(* single instance, picked by part: "listener" and "restart"               *)
(* (CoreListener with two sources, and with one and a restart), "exchange" *)
(* (HeaderExchange), "service" (HeaderService), "verify" (HeaderChain) and *)
(* "fetch" (CoreFetch).                                                    *)
(***************************************************************************)
EXTENDS CoreListener, HeaderExchange, Integers

CONSTANTS s1, s2

VARIABLE part
VARIABLES net, syncHead, localHead, tail, call, started
VARIABLES trusted, reason
VARIABLES doing, endpoints, dir, conn, hook, unary, stream, core, info

\* Six blocks: at the expected pace, with some that come early, with some that come late.
Paces == {<<0, 2, 4, 6, 8, 10>>, <<0, 1, 3, 4, 6, 7>>, <<0, 3, 5, 8, 11, 13>>}

\* One source, and two starts.
Restarted == INSTANCE CoreListener WITH Sources <- {s1}, MaxStarts <- 2
Headers == INSTANCE HeaderService WITH
    MaxHeight <- 4, MaxRangeRequestSize <- 2, BlocksLimit <- 3, Base <- 2, head <- localHead
\* Consecutive sets of validators have three of their four members in common.
Trust == INSTANCE HeaderChain WITH
    Sets <- <<{1, 2, 3, 4}, {1, 2, 3, 5}, {2, 3, 4, 5}, {1, 2, 4, 5}, {1, 2, 3, 4}>>, Faulty <- {4},
    MaxSigned <- 3, AppVersion <- 1

Fetch == INSTANCE CoreFetch WITH Parts <- 3, MaxParts <- 4, MaxHeight <- 3, Attempts <- 2

serviceVars == <<net, syncHead, localHead, tail, call, started>>
verifyVars == <<trusted, reason>>
fetchVars == <<doing, endpoints, dir, conn, hook, unary, stream, core, info>>
allVars == <<part, vars, exchangeVars, serviceVars, verifyVars, fetchVars>>

\* The components that do not move are in one initial state.
MCInit ==
    /\ part \in {"listener", "restart", "exchange", "service", "verify", "fetch"}
    /\ part \in {"listener", "restart"} \/ chain = [s \in {s1} |-> "ours"]
    /\ part = "exchange" \/ (time = <<0, 2, 4, 6, 8, 10>> /\ kind = "range" /\ from = 1 /\ to = 1)
    /\ part = "service" \/ (syncHead = 2 /\ localHead = 2 /\ tail = 1)
    /\ IF part = "listener" THEN Init ELSE Restarted!Init
    /\ part = "fetch" \/ doing = "start"
    /\ Fetch!Init /\ ExchangeInit /\ Headers!Init /\ Trust!Init

MCNext ==
    \/ /\ part = "listener" /\ Next /\ UNCHANGED <<part, exchangeVars, serviceVars, verifyVars, fetchVars>>
    \/ /\ part = "restart" /\ Restarted!Next /\ UNCHANGED <<part, exchangeVars, serviceVars, verifyVars, fetchVars>>
    \/ /\ part = "exchange" /\ ExchangeNext /\ UNCHANGED <<part, vars, serviceVars, verifyVars, fetchVars>>
    \/ /\ part = "service" /\ Headers!Next /\ UNCHANGED <<part, vars, exchangeVars, verifyVars, fetchVars>>
    \/ /\ part = "verify" /\ Trust!Next /\ UNCHANGED <<part, vars, exchangeVars, serviceVars, fetchVars>>
    \/ /\ part = "fetch" /\ Fetch!Next
       /\ UNCHANGED <<part, vars, exchangeVars, serviceVars, verifyVars>>

MCSpec == MCInit /\ [][MCNext]_allVars

-----------------------------------------------------------------------------
(***************************************************************************)
(* The components' properties, each for the instances it is about.         *)
(***************************************************************************)

\* The calls of the header module, while the syncer and the pruner move the ends of the
\* chain: what they return are the headers asked for, of heights that the node then had, and
\* a range or a data commitment is never longer than its bound.  And however headers of
\* other forks, with other validators or data, arrive, a header becomes trusted only if it
\* is one of the chain, as long as the faulty validators hold less than a third of every
\* set, and the header of the chain that follows is not refused.
HeadersSound ==
    /\ part = "service" => Headers!HeadersSound
    /\ part = "verify" => Trust!ChainSound

\* The endpoints of a configuration that is accepted are distinct sources; waiting for a
\* connection misses no change of its state; and whatever an endpoint sends, a block is put
\* together whole, and validators belong to the commit they come with.  The header exchange
\* fetches no more blocks at a time than it is allowed to.
FetchSound == (part = "fetch" => Fetch!FetchSound) /\ Cardinality(Running) <= FetchLimit

=============================================================================
