------------------------------ MODULE CoreFetch ------------------------------
(***************************************************************************)
(* A node's connections to consensus nodes: the configuration of           *)
(* endpoints, the start hook that waits for a connection, calls that are   *)
(* retried and carry a token, and the BlockFetcher, which puts blocks      *)
(* together from the parts of a stream and asks for the commit and the     *)
(* validators of the latest block while the chain grows.                   *)
(*                                                                         *)
(* An endpoint may send any parts in any order and may break the stream at *)
(* any time.  A block has Parts parts.  The subscription to heights is     *)
(* part of CoreListener.                                                   *)
(***************************************************************************)
EXTENDS Naturals, Sequences, FiniteSets, SequencesExt

CONSTANTS
    Parts,              \* the number of parts of a block
    MaxParts,           \* how many parts an endpoint sends at most
    MaxHeight,          \* the last height of the chain
    Attempts            \* grpc_retry.WithMax

VARIABLES
    doing,              \* what is modelled of the connection: "config", "start", "call", "block" or "info"
    endpoints,          \* the configured endpoints, the primary one first
    dir,                \* the directory of the token
    conn,               \* the state of the connection
    hook,               \* the start hook
    unary,              \* a call through the interceptors
    stream,             \* the stream of GetBlock, GetSignedBlock or GetBlockByHash
    core,               \* the height of the consensus node
    info                \* a call of GetBlockInfo

vars == <<doing, endpoints, dir, conn, hook, unary, stream, core, info>>

-----------------------------------------------------------------------------
(***************************************************************************)
(* Configuration.  A host is written in several ways; SanitizeAddr keeps   *)
(* the host of each.                                                       *)
(***************************************************************************)

Hosts == {"a", "b"}
Forms == {"plain", "scheme", "port"}
Addresses == {[host |-> h, form |-> f] : h \in Hosts \cup {""}, f \in Forms}
Ports == {"", "9090", "x"}

SanitizeAddr(addr) == [addr EXCEPT !.form = "plain"]

\* The directory of the token exists.
validEndpoint(e) ==
    /\ e.port = "9090" /\ e.ip.host # ""
    /\ e.token => e.tls

JoinHostPort(e) == <<SanitizeAddr(e.ip), e.port>>

IsEndpointConfigured(es) == es[1].ip.host # "" \/ es[1].ip.form # "plain"
Validate(es) ==
    IsEndpointConfigured(es) =>
        /\ \A i \in 1 .. Len(es) : validEndpoint(es[i])
        /\ \A i, j \in 1 .. Len(es) : JoinHostPort(es[i]) = JoinHostPort(es[j]) => i = j

\* NewMultiSource: sources by the target of their connection.
NewMultiSource(es) == {JoinHostPort(es[i]) : i \in 1 .. Len(es)}

\* parseTokenPath: the first of the file names that exists, and in it the first of the keys
\* with a token.
FileNames == <<"xtoken.json", "x-token.json">>
JSONKeys == <<"x-token", "xtoken", "token">>
NoFile == [f \in {} |-> <<>>]
parseTokenPath(d) ==
    LET files == SelectSeq(FileNames, LAMBDA f : f \in DOMAIN d)
        keys == IF files = <<>> THEN <<>> ELSE SelectSeq(JSONKeys, LAMBDA k : d[files[1]][k] # "")
    IN  IF keys = <<>> THEN "error" ELSE d[files[1]][keys[1]]

-----------------------------------------------------------------------------
Contents == [{"x-token", "xtoken", "token"} -> {"", "t"}]
Endpoint == [ip : Addresses, port : Ports, tls : BOOLEAN, token : BOOLEAN]

Init ==
    /\ doing \in {"config", "start", "call", "block", "info"}
    /\ IF doing = "config"
       THEN /\ endpoints \in {<<e>> : e \in Endpoint}
                   \cup {<<e, f>> : e \in {x \in Endpoint : ~x.tls /\ ~x.token /\ x.port # "x"}, f \in Endpoint}
            /\ dir \in {NoFile} \cup [{"xtoken.json"} -> Contents] \cup [{"x-token.json"} -> Contents]
            /\ Len(endpoints) = 2 => dir = NoFile
       ELSE endpoints = <<>> /\ dir = NoFile
    /\ conn = "idle"
    /\ hook = [pc |-> "connect", state |-> "idle", ctx |-> FALSE]
    /\ unary \in IF doing = "call" THEN [pc : {"outer"}, token : BOOLEAN, outer : {0}, inner : {0}, tokens : {0}]
                ELSE {[pc |-> "outer", token |-> FALSE, outer |-> 0, inner |-> 0, tokens |-> 0]}
    /\ stream = [pc |-> "recv", parts |-> <<>>, commit |-> FALSE, block |-> <<>>]
    /\ core = 1
    /\ info = [pc |-> "commit", height |-> 0, commit |-> 0, valSet |-> 0]

\* The node with the configuration of endpoints: refused, or a connection for each of them.
Configure ==
    /\ doing = "config" /\ conn = "idle"
    /\ conn' = IF Validate(endpoints) /\ (endpoints[1].token => parseTokenPath(dir) # "error")
               THEN "ready" ELSE "refused"
    /\ UNCHANGED <<doing, endpoints, dir, hook, unary, stream, core, info>>

-----------------------------------------------------------------------------
(***************************************************************************)
(* The start hook of grpcClient.                                           *)
(***************************************************************************)

\* grpc moves the connection between its states by itself.
connChanges ==
    /\ doing = "start" /\ hook.pc # "connect"
    /\ \/ conn = "connecting" /\ conn' \in {"ready", "failure"}
       \/ conn = "failure" /\ conn' = "connecting"
       \/ conn = "ready" /\ conn' = "idle"
    /\ UNCHANGED <<doing, endpoints, dir, hook, unary, stream, core, info>>

Connect ==
    /\ doing = "start" /\ hook.pc = "connect"
    /\ conn' = "connecting" /\ hook' = [hook EXCEPT !.pc = "get"]
    /\ UNCHANGED <<doing, endpoints, dir, unary, stream, core, info>>

GetState ==
    /\ doing = "start" /\ hook.pc = "get"
    /\ hook' = [hook EXCEPT !.state = conn, !.pc = IF conn = "ready" THEN "started" ELSE "wait"]
    /\ UNCHANGED <<doing, endpoints, dir, conn, unary, stream, core, info>>

stateChanged == conn # hook.state
WaitForStateChange ==
    /\ doing = "start" /\ hook.pc = "wait"
    /\ \/ stateChanged /\ hook' = [hook EXCEPT !.pc = "get"]
       \/ hook.ctx /\ hook' = [hook EXCEPT !.pc = "failed"]
    /\ UNCHANGED <<doing, endpoints, dir, conn, unary, stream, core, info>>

expire ==
    /\ doing = "start" /\ ~hook.ctx /\ hook' = [hook EXCEPT !.ctx = TRUE]
    /\ UNCHANGED <<doing, endpoints, dir, conn, unary, stream, core, info>>

-----------------------------------------------------------------------------
(***************************************************************************)
(* A call goes through the interceptors in the order retry, token, retry;  *)
(* without a token through the first only.                                 *)
(***************************************************************************)

authInterceptor ==
    /\ doing = "call" /\ unary.pc = "outer" /\ unary.outer < Attempts
    /\ unary' = [unary EXCEPT !.pc = "invoke", !.outer = @ + 1, !.inner = 0,
                              !.tokens = IF unary.token THEN 1 ELSE 0]
    /\ UNCHANGED <<doing, endpoints, dir, conn, hook, stream, core, info>>

Innermost == IF unary.token THEN Attempts ELSE 1

\* An attempt is answered, fails for good, or found the node unavailable.
retryInterceptor ==
    /\ doing = "call" /\ unary.pc = "invoke"
    /\ \/ unary' = [unary EXCEPT !.pc = "done", !.inner = @ + 1]
       \/ unary.inner + 1 < Innermost /\ unary' = [unary EXCEPT !.inner = @ + 1]
       \/ /\ unary.inner + 1 = Innermost
          /\ unary' = [unary EXCEPT !.inner = @ + 1, !.pc = IF unary.outer = Attempts THEN "failed" ELSE "outer"]
    /\ UNCHANGED <<doing, endpoints, dir, conn, hook, stream, core, info>>

-----------------------------------------------------------------------------
(***************************************************************************)
(* Blocks from streams of parts.                                           *)
(***************************************************************************)

\* AddPartWithoutProof: FALSE for a part that is there already, an error for an index that
\* is not below the number of parts.
duplicate_Wrong(parts, i) == FALSE
duplicate(parts, i) == \E j \in 1 .. i - 1 : parts[j] = parts[i]

\* partsToBlock: the parts in the order of their indices, where a part that is missing is
\* a hole, or nothing.  Bytes of another length are no block.
Hole == Parts
partsToBlock(parts) ==
    LET n == Len(parts)
        added == \A i \in 1 .. n : parts[i] < n /\ ~duplicate(parts, i)
    IN  IF added /\ n = Parts THEN [k \in 1 .. n |-> IF k - 1 \in Range(parts) THEN k - 1 ELSE Hole] ELSE <<>>

\* receiveBlockByHeight and receiveBlockByHash: the first part by height has the commit and
\* the validators, which may not be well formed.
receive ==
    /\ doing = "block" /\ stream.pc = "recv"
    /\ \/ stream' = [stream EXCEPT !.pc = "error"]
       \/ /\ Len(stream.parts) < MaxParts
          /\ \E i \in 0 .. Parts - 1, isLast \in BOOLEAN, wellFormed \in BOOLEAN :
                LET parts == Append(stream.parts, i)
                    ok == stream.commit \/ wellFormed
                IN  stream' =
                        IF ~ok THEN [stream EXCEPT !.pc = "error"]
                        ELSE IF ~isLast THEN [stream EXCEPT !.parts = parts, !.commit = TRUE]
                        ELSE [stream EXCEPT !.parts = parts, !.commit = TRUE, !.block = partsToBlock(parts),
                                 !.pc = IF partsToBlock(parts) = <<>> THEN "error" ELSE "done"]
    /\ UNCHANGED <<doing, endpoints, dir, conn, hook, unary, core, info>>

-----------------------------------------------------------------------------
(***************************************************************************)
(* GetBlockInfo, for a height or for the latest block (height 0).          *)
(***************************************************************************)

NewBlock ==
    /\ doing = "info" /\ core < MaxHeight /\ core' = core + 1
    /\ UNCHANGED <<doing, endpoints, dir, conn, hook, unary, stream, info>>

At(h) == IF h = 0 THEN core ELSE h

\* The commit is not found, or the call fails.
Commit ==
    /\ doing = "info" /\ info.pc = "commit"
    /\ \/ \E h \in 0 .. core : info' = [info EXCEPT !.pc = "valSet", !.height = h, !.commit = At(h)]
       \/ info' = [info EXCEPT !.pc = "error"]
    /\ UNCHANGED <<doing, endpoints, dir, conn, hook, unary, stream, core>>

valSetHeight == info.commit
ValidatorSet ==
    /\ doing = "info" /\ info.pc = "valSet"
    /\ \/ info' = [info EXCEPT !.pc = "done", !.valSet = At(valSetHeight)]
       \/ info' = [info EXCEPT !.pc = "error"]
    /\ UNCHANGED <<doing, endpoints, dir, conn, hook, unary, stream, core>>

Next ==
    \/ Configure \/ connChanges \/ Connect \/ GetState \/ WaitForStateChange \/ expire
    \/ authInterceptor \/ retryInterceptor \/ receive \/ NewBlock \/ Commit \/ ValidatorSet

Spec == Init /\ [][Next]_vars

-----------------------------------------------------------------------------
\* Endpoints that the configuration accepts are as many sources, in whatever form their
\* addresses are written, and a token is only sent over TLS.
SourcesDistinct ==
    doing = "config" /\ conn = "ready" /\ IsEndpointConfigured(endpoints) =>
        /\ Cardinality(NewMultiSource(endpoints)) = Len(endpoints)
        /\ \A i \in 1 .. Len(endpoints) : endpoints[i].token => endpoints[i].tls
        /\ endpoints[1].token => parseTokenPath(dir) = "t"

\* The hook never sleeps on a connection that is ready and was not when it looked: it is
\* woken by every change since it read the state.
NoLostWakeUp ==
    doing = "start" /\ hook.pc = "wait" /\ conn = "ready" => stateChanged

\* A call ends after finitely many attempts, each of which has the token once if there is one.
AttemptsBounded ==
    /\ unary.outer <= Attempts /\ unary.inner <= Innermost
    /\ unary.pc = "invoke" => unary.tokens = (IF unary.token THEN 1 ELSE 0)

\* A block has all of its parts, each once and in order, whatever the stream sent.
BlockWhole == stream.pc = "done" => stream.block = [k \in 1 .. Parts |-> k - 1]

\* The validators are those of the commit's height, also if the chain grew in between.
InfoConsistent == info.pc = "done" => info.valSet = info.commit /\ (info.height # 0 => info.commit = info.height)

FetchSound == SourcesDistinct /\ NoLostWakeUp /\ AttemptsBounded /\ BlockWhole /\ InfoConsistent

=============================================================================
