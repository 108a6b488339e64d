---------------------------- MODULE ShrexExchange ----------------------------
(***************************************************************************)
(* One shrex request (share/shwap/p2p/shrex): the client opens a stream,   *)
(* sends the request, reads a status and then the payload up to the end of *)
(* the stream; the server's handler checks its limits, looks up the block, *)
(* reserves memory and streams the payload piece by piece.  The end of the *)
(* stream is the only mark of the end of the payload.                      *)
(*                                                                         *)
(* The connection may be lost, either side may time out, and the handler   *)
(* may panic.  What the server has sent before a reset may still be read   *)
(* or be lost.                                                             *)
(*                                                                         *)
(* A definition X_Wrong in front of X is a faulty variant of it, used to   *)
(* see that the properties notice the fault.                               *)
(***************************************************************************)
EXTENDS Naturals, Sequences

CONSTANT Pieces    \* the pieces of the payload, for example the rows of a range

VARIABLES
    client,    \* where the client is
    result,    \* what doRequest and Get return
    got,       \* pieces of the payload read so far
    ctxDone,   \* the context of the request is done
    request,   \* "none", "sent" or "broken" (the sending side was reset)
    server,    \* where the handler is
    status,    \* the handler's status
    sent,      \* pieces of the payload sent so far
    wire,      \* what is on its way to the client
    end,       \* how the stream ends for the client: "open", "eof" or the kind of reset
    file,      \* the accessor of the block is open
    memory     \* memory is reserved

clientVars == <<client, result, got>>
serverVars == <<server, status, sent, file, memory>>
vars == <<client, result, got, ctxDone, request, server, status, sent, wire, end, file, memory>>

Resets == {"reset", "limit", "internal", "lost"}

-----------------------------------------------------------------------------
(***************************************************************************)
(* The client.                                                             *)
(***************************************************************************)

Return(r) == client' = "done" /\ result' = r

\* NewStream, within streamOpenTimeout; the limits of the protocol refuse it first.
openStream ==
    /\ client = "open"
    /\ \/ ~ctxDone /\ client' = "write" /\ server' = "accept" /\ UNCHANGED result
       \/ /\ \E r \in {"exhausted", "openErr"} : Return(r)
          /\ UNCHANGED server
    /\ UNCHANGED <<got, ctxDone, request, status, sent, wire, end, file, memory>>

\* WriteTo and CloseWrite.
writeRequest ==
    /\ client = "write"
    /\ \/ end = "open" /\ request' = "sent" /\ client' = "status" /\ UNCHANGED result
       \/ end # "open" /\ Return("sendErr") /\ request' = "broken"
    /\ UNCHANGED <<got, ctxDone, wire, end>>
    /\ UNCHANGED serverVars

resetResult(phase) ==
    CASE end = "internal" -> "internal"
      [] end = "limit" /\ phase = "status" -> "exhausted"
      [] OTHER -> IF phase = "status" THEN "statusErr" ELSE "invalidResponse"

\* The status, or the end of the stream instead of it.
readStatus ==
    /\ client = "status"
    /\ \/ /\ wire # <<>>
          /\ wire' = Tail(wire)
          /\ CASE Head(wire) = "OK" -> client' = "payload" /\ UNCHANGED result
               [] Head(wire) = "NOT_FOUND" -> Return("notFound")
               [] Head(wire) = "INTERNAL" -> Return("internal")
       \/ /\ end \in Resets \/ (end = "eof" /\ wire = <<>>)
          /\ Return(resetResult("status")) /\ UNCHANGED wire
    /\ UNCHANGED <<got, ctxDone, request, end>>
    /\ UNCHANGED serverVars

\* resp.ReadFrom: piece by piece up to the end of the stream.
readPayload_Wrong ==
    /\ client = "payload"
    /\ \/ /\ wire # <<>>
          /\ wire' = Tail(wire) /\ got' = got + 1
          /\ UNCHANGED <<client, result>>
       \/ /\ end \in Resets \/ (end = "eof" /\ wire = <<>>)
          /\ Return(IF got = Pieces THEN "ok" ELSE "exhausted")
          /\ UNCHANGED <<wire, got>>
    /\ UNCHANGED <<ctxDone, request, end>>
    /\ UNCHANGED serverVars

readPayload ==
    /\ client = "payload"
    /\ \/ /\ wire # <<>>
          /\ wire' = Tail(wire) /\ got' = got + 1
          /\ UNCHANGED <<client, result>>
       \/ /\ end \in Resets \/ (end = "eof" /\ wire = <<>>)
          /\ Return(IF end = "eof" THEN "ok" ELSE resetResult("payload"))
          /\ UNCHANGED <<wire, got>>
    /\ UNCHANGED <<ctxDone, request, end>>
    /\ UNCHANGED serverVars

\* The context ends: the stream is reset by AfterFunc, unless the request is over.
timeout ==
    /\ ~ctxDone /\ client # "done"
    /\ ctxDone' = TRUE
    /\ IF client \in {"write", "status", "payload"} /\ end \in {"open", "eof"}
       THEN end' = "lost" /\ wire' = <<>> /\ request' = "broken"
       ELSE UNCHANGED <<end, wire, request>>
    /\ UNCHANGED clientVars
    /\ UNCHANGED serverVars

\* The stream's deadline, set to that of the context, is noticed first.
deadline ==
    /\ client \in {"status", "payload"} /\ ~ctxDone
    /\ Return(IF client = "status" THEN "statusErr" ELSE "invalidResponse")
    /\ UNCHANGED <<got, ctxDone, request, wire, end>>
    /\ UNCHANGED serverVars

\* The connection is lost.
disconnect ==
    /\ client \in {"write", "status", "payload"} /\ end = "open"
    /\ end' = "lost" /\ request' = "broken"
    /\ \E n \in 0..Len(wire) : wire' = SubSeq(wire, 1, n)
    /\ UNCHANGED ctxDone
    /\ UNCHANGED clientVars
    /\ UNCHANGED serverVars

-----------------------------------------------------------------------------
(***************************************************************************)
(* The server.  A stream the client has given up breaks what is sent.      *)
(***************************************************************************)

Broken == request = "broken" \/ client = "done"
Reset(kind) == end' = IF end = "open" THEN kind ELSE end
Send(m) == wire' = IF Broken THEN wire ELSE Append(wire, m)

\* streamHandler: the limits.
accept ==
    /\ server = "accept"
    /\ \/ server' = "read" /\ UNCHANGED <<status, end>>
       \/ /\ server' = "done" /\ Reset("limit")
          /\ \E s \in {"resourceExhausted", "rateLimited"} : status' = s
    /\ UNCHANGED <<ctxDone, request, sent, wire, file, memory>>
    /\ UNCHANGED clientVars

readRequest_Wrong ==
    /\ server = "read"
    /\ request = "sent" /\ server' = "store"
    /\ UNCHANGED <<ctxDone, request, status, sent, wire, end, file, memory>>
    /\ UNCHANGED clientVars

\* The request is read and is valid; or it is not, or the read times out.
readRequest ==
    /\ server = "read"
    /\ \/ request = "sent" /\ server' = "store" /\ UNCHANGED <<status, end>>
       \/ /\ server' = "done" /\ Reset("reset")
          /\ status' = "readReqErr" \/ (request = "sent" /\ status' = "badRequest")
    /\ UNCHANGED <<ctxDone, request, sent, wire, file, memory>>
    /\ UNCHANGED clientVars

\* GetByHeight; a status other than OK, or one that cannot be sent, is the end.
Refuse(s) ==
    /\ Send(s) /\ server' = "close"
    /\ status' = IF Broken THEN "sendStatusErr" ELSE s

getByHeight ==
    /\ server = "store"
    /\ \/ server' = "reserve" /\ file' = TRUE /\ UNCHANGED <<status, wire>>
       \/ (Refuse("NOT_FOUND") \/ Refuse("INTERNAL")) /\ UNCHANGED file
    /\ UNCHANGED <<ctxDone, request, sent, end, memory>>
    /\ UNCHANGED clientVars

\* The size of the block and the memory for the response.
reserve ==
    /\ server = "reserve"
    /\ \/ server' = "reader" /\ memory' = TRUE /\ UNCHANGED <<status, wire, end, file>>
       \/ Refuse("INTERNAL") /\ file' = FALSE /\ UNCHANGED <<end, memory>>
       \/ /\ Reset("limit") /\ status' = "resourceExhausted" /\ server' = "done"
          /\ file' = FALSE /\ UNCHANGED <<wire, memory>>
    /\ UNCHANGED <<ctxDone, request, sent>>
    /\ UNCHANGED clientVars

Release == file' = FALSE /\ memory' = FALSE

\* ResponseReader loads the first piece before the status is sent.
newReader ==
    /\ server = "reader"
    /\ \/ ~Broken /\ Send("OK") /\ server' = "copy" /\ UNCHANGED <<status, file, memory>>
       \/ (Refuse("INTERNAL") \/ (Broken /\ Refuse("OK"))) /\ Release
    /\ UNCHANGED <<ctxDone, request, sent, end>>
    /\ UNCHANGED clientVars

copy ==
    /\ server = "copy"
    /\ \/ /\ ~Broken /\ sent < Pieces
          /\ Send("piece") /\ sent' = sent + 1
          /\ UNCHANGED <<server, status, end, file, memory>>
       \/ /\ sent = Pieces
          /\ status' = "success" /\ server' = "close" /\ Release
          /\ UNCHANGED <<sent, wire, end>>
       \/ /\ sent < Pieces
          /\ Reset("internal")
          /\ status' = "sendRespErr" /\ server' = "close" /\ Release
          /\ UNCHANGED <<sent, wire>>
    /\ UNCHANGED <<ctxDone, request>>
    /\ UNCHANGED clientVars

\* Closing the stream is what the client reads as its end.
close ==
    /\ server = "close"
    /\ server' = "done" /\ Reset("eof")
    /\ UNCHANGED <<ctxDone, request, status, sent, wire, file, memory>>
    /\ UNCHANGED clientVars

\* RecoveryMiddleware; deferred calls run as well.
panic ==
    /\ server \in {"store", "reserve", "reader", "copy"}
    /\ server' = "done" /\ status' = "panic"
    /\ Reset("reset") /\ Release
    /\ UNCHANGED <<ctxDone, request, sent, wire>>
    /\ UNCHANGED clientVars

-----------------------------------------------------------------------------
Init ==
    /\ client = "open" /\ result = "none" /\ got = 0 /\ ctxDone = FALSE /\ request = "none"
    /\ server = "idle" /\ status = "none" /\ sent = 0 /\ wire = <<>> /\ end = "open"
    /\ file = FALSE /\ memory = FALSE

ClientStep == openStream \/ writeRequest \/ readStatus \/ readPayload
ServerStep == accept \/ readRequest \/ getByHeight \/ reserve \/ newReader \/ copy \/ close

Next == ClientStep \/ timeout \/ deadline \/ disconnect \/ ServerStep \/ panic

Spec == Init /\ [][Next]_vars

\* The client runs on, and its context ends at some time; the peer may do nothing.
ClientFairness == WF_vars(ClientStep) /\ WF_vars(timeout)

\* The handler runs on: its reads, its work and its writes have deadlines.
ServerFairness == WF_vars(ServerStep)

-----------------------------------------------------------------------------
(***************************************************************************)
(* Properties.                                                             *)
(***************************************************************************)

\* Every variable has its type, and no more is read than was sent.
TypeOK ==
    /\ client \in {"open", "write", "status", "payload", "done"}
    /\ result \in {"none", "ok", "notFound", "exhausted", "internal", "invalidResponse", "openErr", "sendErr", "statusErr"}
    /\ got \in 0..Pieces /\ sent \in 0..Pieces /\ got <= sent
    /\ server \in {"idle", "accept", "read", "store", "reserve", "reader", "copy", "close", "done"}
    /\ end \in {"open", "eof"} \cup Resets /\ {ctxDone, file, memory} \subseteq BOOLEAN

\* A request that succeeds has read the whole payload: a handler that fails, panics
\* or is cut off half way never looks like the end of the payload.
SuccessIsWhole == result = "ok" => got = Pieces /\ sent = Pieces

\* What the client makes of the answer is what happened at the server: a block that
\* is not there, overload and failures are not taken for one another, since each has
\* another consequence for the peer.
ResultIsTrue ==
    /\ result = "notFound" => status = "NOT_FOUND"
    /\ result = "internal" => status \in {"INTERNAL", "sendRespErr"}
    /\ result = "exhausted" /\ server # "idle" => status \in {"resourceExhausted", "rateLimited"}

\* Once the handler is done, however it ended, the block's file is closed and the
\* reserved memory is returned.
Released == server = "done" => ~file /\ ~memory

\* The request ends, whatever the peer does.
RequestEnds == <>(client = "done")

\* The handler of a stream ends, whatever the client does.
HandlerEnds == server = "accept" ~> server = "done"

=============================================================================
