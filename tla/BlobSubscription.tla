--------------------------- MODULE BlobSubscription ----------------------------
(***************************************************************************)
(* blob/service.go: Subscribe, SubscribeFromStartHeight and                *)
(* fetchAndSendBlobs.                                                      *)
(*                                                                         *)
(* A subscription is one goroutine that takes header after header, gets    *)
(* the blobs of each until it succeeds, and sends the answer on a channel  *)
(* of subscriptionBufferSize places.  Subscribe takes the headers from     *)
(* headerSub, and gives up on a reader that lets the channel fill;         *)
(* SubscribeFromStartHeight waits for one height after the other, and      *)
(* waits for its reader.  Header subscription and getAll's outcome are     *)
(* external.                                                               *)
(***************************************************************************)
EXTENDS Naturals, Sequences

CONSTANTS
    Buffer,         \* subscriptionBufferSize
    Genesis,        \* head of the chain when the caller subscribes
    MaxHeight       \* bound on the heights of the chain

VARIABLES
    kind,           \* "Subscribe" or "SubscribeFromStartHeight"
    head,           \* head of the chain
    headerCh,       \* headers of the subscription that were not taken
    headerEnd,      \* headerCh is closed
    ctx, svc,       \* the caller's context and the service's, "alive" or "done"
    pc,             \* "validate", "select", "fetch", "retry", "send", "ended" or "refused"
    height,         \* height being served
    blobCh,         \* heights in the channel
    closed,         \* the channel is closed
    full,           \* the goroutine ended because the channel was full
    received        \* heights that the reader took

vars == <<kind, head, headerCh, headerEnd, ctx, svc, pc, height, blobCh, closed, full, received>>

Init ==
    /\ kind \in {"Subscribe", "SubscribeFromStartHeight"}
    /\ head = Genesis /\ headerCh = <<>> /\ headerEnd = FALSE
    /\ ctx = "alive" /\ svc = "alive"
    /\ pc = "validate"
    /\ height \in (IF kind = "Subscribe" THEN {Genesis} ELSE 0..(Genesis + 1))
    /\ blobCh = <<>> /\ closed = FALSE /\ full = FALSE /\ received = <<>>

\* The chain grows; a header that the node learns is sent to its subscribers (external).
newHeader ==
    /\ head < MaxHeight /\ head' = head + 1
    /\ headerCh' = IF kind = "Subscribe" /\ pc # "validate" /\ ~headerEnd THEN Append(headerCh, head + 1) ELSE headerCh
    /\ UNCHANGED <<kind, headerEnd, ctx, svc, pc, height, blobCh, closed, full, received>>

\* The header subscription ends, with the context or because of a failure (external).
headerChClosed ==
    /\ kind = "Subscribe" /\ pc # "validate" /\ ~headerEnd /\ headerEnd' = TRUE
    /\ UNCHANGED <<kind, head, headerCh, ctx, svc, pc, height, blobCh, closed, full, received>>

cancel ==
    /\ ctx = "alive" /\ ctx' = "done"
    /\ UNCHANGED <<kind, head, headerCh, headerEnd, svc, pc, height, blobCh, closed, full, received>>
Stop ==
    /\ svc = "alive" /\ svc' = "done"
    /\ UNCHANGED <<kind, head, headerCh, headerEnd, ctx, pc, height, blobCh, closed, full, received>>

ended == ctx = "done" \/ svc = "done"

\* The channel is closed by the deferred call.
exit == pc' = "ended" /\ closed' = TRUE

\* SubscribeFromStartHeight asks for the first header at once, to refuse a height that is not there.
Subscribe ==
    /\ pc = "validate"
    /\ \/ /\ pc' = "select"
          /\ kind = "SubscribeFromStartHeight" => height \in 1..head
       \/ pc' = "refused"
    /\ UNCHANGED <<kind, head, headerCh, headerEnd, ctx, svc, height, blobCh, closed, full, received>>

\* case hdr := <-headerCh.
fullBuffer_Wrong == Len(blobCh) > Buffer
fullBuffer == Len(blobCh) = Buffer
takeHeader ==
    /\ pc = "select" /\ kind = "Subscribe" /\ headerCh # <<>>
    /\ headerCh' = Tail(headerCh)
    /\ IF fullBuffer
       THEN exit /\ full' = TRUE /\ UNCHANGED height
       ELSE pc' = "fetch" /\ height' = Head(headerCh) /\ UNCHANGED <<closed, full>>
    /\ UNCHANGED <<kind, head, headerEnd, ctx, svc, blobCh, received>>

\* WaitForHeight returns the header of a height that is there, or an error that is not the
\* context's.
waitForHeight ==
    /\ pc = "select" /\ kind = "SubscribeFromStartHeight"
    /\ \/ head >= height /\ pc' = "fetch" /\ UNCHANGED closed
       \/ exit
    /\ UNCHANGED <<kind, head, headerCh, headerEnd, ctx, svc, height, blobCh, full, received>>

\* case <-ctx.Done(), case <-s.ctx.Done() and the closed header channel.
selectEnds ==
    /\ pc = "select"
    /\ ended \/ (kind = "Subscribe" /\ headerEnd /\ headerCh = <<>>)
    /\ exit
    /\ UNCHANGED <<kind, head, headerCh, headerEnd, ctx, svc, height, blobCh, full, received>>

\* fetchAndSendBlobs: getAll, and the contexts afterwards.
fetchBlobs ==
    /\ pc = "fetch"
    /\ IF ended THEN exit
       ELSE pc' \in {"send", "retry"} /\ UNCHANGED closed
    /\ UNCHANGED <<kind, head, headerCh, headerEnd, ctx, svc, height, blobCh, full, received>>

\* 100 ms later.
retryFetch ==
    /\ pc = "retry"
    /\ (pc' = "fetch" /\ UNCHANGED closed) \/ (ended /\ exit)
    /\ UNCHANGED <<kind, head, headerCh, headerEnd, ctx, svc, height, blobCh, full, received>>

\* The loop of SubscribeFromStartHeight goes on to the next height; Subscribe's to the next header.
nextHeight == IF kind = "SubscribeFromStartHeight" THEN height + 1 ELSE height

sendBlobs ==
    /\ pc = "send"
    /\ \/ /\ Len(blobCh) < Buffer /\ blobCh' = Append(blobCh, height)
          /\ pc' = "select" /\ height' = nextHeight /\ UNCHANGED closed
       \/ ended /\ exit /\ UNCHANGED <<blobCh, height>>
    /\ UNCHANGED <<kind, head, headerCh, headerEnd, ctx, svc, full, received>>

\* The reader.
read ==
    /\ blobCh # <<>> /\ received' = Append(received, Head(blobCh)) /\ blobCh' = Tail(blobCh)
    /\ UNCHANGED <<kind, head, headerCh, headerEnd, ctx, svc, pc, height, closed, full>>

Goroutine == takeHeader \/ waitForHeight \/ selectEnds \/ fetchBlobs \/ retryFetch \/ sendBlobs

Stays == head = MaxHeight /\ UNCHANGED vars

Next == newHeader \/ headerChClosed \/ cancel \/ Stop \/ Subscribe \/ Goroutine \/ read \/ Stays

\* The goroutine runs; the reader need not read, and the chain need not grow.
Fairness == WF_vars(Goroutine)

-----------------------------------------------------------------------------
TypeOK ==
    /\ pc \in {"validate", "select", "fetch", "retry", "send", "ended", "refused"}
    /\ closed = (pc = "ended") /\ Len(blobCh) <= Buffer

\* What the reader has and will get is a run of heights, none missing and none twice, however
\* often a height had to be asked for; and Subscribe never waits for its reader: with a full
\* channel the goroutine ends, so that the headers behind it never pile up at a blocked send.
InOrder ==
    LET all == received \o blobCh
    IN /\ \A i \in 2..Len(all) : all[i] = all[i - 1] + 1
       /\ kind = "Subscribe" /\ pc = "send" => Len(blobCh) < Buffer
       /\ pc = "send" /\ all # <<>> => height = all[Len(all)] + 1
       /\ full => kind = "Subscribe"

\* Once the caller cancels or the service stops, the channel is closed, whether or not anyone reads.
SubscriptionEnds == (pc \notin {"validate", "refused"} /\ ended) ~> closed

=============================================================================
