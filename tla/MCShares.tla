------------------------------ MODULE MCShares ------------------------------
(***************************************************************************)
(* Small instances of the components that cut squares into shares, blobs,  *)
(* samples and ranges, ask for them, and verify them.  They share no state *)
(* here, so a behaviour is one of a single instance, picked by part:       *)
(* "accessor" (EdsAccessor), "rows" and "retry" (ShwapNamespace with three *)
(* rows, so that there are rows inside a range, and with two rows and a    *)
(* second attempt), "blobs" (BlobRetrieval), "ids" (ShwapIds),             *)
(* "retriever" (Retriever) and "tree" (IpldTree).                          *)
(***************************************************************************)
EXTENDS Integers

VARIABLE part
VARIABLES sq, q4File, odsCached, q4Open, axisCache
VARIABLES layout, req, response, accepted, sent, attempts
VARIABLES first, content, tail, bcall, wanted, bpc, nsData, rowIndex, index, appShares, proofs, parser,
          blobs, bresult
VARIABLES odsSize, border, id, stream, ipc, read, served
VARIABLES offer, bad, asked, locked, square, misplaced, count, sig, dn, batch, stored, rctx, rpc, byz, rresult
VARIABLES call, row, target, missing, main, ctx, jobs, closed, panicked, counter, loops, working, failed,
          low, high, leaves, left, right, absent, absenceLeaf

Accessor == INSTANCE EdsAccessor WITH Values <- {1, 3}
ThreeRows == INSTANCE ShwapNamespace WITH
    K <- 3, Layouts <- {<<1, 3, 3, 3, 3, 3, 3, 3, 5>>, <<1, 1, 1, 1, 1, 3, 5, 5, 5>>},
    Namespaces <- {1, 2, 3, 4, 6}, MaxAttempts <- 1
Retry == INSTANCE ShwapNamespace WITH
    K <- 2, Layouts <- {<<1, 3, 3, 3>>, <<1, 1, 3, 5>>, <<3, 3, 3, 3>>},
    Namespaces <- {1, 2, 3, 4, 6}, MaxAttempts <- 2
Retrieval == INSTANCE BlobRetrieval WITH
    Side <- 4, Blobs <- {"a", "b", "c", "d"}, Length <- [a |-> 1, b |-> 2, c |-> 3, d |-> 5],
    Threshold <- 2, Firsts <- {0, 1, 4, 6}, MaxBlobs <- 3, call <- bcall, pc <- bpc, result <- bresult
Ids == INSTANCE ShwapIds WITH Word <- 4, Heights <- {0, 1, 5}, OdsSizes <- {1, 2}, pc <- ipc
\* A quadrant, a diagonal that repairs row 0 only, and cells that repair all but are asked
\* for in several quadrants; the corrupt cell is one that only the repair computes.
Retrieve == INSTANCE Retriever WITH
    Size <- 4, MaxAsked <- 3, Corrupt <- {{}, {<<0, 3>>}},
    Offers <- {(0..1) \X (2..3), {<<0, 0>>, <<1, 1>>, <<2, 2>>, <<3, 3>>, <<0, 1>>},
               {<<0, 0>>, <<0, 1>>, <<0, 2>>, <<1, 3>>, <<0, 3>>, <<1, 0>>}},
    ctx <- rctx, pc <- rpc, result <- rresult
Tree == INSTANCE IpldTree WITH
    Depth <- 2, Parity <- 9, Targets <- {2}, Losses <- {{}, {<<2, 1>>}, {<<1, 0>>}},
    Rows <- {<<1, 2, 2, 3>>, <<2, 2, 2, 9>>, <<1, 1, 3, 9>>, <<1, 3, 3, 3>>, <<1, 1, 1, 2>>,
             <<3, 3, 9, 9>>, <<2, 3, 9, 9>>}

accessorVars == <<sq, q4File, odsCached, q4Open, axisCache>>
namespaceVars == <<layout, req, response, accepted, sent, attempts>>
blobVars == <<first, content, tail, bcall, wanted, bpc, nsData, rowIndex, index, appShares, proofs, parser,
              blobs, bresult>>
idVars == <<odsSize, border, id, stream, ipc, read, served>>
retrieverVars == <<offer, bad, asked, locked, square, misplaced, count, sig, dn, batch, stored, rctx, rpc,
                   byz, rresult>>
treeVars == <<call, row, target, missing, main, ctx, jobs, closed, panicked, counter, loops, working,
              failed, low, high, leaves, left, right, absent, absenceLeaf>>
vars == <<part, accessorVars, namespaceVars, blobVars, idVars, retrieverVars, treeVars>>

\* The components that do not move are in one initial state.
Init ==
    /\ part \in {"accessor", "rows", "retry", "blobs", "ids", "retriever", "tree"}
    /\ part \in {"rows", "retry"} \/ (layout = <<1, 3, 3, 3>> /\ req = [kind |-> "namespace", ns |-> 3])
    /\ part = "accessor" \/ (sq = <<1, 1, 1, 1>> /\ q4File = TRUE)
    /\ part = "blobs" \/ (first = 0 /\ content = <<>> /\ bcall = "GetAll")
    /\ part = "ids" \/ (odsSize = 1 /\ border = 0)
    /\ part = "retriever" \/ (offer = (0..1) \X (2..3) /\ bad = {})
    /\ part = "tree" \/ (call = "leaves" /\ missing = {})
    /\ Accessor!Init /\ Retrieval!Init /\ Ids!Init /\ Retrieve!Init /\ Tree!Init
    /\ IF part = "rows" THEN ThreeRows!Init ELSE Retry!Init

Next ==
    \/ /\ part = "accessor" /\ Accessor!Next
       /\ UNCHANGED <<part, namespaceVars, blobVars, idVars, retrieverVars, treeVars>>
    \/ /\ part = "rows" /\ ThreeRows!Next
       /\ UNCHANGED <<part, accessorVars, blobVars, idVars, retrieverVars, treeVars>>
    \/ /\ part = "retry" /\ Retry!Next
       /\ UNCHANGED <<part, accessorVars, blobVars, idVars, retrieverVars, treeVars>>
    \/ /\ part = "blobs" /\ Retrieval!Next
       /\ UNCHANGED <<part, accessorVars, namespaceVars, idVars, retrieverVars, treeVars>>
    \/ /\ part = "ids" /\ Ids!Next
       /\ UNCHANGED <<part, accessorVars, namespaceVars, blobVars, retrieverVars, treeVars>>
    \/ /\ part = "retriever" /\ Retrieve!Next
       /\ UNCHANGED <<part, accessorVars, namespaceVars, blobVars, idVars, treeVars>>
    \/ /\ part = "tree" /\ Tree!Next
       /\ UNCHANGED <<part, accessorVars, namespaceVars, blobVars, idVars, retrieverVars>>

Spec == Init /\ [][Next]_vars

-----------------------------------------------------------------------------
(***************************************************************************)
(* The components' properties, each for the instances it is about.         *)
(***************************************************************************)

\* Whatever was read before, from a file, from memory or from a cache, every axis is the
\* axis of the stored square, samples are the shares asked for and verify, what is
\* streamed is read back as the same square, and the file has the size put expects.
AccessorExact ==
    part = "accessor" =>
        /\ Accessor!TypeOK /\ Accessor!AxesExact /\ Accessor!SamplesVerify
        /\ Accessor!StreamExact /\ Accessor!FileExact

\* What is accepted as the answer to a request is what was asked for: a sample that
\* verifies at some coordinates is the share there, and a range or the data of a
\* namespace has no share missing or of another place; and the answer of a server that has
\* the square is accepted, whatever an earlier attempt has left in the container.
AcceptedIsAsked ==
    /\ part = "accessor" => Accessor!VerifiedMeansShare
    /\ part = "rows" => ThreeRows!TypeOK /\ ThreeRows!AcceptedIsAsked /\ ThreeRows!AnswerAccepted /\ ThreeRows!RangeComplete
    /\ part = "retry" => Retry!TypeOK /\ Retry!AcceptedIsAsked /\ Retry!AnswerAccepted /\ Retry!RangeComplete

\* Get, GetProof, GetAll and Included, which walk the namespace's rows share by share, find
\* exactly the blobs of the block, at their places and with proofs of all their rows and no
\* other, whatever padding, sequence or row boundary is between them.
BlobsExact == part = "blobs" => Retrieval!BlobsExact

\* An identifier that fits its encoding is read back as the same one, whatever its kind and
\* wherever the stream is cut, and is answered with exactly the shares it names, or with an error
\* for a range across namespaces; a row that is sent from any of its sides stands for the same
\* shares.
IdsSound == part = "ids" => Ids!IdsSound

\* However the workers' requests for quadrants interleave with the repair, the retriever
\* is told of every share it has to look at again, and its verdict is right: the square it
\* returns is the block's, and it blames the encoding only if the encoding is wrong.  And
\* walks over the namespaced Merkle tree, in parallel and with nodes that cannot be fetched,
\* close the queue of jobs once, when nobody can add to it any more, and collect all leaves
\* of the tree, or of the namespace, with the sides of the proof next to them.
RetrievalSound ==
    /\ part = "retriever" => Retrieve!TypeOK /\ Retrieve!NoLostSignal /\ Retrieve!VerdictRight
    /\ part = "tree" => /\ Tree!CollectedExact /\ Tree!LeavesComplete /\ Tree!ClosedOnce /\ Tree!WalksExact

=============================================================================
