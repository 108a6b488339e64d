----------------------------- MODULE BlobRetrieval -----------------------------
(***************************************************************************)
(* blob/service.go, parser.go, blob.go and commitment_proof.go: finding    *)
(* the blobs of a namespace in a block, and proving a commitment.          *)
(*                                                                         *)
(* A block has one namespace of interest: its shares are one run of the    *)
(* original square, read row by row, that starts at `first' and holds the  *)
(* blobs in order, each at the next index its subtree width divides, with  *)
(* padding shares between.  A blob is its commitment, which stands for its *)
(* content; Length gives its number of shares.  retrieveWithHeader is a    *)
(* loop over the rows with a loop over the shares of a row inside, and     *)
(* each step of the module is one turn of it.                              *)
(*                                                                         *)
(* GetAll is asked for that one namespace.  For several, getAll runs       *)
(* getBlobs for each in goroutines that share nothing, and joins the lists *)
(* in the order of the namespaces, and the errors: it then returns the     *)
(* blobs of some namespaces along with the error of another.  That is not  *)
(* modelled.                                                               *)
(*                                                                         *)
(* The square's layout, the NMT and the commitment are external            *)
(* (celestia-app, go-square, nmt).                                         *)
(***************************************************************************)
EXTENDS Integers, Sequences, SequencesExt, FiniteSets

CONSTANTS
    Side,       \* width of the original square
    Blobs,      \* commitments
    Length,     \* number of shares of each
    Threshold,  \* subtreeRootThreshold
    Firsts,     \* places at which the namespace may begin
    MaxBlobs    \* bound on the blobs in the namespace

VARIABLES
    first,      \* index of the namespace's first share in the original square
    content,    \* its blobs, in order
    tail,       \* padding shares after the last blob
    call,       \* the operation
    wanted,     \* the commitment asked for
    pc,         \* "header", "data", "row", "parse", "prove" or "returned"
    nsData,     \* rows that are not visited yet
    rowIndex, index, appShares, proofs,     \* locals of retrieveWithHeader
    parser,     \* the parser
    blobs,      \* what the verifyFn of getBlobs collected
    result      \* what the call returned

vars == <<first, content, tail, call, wanted, pc, nsData, rowIndex, index, appShares, proofs, parser, blobs, result>>
block == <<first, content, tail, call, wanted>>

-----------------------------------------------------------------------------
(***************************************************************************)
(* The block (external).                                                   *)
(***************************************************************************)

CeilDiv(a, b) == (a + b - 1) \div b
RoundUpPow2(n) == CHOOSE p \in {1, 2, 4, 8, 16, 32} : p >= n /\ p < 2 * n
RoundDownPow2(n) == CHOOSE p \in {1, 2, 4, 8, 16, 32} : p <= n /\ n < 2 * p
MinSquareSize(n) == RoundUpPow2(CHOOSE k \in 1..n : k * k >= n /\ (k - 1) * (k - 1) < n)

\* inclusion.SubTreeWidth
SubTreeWidth(n) ==
    LET s == RoundUpPow2(CeilDiv(n, Threshold))
    IN IF s <= MinSquareSize(n) THEN s ELSE MinSquareSize(n)

Padding == [blob |-> "padding", part |-> 0]
IsPadding(share) == share = Padding
BlobShares(b) == [i \in 1..Length[b] |-> [blob |-> b, part |-> i]]

\* A blob begins at the first index that its subtree width divides.
Append1(s, b) ==
    LET end == first + Len(s)
        w == SubTreeWidth(Length[b])
        pads == IF s = <<>> THEN 0 ELSE (w - (end % w)) % w
    IN s \o [i \in 1..pads |-> Padding] \o BlobShares(b)

NamespaceShares ==
    LET blobsOnly == FoldLeft(Append1, <<>>, content)
    IN IF content = <<>> THEN <<>> ELSE blobsOnly \o [i \in 1..tail |-> Padding]

\* The indices of the shares of the namespace, and those of one row.
NamespaceEnd == first + Len(NamespaceShares)
RowsOf(from, to) == (from \div Side)..((to - 1) \div Side)
RowPart(r, from, to) ==
    [row |-> r,
     start |-> IF from > r * Side THEN from - r * Side ELSE 0,
     end |-> IF to < (r + 1) * Side THEN to - r * Side ELSE Side]

\* shareGetter.GetNamespaceData: a proof and the shares of every row that has some.
NamespaceData ==
    LET rows == RowsOf(first, NamespaceEnd)
        Of(r) == LET p == RowPart(r, first, NamespaceEnd)
                     from == r * Side + p.start - first
                 IN [proof |-> p, shares |-> SubSeq(NamespaceShares, from + 1, from + p.end - p.start)]
        low == first \div Side
    IN [i \in 1..Cardinality(rows) |-> Of(low + i - 1)]

-----------------------------------------------------------------------------
NoParser == [index |-> 0, length |-> 0, shares |-> <<>>]

isEmpty == parser.index = 0 /\ parser.length = 0 /\ parser.shares = <<>>

Init ==
    /\ first \in Firsts
    /\ content \in UNION {[1..n -> Blobs] : n \in 0..MaxBlobs}
    /\ tail \in (IF content = <<>> THEN {0} ELSE 0..1)
    /\ first + Len(NamespaceShares) <= Side * Side
    \* The square's builder puts the first blob at an index its width divides too.
    /\ content # <<>> => first % SubTreeWidth(Length[content[1]]) = 0
    /\ call \in {"Get", "GetProof", "Included", "GetAll", "GetCommitmentProof"}
    /\ wanted \in (IF call = "GetAll" THEN {CHOOSE b \in Blobs : TRUE} ELSE Blobs)
    /\ pc = "header" /\ nsData = <<>> /\ rowIndex = -1 /\ index = 0 /\ appShares = <<>> /\ proofs = <<>>
    /\ parser = NoParser /\ blobs = <<>> /\ result = [err |-> "none"]

\* What the calls make of the outcome of retrieve.  The proof that Included is given is the same as
\* the one that was found, or another one.
Get(r) == {IF r.err = "nil" THEN [err |-> "nil", blob |-> r.blob] ELSE [err |-> r.err]}
GetProof(r) == {IF r.err = "nil" THEN [err |-> "nil", proof |-> r.proof] ELSE [err |-> r.err]}
equal == {"nil", "ErrInvalidProof"}
Included(r) ==
    IF r.err = "nil" THEN {[err |-> e, included |-> TRUE] : e \in equal}
    ELSE IF r.err = "ErrBlobNotFound" THEN {[err |-> "nil", included |-> FALSE]}
    ELSE {[err |-> r.err]}
\* getBlobs turns ErrBlobNotFound into the list of all blobs.
getBlobs(r) == {IF r.err = "ErrBlobNotFound" THEN [err |-> "nil", all |-> blobs] ELSE [err |-> r.err]}

Returns(r) ==
    CASE call = "Get" -> Get(r) [] call = "GetProof" -> GetProof(r) [] call = "Included" -> Included(r)
      [] call = "GetAll" -> getBlobs(r) [] OTHER -> Get(r)
returnWith(r) ==
    /\ pc' = IF call = "GetCommitmentProof" /\ r.err = "nil" THEN "prove" ELSE "returned"
    /\ result' \in Returns(r)

\* headerServ.GetByHeight; then the first row whose root's range has the namespace.
retrieve ==
    /\ pc = "header"
    /\ \/ /\ pc' = "data" /\ UNCHANGED result
          /\ rowIndex' = IF content = <<>> THEN -1 ELSE first \div Side
       \/ returnWith([err |-> "header"]) /\ UNCHANGED rowIndex
    /\ UNCHANGED <<block, nsData, index, appShares, proofs, parser, blobs>>

\* shareGetter.GetNamespaceData.  A namespace that the block has not is either out of every row's
\* range, so that no row comes back or the getter says ErrNotFound, or within the range of one
\* row, which comes with a proof of absence and no shares.
retrieveWithHeader ==
    /\ pc = "data"
    /\ \/ /\ content # <<>> /\ nsData' = NamespaceData
          /\ pc' = "row" /\ UNCHANGED result
       \/ /\ content = <<>> /\ nsData' \in {<<>>, <<[proof |-> [row |-> 0, start |-> 0, end |-> 0], shares |-> <<>>]>>}
          /\ pc' = "row" /\ UNCHANGED result
       \/ /\ content = <<>> /\ returnWith([err |-> "ErrBlobNotFound"]) /\ UNCHANGED nsData
       \/ /\ returnWith([err |-> "getter"]) /\ UNCHANGED nsData
    /\ UNCHANGED <<block, rowIndex, index, appShares, proofs, parser, blobs>>

\* One turn of the loop over the rows, up to the loop over its shares, and the end of the loop.
\* appShares is nil there, so that the check for an incomplete blob finds nothing.
nextRow ==
    /\ pc = "row"
    /\ \/ /\ nsData = <<>> /\ returnWith([err |-> "ErrBlobNotFound"])
          /\ UNCHANGED <<nsData, index, appShares, proofs>>
       \/ /\ nsData # <<>> /\ Head(nsData).shares = <<>>
          /\ returnWith([err |-> "ErrBlobNotFound"])
          /\ UNCHANGED <<nsData, index, appShares, proofs>>
       \/ /\ nsData # <<>> /\ Head(nsData).shares # <<>>
          /\ nsData' = Tail(nsData)
          /\ appShares' = Head(nsData).shares
          /\ proofs' = Append(proofs, Head(nsData).proof)
          /\ index' = Head(nsData).proof.start
          /\ pc' = "parse" /\ UNCHANGED result
    /\ UNCHANGED <<block, rowIndex, parser, blobs>>

-----------------------------------------------------------------------------
(***************************************************************************)
(* The parser.                                                             *)
(***************************************************************************)

\* The shares before the first that is no padding.
skipPadding(shares) == SelectInSeq(shares, LAMBDA s : ~IsPadding(s))
Skipped(shares) == IF skipPadding(shares) = 0 THEN <<>> ELSE SubSeq(shares, skipPadding(shares), Len(shares))

\* set: skipPadding leaves the number of shares it skipped in index, to which the place is added.
set(at, shares) ==
    [index |-> at + Len(shares) - Len(Skipped(shares)),
     length |-> Length[Skipped(shares)[1].blob],
     shares |-> <<>>]

\* addShares: as many as the blob still needs; the others are given back.
addShares(p, shares) ==
    LET need == p.length - Len(p.shares)
        n == IF need < Len(shares) THEN need ELSE Len(shares)
    IN [parser |-> [p EXCEPT !.shares = @ \o SubSeq(shares, 1, n)],
        rest |-> SubSeq(shares, n + 1, Len(shares)),
        complete |-> need = n]

\* parse: the shares are those of one blob.
parse(p) == [blob |-> p.shares[1].blob, index |-> p.index]

\* The end of a row.
EndOfRow(p, prs) ==
    /\ pc' = "row" /\ rowIndex' = rowIndex + 1 /\ appShares' = <<>>
    /\ parser' = p
    /\ proofs' = IF p = NoParser THEN <<>> ELSE prs

\* Proofs of the rows before are dropped when a blob that began there was not the wanted one.
keptProofs_Wrong(wasEmpty) == proofs
keptProofs(wasEmpty) == IF wasEmpty THEN proofs ELSE <<Last(proofs)>>

\* One turn of the loop over the shares of a row.
parseBlob ==
    /\ pc = "parse"
    /\ IF isEmpty /\ Skipped(appShares) = <<>>
       THEN EndOfRow(NoParser, proofs) /\ UNCHANGED <<index, blobs, result>>
       ELSE LET wasEmpty == isEmpty
                start == IF wasEmpty THEN Skipped(appShares) ELSE appShares
                at == index + Len(appShares) - Len(start)
                p == IF wasEmpty THEN set(rowIndex * 2 * Side + index, appShares) ELSE parser
                added == addShares(p, start)
                b == parse(added.parser)
            IN IF ~added.complete
               THEN EndOfRow(added.parser, proofs) /\ UNCHANGED <<index, blobs, result>>
               ELSE IF call # "GetAll" /\ b.blob = wanted
               THEN /\ returnWith([err |-> "nil", blob |-> b, proof |-> proofs])
                    /\ parser' = added.parser
                    /\ UNCHANGED <<index, appShares, proofs, rowIndex, blobs>>
               ELSE /\ index' = at + Len(start) - Len(added.rest)
                    /\ appShares' = added.rest
                    /\ parser' = NoParser
                    /\ proofs' = keptProofs(wasEmpty)
                    /\ blobs' = IF call = "GetAll" THEN Append(blobs, b) ELSE blobs
                    /\ UNCHANGED <<rowIndex, pc, result>>
    /\ UNCHANGED <<block, nsData>>

-----------------------------------------------------------------------------
(***************************************************************************)
(* GetCommitmentProof.                                                     *)
(***************************************************************************)

\* nmt.ToLeafRanges: a range cut into the widest subtrees, of at most `width' leaves.
ToLeafRanges(from, to, width) ==
    LET next[x \in from..to] ==
            IF x = to THEN <<>>
            ELSE LET w == RoundDownPow2(IF to - x < width THEN to - x ELSE width)
                 IN <<[start |-> x, end |-> x + w]>> \o next[x + w]
    IN next[from]

\* The shares of the original square that a row's range covers.
OdsShare(i) ==
    IF i >= first /\ i < NamespaceEnd THEN NamespaceShares[i - first + 1] ELSE [blob |-> "other", part |-> i]
SharesOf(r, from, to) == [i \in 1..(to - from) |-> OdsShare(r * Side + from + i - 1)]

\* The first place in the square where every share of the blob matches; -1 when there is none.
startIndex(shares) ==
    LET places == {i \in 0..(Side * Side - Len(shares)) : \A j \in 1..Len(shares) : OdsShare(i + j - 1) = shares[j]}
    IN IF places = {} THEN -1 ELSE CHOOSE i \in places : \A j \in places : i <= j

\* computeSubtreeRoots: a fresh tree of the row's shares, whose ranges are moved by the offset.
\* The root of a power of two of shares is the sequence of the shares.
computeSubtreeRoots(shares, ranges, offset) ==
    [i \in 1..Len(ranges) |-> SubSeq(shares, ranges[i].start - offset + 1, ranges[i].end - offset)]

\* ProveCommitment: one proof for every row that the shares at start span, and its subtree roots.
RowProofs(start, n) ==
    [i \in 1..Cardinality(RowsOf(start, start + n)) |-> RowPart((start \div Side) + i - 1, start, start + n)]
RowRoots(shares, start, p) ==
    LET cursor == p.row * Side + p.start - start
    IN computeSubtreeRoots(SubSeq(shares, cursor + 1, cursor + p.end - p.start),
                           ToLeafRanges(p.start, p.end, SubTreeWidth(Len(shares))), p.start)
ProveCommitment(shares, start) ==
    LET rowProofs == RowProofs(start, Len(shares))
    IN [roots |-> FlattenSeq([i \in 1..Len(rowProofs) |-> RowRoots(shares, start, rowProofs[i])]),
        proofs |-> rowProofs]

\* GetByHeight and GetEDS come before ProveCommitment.
GetCommitmentProof ==
    /\ pc = "prove" /\ pc' = "returned"
    /\ \/ result' = [err |-> "getter"]
       \/ \E shares \in {BlobShares(result.blob.blob)} : \E start \in {startIndex(shares)} :
              result' = IF start < 0 THEN [err |-> "absent"]
                        ELSE [err |-> "nil", commitmentProof |-> ProveCommitment(shares, start)]
    /\ UNCHANGED <<block, nsData, rowIndex, index, appShares, proofs, parser, blobs>>

\* inclusion.CreateCommitment: the subtree roots of the blob's shares alone.
CreateCommitment(b) ==
    LET ranges == ToLeafRanges(0, Length[b], SubTreeWidth(Length[b]))
    IN [i \in 1..Len(ranges) |-> SubSeq(BlobShares(b), ranges[i].start + 1, ranges[i].end)]

\* CommitmentProof.Validate, and Verify against the roots of this block's rows.
Validate(p) == Len(p.roots) >= Len(p.proofs)
Verify(p, b) ==
    LET n == FoldLeft(LAMBDA acc, q : acc + q.end - q.start, 0, p.proofs)
        Ranges(i) == ToLeafRanges(p.proofs[i].start, p.proofs[i].end, SubTreeWidth(n))
        Cursor(i) == FoldLeft(LAMBDA acc, j : acc + Len(Ranges(j)), 0, [j \in 1..(i - 1) |-> j])
        Proven(i) == \A j \in 1..Len(Ranges(i)) :
                           p.roots[Cursor(i) + j] = SharesOf(p.proofs[i].row, Ranges(i)[j].start, Ranges(i)[j].end)
    IN /\ Validate(p)
       /\ p.roots = CreateCommitment(b)
       /\ \A i \in 1..Len(p.proofs) : Len(p.roots) >= Cursor(i) + Len(Ranges(i)) /\ Proven(i)
       /\ Cursor(Len(p.proofs) + 1) = Len(p.roots)

Done == pc = "returned" /\ UNCHANGED vars

Next == retrieve \/ retrieveWithHeader \/ nextRow \/ parseBlob \/ GetCommitmentProof \/ Done

Spec == Init /\ [][Next]_vars

-----------------------------------------------------------------------------
(***************************************************************************)
(* Properties.                                                             *)
(***************************************************************************)

TypeOK ==
    /\ pc \in {"header", "data", "row", "parse", "prove", "returned"}
    /\ result.err \in {"none", "nil", "header", "getter", "absent", "ErrBlobNotFound", "ErrInvalidProof"}
    /\ Len(parser.shares) <= parser.length

\* Where each blob of the namespace begins, in the original square.
Place(i) == first + Len(FoldLeft(Append1, <<>>, SubSeq(content, 1, i))) - Length[content[i]]
InEds(place) == (place \div Side) * 2 * Side + (place % Side)
Wanted == {i \in DOMAIN content : content[i] = wanted}
FirstWanted == CHOOSE i \in Wanted : \A j \in Wanted : i <= j

\* What Get, GetProof, Included and GetAll (of one namespace) answer is exactly what the block holds: the first blob with
\* the commitment, at its index in the extended square, with the proofs of the rows it spans
\* and no others; all blobs in the order of the square; ErrBlobNotFound only when there is none.
RetrievedExact ==
    pc = "returned" =>
        /\ result.err = "ErrBlobNotFound" => Wanted = {}
        /\ "blob" \in DOMAIN result =>
               /\ Wanted # {}
               /\ result.blob = [blob |-> wanted, index |-> InEds(Place(FirstWanted))]
        /\ "proof" \in DOMAIN result =>
               /\ Wanted # {}
               /\ result.proof = LET rows == RowsOf(Place(FirstWanted), Place(FirstWanted) + Length[wanted])
                                 IN [i \in 1..Cardinality(rows) |->
                                        RowPart((Place(FirstWanted) \div Side) + i - 1, first, NamespaceEnd)]
        /\ "included" \in DOMAIN result => (result.included <=> Wanted # {})
        /\ "all" \in DOMAIN result =>
               result.all = [i \in DOMAIN content |-> [blob |-> content[i], index |-> InEds(Place(i))]]

\* A commitment proof is found for every blob of the block, passes Verify for its commitment,
\* although ProveCommitment cuts the blob by rows and the commitment does not, and passes it
\* for no other commitment.
CommitmentsProven ==
    pc = "returned" /\ call = "GetCommitmentProof" =>
        /\ result.err # "absent"
        /\ "commitmentProof" \in DOMAIN result =>
               \A b \in Blobs : Verify(result.commitmentProof, b) <=> b = wanted

\* The answers of the blob service are those of the block.
BlobsExact == TypeOK /\ RetrievedExact /\ CommitmentsProven

=============================================================================
