--------------------------- MODULE ShwapNamespace ---------------------------
(***************************************************************************)
(* Answers to requests for a range of shares and for the data of a         *)
(* namespace (share/shwap): the server streams one row after another, the  *)
(* client collects the rows of the stream in the container it has made for *)
(* the request, which is the same for every attempt, and verifies it       *)
(* against the row roots of the header.                                    *)
(*                                                                         *)
(* An answer to a range is any sequence of parts of consecutive rows with  *)
(* their proofs, an answer to a namespace may be for another one, and both *)
(* may end early after a row.  Shares are pairs of a namespace and their   *)
(* place in the square.  Hashes are free of collisions: the root of a row  *)
(* is the row itself, and a proof holds all leaves of the row outside of   *)
(* what is proved.                                                         *)
(*                                                                         *)
(* A definition X_Wrong in front of X is a faulty variant of it, used to   *)
(* see that the properties notice the fault.                               *)
(***************************************************************************)
EXTENDS Integers, Sequences, SequencesExt

CONSTANTS
    K,            \* width of the ODS
    Layouts,      \* namespaces of the shares of an ODS, in row-major order, sorted
    Namespaces,   \* the namespaces asked for
    MaxAttempts   \* bound: attempts of a request

Parity == 99      \* the namespace of parity shares, larger than all others
None == <<>>

VARIABLES
    layout,     \* the square
    req,        \* the request
    response,   \* the container of the request
    accepted,   \* the last answer was verified
    sent,       \* history: the rows of the last answer
    attempts

vars == <<layout, req, response, accepted, sent, attempts>>

-----------------------------------------------------------------------------
(***************************************************************************)
(* Rows, roots and proofs.                                                 *)
(***************************************************************************)

Share(i) == [ns |-> layout[i + 1], at |-> i]
DataShares(from, to) == [n \in 1..(to - from) |-> Share(from + n - 1)]
ExtendShares(data) == data \o [c \in 1..Len(data) |-> [ns |-> Parity, at |-> <<data, c>>]]
Row(r) == ExtendShares(DataShares(r * K, (r + 1) * K))

Outside(leaves, start, end) == [p \in (1..Len(leaves)) \ ((start + 1)..end) |-> leaves[p]]
Inclusion(leaves, start, end) == [absent |-> FALSE, start |-> start, end |-> end, nodes |-> Outside(leaves, start, end)]

\* The leaves a proof and the shares it is for stand for; None if they do not fit.
ProvedRow(proof, shares) ==
    IF Len(shares) # proof.end - proof.start THEN None
    ELSE [p \in 1..(2 * K) |-> IF p \in DOMAIN proof.nodes THEN proof.nodes[p] ELSE shares[p - proof.start]]

\* ProveNamespace for an absent namespace: the first leaf after it, as a proof.
Absence(leaves, ns) ==
    LET p == SelectInSeq(leaves, LAMBDA l : l.ns > ns)
    IN  [absent |-> TRUE, start |-> p - 1, end |-> p, leaf |-> leaves[p], nodes |-> Outside(leaves, p - 1, p)]

\* VerifyNamespace: right row, only the namespace inside, and nothing of it outside.
VerifyNamespace(proof, ns, shares, row) ==
    LET proved == ProvedRow(proof, IF proof.absent THEN <<proof.leaf>> ELSE shares)
    IN  /\ proved = row
        /\ \A s \in Range(shares) : s.ns = ns
        /\ \A p \in 1..proof.start : row[p].ns < ns
        /\ \A p \in (proof.end + 1)..(2 * K) : row[p].ns > ns
        /\ proof.absent => proof.leaf.ns > ns

-----------------------------------------------------------------------------
(***************************************************************************)
(* Ranges.  Coordinates are the row and the column of a share.             *)
(***************************************************************************)

SampleCoordsFrom1DIndex(i) == [Row |-> i \div K, Col |-> i % K]

\* RangeNamespaceDataFromShares for shares from..to-1 of one row.
RangeOfRow(from, to) ==
    LET row == Row(from \div K)
        start == from % K
        end == start + (to - from)
    IN  [Shares |-> DataShares(from, to),
         Proof  |-> IF start # 0 \/ end # K THEN Inclusion(row, start, end) ELSE None]

\* RangeNamespaceDataID.ResponseReader: a row at a time, all in one namespace.
MinOf(a, b) == IF a <= b THEN a ELSE b
MaxOf(a, b) == IF a >= b THEN a ELSE b
RangeRows(from, to) ==
    LET first == from \div K
        last == (to - 1) \div K
    IN  [n \in 1..(last - first + 1) |->
            RangeOfRow(MaxOf(from, (first + n - 1) * K), MinOf(to, (first + n) * K))]
OneNamespace(from, to) == \A i \in from..(to - 1) : layout[i + 1] = layout[from + 1]

RangeOf(rows) ==
    [Shares |-> [n \in 1..Len(rows) |-> rows[n].Shares],
     First |-> IF rows = <<>> THEN None ELSE rows[1].Proof,
     Last |-> IF Len(rows) > 1 THEN rows[Len(rows)].Proof ELSE None]

ReadRange(old, rows) == RangeOf(rows)

\* verifyProofBounds.
verifyProofBounds_Wrong(r, from, to) == TRUE

verifyProofBounds(r, from, to) ==
    IF from.Row = to.Row
    THEN r.First # None \/ (from.Col = 0 /\ to.Col = K - 1)
    ELSE /\ from.Col # 0 => r.First # None
         /\ r.First # None => r.First.end = K
         /\ to.Col # K - 1 => r.Last # None
         /\ r.Last # None => r.Last.start = 0

\* The root of row n of the answer, with its proof or as a whole row.
buildTreeRootFromLeaves(shares) == ExtendShares(shares)
rowProof(r, n) == IF n = 1 THEN r.First ELSE IF n = Len(r.Shares) THEN r.Last ELSE None
computedRoot(r, n) ==
    IF rowProof(r, n) # None THEN ProvedRow(rowProof(r, n), r.Shares[n]) ELSE buildTreeRootFromLeaves(r.Shares[n])

Flatten(r) == FlattenSeq(r.Shares)

\* RangeNamespaceData.VerifyInclusion, for the shares from..to-1.
VerifyInclusion(r, i, j) ==
    LET from == SampleCoordsFrom1DIndex(i)
        to == SampleCoordsFrom1DIndex(j - 1)
        flat == Flatten(r)
    IN  /\ to.Row - from.Row + 1 = Len(r.Shares)
        /\ \A n \in 1..Len(r.Shares) : r.Shares[n] # <<>>
        /\ r.First # None => r.First.start = from.Col
        /\ r.Last # None => r.Last.end - 1 = to.Col
        /\ verifyProofBounds(r, from, to)
        /\ Len(flat) = j - i
        /\ \A n \in 1..Len(flat) : flat[n].ns = flat[1].ns
        /\ r.Last # None => Len(r.Shares[Len(r.Shares)]) = r.Last.end - r.Last.start
        /\ \A n \in 1..Len(r.Shares) : computedRoot(r, n) = Row(from.Row + n - 1)

\* RangeNamespaceData.VerifyNamespace: also, no leaf that a proof adds is of the namespace.
VerifyRangeNamespace(r, i, j) ==
    /\ VerifyInclusion(r, i, j)
    /\ \A n \in {1, Len(r.Shares)} : rowProof(r, n) # None =>
           \A p \in DOMAIN rowProof(r, n).nodes : rowProof(r, n).nodes[p].ns # r.Shares[1][1].ns

\* RangeCoordsFromIdx: the index is one of the extended square, the length one of data shares.
RangeCoordsFromIdx(edsIndex, length) ==
    LET from == [Row |-> edsIndex \div (2 * K), Col |-> edsIndex % (2 * K)]
        odsIndex == from.Row * K + from.Col
    IN  <<from, SampleCoordsFrom1DIndex(odsIndex + length - 1)>>

-----------------------------------------------------------------------------
(***************************************************************************)
(* Namespaces.                                                             *)
(***************************************************************************)

\* The namespaces of a root are those of the data shares of its row.
IsOutsideRange(ns, r) == ns < layout[r * K + 1] \/ ns > layout[(r + 1) * K]

\* Rows of parity shares are outside of every namespace asked for.
RowsWithNamespace(ns) == SelectSeq([n \in 1..K |-> n - 1], LAMBDA r : ~IsOutsideRange(ns, r))

\* RowNamespaceDataFromShares: the shares of the namespace, or a proof of absence.
RowNamespaceData(ns, r) ==
    LET row == Row(r)
        in == {p \in 1..K : row[p].ns = ns}
        from == CHOOSE p \in in : \A q \in in : p <= q
        to == CHOOSE p \in in : \A q \in in : p >= q
    IN  IF in = {} THEN [Shares |-> <<>>, Proof |-> Absence(row, ns)]
        ELSE [Shares |-> SubSeq(row, from, to), Proof |-> Inclusion(row, from - 1, to)]

NamespaceRows(ns) == [n \in 1..Len(RowsWithNamespace(ns)) |-> RowNamespaceData(ns, RowsWithNamespace(ns)[n])]

\* RowNamespaceData.Verify.
VerifyRow(rnd, ns, r) ==
    /\ rnd.Proof # None
    /\ (rnd.Shares = <<>>) = rnd.Proof.absent
    /\ ~IsOutsideRange(ns, r)
    /\ VerifyNamespace(rnd.Proof, ns, rnd.Shares, Row(r))

VerifyNamespaceData(nd, ns) ==
    /\ Len(nd) = Len(RowsWithNamespace(ns))
    /\ \A n \in 1..Len(nd) : VerifyRow(nd[n], ns, RowsWithNamespace(ns)[n])

-----------------------------------------------------------------------------
(***************************************************************************)
(* The client.                                                             *)
(***************************************************************************)

Ranges == {[kind |-> "range", from |-> i, to |-> j] : i \in 0..(K * K - 1), j \in 1..(K * K)}
RangeRequests == {r \in Ranges : r.from < r.to}
NamespaceRequests == {[kind |-> "namespace", ns |-> ns] : ns \in Namespaces}

Rows(q) == IF q.kind = "range" THEN RangeRows(q.from, q.to) ELSE NamespaceRows(q.ns)
Servable(q) == q.kind = "range" => OneNamespace(q.from, q.to)

Verified(q, r) ==
    IF q.kind = "range" THEN r.Shares # <<>> /\ VerifyInclusion(r, q.from, q.to)
    ELSE r # <<>> /\ VerifyNamespaceData(r, q.ns)

\* An attempt: the rows of an answer are read and verified.
attempt(rows) ==
    /\ ~accepted /\ attempts < MaxAttempts
    /\ attempts' = attempts + 1
    /\ sent' = rows
    /\ response' = IF req.kind = "range" THEN ReadRange(response, rows) ELSE rows
    /\ accepted' = Verified(req, response')
    /\ UNCHANGED <<layout, req>>

Parts == {p \in (0..(K - 1)) \X (1..K) : p[1] < p[2]}
PartsOfRows(first, parts) ==
    [n \in 1..Len(parts) |-> LET row == (first + n - 1) * K IN RangeOfRow(row + parts[n][1], row + parts[n][2])]

\* A namespace that is in no row is not asked for.
Init ==
    /\ layout \in Layouts
    /\ req \in RangeRequests \cup {q \in NamespaceRequests : RowsWithNamespace(q.ns) # <<>>}
    /\ response = None /\ accepted = FALSE /\ sent = None /\ attempts = 0

Next ==
    \/ /\ req.kind = "range"
       /\ \E n \in 0..K : \E first \in 0..(K - n), parts \in [1..n -> Parts] : attempt(PartsOfRows(first, parts))
    \/ /\ req.kind = "namespace"
       /\ \E ns \in Namespaces : \E n \in 0..Len(NamespaceRows(ns)) : attempt(SubSeq(NamespaceRows(ns), 1, n))

Spec == Init /\ [][Next]_vars

-----------------------------------------------------------------------------
(***************************************************************************)
(* Properties.                                                             *)
(***************************************************************************)

\* Every variable has its type; proofs are for some of the data shares of a row.
ProofOK(p) == p # None => p.start >= 0 /\ p.start < p.end /\ p.end <= K
TypeOK ==
    /\ layout \in Layouts /\ accepted \in BOOLEAN /\ attempts \in 0..MaxAttempts
    /\ response # None => IF req.kind = "range" THEN ProofOK(response.First) /\ ProofOK(response.Last)
                          ELSE \A n \in 1..Len(response) : ProofOK(response[n].Proof)

\* The shares of a request, in order: the reference.
Asked ==
    IF req.kind = "range" THEN DataShares(req.from, req.to)
    ELSE SelectSeq(DataShares(0, K * K), LAMBDA s : s.ns = req.ns)

Received == IF req.kind = "range" THEN Flatten(response) ELSE FlattenSeq([n \in 1..Len(response) |-> response[n].Shares])

\* What is accepted is exactly what was asked for: no share is missing, of another
\* place or of another namespace, whichever answer it came with.
AcceptedIsAsked == accepted => Received = Asked

\* A range verifies as complete exactly when it is what was asked for and its rows hold no
\* further share of its namespace; and both ways to name a range name the same shares.
RangeComplete ==
    attempts > 0 /\ req.kind = "range" /\ response.Shares # <<>> =>
        LET row(i) == i \div K
            first == (row(req.from)) * K
            end == (row(req.to - 1) + 1) * K
        IN  /\ VerifyRangeNamespace(response, req.from, req.to) <=>
                  accepted /\ \A i \in first..(end - 1) : layout[i + 1] = layout[req.from + 1] => i \in req.from..(req.to - 1)
            /\ RangeCoordsFromIdx(row(req.from) * 2 * K + (req.from % K), req.to - req.from)
                  = <<SampleCoordsFrom1DIndex(req.from), SampleCoordsFrom1DIndex(req.to - 1)>>

\* The answer of a server that has the square is accepted, whatever an earlier
\* attempt has left in the container.
AnswerAccepted == attempts > 0 /\ Servable(req) /\ sent = Rows(req) => accepted

=============================================================================
