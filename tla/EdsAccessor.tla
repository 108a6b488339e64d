---------------------------- MODULE EdsAccessor ----------------------------
(***************************************************************************)
(* Reading a stored square.  The ODS file holds the data shares up to the  *)
(* first tail padding, the Q4 file the fourth quadrant; ODSQ4 reads an     *)
(* axis from whichever is cheaper, opens Q4 lazily and keeps the ODS in    *)
(* memory once it was read as a whole; proofsCache keeps axes, their       *)
(* extension and their proofs (store/file, share/eds/proofs_cache.go).     *)
(* Whatever was read before, and also when the Q4 file is trimmed          *)
(* meanwhile, every read must be the one of the square that was stored.    *)
(*                                                                         *)
(* Shares are numbers modulo 5, and the erasure code of an axis is the     *)
(* line through its two data shares: any two of the four shares of an      *)
(* axis determine it, and rows and columns commute, as for Reed-Solomon.   *)
(* 0 is the tail padding share.  A tree is its leaves and whether its axis *)
(* crosses the data quadrant, which decides how its leaves are namespaced. *)
(*                                                                         *)
(* A definition X_Wrong in front of X is a faulty variant of it, used to   *)
(* see that the properties notice the fault.                               *)
(***************************************************************************)
EXTENDS Integers, Sequences, SequencesExt

CONSTANT Values     \* data shares, numbers from 1 to 4

K == 2                     \* width of the ODS
Half == 0..(K - 1)
Full == 0..(2 * K - 1)
Axes == {"Row", "Col"}
TailPadding == 0
None == <<>>

VARIABLES
    sq,         \* the shares of the ODS in row-major order
    q4File,     \* the Q4 file exists
    odsCached,  \* ODS.ods: the whole ODS is in memory
    q4Open,     \* ODSQ4: "no" attempt to open Q4 yet, "open" or "none"
    axisCache   \* proofsCache: at most one entry per axis type

vars == <<sq, q4File, odsCached, q4Open, axisCache>>

-----------------------------------------------------------------------------
(***************************************************************************)
(* The erasure code and the square.                                        *)
(***************************************************************************)

ExtendShares(data) == [i \in Full |-> (data[0] + i * (data[1] - data[0])) % 5]
ReconstructShares(parity) == [i \in Full |-> (parity[0] + (i - K) * (parity[1] - parity[0])) % 5]
Extended(half) == IF half.IsParity THEN ReconstructShares(half.Shares) ELSE ExtendShares(half.Shares)

\* The extended square itself, the reference for all reads.
DataRow(r) == [c \in Half |-> sq[r * K + c + 1]]
Cell(r, c) == IF r < K THEN ExtendShares(DataRow(r))[c]
              ELSE ExtendShares([i \in Half |-> ExtendShares(DataRow(i))[c]])[r]
Axis(axis, idx) == [i \in Full |-> IF axis = "Row" THEN Cell(idx, i) ELSE Cell(i, idx)]
Tree(idx, leaves) == <<idx < K, leaves>>
Root(axis, idx) == Tree(idx, Axis(axis, idx))

-----------------------------------------------------------------------------
(***************************************************************************)
(* The files.                                                              *)
(***************************************************************************)

\* writeODS: up to the first tail padding share.
writeODS == SelectInSeq(sq, LAMBDA s : s = TailPadding)
odsFile == IF writeODS = 0 THEN sq ELSE SubSeq(sq, 1, writeODS - 1)

writeQ4 == [n \in 1..(K * K) |-> Cell(K + ((n - 1) \div K), K + ((n - 1) % K))]

\* filledSharesAmount: row by row, up to the first tail padding of the row.
filledInRow(r) == LET p == {c \in Half : DataRow(r)[c] = TailPadding}
                  IN  IF p = {} THEN K ELSE CHOOSE c \in p : \A d \in p : c <= d
filledSharesAmount == filledInRow(0) + filledInRow(1)

\* The file: the header, the roots of the rows, those of the columns, the shares.
HeaderSize == 3
AxisRoots == [r \in 1..(2 * K) |-> Root("Row", r - 1)] \o [c \in 1..(2 * K) |-> Root("Col", c - 1)]
WriteTo == <<2 * K, AxisRoots>>
writeHeader == <<"V0">> \o WriteTo
writeAxisRoots == AxisRoots
writeODSFile == writeHeader \o writeAxisRoots \o odsFile

\* OpenODS reads the header only; what follows is found with the width in it.
ReadFrom(file) ==
    IF Len(file) < HeaderSize THEN [ok |-> FALSE]
    ELSE [ok |-> TRUE, squareSize |-> file[2], datahash |-> file[3]]
readHeader(file) == IF file = <<>> \/ file[1] # "V0" THEN [ok |-> FALSE] ELSE ReadFrom(file)
RootsSize(hdr) == 2 * hdr.squareSize
OffsetWithRoots(hdr) == RootsSize(hdr) + HeaderSize
odsAxisRoots(file) == LET hdr == readHeader(file) IN SubSeq(file, HeaderSize + 1, HeaderSize + RootsSize(hdr))
odsShares(file) == SubSeq(file, OffsetWithRoots(readHeader(file)) + 1, Len(file))

\* ValidateODSSize and validateQ4Size, of what is left of a file.
ValidateODSSize(file) == LET hdr == readHeader(file)
                         IN  hdr.ok /\ Len(file) = OffsetWithRoots(hdr) + filledSharesAmount
validateQ4Size(file) == Len(file) = K * K

At(file, n) == IF n <= Len(file) THEN file[n] ELSE TailPadding

readRowHalf(file, idx) == [i \in Half |-> At(file, idx * K + i + 1)]
readColHalf(file, idx) == [i \in Half |-> At(file, idx + i * K + 1)]
readHalf(file, axis, idx) == IF axis = "Row" THEN readRowHalf(file, idx) ELSE readColHalf(file, idx)

\* square: the whole ODS in memory, and an axis outside the data quadrant
\* computed from it, share by share along the opposite axis.
readSquare(file) == [r \in Half |-> readRowHalf(file, r)]
squareHalf(s, axis, idx) == IF axis = "Row" THEN s[idx] ELSE [i \in Half |-> s[i][idx]]
oppositeAxis(axis) == IF axis = "Row" THEN "Col" ELSE "Row"
computeAxisHalf(s, axis, idx) == [i \in Half |-> ExtendShares(squareHalf(s, oppositeAxis(axis), i))[idx]]

-----------------------------------------------------------------------------
(***************************************************************************)
(* Accessors.                                                              *)
(***************************************************************************)

\* ODS.AxisHalf.
readAxisHalf(axis, idx) ==
    IF odsCached THEN squareHalf(readSquare(odsFile), axis, idx) ELSE readHalf(odsFile, axis, idx)
odsAxisHalf(axis, idx) ==
    [IsParity |-> FALSE,
     Shares |-> IF idx >= K THEN computeAxisHalf(readSquare(odsFile), axis, idx) ELSE readAxisHalf(axis, idx)]
odsAxis(axis, idx) == Extended(odsAxisHalf(axis, idx))

\* tryLoadQ4 would find an open file.
q4Loads == q4Open = "open" \/ (q4Open = "no" /\ q4File)

q4AxisHalf(axis, idx) == [IsParity |-> TRUE, Shares |-> readHalf(writeQ4, axis, idx - K)]

\* ODSQ4.AxisHalf.
innerAxisHalf(axis, idx) == IF idx >= K /\ q4Loads THEN q4AxisHalf(axis, idx) ELSE odsAxisHalf(axis, idx)

\* SampleFromShares; the position in the axis is also the one in the proof.
SampleFromShares(shares, type, axisIdx, pos) ==
    [Share |-> shares[pos], ProofType |-> type, Start |-> pos, Tree |-> Tree(axisIdx, shares)]

\* ODS.Sample chooses the axis that is in the data half, if there is one.
odsSample_Wrong(r, c) ==
    IF c < K /\ r >= K THEN SampleFromShares(odsAxis("Col", c), "Col", r, r)
    ELSE SampleFromShares(odsAxis("Row", r), "Row", r, c)
odsSample(r, c) ==
    IF c < K /\ r >= K THEN SampleFromShares(odsAxis("Col", c), "Col", c, r)
    ELSE SampleFromShares(odsAxis("Row", r), "Row", r, c)

\* ODSQ4.Sample.
innerSample(r, c) == SampleFromShares(Extended(innerAxisHalf("Row", r)), "Row", r, c)

\* proofsCache: an axis that is cached is not read again; a sample comes from the
\* cache only when the proofs of its row are there.
isCached(axis, idx) == axisCache[axis] # None /\ axisCache[axis].idx = idx
AxisHalf(axis, idx) == IF isCached(axis, idx) THEN axisCache[axis].half ELSE innerAxisHalf(axis, idx)
Sample(r, c) == IF isCached("Row", r) /\ axisCache["Row"].proofs
                THEN SampleFromShares(axisCache["Row"].shares, "Row", r, c)
                ELSE innerSample(r, c)
Shares == [n \in 1..(K * K) |-> AxisHalf("Row", (n - 1) \div K).Shares[(n - 1) % K]]

Verify(s, r, c) ==
    /\ s.Start = IF s.ProofType = "Row" THEN c ELSE r
    /\ s.Tree = Root(s.ProofType, IF s.ProofType = "Row" THEN r ELSE c)

\* Rsmt2D: the extended square in memory.
relativeIndexes(r, c, type) == IF type = "Row" THEN <<r, c>> ELSE <<c, r>>
SampleForProofAxis(r, c, type) ==
    LET at == relativeIndexes(r, c, type) IN SampleFromShares(Axis(type, at[1]), type, at[1], at[2])
rsmtAxisHalf(axis, idx) == [IsParity |-> FALSE, Shares |-> [i \in Half |-> Axis(axis, idx)[i]]]

\* ShareReader over shares of ShareSize bytes: what a Read into p bytes returns and
\* leaves.  What is left of the last share taken waits in buf.
ShareSize == 2
rawShares(from, n) == FlattenSeq([i \in 1..n |-> LET at == from + i - 1
                                                  IN  [b \in 1..ShareSize |-> <<Cell(at \div K, at % K), b>>]])
Read(rd, p) ==
    IF p <= Len(rd.buf)
    THEN [current |-> rd.current, buf |-> SubSeq(rd.buf, p + 1, Len(rd.buf)), out |-> SubSeq(rd.buf, 1, p)]
    ELSE LET n == Min({K * K - rd.current, (p - Len(rd.buf) + ShareSize - 1) \div ShareSize})
             bytes == rd.buf \o rawShares(rd.current, n)
         IN  [current |-> rd.current + n, buf |-> SubSeq(bytes, p + 1, Len(bytes)), out |-> SubSeq(bytes, 1, Min({p, Len(bytes)}))]
NewShareReader == [current |-> 0, buf |-> <<>>, out |-> <<>>]
AtEOF(rd) == rd.current >= K * K /\ rd.buf = <<>>

\* All that is read in pieces of p bytes: io.ReadAll with a buffer of p bytes.
readAll(p) ==
    LET after[n \in 0..(K * K * ShareSize + 1)] ==
            IF n = 0 THEN NewShareReader
            ELSE LET rd == after[n - 1]
                 IN  IF AtEOF(rd) THEN rd
                     ELSE LET nx == Read(rd, p) IN [nx EXCEPT !.out = rd.out \o nx.out]
    IN  after[K * K * ShareSize + 1]

\* ODS.Reader, and ReadShares at the other end, which pads what is missing.
Reader == IF odsCached THEN FlattenSeq([r \in 1..K |-> [c \in 1..K |-> readSquare(odsFile)[r - 1][c - 1]]]) ELSE odsFile
ReadShares(stream) == [n \in 1..(K * K) |-> At(stream, n)]

-----------------------------------------------------------------------------
(***************************************************************************)
(* What reads leave behind.                                                *)
(***************************************************************************)

\* Reading an axis half from the files: Q4 is opened, or the ODS kept in memory.
readInner(idx) ==
    /\ q4Open' = IF idx >= K /\ q4Open = "no" THEN (IF q4File THEN "open" ELSE "none") ELSE q4Open
    /\ odsCached' = (odsCached \/ (idx >= K /\ ~q4Loads))

store(axis, idx, half, shares, proofs) ==
    axisCache' = [axisCache EXCEPT ![axis] = [idx |-> idx, half |-> half, shares |-> shares, proofs |-> proofs]]

\* AxisHalf of an axis that is not cached.
getAxisHalf(axis, idx) ==
    /\ ~isCached(axis, idx)
    /\ readInner(idx)
    /\ store(axis, idx, innerAxisHalf(axis, idx), None, FALSE)
    /\ UNCHANGED <<sq, q4File>>

\* axisWithProofs, for the data of a namespace in a row.
axisWithProofs(idx) ==
    /\ ~(isCached("Row", idx) /\ axisCache["Row"].proofs)
    /\ IF isCached("Row", idx) THEN UNCHANGED <<q4Open, odsCached>> ELSE readInner(idx)
    /\ LET half == AxisHalf("Row", idx)
       IN  store("Row", idx, half, Extended(half), TRUE)
    /\ UNCHANGED <<sq, q4File>>

\* Sample and GetEDS read past the cache.
getSample(r) ==
    /\ ~(isCached("Row", r) /\ axisCache["Row"].proofs)
    /\ readInner(r)
    /\ UNCHANGED <<sq, q4File, axisCache>>

\* RemoveQ4 of another goroutine: an open file stays readable.
trimQ4 == q4File /\ q4File' = FALSE /\ UNCHANGED <<sq, odsCached, q4Open, axisCache>>

\* Tail padding is at the end of a square.
Squares == {s \in [1..(K * K) -> Values \cup {TailPadding}] :
               \A i \in 1..(K * K - 1) : s[i] = TailPadding => s[i + 1] = TailPadding}

Init ==
    /\ sq \in Squares /\ q4File \in BOOLEAN
    /\ odsCached = FALSE /\ q4Open = "no" /\ axisCache = [a \in Axes |-> None]

Next ==
    \/ \E idx \in Full : axisWithProofs(idx) \/ getSample(idx) \/ \E axis \in Axes : getAxisHalf(axis, idx)
    \/ trimQ4

Spec == Init /\ [][Next]_vars

-----------------------------------------------------------------------------
(***************************************************************************)
(* Properties.                                                             *)
(***************************************************************************)

\* Every variable has its type; a cached axis has its shares if it has its proofs.
TypeOK ==
    /\ sq \in Squares /\ q4File \in BOOLEAN /\ odsCached \in BOOLEAN /\ q4Open \in {"no", "open", "none"}
    /\ \A a \in Axes : axisCache[a] # None =>
           axisCache[a].idx \in Full /\ (axisCache[a].proofs => axisCache[a].shares \in [Full -> 0..4])

\* No read has been made: what follows depends on the square only.
Fresh == ~odsCached /\ q4Open = "no" /\ axisCache = [a \in Axes |-> None]

\* Every axis that is read, from the ODS file, its copy in memory, the Q4 file or
\* the cache, as data or as parity, is the axis of the stored square.
AxesExact ==
    \A axis \in Axes, idx \in Full :
        /\ Extended(AxisHalf(axis, idx)) = Axis(axis, idx)
        /\ Fresh => Extended(rsmtAxisHalf(axis, idx)) = Axis(axis, idx)

\* A sample of the accessor, of the ODS alone, or of the square in memory along either axis, is the share asked for and
\* verifies against the roots of the square.
SamplesVerify ==
    \A r \in Full, c \in Full : \A s \in {Sample(r, c), odsSample(r, c)} \cup (IF Fresh THEN {SampleForProofAxis(r, c, t) : t \in Axes} ELSE {}) :
        s.Share = Cell(r, c) /\ Verify(s, r, c)

\* A sample that verifies at some coordinates is the share there: an answer to one
\* request is never accepted as the answer to another one with a different share.
VerifiedMeansShare ==
    \A r \in Full, c \in Full : \A s \in {Sample(r, c)}, x \in Full, y \in Full :
        Verify(s, x, y) => s.Share = Cell(x, y)

\* What is streamed, without the tail padding or from memory with it, is read back
\* as the same square, and Shares returns it as well.  Read in pieces of any size,
\* the square in memory is streamed to its last byte, none missing and none twice.
StreamExact ==
    /\ ReadShares(Reader) = sq /\ Shares = sq
    /\ Fresh => \A p \in 1..(K * K * ShareSize + 1) :
                   readAll(p).out = rawShares(0, K * K) /\ AtEOF(readAll(p))

\* The file that was written whole is found again: its header, roots and shares are
\* read from where they were put.  And exactly the whole files pass the checks of
\* their sizes: every proper prefix, as a crash may leave it, is rejected.
FileExact ==
    Fresh =>
        LET file == writeODSFile
        IN  /\ readHeader(file).squareSize = 2 * K /\ readHeader(file).datahash = AxisRoots
            /\ \A i \in 1..(2 * K) : odsAxisRoots(file)[i] = Root("Row", i - 1) /\ odsAxisRoots(file)[2 * K + i] = Root("Col", i - 1)
            /\ odsShares(file) = odsFile
            /\ \A n \in 0..Len(file) : ValidateODSSize(SubSeq(file, 1, n)) <=> n = Len(file)
            /\ \A n \in 0..Len(writeQ4) : validateQ4Size(SubSeq(writeQ4, 1, n)) <=> n = Len(writeQ4)

=============================================================================
