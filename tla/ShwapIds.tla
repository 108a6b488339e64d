------------------------------- MODULE ShwapIds -------------------------------
(***************************************************************************)
(* share/shwap/*_id.go, row.go, share.go: the identifiers of what one node *)
(* asks another one for, their binary form, and the answer to the request  *)
(* for a row.                                                              *)
(*                                                                         *)
(* A client builds an identifier for a block it has the header of, writes  *)
(* it to a stream, and the server, which knows the kind from the name of   *)
(* the protocol, reads it and answers from the block it has stored.        *)
(* Integers keep their widths: a symbol on the wire has Word values and    *)
(* stands for 16 bits, a 32-bit number takes two and a height four.        *)
(***************************************************************************)
EXTENDS Integers, Sequences, SequencesExt

CONSTANTS
    Word,       \* number of values of a uint16
    Heights,    \* heights asked for, 0 among them
    OdsSizes    \* widths of the original squares

\* Namespaces: the last one is not for data.
Namespaces == 0..2
ParityShares == 2

VARIABLES
    odsSize,    \* width of the original square of the block
    border,     \* where the second of the two namespaces of its shares begins
    id,         \* the identifier the client built
    stream,     \* the bytes written to the stream
    pc,         \* where the request is
    read,       \* what the server read
    served      \* coordinates of the shares that the server answers with

vars == <<odsSize, border, id, stream, pc, read, served>>

edsSize == 2 * odsSize
NoId == [kind |-> "none", height |-> 0, RowIndex |-> 0, ShareIndex |-> 0, DataNamespace |-> 0, From |-> 0, To |-> 0]

-----------------------------------------------------------------------------
(***************************************************************************)
(* Validation.                                                             *)
(***************************************************************************)

EdsValidate(i) == i.height # 0
RowValidate(i) == i.RowIndex >= 0 /\ EdsValidate(i)
SampleValidate(i) == i.ShareIndex >= 0 /\ RowValidate(i)
NamespaceValidate(i) == EdsValidate(i) /\ i.DataNamespace # ParityShares
RowNamespaceValidate(i) == RowValidate(i) /\ i.DataNamespace # ParityShares
RangeValidate(i) == EdsValidate(i) /\ i.From >= 0 /\ i.To > 0 /\ i.From < i.To

RowVerify(i, size) == size # 0 /\ i.RowIndex < size /\ RowValidate(i)
SampleVerify(i, size) == RowVerify(i, size) /\ i.ShareIndex < size /\ SampleValidate(i)
RowNamespaceVerify(i, size) == RowVerify(i, size) /\ RowNamespaceValidate(i)
RangeVerify_Wrong(i, ods) == RangeValidate(i) /\ i.From < ods * ods
RangeVerify(i, ods) == RangeValidate(i) /\ i.From < ods * ods /\ i.To <= ods * ods

\* The constructors: nothing is built for what is not in the square.
NewEdsID(i) == EdsValidate(i)
NewRowID(i, size) == RowVerify(i, size)
NewSampleID(i, size) == SampleVerify(i, size)
NewNamespaceDataID(i) == NamespaceValidate(i)
NewRowNamespaceDataID(i, size) == RowNamespaceVerify(i, size)
NewRangeNamespaceDataID(i, ods) == RangeVerify(i, ods)
NewRangeNamespaceDataIDV0(i, ods) == NewRangeNamespaceDataID(i, ods)

Constructed(i, ods) ==
    CASE i.kind = "eds" -> NewEdsID(i) [] i.kind = "row" -> NewRowID(i, 2 * ods)
      [] i.kind = "sample" -> NewSampleID(i, 2 * ods) [] i.kind = "namespace" -> NewNamespaceDataID(i)
      [] i.kind = "rowNamespace" -> NewRowNamespaceDataID(i, 2 * ods)
      [] i.kind = "range" -> NewRangeNamespaceDataID(i, ods)
      [] i.kind = "rangeV0" -> NewRangeNamespaceDataIDV0(i, ods)

-----------------------------------------------------------------------------
(***************************************************************************)
(* Binary form: big endian, of fixed size, one field after the other.      *)
(***************************************************************************)

AppendUint16(data, n) == Append(data, n % Word)
AppendUint32(data, n) == data \o <<(n \div Word) % Word, n % Word>>
AppendUint64(data, n) == data \o <<0, 0>> \o <<(n \div Word) % Word, n % Word>>
Uint16(data, at) == data[at + 1]
Uint32(data, at) == data[at + 1] * Word + data[at + 2]
Uint64(data, at) == data[at + 3] * Word + data[at + 4]

EdsIDSize == 4
RowIDSize == EdsIDSize + 1
SampleIDSize == RowIDSize + 1
NamespaceDataIDSize == EdsIDSize + 1
RowNamespaceDataIDSize == RowIDSize + 1
RangeNamespaceDataIDSize == EdsIDSize + 4
RangeNamespaceDataIDV0Size == EdsIDSize + 2
IDSize ==
    [eds |-> EdsIDSize, row |-> RowIDSize, sample |-> SampleIDSize, namespace |-> NamespaceDataIDSize,
     rowNamespace |-> RowNamespaceDataIDSize, range |-> RangeNamespaceDataIDSize, rangeV0 |-> RangeNamespaceDataIDV0Size]

EdsAppendBinary(i) == AppendUint64(<<>>, i.height)
RowAppendBinary(i) == AppendUint16(EdsAppendBinary(i), i.RowIndex)
SampleAppendBinary(i) == AppendUint16(RowAppendBinary(i), i.ShareIndex)
NamespaceAppendBinary(i) == Append(EdsAppendBinary(i), i.DataNamespace)
RowNamespaceAppendBinary(i) == Append(RowAppendBinary(i), i.DataNamespace)
RangeAppendTo(i) == AppendUint32(AppendUint32(EdsAppendBinary(i), i.From), i.To)
RangeV0AppendTo(i) == AppendUint16(AppendUint16(EdsAppendBinary(i), i.From), i.To)

\* MarshalBinary and WriteTo: only the identifier of a range is validated again before it is written.
EdsWriteTo(i) == EdsAppendBinary(i)
RowWriteTo(i) == RowAppendBinary(i)
SampleWriteTo(i) == SampleAppendBinary(i)
NamespaceWriteTo(i) == NamespaceAppendBinary(i)
RowNamespaceWriteTo(i) == RowNamespaceAppendBinary(i)
RangeWriteTo(i) == IF RangeValidate(i) THEN RangeAppendTo(i) ELSE <<>>
RangeV0WriteTo(i) == RangeV0AppendTo(i)

WriteTo(i) ==
    CASE i.kind = "eds" -> EdsWriteTo(i) [] i.kind = "row" -> RowWriteTo(i)
      [] i.kind = "sample" -> SampleWriteTo(i) [] i.kind = "namespace" -> NamespaceWriteTo(i)
      [] i.kind = "rowNamespace" -> RowNamespaceWriteTo(i) [] i.kind = "range" -> RangeWriteTo(i)
      [] i.kind = "rangeV0" -> RangeV0WriteTo(i)

\* FromBinary: the fields are read, and NoId stands for an error.
Checked(i, ok) == IF ok THEN i ELSE NoId
EdsIDFromBinary(data) ==
    LET i == [NoId EXCEPT !.kind = "eds", !.height = Uint64(data, 0)] IN Checked(i, EdsValidate(i))
RowIDFromBinary(data) ==
    LET i == [EdsIDFromBinary(data) EXCEPT !.kind = "row", !.RowIndex = Uint16(data, EdsIDSize)] IN Checked(i, RowValidate(i))
SampleIDFromBinary(data) ==
    LET i == [RowIDFromBinary(data) EXCEPT !.kind = "sample", !.ShareIndex = Uint16(data, RowIDSize)]
    IN  Checked(i, SampleValidate(i))
NamespaceDataIDFromBinary(data) ==
    LET i == [EdsIDFromBinary(data) EXCEPT !.kind = "namespace", !.DataNamespace = data[EdsIDSize + 1]]
    IN  Checked(i, NamespaceValidate(i))
\* The namespace of a row is checked for its format, and not whether it is for data.
RowNamespaceDataIDFromBinary(data) ==
    LET i == [RowIDFromBinary(data) EXCEPT !.kind = "rowNamespace", !.DataNamespace = data[RowIDSize + 1]]
    IN  Checked(i, RowValidate(i))
RangeNamespaceDataIDFromBinary(data) ==
    LET i == [EdsIDFromBinary(data) EXCEPT !.kind = "range", !.From = Uint32(data, EdsIDSize), !.To = Uint32(data, EdsIDSize + 2)]
    IN  Checked(i, RangeValidate(i))
RangeNamespaceDataIDV0FromBinary(data) ==
    LET i == [EdsIDFromBinary(data) EXCEPT !.kind = "rangeV0", !.From = Uint16(data, EdsIDSize), !.To = Uint16(data, EdsIDSize + 1)]
    IN  Checked(i, RangeValidate(i))

FromBinary(kind, data) ==
    CASE kind = "eds" -> EdsIDFromBinary(data) [] kind = "row" -> RowIDFromBinary(data)
      [] kind = "sample" -> SampleIDFromBinary(data) [] kind = "namespace" -> NamespaceDataIDFromBinary(data)
      [] kind = "rowNamespace" -> RowNamespaceDataIDFromBinary(data)
      [] kind = "range" -> RangeNamespaceDataIDFromBinary(data)
      [] kind = "rangeV0" -> RangeNamespaceDataIDV0FromBinary(data)

-----------------------------------------------------------------------------
(***************************************************************************)
(* The row that answers a RowID.  A row is a word of a code of four shares *)
(* over three values, two of them data, in which any two determine the     *)
(* other two; Lost stands for a share that is not there.                   *)
(***************************************************************************)

Sides == {"LEFT", "RIGHT", "BOTH"}
Values == 0..2
Codeword(a, b) == <<a, b, (a + b) % 3, (a + 2 * b) % 3>>
Codewords == {Codeword(a, b) : a \in Values, b \in Values}

RowFromEDS(shares, side) ==
    [side |-> side, shares |-> CASE side = "BOTH" -> shares [] side = "LEFT" -> SubSeq(shares, 1, 2)
                                 [] side = "RIGHT" -> SubSeq(shares, 3, 4)]

RowToProto(r) ==
    IF r.side = "BOTH" THEN [HalfSide |-> "LEFT", SharesHalf |-> SubSeq(r.shares, 1, Len(r.shares) \div 2)]
    ELSE [HalfSide |-> r.side, SharesHalf |-> r.shares]
sideFromProto(s) == IF s = "LEFT" THEN "LEFT" ELSE "RIGHT"
RowFromProto(p) == [side |-> sideFromProto(p.HalfSide), shares |-> p.SharesHalf]

\* Shares: the shares at their offset, and the codec for the others.

Shares(r) ==
    IF r.side = "BOTH" THEN r.shares
    ELSE LET offset == IF r.side = "LEFT" THEN 0 ELSE 2
         IN  CHOOSE w \in Codewords : \A k \in DOMAIN r.shares : w[k + offset] = r.shares[k]

\* Verify: the number of shares, and the root of the row that they decode to, which stands for the row.
RowVerifyShares(r, root) ==
    /\ Len(r.shares) = (IF r.side = "BOTH" THEN 4 ELSE 2)
    /\ Shares(r) = root

\* MarshalJSON and UnmarshalJSON keep the side and the shares.
RowJSON(r) == [shares |-> r.shares, side |-> r.side]

-----------------------------------------------------------------------------
(***************************************************************************)
(* The request.                                                            *)
(***************************************************************************)

Ids ==
    UNION {{[NoId EXCEPT !.kind = "eds", !.height = h] : h \in Heights},
           {[NoId EXCEPT !.kind = "row", !.height = h, !.RowIndex = r] : h \in Heights, r \in -1..Word},
           {[NoId EXCEPT !.kind = "sample", !.height = h, !.RowIndex = r, !.ShareIndex = c] :
                h \in Heights, r \in -1..Word, c \in -1..Word},
           {[NoId EXCEPT !.kind = "namespace", !.height = h, !.DataNamespace = n] : h \in Heights, n \in Namespaces},
           {[NoId EXCEPT !.kind = "rowNamespace", !.height = h, !.RowIndex = r, !.DataNamespace = n] :
                h \in Heights, r \in -1..Word, n \in Namespaces},
           {[NoId EXCEPT !.kind = k, !.height = h, !.From = f, !.To = t] :
                k \in {"range", "rangeV0"}, h \in Heights, f \in -1..(Word * Word), t \in -1..(Word * Word + 1)}}

Init ==
    /\ odsSize \in OdsSizes
    /\ border \in 0..(odsSize * odsSize)
    /\ id = NoId /\ stream = <<>> /\ pc = "new" /\ read = NoId /\ served = <<>>

New ==
    /\ pc = "new"
    /\ \E i \in Ids : Constructed(i, odsSize) /\ id' = i
    /\ pc' = "write"
    /\ UNCHANGED <<odsSize, border, stream, read, served>>

\* The stream may break at any byte.
Write ==
    /\ pc = "write"
    /\ \E n \in 0..Len(WriteTo(id)) : stream' = SubSeq(WriteTo(id), 1, n)
    /\ pc' = "read"
    /\ UNCHANGED <<odsSize, border, id, read, served>>

\* ReadFrom: all bytes of the identifier, or an error.
ReadFrom ==
    /\ pc = "read"
    /\ LET i == IF Len(stream) < IDSize[id.kind] THEN NoId ELSE FromBinary(id.kind, stream)
       IN  /\ read' = i
           /\ pc' = IF i = NoId THEN "error" ELSE "serve"
    /\ UNCHANGED <<odsSize, border, id, stream, served>>

\* ResponseReader: a row is answered with its half and a sample with the share.
ResponseRow(i) == IF i.RowIndex < edsSize THEN <<<<i.RowIndex, 0>>>> ELSE <<>>
ResponseSample(i) == IF i.RowIndex < edsSize /\ i.ShareIndex < edsSize THEN <<<<i.RowIndex, i.ShareIndex>>>> ELSE <<>>

\* A range is verified against the square that is stored and read row by row, up to the first
\* row with a share of another namespace than that of the first share, which is an error.
Namespace(k) == IF k < border THEN 0 ELSE 1
Place(k) == <<k \div odsSize, k % odsSize>>
MismatchedRows(i) == {k \div odsSize : k \in {k \in i.From..(i.To - 1) : Namespace(k) # Namespace(i.From)}}
ResponseRange(i) ==
    IF ~RangeVerify(i, odsSize) THEN <<>>
    ELSE SelectSeq([k \in 1..(i.To - i.From) |-> Place(i.From + k - 1)], LAMBDA c : \A m \in MismatchedRows(i) : c[1] < m)
RangeFails(i) == ~RangeVerify(i, odsSize) \/ MismatchedRows(i) # {}

\* "failed": an error before the first row is answered as one, a later one cuts the rows short.
ResponseReader ==
    /\ pc = "serve"
    /\ served' = CASE read.kind = "row" -> ResponseRow(read) [] read.kind = "sample" -> ResponseSample(read)
                   [] read.kind \in {"range", "rangeV0"} -> ResponseRange(read) [] OTHER -> <<>>
    /\ pc' = IF read.kind \in {"range", "rangeV0"} /\ RangeFails(read) THEN "failed" ELSE "done"
    /\ UNCHANGED <<odsSize, border, id, stream, read>>

Ended == pc \in {"done", "error", "failed"} /\ UNCHANGED vars

Next == New \/ Write \/ ReadFrom \/ ResponseReader \/ Ended

-----------------------------------------------------------------------------
(***************************************************************************)
(* Properties.                                                             *)
(***************************************************************************)

TypeOK == pc \in {"new", "write", "read", "serve", "done", "error", "failed"} /\ Len(stream) <= RangeNamespaceDataIDSize

\* A number that the wire form of an identifier has room for.
Fits(i) == i.kind = "rangeV0" => i.From < Word /\ i.To < Word

\* What the server reads is what the client asked for: an identifier that was built for a square
\* keeps its value on the wire, and one that was cut short is refused, never read as another.
ReadIsAsked == pc \in {"serve", "done", "failed"} => Len(stream) = IDSize[id.kind] /\ (Fits(id) => read = id)

\* A whole identifier is never refused by the server.  It is answered with exactly the shares it
\* names, save for a range of more than one namespace, which always fails and never ends as if
\* it were complete: what is sent of it is whole rows of the first namespace.
InOneNamespace(i) == i.To <= border \/ i.From >= border
AskedIsServed ==
    /\ pc = "error" /\ Fits(id) => Len(stream) < IDSize[id.kind]
    /\ pc \in {"done", "failed"} /\ Fits(id) =>
           CASE id.kind = "row" -> served = <<<<id.RowIndex, 0>>>>
             [] id.kind = "sample" -> served = <<<<id.RowIndex, id.ShareIndex>>>>
             [] id.kind \in {"range", "rangeV0"} ->
                    /\ pc = "failed" <=> ~InOneNamespace(id)
                    /\ pc = "done" => Len(served) = id.To - id.From
                    /\ \A k \in DOMAIN served :
                           LET at == served[k][1] * odsSize + served[k][2]
                           IN  /\ at = id.From + k - 1 /\ served[k][1] < odsSize
                               /\ at < border <=> id.From < border
                    /\ served # <<>> => Last(served)[2] = odsSize - 1 \/ Len(served) = id.To - id.From
             [] OTHER -> TRUE

\* A row that is sent from any of its sides is accepted, and stands for the same shares; no half of
\* another row is.
RowsExact == pc = "new" =>
    \A w \in Codewords, s \in Sides :
        LET r == RowFromEDS(w, s)
            got == RowFromProto(RowToProto(r))
        IN  /\ RowVerifyShares(r, w) /\ RowVerifyShares(got, w) /\ Shares(got) = w
            /\ RowJSON(r) = r
            /\ \A v \in Codewords \ {w} : ~RowVerifyShares(got, v)

IdsSound == TypeOK /\ ReadIsAsked /\ AskedIsServed /\ RowsExact

=============================================================================
