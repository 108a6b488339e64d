---------------------------- MODULE ShareService ----------------------------
(***************************************************************************)
(* The share module of a node (nodebuilder/share): a call looks up the     *)
(* header and asks the getters of the node one after another, on a bridge  *)
(* node the store and then the network, on a light node the network alone  *)
(* (share/shwap/getters, store/getter.go, shrex_getter).  GetRange makes a *)
(* result with proofs up to the data root of what a getter returns, which  *)
(* the caller verifies.  Meanwhile the pruner may remove the block from    *)
(* the store, and the caller may give up.                                  *)
(*                                                                         *)
(* Block 1 is a square whose shares are their places, with the namespaces  *)
(* of layout; block 2 is the empty block, of one padding share.  Height 3  *)
(* has no header.  Samples, rows, squares and the data of a namespace are  *)
(* <<height, operation, arguments>> of what they are the data of: their    *)
(* content and its verification are in EdsAccessor and ShwapNamespace.     *)
(* Peers are honest or fail; the loop over them is in ShrexGetter.         *)
(***************************************************************************)
EXTENDS Integers, Sequences, SequencesExt, FiniteSetsExt

CONSTANTS
    OdsSize,    \* width of the data square of block 1
    Layouts     \* namespaces of its shares, in row-major order, sorted

Padding == 90   \* namespace of tail padding, which is not one of data
Nothing == <<>>

VARIABLES
    layout,     \* namespaces of the shares of block 1
    getters,    \* of the node, in order
    stored,     \* the store has the block asked for
    open,       \* accessors of the store that are open
    ctxDone,    \* the caller has given up
    call        \* the call

vars == <<layout, getters, stored, open, ctxDone, call>>

Ods(h) == IF h = 1 THEN OdsSize ELSE 1
Eds(h) == 2 * Ods(h)
Amount(h) == Ods(h) * Ods(h)
NamespaceAt(h, i) == IF h = 1 THEN layout[i + 1] ELSE Padding
OneNamespace(h, from, to) == \A i \in from..(to - 1) : NamespaceAt(h, i) = NamespaceAt(h, from)

-----------------------------------------------------------------------------
(***************************************************************************)
(* The checks of arguments: the identifiers of shwap, the accessors of the *)
(* store (share/eds/validation.go) and the getters.                        *)
(***************************************************************************)

NewRowID(h, row) == row \in 0..(Eds(h) - 1)
NewSampleID(h, row, col) == NewRowID(h, row) /\ col \in 0..(Eds(h) - 1)
ValidateForData(ns) == ns # Padding

\* IsOutsideRange by the namespaces of the data shares of a row.
RowsWithNamespace(h, ns) ==
    {r \in 0..(Ods(h) - 1) : NamespaceAt(h, r * Ods(h)) <= ns /\ ns <= NamespaceAt(h, (r + 1) * Ods(h) - 1)}

\* validation.AxisHalf and validation.RowNamespaceData.
AxisHalf(h, row) == NewRowID(h, row)
RowNamespaceData(h, row, ns) == NewRowID(h, row) /\ ValidateForData(ns)

\* eds.NamespaceData: of the rows that may have the namespace.
NamespaceData(h, ns) == \A r \in RowsWithNamespace(h, ns) : RowNamespaceData(h, r, ns)

\* Coordinates of samples, two numbers each.
Coords(arg) == {<<arg[2 * i - 1], arg[2 * i]>> : i \in 1..(Len(arg) \div 2)}
ValidSamples(h, arg) == \A c \in Coords(arg) : NewSampleID(h, c[1], c[2])

\* validation.RangeNamespaceData, and RangeNamespaceDataFromShares on the namespaces.
ValidRange(h, from, to) == 0 <= from /\ from < to /\ to <= Amount(h)

-----------------------------------------------------------------------------
(***************************************************************************)
(* Ranges.  A proof covers some columns of a row.                          *)
(***************************************************************************)

\* RangeNamespaceData of an accessor: rows of shares, with proofs of the rows that are cut.
RangeNamespaceData(h, from, to) ==
    LET k == Ods(h)
        first == from \div k
        last == (to - 1) \div k
        cut == from % k # 0 \/ (first = last /\ to % k # 0)
        Lo(r) == IF r = first THEN from ELSE r * k
        Hi(r) == IF r = last THEN to ELSE (r + 1) * k
    IN  [Shares |-> [n \in 1..(last - first + 1) |->
                        LET r == first + n - 1 IN [i \in 1..(Hi(r) - Lo(r)) |-> Lo(r) + i - 1]],
         First |-> IF cut THEN <<from % k, Hi(first) - first * k>> ELSE Nothing,
         Last |-> IF to % k # 0 /\ first # last THEN <<0, to % k>> ELSE Nothing]

\* ParseNamespace: as many shares as asked for, of one namespace.
ParseNamespace(h, shares, start, end) ==
    LET flat == FlattenSeq(shares)
    IN  shares # <<>> /\ Len(flat) = end - start /\ \A s \in ToSet(flat) : NamespaceAt(h, s) = NamespaceAt(h, flat[1])

\* newGetRangeResult: rows that came without a proof are proved as whole rows.
lastRow_Wrong(end, k) == end \div k
lastRow(end, k) == (end - 1) \div k
newGetRangeResult(h, start, end, rng) ==
    LET k == Ods(h)
        first == start \div k
        last == lastRow(end, k)
        rows == Len(rng.Shares)
        Given(n) == IF n = 1 THEN rng.First ELSE IF n = rows THEN rng.Last ELSE Nothing
    IN  IF ~ParseNamespace(h, rng.Shares, start, end) \/ rows # last - first + 1 THEN Nothing
        ELSE <<[Shares |-> FlattenSeq(rng.Shares), Namespace |-> NamespaceAt(h, rng.Shares[1][1]),
                ShareProofs |-> [n \in 1..rows |-> IF Given(n) = Nothing THEN <<0, k>> ELSE Given(n)],
                RowRoots |-> [n \in 1..rows |-> <<h, first + n - 1>>],
                StartRow |-> first, EndRow |-> last, Total |-> 4 * k]>>

\* types.ShareProof.Validate: the proofs cover the data, and each its part of the row of its root.
Validate(r) ==
    LET Width(n) == r.ShareProofs[n][2] - r.ShareProofs[n][1]
        Before[n \in 0..Len(r.ShareProofs)] == IF n = 0 THEN 0 ELSE Before[n - 1] + Width(n)
    IN  /\ Len(r.ShareProofs) = Len(r.RowRoots) /\ Len(r.RowRoots) = r.EndRow - r.StartRow + 1
        /\ Before[Len(r.ShareProofs)] = Len(r.Shares)
        /\ \A n \in 1..Len(r.ShareProofs) :
               LET root == r.RowRoots[n] IN
               /\ root[2] = r.StartRow + n - 1
               /\ \A i \in 1..Width(n) :
                      r.Shares[Before[n - 1] + i] = root[2] * Ods(root[1]) + r.ShareProofs[n][1] + i - 1

\* GetRangeResult.Verify and VerifyRange, by the client of the node.
Verify(h, r) == (\A s \in ToSet(r.Shares) : NamespaceAt(h, s) = r.Namespace) /\ Validate(r)
VerifyRange(h, r, start, end) ==
    LET width == r.Total \div 4 IN
    /\ Verify(h, r)
    /\ r.StartRow * width + r.ShareProofs[1][1] = start
    /\ r.EndRow * width + r.ShareProofs[Len(r.ShareProofs)][2] = end

-----------------------------------------------------------------------------
(***************************************************************************)
(* The store's getter: the accessor of the block is opened, read and       *)
(* closed.  An answer is a sequence of one element, and an error is none.  *)
(***************************************************************************)

Data == <<call.h, call.op, call.arg>>
Answer(ok) == IF ok THEN <<Data>> ELSE Nothing

storeGetSamples == Answer(ValidSamples(call.h, call.arg))
storeGetEDS == Answer(TRUE)
storeGetRow == Answer(AxisHalf(call.h, call.arg[1]))
storeGetNamespaceData == Answer(NamespaceData(call.h, call.arg[1]))
storeGetRange ==
    LET from == call.arg[1]
        to == call.arg[2]
    IN  IF ValidRange(call.h, from, to) /\ OneNamespace(call.h, from, to)
        THEN <<RangeNamespaceData(call.h, from, to)>> ELSE Nothing

storeRead ==
    CASE call.op \in {"GetShare", "GetSamples"} -> storeGetSamples
      [] call.op = "GetEDS" -> storeGetEDS
      [] call.op = "GetRow" -> storeGetRow
      [] call.op = "GetNamespaceData" -> storeGetNamespaceData
      [] call.op = "GetRange" -> storeGetRange

\* What a getter has returned, with the kind of its error.
Returned(answer, kind) == call' = [call EXCEPT !.pc = "returned", !.answer = answer, !.kind = kind]

\* The getter that the cascade asks, with the arguments of its own caller.
Asks(getter) == call.pc = "get" /\ getters[call.getter] = getter

\* Store.GetByHeight.
openAccessor ==
    /\ Asks("store")
    /\ \/ ~stored /\ Returned(Nothing, "ErrNotFound") /\ UNCHANGED open
       \/ Returned(Nothing, "io") /\ UNCHANGED open
       \/ stored /\ open' = open + 1 /\ call' = [call EXCEPT !.pc = "read"]
    /\ UNCHANGED <<layout, getters, stored, ctxDone>>

closeAccessor == open' = open - 1
readAccessor ==
    /\ call.pc = "read"
    /\ \/ storeRead # Nothing /\ Returned(storeRead, "nil")
       \/ storeRead = Nothing /\ Returned(Nothing, "invalid")
       \/ Returned(Nothing, "io")
    /\ closeAccessor
    /\ UNCHANGED <<layout, getters, stored, ctxDone>>

-----------------------------------------------------------------------------
(***************************************************************************)
(* The shrex getter: arguments are checked and the empty block is answered *)
(* without the network, before peers are asked.                            *)
(***************************************************************************)

Empty == call.h = 2

\* The empty block's coordinates have an upper bound only.  The accessor then panics on a row
\* that is negative, and cannot prove a column that is.
emptySamples(arg) ==
    LET coords == [i \in 1..(Len(arg) \div 2) |-> <<arg[2 * i - 1], arg[2 * i]>>]
        negative == {i \in DOMAIN coords : coords[i][1] < 0 \/ coords[i][2] < 0}
    IN  IF \E i \in DOMAIN coords : coords[i][1] >= 2 \/ coords[i][2] >= 2 THEN "invalid"
        ELSE IF negative = {} THEN "local"
        ELSE IF coords[Min(negative)][1] < 0 THEN "panic" ELSE "invalid"
shrexGetSamples ==
    IF Empty THEN emptySamples(call.arg)
    ELSE IF ValidSamples(call.h, call.arg) THEN "network" ELSE "invalid"
shrexGetRow == IF NewRowID(call.h, call.arg[1]) THEN (IF Empty THEN "local" ELSE "network") ELSE "invalid"
shrexGetEDS == IF Empty THEN "local" ELSE "network"
shrexGetNamespaceData ==
    IF ~ValidateForData(call.arg[1]) THEN "invalid"
    ELSE IF RowsWithNamespace(call.h, call.arg[1]) = {} THEN "local" ELSE "network"

\* A range of the empty block is answered with no data and no error.
shrexGetRange ==
    IF Empty THEN "nothing" ELSE IF ValidRange(call.h, call.arg[1], call.arg[2]) THEN "network" ELSE "invalid"

shrexPlan ==
    CASE call.op \in {"GetShare", "GetSamples"} -> shrexGetSamples
      [] call.op = "GetEDS" -> shrexGetEDS
      [] call.op = "GetRow" -> shrexGetRow
      [] call.op = "GetNamespaceData" -> shrexGetNamespaceData
      [] call.op = "GetRange" -> shrexGetRange

NoRange == [Shares |-> <<>>, First |-> Nothing, Last |-> Nothing]

\* A peer has the block and answers, or none does in time.  No peer can serve a range of
\* more than one namespace.
askShrex ==
    /\ Asks("shrex")
    /\ CASE shrexPlan = "invalid" -> Returned(Nothing, "invalid")
         [] shrexPlan = "panic" -> call' = [call EXCEPT !.pc = "done", !.err = "panic"]
         [] shrexPlan = "local" -> Returned(<<Data>>, "nil")
         [] shrexPlan = "nothing" -> Returned(<<NoRange>>, "nil")
         [] shrexPlan = "network" ->
                \/ Returned(Nothing, "ErrNotFound")
                \/ call.op # "GetRange" /\ Returned(<<Data>>, "nil")
                \/ /\ call.op = "GetRange" /\ OneNamespace(call.h, call.arg[1], call.arg[2])
                   /\ Returned(<<RangeNamespaceData(call.h, call.arg[1], call.arg[2])>>, "nil")
    /\ UNCHANGED <<layout, getters, stored, open, ctxDone>>

-----------------------------------------------------------------------------
(***************************************************************************)
(* The calls, and the cascade of getters.                                  *)
(***************************************************************************)

Calls ==
    {[op |-> "GetShare", arg |-> <<r, c>>] : r \in {-1, 0, Eds(1) - 1, Eds(1)}, c \in {-1, 1, 2}}
        \cup {[op |-> "GetSamples", arg |-> <<0, 1, r, c>>] : r \in {-1, 1, Eds(1)}, c \in {-1, 0, Eds(1) - 1}}
        \cup {[op |-> "GetEDS", arg |-> <<>>], [op |-> "SharesAvailable", arg |-> <<>>]}
        \cup {[op |-> "GetRow", arg |-> <<r>>] : r \in {-1, 0, 1, 2, Eds(1) - 1, Eds(1)}}
        \cup {[op |-> "GetNamespaceData", arg |-> <<ns>>] : ns \in 0..4 \cup {Padding}}
        \cup {[op |-> "GetRange", arg |-> <<from, to>>] : from \in -1..(Amount(1) + 1), to \in 0..(Amount(1) + 1)}

Done(result, err) == call' = [call EXCEPT !.pc = "done", !.result = result, !.err = err]

\* CascadeGetter.GetRangeNamespaceData looks at the arguments again.
cascadeRange(from, to) == from >= 0 /\ to >= 0 /\ from < to

\* hs.GetByHeight, after GetRange has looked at its arguments.
GetByHeight ==
    /\ call.pc = "header"
    /\ IF call.op = "GetRange" /\ (call.arg[1] < 0 \/ call.arg[1] >= call.arg[2]) THEN Done(Nothing, "invalid")
       ELSE IF call.h = 3 THEN Done(Nothing, "header")
       ELSE IF call.op = "GetRange" /\ ~cascadeRange(call.arg[1], call.arg[2]) THEN Done(Nothing, "invalid")
       ELSE call' = [call EXCEPT !.pc = IF call.op = "SharesAvailable" THEN "avail" ELSE "get", !.getter = 1]
    /\ UNCHANGED <<layout, getters, stored, open, ctxDone>>

\* The availability of the node decides, see LightAvailability and EdsStore.
SharesAvailable ==
    /\ call.pc = "avail"
    /\ Done(Nothing, "nil") \/ Done(Nothing, "unavailable")
    /\ UNCHANGED <<layout, getters, stored, open, ctxDone>>

\* What the module makes of the value.
GetRange(value) ==
    newGetRangeResult(call.h, call.arg[1], call.arg[2], value)
Result(value) == IF call.op = "GetRange" THEN GetRange(value) ELSE <<value>>

\* cascadeGetters: the first value, or the next getter unless the caller has given up.  Neither
\* getter returns ErrOperationNotSupported or an ErrByzantine, on which it goes on and stops.
cascadeGetters ==
    /\ call.pc = "returned"
    /\ IF call.kind = "nil"
       THEN LET result == Result(call.answer[1]) IN Done(result, IF result = Nothing THEN "result" ELSE "nil")
       ELSE IF ctxDone THEN Done(Nothing, "ctx")
       ELSE IF call.getter = Len(getters) THEN Done(Nothing, "all")
       ELSE call' = [call EXCEPT !.pc = "get", !.getter = call.getter + 1, !.answer = Nothing,
                                 !.failed = Append(call.failed, call.kind)]
    /\ UNCHANGED <<layout, getters, stored, open, ctxDone>>

\* The block leaves the store, or is stored, and the caller may give up.
Prune == call.pc # "done" /\ stored /\ stored' = FALSE /\ UNCHANGED <<layout, getters, open, ctxDone, call>>
Put == call.pc # "done" /\ ~stored /\ "store" \in ToSet(getters) /\ stored' = TRUE /\ UNCHANGED <<layout, getters, open, ctxDone, call>>
Cancel == call.pc # "done" /\ ~ctxDone /\ ctxDone' = TRUE /\ UNCHANGED <<layout, getters, stored, open, call>>

bridgeGetter == <<"store", "shrex">>
lightGetter == <<"shrex">>

Init ==
    /\ layout \in Layouts /\ getters \in {bridgeGetter, lightGetter}
    /\ stored \in {FALSE, getters = bridgeGetter} /\ open = 0 /\ ctxDone = FALSE
    /\ \E c \in Calls, h \in 1..3 :
           call = [op |-> c.op, arg |-> c.arg, h |-> h, pc |-> "header", getter |-> 0, answer |-> Nothing, kind |-> "nil",
                   failed |-> <<>>, result |-> Nothing, err |-> "nil"]

Next ==
    \/ GetByHeight \/ SharesAvailable \/ openAccessor \/ readAccessor \/ askShrex \/ cascadeGetters
    \/ Prune \/ Put \/ Cancel

Spec == Init /\ [][Next]_vars

-----------------------------------------------------------------------------
(***************************************************************************)
(* Properties.                                                             *)
(***************************************************************************)

TypeOK == open \in 0..1 /\ stored \in BOOLEAN /\ ctxDone \in BOOLEAN /\ call.getter \in 0..Len(getters)

Finished == call.pc = "done"
Asked(op) == call.op = op /\ Finished /\ call.err = "nil"

\* A call that returns without an error was in bounds, whichever getter it came from, and has the
\* data of the block and the place asked for; and a call returns, save for a sample of a negative
\* row of the empty block, on which emptySamples panics.
AnswerInBounds ==
    /\ call.err = "panic" => Empty /\ \E c \in Coords(call.arg) : c[1] < 0
    /\ Finished /\ call.err = "nil" => call.h # 3
    /\ Asked("GetShare") \/ Asked("GetSamples") => ValidSamples(call.h, call.arg)
    /\ Asked("GetRow") => call.arg[1] \in 0..(Eds(call.h) - 1)
    /\ Finished /\ call.err = "nil" /\ call.op \notin {"GetRange", "SharesAvailable"} => call.result = <<Data>>

\* The result of GetRange has exactly the shares of the range, verifies as that range, and verifies
\* as no other range: neither of the same length nor a part of it.
RangeProven ==
    Asked("GetRange") =>
        LET r == call.result[1]
            from == call.arg[1]
            to == call.arg[2]
        IN  /\ r.Shares = [i \in 1..(to - from) |-> from + i - 1]
            /\ VerifyRange(call.h, r, from, to)
            /\ \A s \in {from - 1, from, from + 1}, e \in {to - 1, to, to + 1} : VerifyRange(call.h, r, s, e) => s = from /\ e = to

\* The accessor is closed by the time its getter returns, whatever it returns.
AccessorClosed == call.pc # "read" => open = 0

\* The arguments are in bounds.
Valid ==
    CASE call.op \in {"GetShare", "GetSamples"} -> ValidSamples(call.h, call.arg)
      [] call.op = "GetRow" -> NewRowID(call.h, call.arg[1])
      [] call.op = "GetNamespaceData" -> ValidateForData(call.arg[1])
      [] call.op = "GetRange" -> ValidRange(call.h, call.arg[1], call.arg[2]) /\ OneNamespace(call.h, call.arg[1], call.arg[2])
      [] OTHER -> TRUE

\* A bridge node that cannot read a block from its store asks the network: it fails for a valid call
\* only if every getter did or the caller gave up.  GetRange of the empty block is the exception:
\* the shrex getter has no error and no shares for it, of which GetRange can make no result.
FallsBack ==
    Finished /\ call.h # 3 /\ call.op # "SharesAvailable" /\ Valid /\ call.err # "nil" =>
        \/ call.err = "ctx" /\ ctxDone
        \/ call.err = "all" /\ call.kind # "invalid" /\ Len(call.failed) = Len(getters) - 1
        \/ call.err = "result" /\ call.op = "GetRange" /\ Empty /\ getters[call.getter] = "shrex"

ServiceSound == TypeOK /\ AnswerInBounds /\ RangeProven /\ AccessorClosed /\ FallsBack

=============================================================================
