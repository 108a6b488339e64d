----------------------------- MODULE HeaderService -----------------------------
(***************************************************************************)
(* nodebuilder/header/service.go, nodebuilder/blobstream and the methods   *)
(* of nodebuilder/share/share.go that need a header: how a header is found *)
(* by height while the chain grows, the store syncs and old headers are    *)
(* pruned, and what is proved about the data roots of a range of them.     *)
(*                                                                         *)
(* The header store and the syncer (go-header) are external.  The store    *)
(* has the headers from tail to head; the syncer knows a head of the       *)
(* network, which may be ahead of the store or behind it.  Each call reads *)
(* them one after another, and they may change between the reads.          *)
(***************************************************************************)
EXTENDS Naturals, Sequences, SequencesExt, FiniteSets

CONSTANTS
    MaxHeight,              \* bound on the height of the network
    MaxRangeRequestSize,    \* headers that one call may ask for
    BlocksLimit,            \* blocks that one data commitment may cover
    Base                    \* of the digits of a height

VARIABLES
    net,        \* height of the network
    syncHead,   \* head that the syncer knows
    head, tail, \* of the store
    call,       \* the call that is running
    started     \* heads and tail when it started

vars == <<net, syncHead, head, tail, call, started>>

NoCall == [op |-> "none", pc |-> "idle", height |-> 0, start |-> 0, end |-> 0, sHead |-> 0, result |-> <<>>, err |-> "nil", yielded |-> <<>>]

Init ==
    /\ net = 3 /\ syncHead \in 2..3 /\ head \in 2..3 /\ tail \in 1..2
    /\ call = NoCall /\ started = <<0, 0, 0>>

\* A call ends the model: calls share no state of their own.
Waiting == call.pc # "done"
Ended == ~Waiting /\ UNCHANGED vars

\* The environment: blocks are produced, the syncer hears of them, the store is filled and pruned.
NewBlock == Waiting /\ net < MaxHeight /\ net' = net + 1 /\ UNCHANGED <<syncHead, head, tail, call, started>>
SyncerHead == Waiting /\ syncHead < net /\ syncHead' = net /\ UNCHANGED <<net, head, tail, call, started>>
StoreAppend == Waiting /\ head < net /\ head' = head + 1 /\ UNCHANGED <<net, syncHead, tail, call, started>>
StoreDelete == Waiting /\ tail < head /\ tail' = tail + 1 /\ UNCHANGED <<net, syncHead, head, call, started>>

Go(next) == call' = [call EXCEPT !.pc = next]
Done(result, err) == call' = [call EXCEPT !.pc = "done", !.result = result, !.err = err]
Read == UNCHANGED <<net, syncHead, head, tail, started>>
InStore(h) == tail <= h /\ h <= head

-----------------------------------------------------------------------------
(***************************************************************************)
(* GetByHeight, and the calls of the share module that start with it.      *)
(***************************************************************************)

ShortCalls == {"GetByHash", "NetworkHead", "Tail", "SyncWait", "Subscribe"}

Call ==
    /\ call.pc = "idle"
    /\ \E op \in {"GetByHeight", "WaitForHeight", "GetRangeByHeight", "TupleRoot", "TupleProof"} \cup ShortCalls,
          h \in 0..(MaxHeight + 2), s \in 0..MaxHeight, e \in 0..(MaxHeight + 1) :
           /\ op \in {"GetByHeight", "WaitForHeight"} \cup ShortCalls => s = 0 /\ e = 0
           /\ op \in ShortCalls \ {"GetByHash"} => h = 0
           /\ op \in {"GetRangeByHeight", "TupleRoot"} => h = 0
           /\ op = "GetRangeByHeight" => InStore(s)
           /\ call' = [NoCall EXCEPT !.op = op, !.pc = IF op = "WaitForHeight" THEN "store" ELSE IF op \in ShortCalls THEN op
                                                      ELSE IF op = "GetByHeight" THEN "syncer"
                                                      ELSE IF op = "GetRangeByHeight" THEN "limits" ELSE "validate",
                                      !.height = h, !.start = s, !.end = e]
    /\ started' = <<syncHead, head, tail>>
    /\ UNCHANGED <<net, syncHead, head, tail>>

\* The head of the syncer; asking for it may fail.
atSyncer ==
    /\ call.pc = "syncer"
    /\ CASE call.height = 0 -> Done(<<>>, "zero")
         [] call.height # 0 -> \/ Done(<<>>, "syncer")
                               \/ call.height = syncHead /\ Done(<<call.height>>, "nil")
                               \/ call.height # syncHead /\ call' = [call EXCEPT !.pc = "tail", !.sHead = syncHead]
    /\ Read

atTail ==
    /\ call.pc = "tail"
    /\ CASE call.height < tail -> Done(<<>>, "below")
         [] call.height = tail -> Done(<<call.height>>, "nil")
         [] OTHER -> Go("head")
    /\ Read

atHead ==
    CASE call.height = head -> Done(<<call.height>>, "nil")
      [] head + 1 < call.height -> Done(<<>>, IF call.sHead + 1 < call.height THEN "future" ELSE "syncing")
      [] OTHER -> Go("store")
ReadHead == call.pc = "head" /\ atHead /\ Read

\* store.GetByHeight waits for a header that is not there yet, until the caller gives up.
storeGetByHeight ==
    /\ call.pc = "store"
    /\ \/ call.height < tail /\ Done(<<>>, "notFound")
       \/ InStore(call.height) /\ Done(<<call.height>>, "nil")
       \/ call.height > head /\ Done(<<>>, "canceled")
    /\ Read

\* The hash of a header stands for its height.
GetByHash ==
    /\ call.pc = "GetByHash"
    /\ IF InStore(call.height) THEN Done(<<call.height>>, "nil") ELSE Done(<<>>, "notFound")
    /\ Read

\* The syncer's head, which may be behind the store's; asking for it may fail.
NetworkHead == call.pc = "NetworkHead" /\ (Done(<<syncHead>>, "nil") \/ Done(<<>>, "syncer")) /\ Read
StoreTail == call.pc = "Tail" /\ Done(<<tail>>, "nil") /\ Read

\* The syncer's SyncWait returns when the store is at the head that was known, or the caller gives up.
SyncWait ==
    /\ call.pc = "SyncWait"
    /\ \/ head >= syncHead /\ Done(<<head>>, "nil")
       \/ head < syncHead /\ Done(<<>>, "canceled")
    /\ Read

\* Subscribe: the goroutine takes a header from the subscription and hands it to the caller; it
\* ends, with the channel closed, when either fails or the caller has gone.
LastYielded == IF call.yielded = <<>> THEN started[2] ELSE Last(call.yielded)
NextHeader ==
    /\ call.pc = "Subscribe"
    /\ \/ \E h \in (LastYielded + 1)..net : call' = [call EXCEPT !.pc = "send", !.yielded = Append(@, h)]
       \/ Done(call.result, "closed")
    /\ Read
sendHeader ==
    /\ call.pc = "send"
    /\ \/ call' = [call EXCEPT !.pc = "Subscribe", !.result = Append(@, Last(call.yielded))]
       \/ Done(call.result, "closed")
    /\ Read

-----------------------------------------------------------------------------
(***************************************************************************)
(* GetRangeByHeight.                                                       *)
(***************************************************************************)

Heights(from, to) == [i \in 1..(to - from) |-> from + i - 1]

\* The headers of [from + 1, to) that the store has; all of them or an error.
storeRange(from, to) == IF \A h \in (from + 1)..(to - 1) : InStore(h) THEN Heights(from + 1, to) ELSE <<>>

rangeLimits(from, to) ==
    CASE to <= from -> "ErrRangeMixUp"
      [] to = from + 1 -> "ErrEmptyRange"
      [] to > from + 1 + MaxRangeRequestSize -> "ErrHeadersLimitExceeded"
      [] OTHER -> "nil"

GetRangeByHeight ==
    /\ call.pc = "limits"
    /\ IF rangeLimits(call.start, call.end) # "nil" THEN Done(<<>>, rangeLimits(call.start, call.end)) ELSE Go("range")
    /\ Read
ReadRange ==
    /\ call.pc = "range"
    /\ IF storeRange(call.start, call.end) = <<>> THEN Done(<<>>, "notFound") ELSE Done(storeRange(call.start, call.end), "nil")
    /\ Read

-----------------------------------------------------------------------------
(***************************************************************************)
(* The data roots of a range of blocks.  The data root of a block stands   *)
(* for itself as its height; the merkle root of a list for the list.       *)
(***************************************************************************)

\* FormatUint, padded to a whole number of bytes of two digits, and with zero bytes to the left.
Digits[n \in Nat] == IF n < Base THEN <<n>> ELSE Append(Digits[n \div Base], n % Base)
EvenDigits(n) == IF Len(Digits[n]) % 2 = 1 THEN <<0>> \o Digits[n] ELSE Digits[n]
hexBytes(n) == [i \in 1..(Len(EvenDigits(n)) \div 2) |-> EvenDigits(n)[2 * i - 1] * Base + EvenDigits(n)[2 * i]]
padBytes(byt, length) == [i \in 1..(length - Len(byt)) |-> 0] \o byt
Padded == 3
to32PaddedHexBytes(n) == padBytes(hexBytes(n), Padded)
encodeDataRootTuple(h) == <<to32PaddedHexBytes(h), h>>

validateRange(start, end) ==
    /\ start # 0 /\ start < end
    /\ end - start <= BlocksLimit
    /\ end <= head + 1
validateProof(height, start, end) == validateRange(start, end) /\ start <= height /\ height < end

Validate ==
    /\ call.pc = "validate"
    /\ IF (IF call.op = "TupleProof" THEN validateProof(call.height, call.start, call.end) ELSE validateRange(call.start, call.end))
       THEN Go("first") ELSE Done(<<>>, "invalid")
    /\ Read

\* fetchEncodedDataRootTuples: the first header, and then the others; they may have been pruned.  A
\* range that is empty may be an error of the store.
fetchFirst == call.pc = "first" /\ (IF InStore(call.start) THEN Go("rest") ELSE Done(<<>>, "notFound")) /\ Read
tuples == [i \in 1..(call.end - call.start) |-> encodeDataRootTuple(call.start + i - 1)]
fetchRest ==
    /\ call.pc = "rest"
    /\ \/ call.end = call.start + 1 /\ Done(<<>>, "empty")
       \/ IF \A h \in (call.start + 1)..(call.end - 1) : InStore(h)
          THEN Done(tuples, "nil") ELSE Done(<<>>, "notFound")
    /\ Read

\* proveDataRootTuples: the proof at the index of the height.
proofIndex(height, start) == height - start

Next ==
    \/ NewBlock \/ SyncerHead \/ StoreAppend \/ StoreDelete
    \/ Call \/ atSyncer \/ atTail \/ ReadHead \/ storeGetByHeight \/ GetRangeByHeight \/ ReadRange
    \/ GetByHash \/ NetworkHead \/ StoreTail \/ SyncWait \/ NextHeader \/ sendHeader
    \/ Validate \/ fetchFirst \/ fetchRest \/ Ended

-----------------------------------------------------------------------------
(***************************************************************************)
(* Properties.                                                             *)
(***************************************************************************)

TypeOK == tail <= head /\ head <= net /\ syncHead <= net /\ net <= MaxHeight

Finished(op) == call.op = op /\ call.pc = "done"

\* GetByHeight returns the header asked for; it finds any header that the store had when the call
\* started and that is not pruned when it ends; and each error is true: a height is called
\* future only when both heads were behind it, and below the tail only when it is.
FoundByHeight ==
    Finished("GetByHeight") =>
        LET h == call.height IN
        /\ call.err = "nil" => call.result = <<h>>
        /\ call.err \notin {"nil", "syncer"} => ~(tail <= h /\ h <= started[2] /\ h # 0)
        /\ call.err = "future" => h > started[1] + 1 /\ h > started[2] + 1
        /\ call.err \in {"below", "notFound"} => h < tail
        /\ call.err = "syncing" => h <= net + 1

\* A range has the headers asked for, in order, and never more than the limit.
RangeExact ==
    Finished("GetRangeByHeight") =>
        /\ call.err = "nil" => call.result = Heights(call.start + 1, call.end) /\ Len(call.result) \in 1..MaxRangeRequestSize
        /\ call.err = "notFound" => \E h \in (call.start + 1)..(call.end - 1) : h > started[2] \/ h < tail

\* A data commitment covers exactly the blocks of its range, which all exist; the proof for a height
\* is at the place of that height; and no two heights have the same encoding.
CommitmentExact ==
    call.op \in {"TupleRoot", "TupleProof"} /\ call.pc = "done" /\ call.err = "nil" =>
        /\ Len(call.result) = call.end - call.start /\ call.end <= net + 1
        /\ \A i \in DOMAIN call.result :
               LET bytes == call.result[i][1] IN
               Len(bytes) = Padded /\ (bytes[1] * Base * Base + bytes[2]) * Base * Base + bytes[3] = call.start + i - 1
        /\ call.op = "TupleProof" => call.result[proofIndex(call.height, call.start) + 1][2] = call.height

\* A subscriber gets the headers of the subscription in order and without a gap: at most the last
\* one is missing, when the subscription ends before it was taken.
SubscriptionExact ==
    call.op = "Subscribe" =>
        /\ IsPrefix(call.result, call.yielded)
        /\ Len(call.yielded) <= Len(call.result) + 1
        /\ call.pc = "Subscribe" => call.result = call.yielded

\* A wait for the sync that returns means that the store had all headers known when it was called.
SyncWaitSound == Finished("SyncWait") /\ call.err = "nil" => call.result[1] >= started[1]

HeadersSound == TypeOK /\ SubscriptionExact /\ SyncWaitSound /\ FoundByHeight /\ RangeExact /\ CommitmentExact

=============================================================================
