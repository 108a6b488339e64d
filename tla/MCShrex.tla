------------------------------- MODULE MCShrex -------------------------------
(***************************************************************************)
(* Small instances of the components that serve and request shares: the    *)
(* shrex protocol, the getters above it and the cache of open accessors    *)
(* that a server reads from.  They share no state here, so a behaviour is  *)
(* one of a single instance, picked by part: "stream" (ShrexExchange),     *)
(* "samples" and "giveUp" (ShrexGetter with two attempts, and with one),   *)
(* "time" (GetterDeadlines), "service" (ShareService) and "cache"          *)
(* (AccessorCache).                                                        *)
(***************************************************************************)
EXTENDS AccessorCache

CONSTANTS s1, s2, r1, r2, m1, m2, o1, o2

VARIABLE part
VARIABLES client, sresult, sgot, sctxDone, request, server, status, sent, wire, end, file, memory
VARIABLES pc, tries, outcome, samples, failed, verdicts, callerDone, groupDone
VARIABLES total, left, getter, given, gleft, attempt, peer, waited, launched
VARIABLES layout, getters, stored, open, ctxDone, call

Stream == INSTANCE ShrexExchange WITH
    Pieces <- 3, result <- sresult, got <- sgot, ctxDone <- sctxDone
Getter == INSTANCE ShrexGetter WITH Requests <- {s1, s2}, MaxAttempts <- 2, attempt <- tries
GetterOnce == INSTANCE ShrexGetter WITH Requests <- {s1, s2}, MaxAttempts <- 1, attempt <- tries
Time == INSTANCE GetterDeadlines WITH
    Getters <- <<"store", "shrex">>, Deadlines <- 0..15, NoDeadline <- 100, CascadeTimeout <- 9,
    MinAttempts <- 3, MinRequestTimeout <- 2, MaxAttempts <- 4
\* Rows inside a range, and a range that starts and ends next to other namespaces.
Service == INSTANCE ShareService WITH
    OdsSize <- 4, Layouts <- {[i \in 1..16 |-> 1], <<1, 3, 3, 3, 3, 3, 3, 3, 3, 3, 3, 3, 3, 3, 90, 90>>}

streamVars == <<client, sresult, sgot, sctxDone, request, server, status, sent, wire, end, file, memory>>
getterVars == <<pc, tries, outcome, samples, failed, verdicts, callerDone, groupDone>>
timeVars == <<total, left, getter, given, gleft, attempt, peer, waited, launched>>
serviceVars == <<layout, getters, stored, open, ctxDone, call>>
allVars == <<part, streamVars, getterVars, timeVars, serviceVars, vars>>

\* The components that do not move are in one initial state.
MCInit ==
    /\ part \in {"stream", "samples", "giveUp", "time", "service", "cache"}
    /\ IF part = "time" THEN TRUE ELSE total = 0
    /\ part = "service" \/ (layout = [i \in 1..16 |-> 1] /\ getters = <<"shrex">>)
    /\ Init /\ Stream!Init /\ Getter!Init /\ Time!Init
    /\ Service!Init
    /\ part = "service" \/ (call.op = "GetEDS" /\ call.h = 1)

MCNext ==
    \/ part = "stream" /\ Stream!Next /\ UNCHANGED <<part, getterVars, timeVars, serviceVars, vars>>
    \/ part = "samples" /\ Getter!Next /\ UNCHANGED <<part, streamVars, timeVars, serviceVars, vars>>
    \/ part = "giveUp" /\ GetterOnce!Next /\ UNCHANGED <<part, streamVars, timeVars, serviceVars, vars>>
    \/ part = "time" /\ Time!Next /\ UNCHANGED <<part, streamVars, getterVars, serviceVars, vars>>
    \/ part = "service" /\ Service!Next /\ UNCHANGED <<part, streamVars, getterVars, timeVars, vars>>
    \/ part = "cache" /\ Next /\ UNCHANGED <<part, streamVars, getterVars, timeVars, serviceVars>>

MCSpec == MCInit /\ [][MCNext]_allVars

-----------------------------------------------------------------------------
(***************************************************************************)
(* The components' properties, each for the instances it is about.         *)
(***************************************************************************)

\* A request that succeeds has read the whole payload, and what the client makes of any
\* other answer is what happened at the server; a handler that is done, however it ended,
\* has closed the file and returned its memory.
ResultIsTrue == Stream!TypeOK /\ Stream!SuccessIsWhole /\ Stream!ResultIsTrue /\ Stream!Released

\* What a call of the share module returns is in bounds and of the block asked for, whichever
\* getter it came from, a range verifies as exactly the range asked for, accessors of the store
\* are closed, and the network is asked when the store fails, save for two calls of the empty
\* block (a sample of a negative row and a range); without an error every sample was
\* retrieved and verified, and with one a light node's getter still returns verified samples
\* only; and a peer is not held to account for a request that was cancelled.
AnswersSound ==
    /\ part = "service" => Service!ServiceSound
    /\ Getter!TypeOK /\ Getter!SuccessVerified /\ Getter!LightVerified /\ Getter!CancelIsNoFault

\* No slow peer uses up the time of all attempts, save for the getter that waits for its next
\* peer, and no slow getter that of the getters after it.
TimeIsShared == part = "time" => Time!TypeOK /\ Time!EnoughAttempts /\ Time!EveryGetterTried

\* A request ends, whatever the peer does, and a handler, whatever the client does; and
\* GetSamples returns when its caller gives up.
RequestsEnd ==
    /\ part = "stream" /\ Stream!ClientFairness => Stream!RequestEnds
    /\ part = "stream" /\ Stream!ServerFairness => Stream!HandlerEnds
    /\ part = "giveUp" /\ GetterOnce!Fairness => GetterOnce!Returns

=============================================================================
