------------------------------ MODULE HeaderChain ------------------------------
(***************************************************************************)
(* header/header.go, header/serde.go: which headers a node comes to trust. *)
(*                                                                         *)
(* There is one chain.  Every block names the validators of its height and *)
(* of the next one and the block before it, and is signed by more than two *)
(* thirds of its validators.  Honest validators sign nothing else.  A node *)
(* starts from a block it trusts and takes any header that is valid by     *)
(* itself (Validate) and verified by the trusted one (Verify), the next    *)
(* height or a later one.  Headers reach it as bytes, with any signatures, *)
(* and with any field different from the chain's.                          *)
(***************************************************************************)
EXTENDS Naturals, FiniteSets

CONSTANTS
    Sets,       \* validator sets: a sequence, one for each height of the chain and one more
    Faulty,     \* validators that may sign anything
    MaxSigned,  \* bound on the number of signatures
    AppVersion  \* the latest version that the node supports

Length == Cardinality(DOMAIN Sets) - 1
Validators == UNION {Sets[h] : h \in DOMAIN Sets}

\* Hash of the block of the chain at a height, and of another one.
True(h) == <<"block", h>>
Other == <<"other", 0>>

\* The header of the chain: its fields are what their hashes are computed from.
Block(h) ==
    [height |-> h, hash |-> True(h), last |-> True(h - 1), vals |-> Sets[h], next |-> Sets[h + 1], dah |-> True(h), version |-> 1]

VARIABLES
    trusted,    \* the header that the node trusts
    reason      \* why the last one was refused

vars == <<trusted, reason>>

\* Sets that a header may name: those of the chain, and one of faulty validators alone.
NamedSets == {Sets[h] : h \in DOMAIN Sets} \cup {Faulty}

\* A header that was received.  Only the block of the chain has its hash; another block of the same
\* height may name any validators and any block before it.  What comes with a header, the set of
\* validators, the data availability header and the commit, need not belong to it.
Raws ==
    {Block(h) : h \in 1..Length} \cup
    [height : 1..Length, hash : {Other}, last : {True(h) : h \in 1..Length}, vals : NamedSets,
     next : {Sets[1]}, dah : {True(1), Other}, version : {0, 1, AppVersion + 1}]

\* Commits: honest validators sign only the block of the chain.
Signers(height, block) == IF block = True(height) THEN Validators ELSE Faulty
Commits(raw) ==
    UNION {{[height |-> h, block |-> b, signed |-> s] : s \in {t \in SUBSET Signers(h, b) : Cardinality(t) <= MaxSigned}} :
               h \in {raw.height, raw.height + 1}, b \in {raw.hash, True(raw.height)}}

-----------------------------------------------------------------------------
(***************************************************************************)
(* Validate.                                                               *)
(***************************************************************************)

\* ValidatorSet.VerifyCommitLight: more than two thirds of the set signed this block at this height.
VerifyCommitLight(vals, block, height, commit) ==
    /\ commit.block = block /\ commit.height = height
    /\ 3 * Cardinality(commit.signed \cap vals) > 2 * Cardinality(vals)

validateVersion(eh) == eh.raw.version # 0 /\ eh.raw.version <= AppVersion
validateValidators(eh) == eh.raw.vals = eh.vals
validateDataHash(eh) == eh.raw.dah = eh.dah
validateCommit(eh) == eh.commit.height = eh.raw.height /\ eh.commit.block = eh.raw.hash
Validate(eh) ==
    /\ validateVersion(eh) /\ validateValidators(eh) /\ validateDataHash(eh) /\ validateCommit(eh)
    /\ VerifyCommitLight(eh.vals, eh.commit.block, eh.raw.height, eh.commit)

-----------------------------------------------------------------------------
(***************************************************************************)
(* Verify.                                                                 *)
(***************************************************************************)

isAdjacent(untrst) == trusted.raw.height + 1 = untrst.raw.height

\* VerifyCommitLightTrusting: more than one third of the validators that are trusted signed it.
VerifyCommitLightTrusting(vals, commit) == 3 * Cardinality(commit.signed \cap vals) > Cardinality(vals)

verifyAdjacent(untrst) ==
    IF untrst.raw.vals # trusted.raw.next THEN "ErrValidatorHashMismatch"
    ELSE IF untrst.raw.last # trusted.commit.block THEN "ErrLastHeaderHashMismatch" ELSE "nil"
Verify_Wrong(untrst) == IF isAdjacent(untrst) THEN verifyAdjacent(untrst) ELSE "nil"
Verify(untrst) ==
    IF isAdjacent(untrst) THEN verifyAdjacent(untrst)
    ELSE IF VerifyCommitLightTrusting(trusted.vals, untrst.commit) THEN "nil" ELSE "ErrVerifyCommitLightTrustingFailed"

\* MsgID: the block that the commit signs, whoever signed it.
MsgID(eh) == eh.commit.block

-----------------------------------------------------------------------------
Genesis ==
    [raw |-> Block(1), vals |-> Sets[1], dah |-> True(1), commit |-> [height |-> 1, block |-> True(1), signed |-> Sets[1]]]

Init == trusted = Genesis /\ reason = "none"

\* A header above the trusted one is received; UnmarshalExtendedHeader gives back its parts.
Receive ==
    \E raw \in Raws :
        \E commit \in Commits(raw), vals \in NamedSets, dah \in {True(raw.height), Other} :
            LET eh == [raw |-> raw, vals |-> vals, dah |-> dah, commit |-> commit]
            IN  /\ raw.height > trusted.raw.height
                /\ reason' = (IF Validate(eh) THEN Verify(eh) ELSE "invalid")
                /\ trusted' = (IF reason' = "nil" THEN eh ELSE trusted)

Next == Receive \/ (trusted.raw.height = Length /\ UNCHANGED vars)

-----------------------------------------------------------------------------
(***************************************************************************)
(* Properties.                                                             *)
(***************************************************************************)

TypeOK == trusted.raw.height \in 1..Length

\* As long as less than a third of the validators of each height are faulty, the node trusts only
\* blocks of the chain, with the validators and the data roots that belong to them, over any sequence
\* of adjacent and skipping verifications; and all forms of one block have one message id.
TrustedIsTrue ==
    LET h == trusted.raw.height IN
    /\ TypeOK
    /\ trusted.raw = Block(h) /\ trusted.vals = Sets[h] /\ trusted.dah = True(h)
    /\ MsgID(trusted) = True(h)

\* Honest validators' signatures are enough: the next block of the chain is never refused.
ChainIsAccepted ==
    LET h == trusted.raw.height
        eh == [raw |-> Block(h + 1), vals |-> Sets[h + 1], dah |-> True(h + 1),
               commit |-> [height |-> h + 1, block |-> True(h + 1), signed |-> Sets[h + 1] \ Faulty]]
    IN  h < Length => Validate(eh) /\ Verify(eh) = "nil"

ChainSound == TrustedIsTrue /\ ChainIsAccepted

=============================================================================
