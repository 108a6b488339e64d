------------------------------ MODULE StateAccess ------------------------------
(***************************************************************************)
(* state/core_access.go and state/txclient: submitting transactions, and   *)
(* reading a balance with a proof.                                         *)
(*                                                                         *)
(* Every call sets the client up if it is not there yet, under clientLk:   *)
(* it opens a connection to the estimator service and asks the app for the *)
(* account.  Stop closes the connection without the lock.  Each submitter  *)
(* is one goroutine with the options of its call.  Prices and gas are      *)
(* small integers; Addresses are those the chain knows, and the keyring    *)
(* names some of them.  The app (user.TxClient), its estimates and its     *)
(* ABCI answers are external.                                              *)
(***************************************************************************)
EXTENDS Integers, FiniteSets

CONSTANTS
    Submitters,     \* calls in flight
    Configs,        \* TxConfigs that each of them may pass
    DefaultMax,     \* DefaultMaxGasPrice
    Prices,         \* gas prices the app may estimate
    Gas,            \* gas limits the app may estimate
    MaxInt,         \* math.MaxInt64
    Workers,        \* values of txWorkerAccounts
    MaxSetups       \* bound on the connections opened

Starter == "Start"
Setups == Submitters \cup {Starter}
NoProc == "nobody"

\* The keyring: names and the addresses of their accounts; the first is the default signer's.
Keyring == [default |-> "addr0", other |-> "addr1"]
DefaultAccount == "default"
DefaultAddress == Keyring[DefaultAccount]

VARIABLES
    ctx,            \* "alive" or "done"
    lk,             \* holder of clientLk
    client,         \* c.client is set
    conn,           \* c.estimatorConn, 0 when it is nil
    open,           \* connections that are not closed
    opened,         \* number of connections opened
    workers,        \* txWorkerAccounts
    stop,           \* Stop: "not called", "canceled", "closing" or "returned"
    sub,            \* the calls, and Start's setup
    sent,           \* transactions that reached the app
    count,          \* payForBlobCount
    access          \* the CoreAccessor: whether it is started, and a call of BalanceForAddress

vars == <<ctx, lk, client, conn, open, opened, workers, stop, sub, sent, count, access>>

-----------------------------------------------------------------------------
(***************************************************************************)
(* TxConfig.                                                               *)
(***************************************************************************)

DefaultGasPrice == -1

\* NewTxConfig, and WithDefaults: a caller may also pass nil.
NewTxConfig == [gasPrice |-> DefaultGasPrice, isGasPriceSet |-> FALSE, maxGasPrice |-> DefaultMax, gas |-> 0,
                signerAddress |-> "", keyName |-> "", feeGranter |-> ""]
WithDefaults(p) == Configs[p] \cup {NewTxConfig}

GasPrice(cfg) == IF cfg.isGasPriceSet THEN cfg.gasPrice ELSE DefaultGasPrice
MaxGasPrice(cfg) == IF cfg.maxGasPrice = 0 THEN DefaultMax ELSE cfg.maxGasPrice

\* MarshalJSON leaves out the fields that are zero, all but max_gas_price; UnmarshalJSON reads
\* a field that is missing as zero.
Zero == [gasPrice |-> 0, isGasPriceSet |-> FALSE, maxGasPrice |-> 0, gas |-> 0,
         signerAddress |-> "", keyName |-> "", feeGranter |-> ""]
MarshalJSON(cfg) ==
    LET kept == {f \in DOMAIN cfg : f = "maxGasPrice" \/ cfg[f] # Zero[f]}
    IN [f \in kept |-> cfg[f]]
UnmarshalJSON(json) == [f \in DOMAIN Zero |-> IF f \in DOMAIN json THEN json[f] ELSE Zero[f]]

\* Addresses are parsed before they are used; an address may be malformed.
Malformed == "malformed"

\* getTxAuthorAccAddress and GetTxAuthorAccAddress: the address first, then the key.
getTxAuthorAccAddress(cfg) ==
    IF cfg.signerAddress # "" THEN (IF cfg.signerAddress = Malformed THEN "error" ELSE cfg.signerAddress)
    ELSE IF cfg.keyName # "" /\ cfg.keyName # DefaultAccount
         THEN (IF cfg.keyName \in DOMAIN Keyring THEN Keyring[cfg.keyName] ELSE "error")
    ELSE DefaultAddress

\* GetTxAuthorKeyName: the name of the key that will sign.
KeyByAddress(a) == {k \in DOMAIN Keyring : Keyring[k] = a}
GetTxAuthorKeyName(cfg) ==
    IF cfg.signerAddress # ""
    THEN (IF KeyByAddress(cfg.signerAddress) = {} THEN "error" ELSE CHOOSE k \in KeyByAddress(cfg.signerAddress) : TRUE)
    ELSE IF cfg.keyName # "" THEN cfg.keyName
    ELSE DefaultAccount

-----------------------------------------------------------------------------
\* A message that names no amount of coins.
NoAmount == 0

Idle == [pc |-> "setup", call |-> "none", cfg |-> NewTxConfig, author |-> "none", conn |-> 0, price |-> 0, gas |-> 0,
         est |-> FALSE]

Returned == [Idle EXCEPT !.pc = "returned"]

Init ==
    /\ ctx = "alive" /\ lk = NoProc /\ client = FALSE /\ conn = 0 /\ open = {} /\ opened = 0
    /\ workers \in Workers /\ stop = "not called" /\ sent = {} /\ count = 0
    /\ access \in [pc : {"waiting", "unused"}, held : {"nothing", "10"}, balance : {"unknown"}]
    /\ access.pc = "unused" => access.held = "nothing"
    /\ sub = [p \in Setups |-> IF p = Starter THEN Idle ELSE [Idle EXCEPT !.pc = "idle"]]

Go(p, next) == sub' = [sub EXCEPT ![p] = IF next = "returned" THEN Returned ELSE [@ EXCEPT !.pc = next]]

-----------------------------------------------------------------------------
(***************************************************************************)
(* setupClient.                                                            *)
(***************************************************************************)

\* The lock, and the client that is there already.
After(p) == IF p = Starter THEN "returned" ELSE "estimate"
lock(p) ==
    /\ sub[p].pc = "setup" /\ lk = NoProc
    /\ IF client THEN Go(p, After(p)) /\ UNCHANGED lk
       ELSE Go(p, "dial") /\ lk' = p
    /\ UNCHANGED <<ctx, client, conn, open, opened, workers, stop, sent, count, access>>

\* setupEstimatorConnection does not dial; it may refuse the address.
setupEstimatorConnection(p) ==
    /\ sub[p].pc = "dial" /\ opened < MaxSetups
    /\ \/ /\ opened' = opened + 1 /\ open' = open \cup {opened + 1}
          /\ sub' = [sub EXCEPT ![p].pc = "setupTx", ![p].conn = opened + 1]
          /\ UNCHANGED lk
       \/ /\ Go(p, "returned") /\ lk' = NoProc /\ UNCHANGED <<opened, open>>
    /\ UNCHANGED <<ctx, client, conn, workers, stop, sent, count, access>>

closeFailed(p) == open' = open \ {sub[p].conn}
setupFails(p) ==
    /\ sub[p].pc = "setupTx"
    /\ closeFailed(p)
    /\ Go(p, "returned") /\ lk' = NoProc
    /\ UNCHANGED <<ctx, client, conn, opened, workers, stop, sent, count, access>>
setupSucceeds(p) ==
    /\ sub[p].pc = "setupTx" /\ ctx = "alive"
    /\ Go(p, "assign")
    /\ UNCHANGED <<ctx, lk, client, conn, open, opened, workers, stop, sent, count, access>>
assign(p) ==
    /\ sub[p].pc = "assign"
    /\ client' = TRUE /\ conn' = sub[p].conn
    /\ Go(p, After(p)) /\ lk' = NoProc
    /\ UNCHANGED <<ctx, open, opened, workers, stop, sent, count, access>>

-----------------------------------------------------------------------------
(***************************************************************************)
(* The calls of the CoreAccessor.                                          *)
(***************************************************************************)

\* The message of a call: its signer, and the amount of coins, NoAmount when it names none; or none
\* at all when an argument is refused.  An amount or a height may be nil, which is read as negative.
Msg(signer, amount) == {[signer |-> signer, amount |-> amount]}
Positive(x) == x > 0

Transfer(signer, amount, height) == IF Positive(amount) THEN Msg(signer, amount) ELSE {}
CancelUnbondingDelegation(signer, amount, height) ==
    IF Positive(amount) /\ Positive(height) /\ height <= MaxInt THEN Msg(signer, amount) ELSE {}
BeginRedelegate(signer, amount, height) == IF Positive(amount) THEN Msg(signer, amount) ELSE {}
Undelegate(signer, amount, height) == IF Positive(amount) THEN Msg(signer, amount) ELSE {}
Delegate(signer, amount, height) == IF Positive(amount) THEN Msg(signer, amount) ELSE {}
WithdrawDelegatorReward(signer, amount, height) == Msg(signer, NoAmount)
\* An allowance of zero is one without a limit.
GrantFee(signer, amount, height) == IF amount >= 0 THEN Msg(signer, IF amount = 0 THEN NoAmount ELSE amount) ELSE {}
RevokeGrantFee(signer, amount, height) == Msg(signer, NoAmount)

\* What the calls that move coins may send, and those that need not.
Moved(signer, a, h) ==
    Transfer(signer, a, h) \cup CancelUnbondingDelegation(signer, a, h) \cup BeginRedelegate(signer, a, h)
    \cup Undelegate(signer, a, h) \cup Delegate(signer, a, h)
Other(signer, a, h) == WithdrawDelegatorReward(signer, a, h) \cup GrantFee(signer, a, h) \cup RevokeGrantFee(signer, a, h)
Messages(author) ==
    LET args == {-1, 0, 1} \X {-1, 0, 1, MaxInt + 1}
    IN UNION {{[msg |-> m, moves |-> TRUE] : m \in Moved(author, x[1], x[2])}
              \cup {[msg |-> m, moves |-> FALSE] : m \in Other(author, x[1], x[2])} : x \in args}

\* The calls that end in SubmitMessage: the arguments are validated, and the author is resolved.
submitMessage(p) ==
    /\ sub[p].pc = "idle"
    /\ \E cfg \in WithDefaults(p) :
           LET author == getTxAuthorAccAddress(cfg)
           IN IF author = "error" THEN Go(p, "returned")
              ELSE \E m \in Messages(author) :
                       sub' = [sub EXCEPT ![p] = [@ EXCEPT !.call = "SubmitMessage", !.cfg = cfg, !.author = m.msg.signer, !.pc = "setup"]]
    /\ UNCHANGED <<ctx, lk, client, conn, open, opened, workers, stop, sent, count, access>>

\* SubmitPayForBlob: a call without blobs, or with a namespace that is not allowed, is refused first.
SubmitPayForBlob(p) ==
    /\ sub[p].pc = "idle"
    /\ \/ \E cfg \in WithDefaults(p) :
              LET author == getTxAuthorAccAddress(cfg)
              IN sub' = [sub EXCEPT ![p] = IF author = "error" THEN Returned
                                           ELSE [@ EXCEPT !.call = "SubmitPayForBlob", !.cfg = cfg, !.author = author, !.pc = "setup"]]
       \/ Go(p, "returned")
    /\ UNCHANGED <<ctx, lk, client, conn, open, opened, workers, stop, sent, count, access>>

\* estimateGasPrice, for blobs: the user's price is taken as it is.
estimateGasPrice(cfg) ==
    IF GasPrice(cfg) # DefaultGasPrice THEN {[price |-> GasPrice(cfg), est |-> FALSE]}
    ELSE {[price |-> x, est |-> TRUE] : x \in {y \in Prices : y <= MaxGasPrice(cfg)}}
estimateGasForBlobs(cfg) == IF cfg.gas # 0 THEN {cfg.gas} ELSE Gas

maxHolds(cfg, price) == price <= MaxGasPrice(cfg)
estimateGasPriceAndUsage(cfg) ==
    IF GasPrice(cfg) # DefaultGasPrice /\ cfg.gas # 0
    THEN {[price |-> GasPrice(cfg), gas |-> cfg.gas, est |-> FALSE]}
    ELSE {e \in [price : IF GasPrice(cfg) # DefaultGasPrice THEN {GasPrice(cfg)} ELSE Prices,
                 gas : IF cfg.gas # 0 THEN {cfg.gas} ELSE Gas,
                 est : {GasPrice(cfg) = DefaultGasPrice}] : maxHolds(cfg, e.price)}

Estimates(p) ==
    LET cfg == sub[p].cfg
    IN IF sub[p].call = "SubmitMessage" THEN estimateGasPriceAndUsage(cfg)
       ELSE {[price |-> e.price, gas |-> g, est |-> e.est] : e \in estimateGasPrice(cfg), g \in estimateGasForBlobs(cfg)}

\* validateFee.
validateFee(e) == e.price >= 0 /\ e.price * e.gas < MaxInt

\* The fee granter's address is parsed first; the account must be one that the client holds; the
\* price may be above the limit, the app may not answer, or the fee is refused.
estimate(p) ==
    /\ sub[p].pc = "estimate"
    /\ \/ /\ sub[p].cfg.feeGranter # Malformed
          /\ sub[p].call = "SubmitPayForBlob" => KeyByAddress(sub[p].author) # {}
          /\ \E e \in Estimates(p) :
                 /\ validateFee(e)
                 /\ sub' = [sub EXCEPT ![p] = [@ EXCEPT !.pc = "send", !.price = e.price, !.gas = e.gas, !.est = e.est]]
       \/ Go(p, "returned")
    /\ UNCHANGED <<ctx, lk, client, conn, open, opened, workers, stop, sent, count, access>>

\* Blobs of the default signer go to the queue when there is one.
queued_Wrong(p) == sub[p].call = "SubmitPayForBlob" /\ workers > 0
queued(p) == sub[p].call = "SubmitPayForBlob" /\ workers > 0 /\ sub[p].author = DefaultAddress

\* SubmitPayForBlobToQueue signs with the default account or a worker of it, SubmitPayForBlobWithAccount
\* with the account, and SubmitTx with the one that the message names.
send(p) ==
    /\ sub[p].pc = "send"
    /\ \E code \in {"ok", "failed", "error"} :
           /\ Go(p, IF sub[p].call = "SubmitPayForBlob" /\ code = "ok" THEN "mark" ELSE "returned")
           /\ sent' = IF code = "error" THEN sent
                      ELSE sent \cup {[by |-> p, call |-> sub[p].call, code |-> code, author |-> sub[p].author, queue |-> queued(p),
                                       signer |-> IF queued(p) THEN DefaultAddress ELSE sub[p].author]}
    /\ UNCHANGED <<ctx, lk, client, conn, open, opened, workers, stop, count, access>>

markSuccessfulPFB(p) ==
    /\ sub[p].pc = "mark" /\ count' = count + 1 /\ Go(p, "returned")
    /\ UNCHANGED <<ctx, lk, client, conn, open, opened, workers, stop, sent, access>>

-----------------------------------------------------------------------------
(***************************************************************************)
(* The CoreAccessor: Start, and reading a balance with a proof.  Neither   *)
(* shares state with the calls above, so that a behaviour has only one of  *)
(* the two.                                                                *)
(***************************************************************************)

\* GetNodeInfo until the app has a first block; other errors, and another network, are final.
isAppNotReady(err) == err = "please wait for first block"
waitForAppReady ==
    /\ access.pc = "waiting"
    /\ \E err \in {"nil", "please wait for first block", "error"}, network \in {"ours", "other"}, done \in BOOLEAN :
           access' = [access EXCEPT !.pc = IF err = "nil" THEN (IF network = "ours" THEN "started" ELSE "failed")
                                           ELSE IF isAppNotReady(err) /\ ~done THEN "waiting"
                                           ELSE "failed"]
    /\ UNCHANGED <<ctx, lk, client, conn, open, opened, workers, stop, sub, sent, count>>

VerifyFromKeys(answer) == answer.genuine /\ answer.value = access.held
BalanceForAddress ==
    /\ access.pc = "started"
    /\ \E answer \in [code : {0, 1}, ops : {0, 1}, value : {"nothing", "10", "7", "garbage"}, genuine : BOOLEAN] :
           access' = [access EXCEPT !.pc = "answered",
                          !.balance = IF answer.code # 0 \/ answer.ops = 0 \/ answer.value = "garbage" THEN "error"
                                      ELSE IF ~VerifyFromKeys(answer) THEN "error"
                                      ELSE IF answer.value = "nothing" THEN "0" ELSE answer.value]
    /\ UNCHANGED <<ctx, lk, client, conn, open, opened, workers, stop, sub, sent, count>>

-----------------------------------------------------------------------------
\* Stop: the context, and then the connection if there is one, without clientLk.
Stop ==
    /\ \/ /\ stop = "not called" /\ sub[Starter].pc = "returned"
          /\ ctx' = "done" /\ stop' = "canceled" /\ UNCHANGED <<conn, open>>
       \/ /\ stop = "canceled" /\ UNCHANGED <<ctx, conn>>
          /\ IF conn # 0 THEN open' = open \ {conn} /\ stop' = "closing"
             ELSE stop' = "returned" /\ UNCHANGED open
       \/ /\ stop = "closing" /\ conn' = 0 /\ stop' = "returned" /\ UNCHANGED <<ctx, open>>
    /\ UNCHANGED <<lk, client, opened, workers, sub, sent, count, access>>

Done ==
    /\ access.pc \in {"failed", "answered"} \/ (access.pc = "unused" /\ (\A p \in Setups : sub[p].pc \in {"returned", "dial"}) /\ stop = "returned")
    /\ UNCHANGED vars

Next ==
    \/ /\ access.pc = "unused"
       /\ \/ \E p \in Setups : lock(p) \/ setupEstimatorConnection(p) \/ setupFails(p) \/ setupSucceeds(p) \/ assign(p)
          \/ \E p \in Submitters : submitMessage(p) \/ SubmitPayForBlob(p) \/ estimate(p) \/ send(p) \/ markSuccessfulPFB(p)
          \/ Stop
    \/ waitForAppReady \/ BalanceForAddress
    \/ Done

-----------------------------------------------------------------------------
(***************************************************************************)
(* Properties.                                                             *)
(***************************************************************************)

TypeOK ==
    /\ lk \in Setups \cup {NoProc} /\ open \subseteq 1..opened /\ conn \in 0..opened
    /\ client => lk = NoProc

\* The connections of the client and of the setup in progress, which holds the lock.
Owned ==
    (IF conn # 0 THEN {conn} ELSE {})
    \cup (IF lk # NoProc /\ sub[lk].pc \in {"setupTx", "assign"} THEN {sub[lk].conn} ELSE {})

\* The client is set up once, whoever comes first: the connections that are open are owned, so
\* that any number of attempts that fail leave none behind, and until Stop those owned are
\* open.  (Stop reads the connection without the lock: after it, the one that is owned and open
\* is that of a setup which assigns the client when Stop has found none.)
ConnectionsOwned ==
    /\ open \subseteq Owned /\ (stop = "not called" => open = Owned)
    /\ \A p \in Setups : sub[p].pc \in {"dial", "setupTx", "assign"} <=> lk = p
    /\ \A p \in Submitters : sub[p].pc \in {"estimate", "send", "mark"} => client

\* What reaches the app: an estimated price is at most the caller's limit, and so is one that the
\* caller set for a message whose gas is estimated; a price and a gas limit that the caller set are
\* used, the fee fits in an int64, a message that moves coins moves some, and the key that signs is
\* that of the author, which GetTxAuthorKeyName names too.  The options mean the same after a trip
\* over JSON.
SubmittedAsAsked ==
    /\ \A t \in sent : t.signer = t.author
    /\ \A p \in Submitters : sub[p].pc = "idle" =>
           \A m \in Messages(DefaultAddress) : m.msg.signer = DefaultAddress /\ (m.moves => m.msg.amount > 0)
    /\ \A p \in Submitters :
          /\ sub[p].pc \in {"send", "mark"} =>
                 LET cfg == sub[p].cfg
                 IN /\ sub[p].est \/ (sub[p].call = "SubmitMessage" /\ cfg.gas = 0) => sub[p].price <= MaxGasPrice(cfg)
                    /\ ~sub[p].est => cfg.isGasPriceSet /\ sub[p].price = cfg.gasPrice
                    /\ cfg.gas # 0 => sub[p].gas = cfg.gas
                    /\ sub[p].price >= 0 /\ sub[p].price * sub[p].gas < MaxInt
          /\ sub[p].call # "none" =>
                 LET cfg == sub[p].cfg
                     back == UnmarshalJSON(MarshalJSON(cfg))
                 IN /\ GasPrice(back) = GasPrice(cfg) /\ MaxGasPrice(back) = MaxGasPrice(cfg)
                    /\ GetTxAuthorKeyName(cfg) \in DOMAIN Keyring =>
                           sub[p].author = Keyring[GetTxAuthorKeyName(cfg)]

\* Every blob transaction that succeeded is counted once it returned.
CountExact ==
    count = Cardinality({t \in sent : t.code = "ok" /\ t.call = "SubmitPayForBlob" /\ sub[t.by].pc # "mark"})

\* A balance is what the account holds, whatever the endpoint says; no balance is zero.
BalanceProven ==
    access.balance \in {"unknown", "error", IF access.held = "nothing" THEN "0" ELSE access.held}

TransactionsSound == BalanceProven /\ TypeOK /\ ConnectionsOwned /\ SubmittedAsAsked /\ CountExact

=============================================================================
