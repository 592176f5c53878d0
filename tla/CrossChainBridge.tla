-------------------------- MODULE CrossChainBridge --------------------------
(***************************************************************************)
(* The two bridge contracts, L1CrossChainBridge.sol and                    *)
(* L2CrossChainBridge.sol, and as much of the chains that run them as the  *)
(* agent depends on: a pool of submitted transactions, each executed once, *)
(* reverted or dropped, a clock, and the event streams ("tlogs") that the  *)
(* agent's web sockets subscribe to.                                       *)
(*                                                                         *)
(* A cross-chain transfer t starts on the layer Origin[t].  Its identifier *)
(* is a hash over the chain ids, so a transfer started on layer 1 never    *)
(* has the identifier of one started on layer 2.                           *)
(***************************************************************************)
EXTENDS Integers, Sequences, FiniteSets

CONSTANTS
    Tx,          \* identifiers of cross-chain transfers (cross_tx_id)
    Origin,      \* the layer each transfer starts on
    Hash,        \* hashes of the transactions in use at one time on a layer
    Skew,        \* how far the clocks of the layers and of the agent are ahead of the slowest
    Timeout,     \* timeout_ of the contracts, in clock ticks
    MaxTime,     \* bound: the clock stops here
    MaxDup,      \* bound: equal StartTx calls in one block
    ConfirmSeqs, \* ledger sequences of layer 2 that the manager contract confirms on layer 1
    Faults       \* what the environment may do: see FaultKinds

Layers == {"L1", "L2"}

\* submit: a transaction is refused, or accepted and the answer lost;
\* query: a read of a chain fails;  drop: an accepted transaction is never executed;
\* disconnectL1, disconnectL2: the web socket to that layer closes;
\* crash: the agent stops and is restarted;
\* slow: a transaction may be pending for longer than the 60 s of an acknowledgement;
\* database: a write of the database may fail
FaultKinds == {"submit", "query", "drop", "disconnectL1", "disconnectL2", "crash", "slow",
               "database"}

ASSUME ConstantsAssumption ==
    /\ Tx # {}
    /\ Origin \in [Tx -> Layers]
    /\ Skew \in [Layers \cup {"agent"} -> Nat]
    /\ Timeout \in Nat \ {0}
    /\ MaxTime \in Nat
    /\ MaxDup \in Nat \ {0}
    /\ ConfirmSeqs \subseteq Nat
    /\ Faults \subseteq FaultKinds

Other(l) == IF l = "L1" THEN "L2" ELSE "L1"
Src(t) == Origin[t]
Dst(t) == Other(Origin[t])

VARIABLES
    now,         \* the time, which each clock shows with its skew
    crossTxInfo, \* crossTxInfo_ of the contract on each layer
    paidIn,      \* amounts received by the contract for each transfer
    paidOut,     \* amounts paid by the contract for each transfer
    pool,        \* transactions submitted to each layer, by hash
    tlogs,       \* events emitted on each layer and not yet delivered to the agent
    subscribed,  \* is the agent's web socket to the layer open
    confirmed,   \* highest layer-2 sequence confirmed by the manager contract
    submits      \* confirm_seq of the Submit events not yet delivered

chainVars == <<now, crossTxInfo, paidIn, paidOut, pool, tlogs, subscribed, confirmed, submits>>

-----------------------------------------------------------------------------
(* The contracts' data.                                                    *)

INIT == 0
ACK_SUCCESS == 1
ACK_FAIL == 2
ACK_TIMEOUT == 3
TxStatusEnum == {INIT, ACK_SUCCESS, ACK_FAIL, ACK_TIMEOUT}
TxRefundedEnum == {"NONE", "TODO", "REFUNDED"}

\* exists is crossTxId.length > 0; parties, amount and errorDesc are left out
CrossTxInfo == [exists : BOOLEAN, srcChainId : Layers, status : TxStatusEnum,
                refunded : TxRefundedEnum, createTimestamp : Nat,
                executeTimestamp : Nat, timeout : Nat]

\* an entry of the mapping that was never written
EmptyInfo == [exists |-> FALSE, srcChainId |-> "L1", status |-> INIT, refunded |-> "NONE",
              createTimestamp |-> 0, executeTimestamp |-> 0, timeout |-> 0]

\* A transaction the agent submits: a call of SendTx (time is its timeout)
\* or of SendAckedTx (time is its execute_time).
PoolTx == [st : {"unused", "pending", "ok"}, fn : {"SendTx", "SendAckedTx"}, tx : Tx,
           result : TxStatusEnum, time : Nat]
UnusedTx == [st |-> "unused", fn |-> "SendTx", tx |-> CHOOSE t \in Tx : TRUE,
             result |-> INIT, time |-> 0]

Tlog == [topic : {"StartTx", "SendTx", "SendAckedTx"}, tx : Tx]

BlockTime(l) == now + Skew[l]

\* utils::Timestamp::HighResolution on the agent's host
AgentTime == now + Skew["agent"]

-----------------------------------------------------------------------------
(* The contract functions, over one entry of the mapping.                  *)

StartTxInfo(l, ts) ==
    [exists |-> TRUE, srcChainId |-> l, status |-> INIT, refunded |-> "NONE",
     createTimestamp |-> ts, executeTimestamp |-> 0, timeout |-> ts + Timeout]

\* Mutant: SendTx does not ask whether the transfer is already there.
SendTxRequireAgain(l, info, timeout, ts) ==
    IF l = "L1" THEN timeout >= ts ELSE timeout > ts

\* layer 1 accepts a timeout equal to the block timestamp, layer 2 does not
SendTxRequire(l, info, timeout, ts) ==
    /\ ~info.exists
    /\ IF l = "L1" THEN timeout >= ts ELSE timeout > ts

SendTxInfo(l, timeout, ts) ==
    [EmptyInfo EXCEPT !.exists = TRUE, !.srcChainId = Other(l),
                      !.executeTimestamp = ts, !.timeout = timeout]

\* Mutant: a settled entry may be acknowledged again.
SendAckedTxRequireAgain(info, result, execute_time) ==
    /\ info.exists
    /\ result # INIT
    /\ result = ACK_SUCCESS => /\ execute_time < info.timeout
                               /\ execute_time > info.createTimestamp

\* Mutant: the execution time is not compared with the entry's times.
SendAckedTxRequireAnyTime(info, result, execute_time) ==
    /\ info.exists
    /\ info.status = INIT
    /\ result # INIT

SendAckedTxRequire(info, result, execute_time) ==
    /\ info.exists
    /\ info.status = INIT
    /\ result # INIT
    /\ result = ACK_SUCCESS => /\ execute_time < info.timeout
                               /\ execute_time > info.createTimestamp

SendAckedTxInfo(info, result, execute_time) ==
    IF result = ACK_SUCCESS
    THEN [info EXCEPT !.status = result, !.executeTimestamp = execute_time]
    ELSE [info EXCEPT !.status = result, !.refunded = "TODO"]

\* Mutant: any entry that was not refunded may be.
RefundRequireOpen(info) == info.exists /\ info.refunded # "REFUNDED"

RefundRequire(info) == info.exists /\ info.refunded = "TODO"

-----------------------------------------------------------------------------
(* The chains.                                                             *)

Emit(l, topic, t) ==
    tlogs' = IF subscribed[l]
             THEN [tlogs EXCEPT ![l] = Append(@, [topic |-> topic, tx |-> t])]
             ELSE tlogs

\* A block of the origin holds n calls of StartTx with equal arguments.  The
\* identifier hashes the arguments and block.timestamp, so the n calls write
\* the same entry, while each of them pays the amount and emits an event.
StartTx(t, n) ==
    LET l == Src(t) IN
    /\ ~crossTxInfo[l][t].exists
    /\ BlockTime(l) + Timeout < MaxTime + Skew["agent"]
    /\ crossTxInfo' = [crossTxInfo EXCEPT ![l][t] = StartTxInfo(l, BlockTime(l))]
    /\ paidIn' = [paidIn EXCEPT ![l][t] = @ + n]
    /\ tlogs' = IF subscribed[l]
                THEN [tlogs EXCEPT ![l] = @ \o [i \in 1..n |-> [topic |-> "StartTx", tx |-> t]]]
                ELSE tlogs
    /\ UNCHANGED <<now, paidOut, pool, subscribed, confirmed, submits>>

\* The arguments of an executed transaction are never read again.  A
\* transaction that failed is answered for like one the node never had.
Succeed(l, h) ==
    pool' = [pool EXCEPT ![l][h] = [@ EXCEPT !.st = "ok", !.result = INIT, !.time = 0]]
Fail(l, h) == pool' = [pool EXCEPT ![l][h] = UnusedTx]

ExecuteSendTx(l, h) ==
    LET c == pool[l][h]
    IN  /\ c.st = "pending" /\ c.fn = "SendTx"
        /\ SendTxRequire(l, crossTxInfo[l][c.tx], c.time, BlockTime(l))
        /\ crossTxInfo' = [crossTxInfo EXCEPT ![l][c.tx] = SendTxInfo(l, c.time, BlockTime(l))]
        /\ paidIn' = [paidIn EXCEPT ![l][c.tx] = @ + 1]
        /\ Emit(l, "SendTx", c.tx)
        /\ Succeed(l, h)
        /\ UNCHANGED <<now, paidOut, subscribed, confirmed, submits>>

\* The amount goes to the agent on the origin, with an event, and to the
\* receiver on the other layer, without one.
ExecuteSendAckedTx(l, h) ==
    LET c == pool[l][h]
        info == crossTxInfo[l][c.tx]
        paid == c.result = ACK_SUCCESS
    IN  /\ c.st = "pending" /\ c.fn = "SendAckedTx"
        /\ SendAckedTxRequire(info, c.result, c.time)
        /\ crossTxInfo' = [crossTxInfo EXCEPT ![l][c.tx] = SendAckedTxInfo(info, c.result, c.time)]
        /\ paidOut' = IF paid THEN [paidOut EXCEPT ![l][c.tx] = @ + 1] ELSE paidOut
        /\ IF paid /\ info.srcChainId = l THEN Emit(l, "SendAckedTx", c.tx) ELSE UNCHANGED tlogs
        /\ Succeed(l, h)
        /\ UNCHANGED <<now, paidIn, subscribed, confirmed, submits>>

\* a require fails: the transaction is on the chain with an error code
Revert(l, h) ==
    LET c == pool[l][h]
        info == crossTxInfo[l][c.tx]
    IN  /\ c.st = "pending"
        /\ ~ IF c.fn = "SendTx" THEN SendTxRequire(l, info, c.time, BlockTime(l))
                                ELSE SendAckedTxRequire(info, c.result, c.time)
        /\ Fail(l, h)
        /\ UNCHANGED <<now, crossTxInfo, paidIn, paidOut, tlogs, subscribed, confirmed, submits>>

Execute(l, h) == ExecuteSendTx(l, h) \/ ExecuteSendAckedTx(l, h) \/ Revert(l, h)

\* The transaction passes its max_ledger_seq, runs out of gas or of balance,
\* or the node answered without a "results" array and never had it.
Drop(l, h) ==
    /\ "drop" \in Faults
    /\ pool[l][h].st = "pending"
    /\ Fail(l, h)
    /\ UNCHANGED <<now, crossTxInfo, paidIn, paidOut, tlogs, subscribed, confirmed, submits>>

\* the sender of the transfer takes its amount back
Refund(l, t) ==
    /\ RefundRequire(crossTxInfo[l][t])
    /\ crossTxInfo' = [crossTxInfo EXCEPT ![l][t].refunded = "REFUNDED"]
    /\ paidOut' = [paidOut EXCEPT ![l][t] = @ + 1]
    /\ UNCHANGED <<now, paidIn, pool, tlogs, subscribed, confirmed, submits>>

\* The manager contract on layer 1 confirms the layer-2 ledger up to seq.
\* Layer 2 closes one ledger a tick: the clock is its ledger sequence.
Submit(seq) ==
    /\ seq \in ConfirmSeqs /\ confirmed < seq /\ seq <= now
    /\ confirmed' = seq
    /\ submits' = IF subscribed["L1"] THEN submits \cup {seq} ELSE submits
    /\ UNCHANGED <<now, crossTxInfo, paidIn, paidOut, pool, tlogs, subscribed>>

Tick ==
    /\ now < MaxTime
    /\ now' = now + 1
    /\ UNCHANGED <<crossTxInfo, paidIn, paidOut, pool, tlogs, subscribed, confirmed, submits>>

ChainInit ==
    /\ now = 1
    /\ crossTxInfo = [l \in Layers |-> [t \in Tx |-> EmptyInfo]]
    /\ paidIn = [l \in Layers |-> [t \in Tx |-> 0]]
    /\ paidOut = [l \in Layers |-> [t \in Tx |-> 0]]
    /\ pool = [l \in Layers |-> [h \in Hash |-> UnusedTx]]
    /\ tlogs = [l \in Layers |-> <<>>]
    /\ subscribed = [l \in Layers |-> TRUE]
    /\ confirmed = 0
    /\ submits = {}

ChainNext ==
    \/ Tick
    \/ \E t \in Tx : \/ \E n \in 1..MaxDup : StartTx(t, n)
                     \/ \E l \in Layers : Refund(l, t)
    \/ \E l \in Layers, h \in Hash : Execute(l, h) \/ Drop(l, h)
    \/ \E seq \in ConfirmSeqs : Submit(seq)

ChainTypeOK ==
    /\ now \in Nat
    /\ crossTxInfo \in [Layers -> [Tx -> CrossTxInfo]]
    /\ paidIn \in [Layers -> [Tx -> Nat]]
    /\ paidOut \in [Layers -> [Tx -> Nat]]
    /\ pool \in [Layers -> [Hash -> PoolTx]]
    /\ tlogs \in [Layers -> Seq(Tlog)]
    /\ subscribed \in [Layers -> BOOLEAN]
    /\ confirmed \in Nat
    /\ submits \in SUBSET Nat
=============================================================================
