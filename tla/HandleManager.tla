---------------------------- MODULE HandleManager ----------------------------
(***************************************************************************)
(* The agent: HandleManager gives the events of the two web sockets and    *)
(* the timer to the two handles.  With the contracts and the chains this   *)
(* is the whole bridge.                                                    *)
(***************************************************************************)
EXTENDS Layer1ToLayer2Handle, Layer2ToLayer1Handle

\* the web socket thread of layer l takes the next event, for transfer t
Deliver(l, topic, t) ==
    /\ Ready(l)
    /\ tlogs[l] # <<>>
    /\ Head(tlogs[l]) = [topic |-> topic, tx |-> t]
    /\ tlogs' = [tlogs EXCEPT ![l] = Tail(@)]
    /\ UNCHANGED <<now, crossTxInfo, paidIn, paidOut, pool, subscribed, confirmed, submits>>

OnLayer1CrossContractTlog(t) ==
    \/ Deliver("L1", "StartTx", t) /\ L1HandleStartTxEvent(t)
    \/ Deliver("L1", "SendTx", t) /\ L2HandleSendTxEvent(t)
    \/ Deliver("L1", "SendAckedTx", t) /\ L1HandleSendAckdTxEvent(t)

OnLayer2SubscribeResponse(t) ==
    \/ Deliver("L2", "StartTx", t) /\ L2HandleStartTxEvent(t)
    \/ Deliver("L2", "SendTx", t) /\ L1HandleSendTxEvent(t)
    \/ Deliver("L2", "SendAckedTx", t) /\ L2HandleSendAckdTxEvent(t)

OnLayer1ManagerContractTlog ==
    /\ Ready("L1")
    /\ \E seq \in submits : /\ submits' = submits \ {seq}
                            /\ HandleConfirmSeqEvent(seq)
    /\ UNCHANGED <<now, crossTxInfo, paidIn, paidOut, pool, tlogs, subscribed, confirmed>>

-----------------------------------------------------------------------------
(* Connections and restarts.                                               *)

\* events in flight, and those emitted while the socket is closed, are lost
Disconnect(l) ==
    /\ (IF l = "L1" THEN "disconnectL1" ELSE "disconnectL2") \in Faults
    /\ subscribed[l]
    /\ subscribed' = [subscribed EXCEPT ![l] = FALSE]
    /\ tlogs' = [tlogs EXCEPT ![l] = <<>>]
    /\ submits' = IF l = "L1" THEN {} ELSE submits
    /\ UNCHANGED <<now, crossTxInfo, paidIn, paidOut, pool, confirmed, agentVars>>

\* the client reconnects and subscribes again; nothing is replayed
Subscribe(l) ==
    /\ up /\ ~subscribed[l]
    /\ subscribed' = [subscribed EXCEPT ![l] = TRUE]
    /\ UNCHANGED <<now, crossTxInfo, paidIn, paidOut, pool, tlogs, confirmed, submits, agentVars>>

Crash ==
    /\ "crash" \in Faults
    /\ up
    /\ up' = FALSE
    /\ mem' = [m \in Maps |-> [t \in Tx |-> NoEntry]]
    /\ th' = [p \in Threads |-> Idle]
    /\ subscribed' = [l \in Layers |-> FALSE]
    /\ tlogs' = [l \in Layers |-> <<>>]
    /\ submits' = {}
    /\ UNCHANGED <<now, crossTxInfo, paidIn, paidOut, pool, confirmed, db>>

\* Initialize of both handles loads the maps before the web sockets start
Initialize ==
    /\ ~up
    /\ up' = TRUE
    /\ mem' = db
    /\ UNCHANGED <<chainVars, db, th>>

-----------------------------------------------------------------------------
Init ==
    /\ ChainInit
    /\ up = TRUE
    /\ mem = [m \in Maps |-> [t \in Tx |-> NoEntry]]
    /\ db = [m \in Maps |-> [t \in Tx |-> NoEntry]]
    /\ th = [p \in Threads |-> Idle]

WebSocketThread(l) ==
    \/ L1ThreadStep(l) \/ L2ThreadStep(l)
    \/ \E t \in Tx : l = "L1" /\ (OnLayer1CrossContractTlog(t) \/ ConfirmedTx(t))
    \/ \E t \in Tx : l = "L2" /\ OnLayer2SubscribeResponse(t)
    \/ l = "L1" /\ OnLayer1ManagerContractTlog

\* OnTimer
TimerThread == L1ThreadStep("timer") \/ L2ThreadStep("timer") \/ L1TimerStep \/ L2TimerStep

AgentNext ==
    \/ TimerThread
    \/ \E l \in Layers : WebSocketThread(l) \/ Disconnect(l) \/ Subscribe(l)
    \/ Crash \/ Initialize

Next == (ChainNext /\ UNCHANGED agentVars) \/ AgentNext

Spec == Init /\ [][Next]_vars

-----------------------------------------------------------------------------
(* Fairness.  Time passes, chains execute what is in their pools, threads  *)
(* run.  A thread that waits for a lock gets it, because the only thread   *)
(* that takes a map's lock again and again is the timer, which sleeps      *)
(* between its sweeps; and OnTimer comes to every map in turn, so that     *)
(* every entry that stays due is swept.  Both are strong fairness.         *)

SweepOf(m) == (L1OnTimer \/ L2OnTimer) /\ th'["timer"].loop = m

Fairness ==
    /\ WF_vars(Tick /\ UNCHANGED agentVars)
    /\ \A l \in Layers : /\ WF_vars((\E h \in Hash : Execute(l, h)) /\ UNCHANGED agentVars)
                         /\ SF_vars(WebSocketThread(l))
    /\ WF_vars(TimerThread)
    /\ \A m \in Maps : SF_vars(SweepOf(m))

FairSpec == Spec /\ Fairness

-----------------------------------------------------------------------------
(* Properties.                                                             *)

\* Every variable has its type.
TypeOK ==
    /\ ChainTypeOK
    /\ up \in BOOLEAN
    /\ mem \in [Maps -> [Tx -> Entry]]
    /\ db \in [Maps -> [Tx -> Entry]]
    /\ th \in [Threads -> Job]

OriginInfo(t) == crossTxInfo[Src(t)][t]
DestInfo(t) == crossTxInfo[Dst(t)][t]

\* A receiver paid by SendAckedTx on the destination excludes a refund, paid
\* or only allowed, on the origin: however acknowledgements of success, of
\* failure and of timeout race, the transfer is settled one way.
NeverPaidAndRefunded ==
    \A t \in Tx : DestInfo(t).status = ACK_SUCCESS =>
        OriginInfo(t).status = ACK_SUCCESS /\ OriginInfo(t).refunded = "NONE"

\* SendAckedTx pays the agent on the origin only for a transfer whose amount
\* the agent has locked on the destination with SendTx, executed in time.
AgentPaidForLockedAmount ==
    \A t \in Tx : OriginInfo(t).status = ACK_SUCCESS =>
        /\ paidIn[Dst(t)][t] = 1
        /\ DestInfo(t).executeTimestamp < OriginInfo(t).timeout
        /\ DestInfo(t).executeTimestamp > OriginInfo(t).createTimestamp

\* No contract pays more for a transfer than it received for it, and the
\* amount of an entry that is not settled is still there.
Solvent ==
    \A l \in Layers, t \in Tx :
        paidOut[l][t] + (IF /\ crossTxInfo[l][t].status # ACK_SUCCESS
                            /\ crossTxInfo[l][t].refunded # "REFUNDED"
                            /\ crossTxInfo[l][t].exists THEN 1 ELSE 0) <= paidIn[l][t]

\* The agent's amount locked on the destination can never be withdrawn by the
\* sender of the transfer: only success is ever reported to that contract.
DestNeverRefundable ==
    \A t \in Tx : DestInfo(t).status \in {INIT, ACK_SUCCESS} /\ DestInfo(t).refunded = "NONE"

-----------------------------------------------------------------------------
(* What the agent knows.  Each map, job, pending transaction and event in  *)
(* flight rests on something a contract has recorded for good.             *)

Started(t) == OriginInfo(t).exists
LockedAt(t, e) == DestInfo(t).exists /\ DestInfo(t).executeTimestamp = e
TakenAt(t, e) == OriginInfo(t).status = ACK_SUCCESS /\ OriginInfo(t).executeTimestamp = e

\* the agent may save cross for transfer t in map m, or submit the transaction
CrossOk(m, t, cross) ==
    /\ m \in {"StartTx", "SendTx"} => Started(t)
    /\ m = "SendAck" /\ cross.status = ACK_SUCCESS => LockedAt(t, cross.time)
    /\ m = "ReplyAck" /\ cross.status # INIT =>
           cross.status = ACK_SUCCESS /\ TakenAt(t, cross.time)

\* the hash kept with a SendTx of transfer t is the hash of such a transaction
HashOk(m, t, cross) ==
    m = "SendTx" /\ cross.hash # NoHash /\ pool[Dst(t)][cross.hash].st # "unused" =>
        pool[Dst(t)][cross.hash].fn = "SendTx" /\ pool[Dst(t)][cross.hash].tx = t

EntryOk(m, t, entry) ==
    /\ entry # NoEntry => CrossOk(m, t, entry.cross)
    /\ HashOk(m, t, entry.cross)

JobOk(j) ==
    /\ j.pc \in {"submit", "put", "emplace"} => CrossOk(j.op, j.tx, j.cross)
    /\ HashOk(j.op, j.tx, j.cross)
    /\ j.loop = "StartTx" => \A t \in j.todo : Started(t)

PoolTxOk(l, c) ==
    /\ c.st = "pending" /\ c.fn = "SendTx" => l = Dst(c.tx) /\ Started(c.tx)
    /\ c.st = "pending" /\ c.fn = "SendAckedTx" /\ c.result # INIT =>
           \/ l = Src(c.tx) /\ (c.result = ACK_SUCCESS => LockedAt(c.tx, c.time))
           \/ l = Dst(c.tx) /\ c.result = ACK_SUCCESS /\ TakenAt(c.tx, c.time)
    /\ c.st = "ok" /\ c.fn = "SendTx" => l = Dst(c.tx) /\ DestInfo(c.tx).exists

TlogOk(l, e) ==
    /\ e.topic = "StartTx" => l = Src(e.tx) /\ Started(e.tx)
    /\ e.topic = "SendTx" => l = Dst(e.tx) /\ DestInfo(e.tx).exists
    /\ e.topic = "SendAckedTx" => l = Src(e.tx) /\ OriginInfo(e.tx).status = ACK_SUCCESS

\* Whatever a handler, a timer sweep or a restart from the database makes the
\* agent report to a contract is true of the other contract: success is
\* reported to the origin only with the execution time of a SendTx executed
\* on the destination, and to the destination only after the origin has paid
\* the agent; a hash kept for SendTx is never the hash of another transaction.
AgentKnowledge ==
    /\ \A m \in Maps, t \in Tx : EntryOk(m, t, mem[m][t]) /\ EntryOk(m, t, db[m][t])
    /\ \A p \in Threads : JobOk(th[p])
    /\ \A l \in Layers, h \in Hash : PoolTxOk(l, pool[l][h])
    /\ \A l \in Layers : \A i \in 1..Len(tlogs[l]) : TlogOk(l, tlogs[l][i])

\* The account of one entry of a contract's mapping.
AccountOk(l, t) ==
    LET info == crossTxInfo[l][t]
    IN  /\ ~info.exists => info = EmptyInfo /\ paidIn[l][t] = 0
        /\ info.exists => paidIn[l][t] >= 1 /\ info.srcChainId = Src(t)
        /\ info.status \in {INIT, ACK_SUCCESS} <=> info.refunded = "NONE"
        /\ paidOut[l][t] = IF info.status = ACK_SUCCESS \/ info.refunded = "REFUNDED" THEN 1 ELSE 0

\* The two entries of one transfer.
PairOk(t) ==
    LET o == OriginInfo(t)
        d == DestInfo(t)
    IN  /\ d.exists => o.exists /\ paidIn[Dst(t)][t] = 1
        /\ d.status \in {INIT, ACK_SUCCESS}
        /\ d.status = ACK_SUCCESS => o.status = ACK_SUCCESS
        /\ o.status = ACK_SUCCESS => /\ d.exists
                                     /\ o.executeTimestamp = d.executeTimestamp
                                     /\ d.executeTimestamp < o.timeout
                                     /\ d.executeTimestamp > o.createTimestamp

\* Each contract's account of a transfer is in order, and the entries of the
\* two contracts agree: however often StartTx, SendTx and SendAckedTx are
\* called for it, the agent locks one amount, for a transfer that was started;
\* the receiver is paid only after the agent, and the origin records the
\* execution time of the destination.
ContractsAgree == (\A l \in Layers, t \in Tx : AccountOk(l, t)) /\ (\A t \in Tx : PairOk(t))

\* the inductive invariant of the proofs
SafetyInv == TypeOK /\ ContractsAgree /\ AgentKnowledge

-----------------------------------------------------------------------------
\* What each contract records of a transfer, as the abstract transfer sees it.
OriginState(info) ==
    CASE ~info.exists -> "none"
      [] info.exists /\ info.status = INIT -> "locked"
      [] info.exists /\ info.status = ACK_SUCCESS -> "taken"
      [] OTHER -> IF info.refunded = "TODO" THEN "returnable" ELSE "returned"

DestState(info) ==
    CASE ~info.exists -> "none"
      [] info.exists /\ info.status = INIT -> "locked"
      [] info.exists /\ info.status = ACK_SUCCESS -> "delivered"
      [] OTHER -> "withdrawable"

Transfer == INSTANCE AtomicTransfer WITH origin <- [t \in Tx |-> OriginState(OriginInfo(t))],
                                         dest <- [t \in Tx |-> DestState(DestInfo(t))]

\* The two contracts, driven by the agent through every race, loss and crash,
\* implement the abstract transfer: each step of a contract is one of its
\* steps, in its order (lock, lock, take, deliver; or give up, return), and a
\* status is never taken back.
ImplementsAtomicTransfer == Transfer!Spec

Cleared(m, t) == db[m][t].saved /\ ~db'[m][t].saved

HandsOver(t) ==
    /\ Cleared("StartTx", t) => \/ db["SendTx"][t].saved \/ db["SendAck"][t].saved
                                \/ DestInfo(t).exists \/ OriginInfo(t).status # INIT
    /\ Cleared("SendTx", t) => db["SendAck"][t].saved \/ OriginInfo(t).status # INIT
    /\ Cleared("SendAck", t) => OriginInfo(t).status # INIT
    /\ Cleared("ReplyAck", t) => DestInfo(t).status = ACK_SUCCESS

\* An entry leaves the database (Clear...Info) only when the entry of the
\* next stage is there or the contract has settled that stage, so that a
\* restart at any moment finds the transfers that were saved.
HandedOverBeforeCleared == [][\A t \in Tx : HandsOver(t)]_vars

\* A transfer whose amount is locked on the destination and that is open on
\* the origin is in one of the running agent's maps, or a thread is working
\* on it: the amount is never locked and forgotten.
LockedIsRemembered ==
    \A t \in Tx : DestInfo(t).exists /\ OriginInfo(t).status = INIT =>
        \/ \E m \in {"StartTx", "SendTx", "SendAck"} : mem[m][t].saved
        \/ \E p \in Threads : th[p].pc # "idle" /\ th[p].tx = t /\ th[p].op # "ReplyAck"

\* Layer 1 accepts SendTx at the very timestamp of the timeout; SendAckedTx
\* on the origin then rejects that execution time.
LockedAtTimeout(t) == DestInfo(t).exists /\ DestInfo(t).executeTimestamp = DestInfo(t).timeout

\* Every transfer started is settled on its origin: by the acknowledgement of
\* SendTx or, when the event or the transaction is lost, by a timer sweep.
EventuallySettled ==
    \A t \in Tx : OriginInfo(t).exists ~> OriginInfo(t).status # INIT \/ LockedAtTimeout(t)

\* Once the agent has been paid on the origin the receiver is paid on the
\* destination (HandleSendAckdTxEvent, then the sweep of the replies).
EventuallyDelivered ==
    \A t \in Tx : OriginInfo(t).status = ACK_SUCCESS ~> DestInfo(t).status = ACK_SUCCESS

\* "SendTx: timeout must be greater than current timestamp": an entry made by
\* SendTx was made before its timeout.
SendTxBeforeTimeout == \A t \in Tx : ~LockedAtTimeout(t)

\* "SendAckToLayer1 tx success and clear send_ack_info": once the origin has
\* recorded a failure or a timeout, the acknowledgement that reports it does
\* not stay in send_ack_info_map_, to be sent again every 60 s.
SettledFailureIsCleared ==
    \A t \in Tx : OriginInfo(t).status \in {ACK_FAIL, ACK_TIMEOUT} ~> ~mem["SendAck"][t].saved
=============================================================================
