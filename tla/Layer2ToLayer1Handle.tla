------------------------ MODULE Layer2ToLayer1Handle ------------------------
(***************************************************************************)
(* Layer2ToLayer1Handle: the agent's side of the transfers that start on   *)
(* layer 2.  A transfer waits in start_tx_info_map_ until the manager      *)
(* contract on layer 1 has confirmed the layer-2 ledger it is in; then     *)
(* SendTx on layer 1 -> SendAckedTx on layer 2 -> SendAckedTx on layer 1.  *)
(***************************************************************************)
EXTENDS CrossTxHandle

Tx2 == {t \in Tx : Origin[t] = "L2"}

\* GetLayerSeq of layer 2 is read after the transfer: the clock stands for it
L2HandleStartTxEvent(t) ==
    LET p == "L2"
    IN  /\ \/ Run(p, "put", "StartTx", t, [MakeCrossTx("L2", t) EXCEPT !.confirmSeq = now],
                  "none", {})
           \/ QueryFails /\ UNCHANGED th
        /\ UNCHANGED <<up, mem, db>>

\* Mutant: the execution time is read on the layer of the transfer's origin.
L2AckSuccessFromOrigin(p, t, todo) ==
    \/ Run(p, "submit", "SendAck", t, [MakeCrossTx("L2", t) EXCEPT !.status = ACK_SUCCESS],
           "SendTx", todo)
    \/ QueryFails /\ Done(p, todo)

\* handleSendTxEvent: acknowledge with what the contract on layer 1 recorded
L2AckSuccess(p, t, todo) ==
    \/ Run(p, "submit", "SendAck", t, [MakeCrossTx("L1", t) EXCEPT !.status = ACK_SUCCESS],
           "SendTx", todo)
    \/ QueryFails /\ Done(p, todo)

L2HandleSendTxEvent(t) == L2AckSuccess("L1", t, {}) /\ UNCHANGED <<up, mem, db>>

\* Mutant: the event is not answered.
L2IgnoreSendAckdTxEvent(t) == UNCHANGED <<th, up, mem, db>>

L2HandleSendAckdTxEvent(t) ==
    LET p == "L2"
    IN  /\ \/ Run(p, "submit", "ReplyAck", t, MakeCrossTx("L2", t), "SendAck", {})
           \/ QueryFails /\ UNCHANGED th
        /\ UNCHANGED <<up, mem, db>>

\* HandleConfirmSeqEvent takes the lock of start_tx_info_map_ and goes over
\* the transfers that the confirmed ledger covers
HandleConfirmSeqEvent(seq) ==
    LET p == "L1"
        items == {t \in Tx2 : /\ mem["StartTx"][t].saved
                              /\ mem["StartTx"][t].cross.confirmSeq <= seq}
    IN  /\ LockFree(p, "L2", "StartTx")
        /\ th' = IF items = {} THEN th
                 ELSE [th EXCEPT ![p] = [Idle EXCEPT !.loop = "StartTx", !.obj = "L2",
                                                     !.todo = items]]
        /\ UNCHANGED <<up, mem, db>>

\* a transfer past its timeout is acknowledged and stays in the map
ConfirmedTx(t) ==
    LET p == "L1"
        cross == [mem["StartTx"][t].cross EXCEPT !.hash = NoHash]
    IN  /\ Item(p, "L2", "StartTx", t)
        /\ IF cross.timeout < AgentTime
           THEN Run(p, "submit", "SendAck", t, [cross EXCEPT !.status = ACK_TIMEOUT],
                    "none", Rest(p, t))
           ELSE Run(p, "submit", "SendTx", t, cross, "StartTx", Rest(p, t))
        /\ UNCHANGED <<chainVars, up, mem, db>>

-----------------------------------------------------------------------------
(* The transactions.                                                       *)

\* Mutant: the entry is cleared although the transaction was not sent.
SendTxToLayer1Unchecked(p) ==
    /\ Submitting(p, "L2", "SendTx")
    /\ \/ Accepted(p, "L1")
       \/ Failed(p, "L1") /\ th' = [th EXCEPT ![p] = [@ EXCEPT !.pc = "delete"]]
    /\ UNCHANGED <<chainButPool, up, mem, db>>

SendTxToLayer1(p) ==
    /\ Submitting(p, "L2", "SendTx")
    /\ Accepted(p, "L1") \/ (Failed(p, "L1") /\ Done(p, th[p].todo))
    /\ UNCHANGED <<chainButPool, up, mem, db>>

SendAckToLayer2(p) ==
    /\ Submitting(p, "L2", "SendAck")
    /\ Accepted(p, "L2") \/ (Failed(p, "L2") /\ Done(p, th[p].todo))
    /\ UNCHANGED <<chainButPool, up, mem, db>>

ReplyAckToLayer1(p) ==
    /\ Submitting(p, "L2", "ReplyAck")
    /\ Accepted(p, "L1") \/ (Failed(p, "L1") /\ Done(p, th[p].todo))
    /\ UNCHANGED <<chainButPool, up, mem, db>>

\* SaveStartTxInfo, SaveSendTxInfo, SaveSendAckInfo, SaveReplyAckInfo
L2SaveInfo(p) == Src(th[p].tx) = "L2" /\ (DBPut(p) \/ Emplace(p))

\* ClearStartTxInfo, ClearSendTxInfo, ClearSendAckInfo, ClearReplyAckInfo
L2ClearInfo(p) == Src(th[p].tx) = "L2" /\ (DBDelete(p) \/ Erase(p))

-----------------------------------------------------------------------------
(* The timer.                                                              *)

\* Mutant: SendTxToLayer1TimeOut is not called.
L2OnTimerNoSendTx ==
    /\ Ready("timer")
    /\ \/ EnterLoop("timer", "L2", "StartTx",
              {t \in Tx2 : mem["StartTx"][t].saved /\ mem["StartTx"][t].cross.timeout < AgentTime})
       \/ \E m \in {"SendAck", "ReplyAck"} :
              \E due \in SUBSET {t \in Tx2 : AckDue(m, t)} : EnterLoop("timer", "L2", m, due)

L2OnTimer ==
    /\ Ready("timer")
    /\ \/ \E m \in {"StartTx", "SendTx"} :
              EnterLoop("timer", "L2", m,
                        {t \in Tx2 : mem[m][t].saved /\ mem[m][t].cross.timeout < AgentTime})
       \/ \E m \in {"SendAck", "ReplyAck"} :
              \E due \in SUBSET {t \in Tx2 : AckDue(m, t)} : EnterLoop("timer", "L2", m, due)

StartTxTimeOut(t) ==
    LET p == "timer"
    IN  /\ Item(p, "L2", "StartTx", t)
        /\ Run(p, "submit", "SendAck", t, [mem["StartTx"][t].cross EXCEPT !.status = ACK_FAIL],
               "StartTx", Rest(p, t))
        /\ UNCHANGED <<chainVars, up, mem, db>>

SendTxToLayer1TimeOut(t) ==
    LET p == "timer"
        cross == mem["SendTx"][t].cross
    IN  /\ Item(p, "L2", "SendTx", t)
        /\ \E ok \in GetTxResult("L1", cross.hash) :
              IF ok THEN L2AckSuccess(p, t, Rest(p, t))
              ELSE Run(p, "submit", "SendAck", t,
                       [cross EXCEPT !.status = ACK_TIMEOUT, !.hash = NoHash],
                       "SendTx", Rest(p, t))
        /\ UNCHANGED <<chainVars, up, mem, db>>

SendAckToLayer2TimeOut(t) ==
    LET p == "timer"
        cross == mem["SendAck"][t].cross
        resend == Run(p, "submit", "SendAck", t, [cross EXCEPT !.hash = NoHash],
                      "none", Rest(p, t))
        clear == Run(p, "delete", "SendAck", t, NoCrossTx, "SendAck", Rest(p, t))
    IN  /\ Item(p, "L2", "SendAck", t)
        /\ IF cross.status = ACK_SUCCESS THEN resend
           ELSE \E ok \in GetTxResult("L2", cross.hash), st \in GetCrossTxStatus("L2", t) :
                    IF ok \/ st # INIT THEN clear ELSE resend
        /\ UNCHANGED <<chainVars, up, mem, db>>

ReplyAckToLayer1TimeOut(t) ==
    LET p == "timer"
        cross == mem["ReplyAck"][t].cross
    IN  /\ Item(p, "L2", "ReplyAck", t)
        /\ \E ok \in GetTxResult("L1", cross.hash), st \in GetCrossTxStatus("L1", t) :
              IF ok \/ st # INIT
              THEN Run(p, "delete", "ReplyAck", t, NoCrossTx, "ReplyAck", Rest(p, t))
              ELSE Run(p, "submit", "ReplyAck", t, [cross EXCEPT !.hash = NoHash],
                       "none", Rest(p, t))
        /\ UNCHANGED <<chainVars, up, mem, db>>

L2ThreadStep(p) ==
    \/ SendTxToLayer1(p) \/ SendAckToLayer2(p) \/ ReplyAckToLayer1(p)
    \/ L2SaveInfo(p) \/ L2ClearInfo(p)

L2TimerStep ==
    \/ L2OnTimer
    \/ \E t \in Tx2 : \/ StartTxTimeOut(t) \/ SendTxToLayer1TimeOut(t)
                      \/ SendAckToLayer2TimeOut(t) \/ ReplyAckToLayer1TimeOut(t)
=============================================================================
