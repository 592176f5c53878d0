------------------------ MODULE Layer1ToLayer2Handle ------------------------
(***************************************************************************)
(* Layer1ToLayer2Handle: the agent's side of the transfers that start on   *)
(* layer 1.  StartTx on layer 1 -> SendTx on layer 2 -> SendAckedTx on     *)
(* layer 1 -> SendAckedTx on layer 2.                                      *)
(***************************************************************************)
EXTENDS CrossTxHandle

Tx1 == {t \in Tx : Origin[t] = "L1"}

\* the reads of a handler, then its first transaction; or a read fails and
\* the event is dropped
L1HandleStartTxEvent(t) ==
    LET p == "L1"
    IN  /\ \/ Run(p, "submit", "SendTx", t, MakeCrossTx("L1", t), "none", {})
           \/ QueryFails /\ UNCHANGED th
        /\ UNCHANGED <<up, mem, db>>

\* Mutant: the execution time is read on the layer of the transfer's origin.
L1AckSuccessFromOrigin(p, t, todo) ==
    \/ Run(p, "submit", "SendAck", t, [MakeCrossTx("L1", t) EXCEPT !.status = ACK_SUCCESS],
           "SendTx", todo)
    \/ QueryFails /\ Done(p, todo)

\* handleSendTxEvent: acknowledge with what the contract on layer 2 recorded
L1AckSuccess(p, t, todo) ==
    \/ Run(p, "submit", "SendAck", t, [MakeCrossTx("L2", t) EXCEPT !.status = ACK_SUCCESS],
           "SendTx", todo)
    \/ QueryFails /\ Done(p, todo)

L1HandleSendTxEvent(t) == L1AckSuccess("L2", t, {}) /\ UNCHANGED <<up, mem, db>>

\* Mutant: the event is not answered.
L1IgnoreSendAckdTxEvent(t) == UNCHANGED <<th, up, mem, db>>

L1HandleSendAckdTxEvent(t) ==
    LET p == "L1"
    IN  /\ \/ Run(p, "submit", "ReplyAck", t, MakeCrossTx("L1", t), "SendAck", {})
           \/ QueryFails /\ UNCHANGED th
        /\ UNCHANGED <<up, mem, db>>

-----------------------------------------------------------------------------
(* The transactions.                                                       *)

\* Mutant: the failure is reported to the destination.
SendTxToLayer2FailsToLayer2(p) ==
    /\ Submitting(p, "L1", "SendTx")
    /\ \/ Accepted(p, "L2")
       \/ /\ Failed(p, "L2")
          /\ Run(p, "submit", "ReplyAck", th[p].tx, [th[p].cross EXCEPT !.status = ACK_FAIL],
                 "none", th[p].todo)
    /\ UNCHANGED <<chainButPool, up, mem, db>>

\* on failure HandleStartTxEvent goes on to acknowledge CROSS_RESULT_FAILED
SendTxToLayer2(p) ==
    /\ Submitting(p, "L1", "SendTx")
    /\ \/ Accepted(p, "L2")
       \/ /\ Failed(p, "L2")
          /\ Run(p, "submit", "SendAck", th[p].tx, [th[p].cross EXCEPT !.status = ACK_FAIL],
                 "none", th[p].todo)
    /\ UNCHANGED <<chainButPool, up, mem, db>>

\* Mutant: the caller clears the entry although the acknowledgement was not sent.
SendAckToLayer1Unchecked(p) ==
    /\ Submitting(p, "L1", "SendAck")
    /\ \/ Accepted(p, "L1")
       \/ /\ Failed(p, "L1")
          /\ IF th[p].clr = "none" THEN Done(p, th[p].todo)
             ELSE th' = [th EXCEPT ![p] = [@ EXCEPT !.pc = "delete"]]
    /\ UNCHANGED <<chainButPool, up, mem, db>>

SendAckToLayer1(p) ==
    /\ Submitting(p, "L1", "SendAck")
    /\ Accepted(p, "L1") \/ (Failed(p, "L1") /\ Done(p, th[p].todo))
    /\ UNCHANGED <<chainButPool, up, mem, db>>

ReplyAckToLayer2(p) ==
    /\ Submitting(p, "L1", "ReplyAck")
    /\ Accepted(p, "L2") \/ (Failed(p, "L2") /\ Done(p, th[p].todo))
    /\ UNCHANGED <<chainButPool, up, mem, db>>

\* SaveSendTxInfo, SaveSendAckInfo, SaveReplyAckInfo
L1SaveInfo(p) == Src(th[p].tx) = "L1" /\ (DBPut(p) \/ Emplace(p))

\* ClearSendTxInfo, ClearSendAckInfo, ClearReplyAckInfo
L1ClearInfo(p) == Src(th[p].tx) = "L1" /\ (DBDelete(p) \/ Erase(p))

-----------------------------------------------------------------------------
(* The timer.                                                              *)

\* Mutant: SendTxToLayer2TimeOut is not called.
L1OnTimerNoSendTx ==
    /\ Ready("timer")
    /\ \E m \in {"SendAck", "ReplyAck"} :
           \E due \in SUBSET {t \in Tx1 : AckDue(m, t)} : EnterLoop("timer", "L1", m, due)

L1OnTimer ==
    /\ Ready("timer")
    /\ \/ EnterLoop("timer", "L1", "SendTx",
              {t \in Tx1 : mem["SendTx"][t].saved /\ mem["SendTx"][t].cross.timeout < AgentTime})
       \/ \E m \in {"SendAck", "ReplyAck"} :
              \E due \in SUBSET {t \in Tx1 : AckDue(m, t)} : EnterLoop("timer", "L1", m, due)

SendTxToLayer2TimeOut(t) ==
    LET p == "timer"
        cross == mem["SendTx"][t].cross
    IN  /\ Item(p, "L1", "SendTx", t)
        /\ \E ok \in GetTxResult("L2", cross.hash) :
              IF ok THEN L1AckSuccess(p, t, Rest(p, t))
              ELSE Run(p, "submit", "SendAck", t,
                       [cross EXCEPT !.status = ACK_TIMEOUT, !.hash = NoHash],
                       "SendTx", Rest(p, t))
        /\ UNCHANGED <<chainVars, up, mem, db>>

\* Mutant: an acknowledgement is cleared without asking what became of it.
SendAckToLayer1TimeOutClears(t) ==
    /\ Item("timer", "L1", "SendAck", t)
    /\ Run("timer", "delete", "SendAck", t, NoCrossTx, "SendAck", Rest("timer", t))
    /\ UNCHANGED <<chainVars, up, mem, db>>

\* an acknowledgement of success is sent again whatever became of it; one of
\* failure is cleared when its transaction or the transfer's status says so
SendAckToLayer1TimeOut(t) ==
    LET p == "timer"
        cross == mem["SendAck"][t].cross
        resend == Run(p, "submit", "SendAck", t, [cross EXCEPT !.hash = NoHash],
                      "none", Rest(p, t))
        clear == Run(p, "delete", "SendAck", t, NoCrossTx, "SendAck", Rest(p, t))
    IN  /\ Item(p, "L1", "SendAck", t)
        /\ IF cross.status = ACK_SUCCESS THEN resend
           ELSE \E ok \in GetTxResult("L1", cross.hash), st \in GetCrossTxStatus("L1", t) :
                    IF ok \/ st # INIT THEN clear ELSE resend
        /\ UNCHANGED <<chainVars, up, mem, db>>

ReplyAckToLayer2TimeOut(t) ==
    LET p == "timer"
        cross == mem["ReplyAck"][t].cross
    IN  /\ Item(p, "L1", "ReplyAck", t)
        /\ \E ok \in GetTxResult("L2", cross.hash), st \in GetCrossTxStatus("L2", t) :
              IF ok \/ st # INIT
              THEN Run(p, "delete", "ReplyAck", t, NoCrossTx, "ReplyAck", Rest(p, t))
              ELSE Run(p, "submit", "ReplyAck", t, [cross EXCEPT !.hash = NoHash],
                       "none", Rest(p, t))
        /\ UNCHANGED <<chainVars, up, mem, db>>

L1ThreadStep(p) ==
    \/ SendTxToLayer2(p) \/ SendAckToLayer1(p) \/ ReplyAckToLayer2(p)
    \/ L1SaveInfo(p) \/ L1ClearInfo(p)

L1TimerStep ==
    \/ L1OnTimer
    \/ \E t \in Tx1 : SendTxToLayer2TimeOut(t) \/ SendAckToLayer1TimeOut(t) \/ ReplyAckToLayer2TimeOut(t)
=============================================================================
