---------------------- MODULE HandleManagerRefinement ----------------------
(***************************************************************************)
(* The bridge implements AtomicTransfer: seen through OriginState and      *)
(* DestState, every step of the contracts is a step of the abstract        *)
(* transfer, and every other step is a stuttering step.                    *)
(***************************************************************************)
EXTENDS HandleManagerSafety

\* The abstract state of an entry of the origin's contract.
LEMMA OriginStates ==
    ASSUME NEW info \in CrossTxInfo
    PROVE  /\ ~info.exists => OriginState(info) = "none"
           /\ info.exists /\ info.status = INIT => OriginState(info) = "locked"
           /\ info.exists /\ info.status = ACK_SUCCESS => OriginState(info) = "taken"
           /\ info.exists /\ info.status \notin {INIT, ACK_SUCCESS} =>
                  OriginState(info) = IF info.refunded = "TODO" THEN "returnable" ELSE "returned"
BY DEF OriginState, CrossTxInfo, INIT, ACK_SUCCESS

\* The abstract state of an entry of the destination's contract.
LEMMA DestStates ==
    ASSUME NEW info \in CrossTxInfo
    PROVE  /\ ~info.exists => DestState(info) = "none"
           /\ info.exists /\ info.status = INIT => DestState(info) = "locked"
           /\ info.exists /\ info.status = ACK_SUCCESS => DestState(info) = "delivered"
BY DEF DestState, CrossTxInfo, INIT, ACK_SUCCESS

\* A step that writes the origin's entry of transfer u changes the abstract
\* state of u on the origin only; likewise on the destination.
LEMMA OneStateChanges ==
    ASSUME TypeOK, NEW u \in Tx, NEW l \in Layers, NEW info,
           crossTxInfo' = [crossTxInfo EXCEPT ![l][u] = info]
    PROVE  /\ \A t \in Tx \ {u} : OriginInfo(t)' = OriginInfo(t) /\ DestInfo(t)' = DestInfo(t)
           /\ l = Src(u) => OriginInfo(u)' = info /\ DestInfo(u)' = DestInfo(u)
           /\ l = Dst(u) => DestInfo(u)' = info /\ OriginInfo(u)' = OriginInfo(u)
<1>1. \A t \in Tx : Src(t) \in Layers /\ Dst(t) \in Layers /\ Src(t) # Dst(t)
  BY LayersOfTransfer
<1> QED
  BY <1>1 DEF OriginInfo, DestInfo, TypeOK, ChainTypeOK

\* The abstract state after a step that writes u's entry on the origin.
LEMMA OriginStep ==
    ASSUME NEW u \in Tx,
           \A t \in Tx \ {u} : OriginInfo(t)' = OriginInfo(t) /\ DestInfo(t)' = DestInfo(t),
           DestInfo(u)' = DestInfo(u)
    PROVE  /\ [t \in Tx |-> OriginState(OriginInfo(t)')]
                  = [[t \in Tx |-> OriginState(OriginInfo(t))]
                        EXCEPT ![u] = OriginState(OriginInfo(u)')]
           /\ [t \in Tx |-> DestState(DestInfo(t)')] = [t \in Tx |-> DestState(DestInfo(t))]
OBVIOUS

\* The abstract state after a step that writes u's entry on the destination.
LEMMA DestStep ==
    ASSUME NEW u \in Tx,
           \A t \in Tx \ {u} : OriginInfo(t)' = OriginInfo(t) /\ DestInfo(t)' = DestInfo(t),
           OriginInfo(u)' = OriginInfo(u)
    PROVE  /\ [t \in Tx |-> DestState(DestInfo(t)')]
                  = [[t \in Tx |-> DestState(DestInfo(t))] EXCEPT ![u] = DestState(DestInfo(u)')]
           /\ [t \in Tx |-> OriginState(OriginInfo(t)')]
                  = [t \in Tx |-> OriginState(OriginInfo(t))]
OBVIOUS

\* StartTx locks the sender's amount.
LEMMA StartTxLocks ==
    ASSUME SafetyInv, TypeOK', NEW u \in Tx, NEW n \in 1..MaxDup, StartTx(u, n)
    PROVE  Transfer!Lock(u)
<1> DEFINE l == Src(u)
           info == StartTxInfo(l, BlockTime(l))
<1>1. TypeOK /\ l \in Layers
  BY LayersOfTransfer DEF SafetyInv
<1>2. crossTxInfo' = [crossTxInfo EXCEPT ![l][u] = info] /\ ~OriginInfo(u).exists
  BY DEF StartTx, OriginInfo
<1>3. info.exists /\ info.status = INIT
  BY DEF StartTxInfo
<1> HIDE DEF info
<1>4. /\ \A t \in Tx \ {u} : OriginInfo(t)' = OriginInfo(t) /\ DestInfo(t)' = DestInfo(t)
      /\ OriginInfo(u)' = info /\ DestInfo(u)' = DestInfo(u)
  BY <1>1, <1>2, OneStateChanges
<1>5. OriginInfo(u) \in CrossTxInfo /\ OriginInfo(u)' \in CrossTxInfo
  BY <1>1 DEF TypeOK, ChainTypeOK, OriginInfo
<1>6. OriginState(OriginInfo(u)) = "none" /\ OriginState(OriginInfo(u)') = "locked"
  BY <1>2, <1>3, <1>4, <1>5, OriginStates
<1> QED
  BY <1>4, <1>6, OriginStep DEF Transfer!Lock

\* SendTx locks the agent's amount.
LEMMA SendTxLocks ==
    ASSUME SafetyInv, TypeOK', NEW l \in Layers, NEW h \in Hash, ExecuteSendTx(l, h)
    PROVE  \E u \in Tx : Transfer!LockDest(u)
<1>1. PICK u \in Tx : pool[l][h].tx = u
  BY PoolTxOfTransfer
<1> DEFINE info == SendTxInfo(l, pool[l][h].time, BlockTime(l))
<1>2. TypeOK /\ l = Dst(u) /\ Started(u)
  BY <1>1 DEF SafetyInv, AgentKnowledge, PoolTxOk, ExecuteSendTx
<1>3. crossTxInfo' = [crossTxInfo EXCEPT ![l][u] = info] /\ ~DestInfo(u).exists
  BY <1>1, <1>2 DEF ExecuteSendTx, SendTxRequire, DestInfo
<1>4. info.exists /\ info.status = INIT
  BY DEF SendTxInfo, EmptyInfo
<1> HIDE DEF info
<1>5. /\ \A t \in Tx \ {u} : OriginInfo(t)' = OriginInfo(t) /\ DestInfo(t)' = DestInfo(t)
      /\ DestInfo(u)' = info /\ OriginInfo(u)' = OriginInfo(u)
  BY <1>2, <1>3, OneStateChanges
<1>6. OriginInfo(u) \in CrossTxInfo /\ DestInfo(u) \in CrossTxInfo /\ DestInfo(u)' \in CrossTxInfo
  BY <1>2, LayersOfTransfer DEF TypeOK, ChainTypeOK, OriginInfo, DestInfo
<1>7. /\ OriginState(OriginInfo(u)) # "none"
      /\ DestState(DestInfo(u)) = "none" /\ DestState(DestInfo(u)') = "locked"
  BY <1>2, <1>3, <1>4, <1>5, <1>6, OriginStates, DestStates DEF Started, CrossTxInfo, TxStatusEnum
<1> QED
  BY <1>5, <1>7, DestStep DEF Transfer!LockDest

\* SendAckedTx takes the sender's amount or gives the transfer up, on the
\* origin; on the destination it delivers the agent's amount.
LEMMA SendAckedTxSettles ==
    ASSUME SafetyInv, TypeOK', NEW l \in Layers, NEW h \in Hash, ExecuteSendAckedTx(l, h)
    PROVE  \E u \in Tx : Transfer!Take(u) \/ Transfer!GiveUp(u) \/ Transfer!Deliver(u)
<1>1. PICK u \in Tx : pool[l][h].tx = u
  BY PoolTxOfTransfer
<1> DEFINE r == pool[l][h].result
           e0 == pool[l][h].time
           old == crossTxInfo[l][u]
           info == SendAckedTxInfo(old, r, e0)
<1>2. /\ TypeOK /\ PairOk(u) /\ old \in CrossTxInfo
      /\ Src(u) \in Layers /\ Dst(u) \in Layers
  <2>1. TypeOK /\ PairOk(u)
    BY DEF SafetyInv, ContractsAgree
  <2>2. old \in CrossTxInfo
    BY <2>1 DEF TypeOK, ChainTypeOK
  <2> QED
    BY <2>1, <2>2, LayersOfTransfer
<1>3. old.exists /\ old.status = INIT /\ r # INIT
  BY <1>1 DEF ExecuteSendAckedTx, SendAckedTxRequire
<1>4. \/ l = Src(u) /\ (r = ACK_SUCCESS => LockedAt(u, e0))
      \/ l = Dst(u) /\ r = ACK_SUCCESS /\ TakenAt(u, e0)
  BY <1>1, <1>3 DEF SafetyInv, AgentKnowledge, PoolTxOk, ExecuteSendAckedTx
<1>5. /\ info.exists /\ info.status = r
      /\ r # ACK_SUCCESS => info.refunded = "TODO"
  BY <1>2, <1>3 DEF SendAckedTxInfo, CrossTxInfo
<1>6. crossTxInfo' = [crossTxInfo EXCEPT ![l][u] = info]
  BY <1>1 DEF ExecuteSendAckedTx
<1>7. old = crossTxInfo[l][u]
  OBVIOUS
<1> HIDE DEF info, old, r, e0
<1>8. /\ \A t \in Tx \ {u} : OriginInfo(t)' = OriginInfo(t) /\ DestInfo(t)' = DestInfo(t)
      /\ l = Src(u) => OriginInfo(u)' = info /\ DestInfo(u)' = DestInfo(u)
      /\ l = Dst(u) => DestInfo(u)' = info /\ OriginInfo(u)' = OriginInfo(u)
  BY <1>2, <1>6, OneStateChanges
<1>9. /\ OriginInfo(u) \in CrossTxInfo /\ OriginInfo(u)' \in CrossTxInfo
      /\ DestInfo(u) \in CrossTxInfo /\ DestInfo(u)' \in CrossTxInfo
  BY <1>2 DEF TypeOK, ChainTypeOK, OriginInfo, DestInfo
<1>10. CASE l = Src(u) /\ r = ACK_SUCCESS
  <2>1. OriginInfo(u) = old /\ DestInfo(u).exists /\ DestInfo(u).status = INIT
    <3>1. OriginInfo(u) = old /\ (DestInfo(u).exists \/ l = Dst(u))
      BY <1>4, <1>7, <1>10 DEF OriginInfo, LockedAt
    <3>2. INIT # ACK_SUCCESS /\ l # Dst(u)
      BY <1>10, LayersOfTransfer DEF INIT, ACK_SUCCESS
    <3> QED
      BY <1>2, <1>3, <3>1, <3>2 DEF PairOk
  <2>2. /\ OriginState(OriginInfo(u)) = "locked" /\ DestState(DestInfo(u)) = "locked"
        /\ OriginState(OriginInfo(u)') = "taken"
    BY <1>3, <1>5, <1>8, <1>9, <1>10, <2>1, OriginStates, DestStates
  <2>3. Transfer!Take(u)
    BY <1>8, <1>10, <2>2, OriginStep DEF Transfer!Take
  <2> QED
    BY <2>3
<1>11. CASE l = Src(u) /\ r # ACK_SUCCESS
  <2>1. OriginInfo(u) = old
    BY <1>7, <1>11 DEF OriginInfo
  <2>2. OriginState(OriginInfo(u)) = "locked" /\ OriginState(OriginInfo(u)') = "returnable"
    BY <1>3, <1>5, <1>8, <1>9, <1>11, <2>1, OriginStates
  <2>3. Transfer!GiveUp(u)
    BY <1>8, <1>11, <2>2, OriginStep DEF Transfer!GiveUp
  <2> QED
    BY <2>3
<1>12. CASE l = Dst(u) /\ r = ACK_SUCCESS /\ TakenAt(u, e0)
  <2>1. DestInfo(u) = old /\ OriginInfo(u).status = ACK_SUCCESS /\ OriginInfo(u).exists
    BY <1>2, <1>3, <1>7, <1>12 DEF DestInfo, TakenAt, PairOk
  <2>2. /\ OriginState(OriginInfo(u)) = "taken" /\ DestState(DestInfo(u)) = "locked"
        /\ DestState(DestInfo(u)') = "delivered"
    BY <1>3, <1>5, <1>8, <1>9, <1>12, <2>1, OriginStates, DestStates
  <2>3. Transfer!Deliver(u)
    BY <1>8, <1>12, <2>2, DestStep DEF Transfer!Deliver
  <2> QED
    BY <2>3
<1> QED
  BY <1>4, <1>10, <1>11, <1>12

\* Refund returns the sender's amount.
LEMMA RefundReturns ==
    ASSUME SafetyInv, TypeOK', NEW l \in Layers, NEW u \in Tx, Refund(l, u)
    PROVE  Transfer!Return(u)
<1> DEFINE old == crossTxInfo[l][u]
           info == [old EXCEPT !.refunded = "REFUNDED"]
<1>1. /\ TypeOK /\ PairOk(u) /\ AccountOk(l, u) /\ old \in CrossTxInfo
      /\ Src(u) \in Layers /\ Dst(u) \in Layers /\ (l = Src(u) \/ l = Dst(u))
  BY LayersOfTransfer DEF SafetyInv, ContractsAgree, TypeOK, ChainTypeOK, Layers
<1>2. old.exists /\ old.refunded = "TODO" /\ old.status \notin {INIT, ACK_SUCCESS}
  BY <1>1 DEF Refund, RefundRequire, AccountOk
<1>3. l = Src(u) /\ OriginInfo(u) = old
  BY <1>1, <1>2 DEF PairOk, DestInfo, OriginInfo
<1>4. info.exists /\ info.status = old.status /\ info.refunded = "REFUNDED"
  BY <1>1, <1>2 DEF CrossTxInfo
<1>5. crossTxInfo' = [crossTxInfo EXCEPT ![l][u] = info]
  BY <1>1 DEF Refund, TypeOK, ChainTypeOK
<1> HIDE DEF info
<1>6. /\ \A t \in Tx \ {u} : OriginInfo(t)' = OriginInfo(t) /\ DestInfo(t)' = DestInfo(t)
      /\ OriginInfo(u)' = info /\ DestInfo(u)' = DestInfo(u)
  BY <1>1, <1>3, <1>5, OneStateChanges
<1>7. OriginInfo(u)' \in CrossTxInfo
  BY <1>1 DEF TypeOK, ChainTypeOK, OriginInfo
<1>8. OriginState(OriginInfo(u)) = "returnable" /\ OriginState(OriginInfo(u)') = "returned"
  BY <1>1, <1>2, <1>3, <1>4, <1>6, <1>7, OriginStates
<1> QED
  BY <1>6, <1>8, OriginStep DEF Transfer!Return

\* Every step of the bridge is a step of the abstract transfer or changes
\* nothing of it.
LEMMA StepRefines ==
    ASSUME SafetyInv, TypeOK', [Next]_vars
    PROVE  [Transfer!Next]_<<[t \in Tx |-> OriginState(OriginInfo(t))],
                             [t \in Tx |-> DestState(DestInfo(t))]>>
<1>1. CASE UNCHANGED crossTxInfo
  BY <1>1 DEF OriginInfo, DestInfo
<1>2. CASE ChainNext /\ crossTxInfo' # crossTxInfo
  <2>1. \/ \E u \in Tx, n \in 1..MaxDup : StartTx(u, n)
        \/ \E u \in Tx, l \in Layers : Refund(l, u)
        \/ \E l \in Layers, h \in Hash : ExecuteSendTx(l, h) \/ ExecuteSendAckedTx(l, h)
    BY <1>2 DEF ChainNext, Tick, Submit, Execute, Revert, Drop
  <2>2. Transfer!Next
    BY <2>1, StartTxLocks, SendTxLocks, SendAckedTxSettles, RefundReturns DEF Transfer!Next
  <2> QED
    BY <2>2
<1> QED
  BY <1>1, <1>2, AgentLeavesContracts DEF Next, vars, chainVars

\* The two contracts, driven by the agent, implement the abstract transfer.
THEOREM Refinement == Spec => ImplementsAtomicTransfer
<1>1. Init => Transfer!Init
  <2> SUFFICES ASSUME Init PROVE Transfer!Init
    OBVIOUS
  <2>1. \A t \in Tx : OriginInfo(t) = EmptyInfo /\ DestInfo(t) = EmptyInfo
    BY LayersOfTransfer DEF Init, ChainInit, OriginInfo, DestInfo
  <2>2. OriginState(EmptyInfo) = "none" /\ DestState(EmptyInfo) = "none"
    BY DefaultTypes, OriginStates, DestStates DEF EmptyInfo
  <2> QED
    BY <2>1, <2>2 DEF Transfer!Init
<1>2. SafetyInv /\ SafetyInv' /\ [Next]_vars =>
          [Transfer!Next]_<<[t \in Tx |-> OriginState(OriginInfo(t))],
                            [t \in Tx |-> DestState(DestInfo(t))]>>
  BY StepRefines DEF SafetyInv
<1> QED
  BY <1>1, <1>2, Safety, PTL DEF Spec, ImplementsAtomicTransfer, Transfer!Spec
=============================================================================
