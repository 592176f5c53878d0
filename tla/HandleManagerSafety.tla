------------------------ MODULE HandleManagerSafety ------------------------
(***************************************************************************)
(* Safety of the bridge: SafetyInv is inductive, and the properties that   *)
(* make a transfer atomic follow from it.  AgentKnowledge is what makes it *)
(* inductive: everything the agent holds (map entries, jobs of its         *)
(* threads, pending transactions, undelivered events) rests on facts that  *)
(* a contract has recorded and that no later step takes back (Lasting), so *)
(* no lock and no order of the agent's steps is needed for safety.         *)
(***************************************************************************)
EXTENDS HandleManagerTypes

-----------------------------------------------------------------------------
(* What lasts.                                                             *)

\* A step takes back nothing of what the agent relies on: a transfer started,
\* an amount locked at a time, an amount taken by the agent.
Lasting ==
    \A t \in Tx :
        /\ Started(t) => Started(t)'
        /\ DestInfo(t).exists => DestInfo(t)'.exists
        /\ OriginInfo(t).status = ACK_SUCCESS => OriginInfo(t)'.status = ACK_SUCCESS
        /\ \A e \in Nat : /\ LockedAt(t, e) => LockedAt(t, e)'
                          /\ TakenAt(t, e) => TakenAt(t, e)'

\* A step frees places of the pool but never gives one to another transaction.
PoolLasting ==
    \A l \in Layers, h \in Hash :
        \/ pool'[l][h].st = "unused"
        \/ /\ pool[l][h].st # "unused"
           /\ pool'[l][h].fn = pool[l][h].fn
           /\ pool'[l][h].tx = pool[l][h].tx

\* A step that leaves the contracts alone takes nothing back.
LEMMA SameContractsLast ==
    ASSUME UNCHANGED crossTxInfo
    PROVE  Lasting
BY DEF Lasting, Started, LockedAt, TakenAt, OriginInfo, DestInfo

\* What the agent may save or report, it may still save or report.
LEMMA CrossLasts ==
    ASSUME Lasting, NEW m \in Maps, NEW t \in Tx, NEW cross \in CrossTx, CrossOk(m, t, cross)
    PROVE  CrossOk(m, t, cross)'
<1>1. cross.time \in Nat
  BY DEF CrossTx
<1> QED
  BY <1>1 DEF CrossOk, Lasting

\* A kept hash still names a SendTx of its transfer.
LEMMA HashLasts ==
    ASSUME PoolLasting, NEW m \in Maps, NEW t \in Tx, NEW cross \in CrossTx, HashOk(m, t, cross)
    PROVE  HashOk(m, t, cross)'
<1>1. Dst(t) \in Layers
  BY LayersOfTransfer
<1>2. cross.hash \in Hash \cup {NoHash}
  BY DEF CrossTx
<1> QED
  BY <1>1, <1>2 DEF HashOk, PoolLasting

\* What a pending transaction reports is still true.
LEMMA PoolTxLasts ==
    ASSUME Lasting, NEW l \in Layers, NEW c \in PoolTx, PoolTxOk(l, c)
    PROVE  PoolTxOk(l, c)'
<1>1. c.tx \in Tx /\ c.time \in Nat
  BY DEF PoolTx
<1> QED
  BY <1>1 DEF PoolTxOk, Lasting

\* An event in flight still stands for what happened.
LEMMA TlogLasts ==
    ASSUME Lasting, NEW l \in Layers, NEW e \in Tlog, TlogOk(l, e)
    PROVE  TlogOk(l, e)'
<1>1. e.tx \in Tx
  BY DEF Tlog
<1> QED
  BY <1>1 DEF TlogOk, Lasting

\* A transaction that stays in its place of the pool still reports what is true.
LEMMA SamePoolTx ==
    ASSUME SafetyInv, UNCHANGED crossTxInfo, NEW l \in Layers, NEW h \in Hash,
           pool'[l][h] = pool[l][h]
    PROVE  PoolTxOk(l, pool[l][h])'
<1>1. PICK c \in PoolTx : c = pool[l][h] /\ c = pool'[l][h]
  BY DEF SafetyInv, TypeOK, ChainTypeOK
<1>2. PoolTxOk(l, c)
  BY <1>1 DEF SafetyInv, AgentKnowledge
<1>3. PoolTxOk(l, c)'
  BY <1>2, SameContractsLast, PoolTxLasts
<1> QED
  BY <1>1, <1>3 DEF PoolTxOk

\* What the agent keeps of a transfer still rests on facts.
LEMMA SameEntry ==
    ASSUME SafetyInv, UNCHANGED <<crossTxInfo, pool, mem, db>>, NEW m \in Maps, NEW t \in Tx
    PROVE  EntryOk(m, t, mem[m][t])' /\ EntryOk(m, t, db[m][t])'
<1>1. PICK x, y : x = mem[m][t] /\ y = db[m][t] /\ x = mem'[m][t] /\ y = db'[m][t]
  OBVIOUS
<1>2. EntryOk(m, t, x) /\ EntryOk(m, t, y)
  BY <1>1 DEF SafetyInv, AgentKnowledge
<1> QED
  BY <1>1, <1>2 DEF EntryOk, CrossOk, HashOk, Started, LockedAt, TakenAt, OriginInfo, DestInfo

-----------------------------------------------------------------------------
(* The contracts.                                                          *)

\* When u is a transfer, only its own two entries have to be looked at.
LEMMA OneTransfer ==
    ASSUME ContractsAgree, NEW u \in Tx,
           \A k \in Layers, t \in Tx \ {u} : /\ crossTxInfo'[k][t] = crossTxInfo[k][t]
                                             /\ paidIn'[k][t] = paidIn[k][t]
                                             /\ paidOut'[k][t] = paidOut[k][t],
           AccountOk(Src(u), u)', AccountOk(Dst(u), u)', PairOk(u)'
    PROVE  ContractsAgree'
<1>1. ASSUME NEW k \in Layers, NEW t \in Tx \ {u}
      PROVE  AccountOk(k, t)'
  BY DEF ContractsAgree, AccountOk
<1>2. ASSUME NEW k \in Layers
      PROVE  AccountOk(k, u)'
  <2>1. k = Src(u) \/ k = Dst(u)
    BY ConstantsAssumption DEF Src, Dst, Other, Layers
  <2> QED
    BY <2>1
<1>3. ASSUME NEW t \in Tx \ {u}
      PROVE  PairOk(t)'
  <2>1. Src(t) \in Layers /\ Dst(t) \in Layers
    BY LayersOfTransfer
  <2> QED
    BY <2>1 DEF ContractsAgree, PairOk, OriginInfo, DestInfo
<1> QED
  BY <1>1, <1>2, <1>3 DEF ContractsAgree

\* StartTx makes the origin's entry of a transfer the destination knows
\* nothing of.
LEMMA StartTxAgrees ==
    ASSUME SafetyInv, NEW u \in Tx, NEW n \in 1..MaxDup, StartTx(u, n)
    PROVE  Lasting /\ ContractsAgree' /\ Started(u)'
<1> DEFINE l == Src(u)
           info == StartTxInfo(l, BlockTime(l))
<1>1. l \in Layers /\ Dst(u) \in Layers /\ l # Dst(u) /\ n \in Nat /\ n >= 1
  BY LayersOfTransfer, ConstantsAssumption
<1>2. TypeOK /\ AccountOk(l, u) /\ AccountOk(Dst(u), u) /\ PairOk(u)
  BY <1>1 DEF SafetyInv, ContractsAgree
<1>3. \A k \in Layers, t \in Tx :
          crossTxInfo'[k][t] = IF k = l /\ t = u THEN info ELSE crossTxInfo[k][t]
  <2>1. crossTxInfo' = [crossTxInfo EXCEPT ![l][u] = info]
    BY DEF StartTx
  <2> HIDE DEF info
  <2> QED
    BY <1>1, <1>2, <2>1 DEF TypeOK, ChainTypeOK
<1>4. /\ \A k \in Layers, t \in Tx :
             paidIn'[k][t] = IF k = l /\ t = u THEN paidIn[k][t] + n ELSE paidIn[k][t]
      /\ UNCHANGED paidOut
  BY <1>1, <1>2 DEF StartTx, TypeOK, ChainTypeOK
<1>5. ~crossTxInfo[l][u].exists
  BY DEF StartTx
<1>6. /\ info.exists /\ info.status = INIT /\ info.refunded = "NONE" /\ info.srcChainId = l
      /\ INIT # ACK_SUCCESS /\ EmptyInfo.status = INIT /\ EmptyInfo.refunded = "NONE"
  BY DEF StartTxInfo, INIT, ACK_SUCCESS, EmptyInfo
<1>7. crossTxInfo[l][u] = EmptyInfo /\ paidIn[l][u] = 0 /\ paidOut[l][u] = 0
  BY <1>2, <1>5, <1>6 DEF AccountOk
<1>8. ~crossTxInfo[Dst(u)][u].exists /\ crossTxInfo[Dst(u)][u].status = INIT
  BY <1>2, <1>5, <1>6 DEF PairOk, AccountOk, OriginInfo, DestInfo
<1> HIDE DEF info
<1>9. Lasting
  <2> SUFFICES ASSUME NEW t \in Tx
               PROVE  /\ Started(t) => Started(t)'
                      /\ DestInfo(t).exists => DestInfo(t)'.exists
                      /\ OriginInfo(t).status = ACK_SUCCESS => OriginInfo(t)'.status = ACK_SUCCESS
                      /\ \A e \in Nat : /\ LockedAt(t, e) => LockedAt(t, e)'
                                        /\ TakenAt(t, e) => TakenAt(t, e)'
    BY DEF Lasting
  <2>1. Src(t) \in Layers /\ Dst(t) \in Layers
    BY LayersOfTransfer
  <2> QED
    BY <1>1, <1>3, <1>6, <1>7, <2>1 DEF Started, OriginInfo, DestInfo, LockedAt, TakenAt
<1>10. AccountOk(l, u)'
  BY <1>1, <1>3, <1>4, <1>6, <1>7 DEF AccountOk
<1>11. AccountOk(Dst(u), u)'
  BY <1>1, <1>2, <1>3, <1>4 DEF AccountOk
<1>12. PairOk(u)'
  BY <1>1, <1>3, <1>4, <1>6, <1>8 DEF PairOk, OriginInfo, DestInfo
<1>13. ContractsAgree'
  BY <1>1, <1>3, <1>4, <1>10, <1>11, <1>12, OneTransfer DEF SafetyInv
<1> QED
  BY <1>1, <1>3, <1>6, <1>9, <1>13 DEF Started, OriginInfo

\* SendTx makes the destination's entry of a transfer started on the origin.
LEMMA SendTxAgrees ==
    ASSUME SafetyInv, NEW l \in Layers, NEW h \in Hash, ExecuteSendTx(l, h),
           NEW u \in Tx, pool[l][h].tx = u
    PROVE  /\ Lasting /\ ContractsAgree'
           /\ l = Dst(u) /\ DestInfo(u)'.exists
<1> DEFINE info == SendTxInfo(l, pool[l][h].time, BlockTime(l))
<1>1. TypeOK /\ pool[l][h] \in PoolTx
  BY DEF SafetyInv, TypeOK, ChainTypeOK, PoolTx
<1>2. l = Dst(u) /\ Started(u)
  BY DEF SafetyInv, AgentKnowledge, PoolTxOk, ExecuteSendTx
<1>3. Src(u) \in Layers /\ Dst(u) \in Layers /\ Src(u) # Dst(u)
  BY <1>1, LayersOfTransfer
<1>4. AccountOk(l, u) /\ AccountOk(Src(u), u) /\ PairOk(u)
  BY <1>1, <1>3 DEF SafetyInv, ContractsAgree
<1>5. ~crossTxInfo[l][u].exists
  BY DEF ExecuteSendTx, SendTxRequire
<1>6. /\ info.exists /\ info.status = INIT /\ info.refunded = "NONE"
      /\ info.srcChainId = Other(l)
      /\ INIT # ACK_SUCCESS /\ EmptyInfo.status = INIT /\ EmptyInfo.refunded = "NONE"
  BY DEF SendTxInfo, INIT, ACK_SUCCESS, EmptyInfo
<1>7. /\ crossTxInfo' = [crossTxInfo EXCEPT ![l][u] = info]
      /\ paidIn' = [paidIn EXCEPT ![l][u] = paidIn[l][u] + 1]
      /\ UNCHANGED paidOut
  BY DEF ExecuteSendTx
<1> HIDE DEF info
<1>8. \A k \in Layers, t \in Tx :
          /\ crossTxInfo'[k][t] = IF k = l /\ t = u THEN info ELSE crossTxInfo[k][t]
          /\ paidIn'[k][t] = IF k = l /\ t = u THEN paidIn[k][t] + 1 ELSE paidIn[k][t]
  BY <1>1, <1>7 DEF TypeOK, ChainTypeOK
<1>9. crossTxInfo[l][u] = EmptyInfo /\ paidIn[l][u] = 0 /\ paidOut[l][u] = 0
  BY <1>4, <1>5, <1>6 DEF AccountOk
<1>10. OriginInfo(u).status # ACK_SUCCESS
  BY <1>2, <1>4, <1>5 DEF PairOk, DestInfo
<1>11. Lasting
  <2> SUFFICES ASSUME NEW t \in Tx
               PROVE  /\ Started(t) => Started(t)'
                      /\ DestInfo(t).exists => DestInfo(t)'.exists
                      /\ OriginInfo(t).status = ACK_SUCCESS => OriginInfo(t)'.status = ACK_SUCCESS
                      /\ \A e \in Nat : /\ LockedAt(t, e) => LockedAt(t, e)'
                                        /\ TakenAt(t, e) => TakenAt(t, e)'
    BY DEF Lasting
  <2>1. Src(t) \in Layers /\ Dst(t) \in Layers
    BY LayersOfTransfer
  <2> QED
    BY <1>2, <1>3, <1>5, <1>8, <2>1 DEF Started, OriginInfo, DestInfo, LockedAt, TakenAt
<1>12. AccountOk(Dst(u), u)'
  <2>1. Other(l) = Src(u)
    BY <1>2, <1>3 DEF Other, Dst, Src, Layers
  <2> QED
    BY <1>1, <1>2, <1>6, <1>7, <1>8, <1>9, <2>1 DEF AccountOk
<1>13. AccountOk(Src(u), u)'
  BY <1>1, <1>2, <1>3, <1>4, <1>7, <1>8 DEF AccountOk
<1>14. PairOk(u)'
  BY <1>1, <1>2, <1>3, <1>6, <1>8, <1>9, <1>10 DEF PairOk, OriginInfo, DestInfo, Started
<1>15. ContractsAgree'
  BY <1>1, <1>7, <1>8, <1>12, <1>13, <1>14, OneTransfer DEF SafetyInv
<1>16. DestInfo(u)'.exists
  BY <1>1, <1>2, <1>6, <1>8 DEF DestInfo
<1> QED
  BY <1>2, <1>11, <1>15, <1>16

\* SendAckedTx settles an open entry: on the origin with what the destination
\* recorded, on the destination only after the origin has paid the agent.
LEMMA SendAckedTxAgrees ==
    ASSUME SafetyInv, NEW l \in Layers, NEW h \in Hash, ExecuteSendAckedTx(l, h),
           NEW u \in Tx, pool[l][h].tx = u
    PROVE  /\ Lasting /\ ContractsAgree'
           /\ l = Dst(u) \/ crossTxInfo'[l][u].status = pool[l][h].result
<1> DEFINE r == pool[l][h].result
           e0 == pool[l][h].time
           old == crossTxInfo[l][u]
           info == SendAckedTxInfo(old, r, e0)
<1>1. TypeOK /\ pool[l][h] \in PoolTx /\ r \in TxStatusEnum /\ e0 \in Nat /\ old \in CrossTxInfo
  BY DEF SafetyInv, TypeOK, ChainTypeOK, PoolTx
<1>2. /\ old.exists /\ old.status = INIT /\ r # INIT
      /\ r = ACK_SUCCESS => e0 < old.timeout /\ e0 > old.createTimestamp
  BY DEF ExecuteSendAckedTx, SendAckedTxRequire
<1>3. \/ l = Src(u) /\ (r = ACK_SUCCESS => LockedAt(u, e0))
      \/ l = Dst(u) /\ r = ACK_SUCCESS /\ TakenAt(u, e0)
  BY <1>2 DEF SafetyInv, AgentKnowledge, PoolTxOk, ExecuteSendAckedTx
<1>4. Src(u) \in Layers /\ Dst(u) \in Layers /\ Src(u) # Dst(u)
  BY LayersOfTransfer
<1>5. AccountOk(Dst(u), u) /\ AccountOk(Src(u), u) /\ PairOk(u)
  BY <1>4 DEF SafetyInv, ContractsAgree
<1>6. /\ info.exists /\ info.status = r /\ info.srcChainId = old.srcChainId
      /\ info.timeout = old.timeout /\ info.createTimestamp = old.createTimestamp
      /\ r = ACK_SUCCESS => info.refunded = old.refunded /\ info.executeTimestamp = e0
      /\ r # ACK_SUCCESS => /\ info.refunded = "TODO"
                            /\ info.executeTimestamp = old.executeTimestamp
  BY <1>1, <1>2 DEF SendAckedTxInfo, CrossTxInfo
<1>7. /\ crossTxInfo' = [crossTxInfo EXCEPT ![l][u] = info]
      /\ paidOut' = IF r = ACK_SUCCESS THEN [paidOut EXCEPT ![l][u] = paidOut[l][u] + 1]
                    ELSE paidOut
      /\ UNCHANGED paidIn
  BY DEF ExecuteSendAckedTx
<1> HIDE DEF r, e0, old, info
<1>8. \A k \in Layers, t \in Tx :
          /\ crossTxInfo'[k][t] = IF k = l /\ t = u THEN info ELSE crossTxInfo[k][t]
          /\ paidOut'[k][t] = IF k = l /\ t = u /\ r = ACK_SUCCESS THEN paidOut[k][t] + 1
                              ELSE paidOut[k][t]
  BY <1>1, <1>7 DEF TypeOK, ChainTypeOK
<1>9. /\ INIT # ACK_SUCCESS /\ INIT \in {INIT, ACK_SUCCESS} /\ old = crossTxInfo[l][u]
      /\ r # ACK_SUCCESS => r \notin {INIT, ACK_SUCCESS}
  BY <1>2 DEF INIT, ACK_SUCCESS, old
<1>10. /\ old.refunded = "NONE" /\ old.srcChainId = Src(u)
       /\ paidOut[l][u] = 0 /\ paidIn[l][u] >= 1
  BY <1>2, <1>3, <1>5, <1>9 DEF AccountOk
<1>11. /\ l = Dst(u) => e0 = DestInfo(u).executeTimestamp /\ OriginInfo(u).status = ACK_SUCCESS
       /\ l = Src(u) /\ r = ACK_SUCCESS =>
              DestInfo(u).exists /\ DestInfo(u).executeTimestamp = e0
       /\ l = Src(u) => DestInfo(u).status # ACK_SUCCESS
  BY <1>2, <1>3, <1>4, <1>5, <1>9 DEF PairOk, TakenAt, LockedAt, OriginInfo
<1>12. Lasting
  <2> SUFFICES ASSUME NEW t \in Tx
               PROVE  /\ Started(t) => Started(t)'
                      /\ DestInfo(t).exists => DestInfo(t)'.exists
                      /\ OriginInfo(t).status = ACK_SUCCESS => OriginInfo(t)'.status = ACK_SUCCESS
                      /\ \A e \in Nat : /\ LockedAt(t, e) => LockedAt(t, e)'
                                        /\ TakenAt(t, e) => TakenAt(t, e)'
    BY DEF Lasting
  <2>1. Src(t) \in Layers /\ Dst(t) \in Layers
    BY LayersOfTransfer
  <2>2. CASE t # u
    BY <1>8, <2>1, <2>2 DEF Started, OriginInfo, DestInfo, LockedAt, TakenAt
  <2>3. CASE t = u /\ l = Src(u)
    BY <1>2, <1>4, <1>6, <1>8, <1>9, <2>3 DEF Started, OriginInfo, DestInfo, LockedAt, TakenAt
  <2>4. CASE t = u /\ l = Dst(u)
    BY <1>3, <1>4, <1>6, <1>8, <1>9, <1>11, <2>4
    DEF Started, OriginInfo, DestInfo, LockedAt, TakenAt
  <2> QED
    BY <1>3, <2>2, <2>3, <2>4
<1>13. ASSUME NEW k \in Layers
       PROVE  AccountOk(k, u)'
  <2>1. CASE k = l
    BY <1>6, <1>7, <1>8, <1>9, <1>10, <2>1 DEF AccountOk
  <2>2. CASE k # l
    <3>1. AccountOk(k, u)
      BY DEF SafetyInv, ContractsAgree
    <3> QED
      BY <1>7, <1>8, <2>2, <3>1 DEF AccountOk
  <2> QED
    BY <2>1, <2>2
<1>14. PairOk(u)'
  <2>1. CASE l = Src(u)
    BY <1>2, <1>4, <1>5, <1>6, <1>7, <1>8, <1>9, <1>11, <2>1 DEF PairOk, OriginInfo, DestInfo
  <2>2. CASE l = Dst(u)
    BY <1>2, <1>3, <1>4, <1>5, <1>6, <1>7, <1>8, <1>9, <1>11, <2>2
    DEF PairOk, OriginInfo, DestInfo
  <2> QED
    BY <1>3, <2>1, <2>2
<1>15. ContractsAgree'
  BY <1>4, <1>7, <1>8, <1>13, <1>14, OneTransfer DEF SafetyInv
<1> QED
  BY <1>6, <1>8, <1>12, <1>15 DEF r

\* Refund pays an entry that was not paid.
LEMMA RefundAgrees ==
    ASSUME SafetyInv, NEW l \in Layers, NEW u \in Tx, Refund(l, u)
    PROVE  Lasting /\ ContractsAgree'
<1> DEFINE old == crossTxInfo[l][u]
           info == [old EXCEPT !.refunded = "REFUNDED"]
<1>1. TypeOK /\ old \in CrossTxInfo
  BY DEF SafetyInv, TypeOK, ChainTypeOK
<1>2. old.exists /\ old.refunded = "TODO"
  BY DEF Refund, RefundRequire
<1>3. /\ info.exists = old.exists /\ info.status = old.status /\ info.refunded = "REFUNDED"
      /\ info.srcChainId = old.srcChainId
      /\ info.timeout = old.timeout /\ info.createTimestamp = old.createTimestamp
      /\ info.executeTimestamp = old.executeTimestamp
  BY <1>1 DEF CrossTxInfo
<1>4. /\ crossTxInfo' = [crossTxInfo EXCEPT ![l][u] = info]
      /\ paidOut' = [paidOut EXCEPT ![l][u] = paidOut[l][u] + 1]
      /\ UNCHANGED paidIn
  BY <1>1 DEF Refund, TypeOK, ChainTypeOK
<1> HIDE DEF info
<1>5. \A k \in Layers, t \in Tx :
          /\ crossTxInfo'[k][t] = IF k = l /\ t = u THEN info ELSE crossTxInfo[k][t]
          /\ paidOut'[k][t] = IF k = l /\ t = u THEN paidOut[k][t] + 1 ELSE paidOut[k][t]
  BY <1>1, <1>4 DEF TypeOK, ChainTypeOK
<1>6. Src(u) \in Layers /\ Dst(u) \in Layers /\ Src(u) # Dst(u)
  BY LayersOfTransfer
<1>7. \A k \in Layers : AccountOk(k, u)
  BY DEF SafetyInv, ContractsAgree
<1>8. old.status \notin {INIT, ACK_SUCCESS} /\ paidOut[l][u] = 0
  BY <1>2, <1>7 DEF AccountOk
<1>9. Lasting
  <2> SUFFICES ASSUME NEW t \in Tx
               PROVE  /\ Started(t) => Started(t)'
                      /\ DestInfo(t).exists => DestInfo(t)'.exists
                      /\ OriginInfo(t).status = ACK_SUCCESS => OriginInfo(t)'.status = ACK_SUCCESS
                      /\ \A e \in Nat : /\ LockedAt(t, e) => LockedAt(t, e)'
                                        /\ TakenAt(t, e) => TakenAt(t, e)'
    BY DEF Lasting
  <2>1. Src(t) \in Layers /\ Dst(t) \in Layers
    BY LayersOfTransfer
  <2> QED
    BY <1>3, <1>5, <2>1 DEF Started, OriginInfo, DestInfo, LockedAt, TakenAt
<1>10. ASSUME NEW k \in Layers
       PROVE  AccountOk(k, u)'
  <2>1. CASE k = l
    <3>1. /\ crossTxInfo'[k][u] = info /\ paidOut'[k][u] = 1
          /\ paidIn'[k][u] = paidIn[k][u] /\ paidIn[k][u] >= 1 /\ old.srcChainId = Src(u)
      BY <1>2, <1>4, <1>5, <1>7, <1>8, <2>1 DEF AccountOk
    <3> QED
      BY <1>2, <1>3, <1>8, <3>1 DEF AccountOk
  <2>2. CASE k # l
    BY <1>4, <1>5, <1>7, <2>2 DEF AccountOk
  <2> QED
    BY <2>1, <2>2
<1>11. PairOk(u)'
  <2>1. PairOk(u)
    BY DEF SafetyInv, ContractsAgree
  <2> QED
    BY <1>3, <1>4, <1>5, <1>6, <2>1 DEF PairOk, OriginInfo, DestInfo
<1>12. ContractsAgree'
  BY <1>4, <1>5, <1>6, <1>10, <1>11, OneTransfer DEF SafetyInv
<1> QED
  BY <1>9, <1>12

-----------------------------------------------------------------------------
(* The chains.                                                             *)

\* The events in flight after a step that takes nothing back and appends
\* events that are true.
LEMMA TlogsKnown ==
    ASSUME SafetyInv, TypeOK', Lasting,
           \A l \in Layers : \A i \in 1..Len(tlogs'[l]) :
               \/ i \in 1..Len(tlogs[l]) /\ tlogs'[l][i] = tlogs[l][i]
               \/ TlogOk(l, tlogs[l][i])'
    PROVE  \A l \in Layers : \A i \in 1..Len(tlogs'[l]) : TlogOk(l, tlogs[l][i])'
<1> SUFFICES ASSUME NEW l \in Layers, NEW i \in 1..Len(tlogs'[l]),
                    i \in 1..Len(tlogs[l]), tlogs'[l][i] = tlogs[l][i]
             PROVE  TlogOk(l, tlogs[l][i])'
  OBVIOUS
<1>1. PICK e \in Tlog : e = tlogs[l][i]
  BY DEF SafetyInv, TypeOK, ChainTypeOK
<1>2. TlogOk(l, e)
  BY <1>1 DEF SafetyInv, AgentKnowledge
<1>3. TlogOk(l, e)'
  BY <1>2, TlogLasts
<1> QED
  BY <1>1, <1>3 DEF TlogOk

\* A step of the chains leaves the agent alone; what it knows stays true.
LEMMA ChainKeepsKnowledge ==
    ASSUME SafetyInv, TypeOK', Lasting, PoolLasting, UNCHANGED agentVars,
           \A l \in Layers, h \in Hash : PoolTxOk(l, pool[l][h])',
           \A l \in Layers : \A i \in 1..Len(tlogs'[l]) : TlogOk(l, tlogs[l][i])'
    PROVE  AgentKnowledge'
<1>1. ASSUME NEW m \in Maps, NEW t \in Tx
      PROVE  EntryOk(m, t, mem[m][t])' /\ EntryOk(m, t, db[m][t])'
  <2>1. ASSUME NEW x \in Entry, EntryOk(m, t, x)
        PROVE  EntryOk(m, t, x)'
    <3>1. x.cross \in CrossTx
      BY DEF Entry
    <3> QED
      BY <2>1, <3>1, CrossLasts, HashLasts DEF EntryOk
  <2>2. PICK x \in Entry, y \in Entry : x = mem[m][t] /\ y = db[m][t]
    BY DEF SafetyInv, TypeOK
  <2>3. EntryOk(m, t, x) /\ EntryOk(m, t, y)
    BY <2>2 DEF SafetyInv, AgentKnowledge
  <2>4. EntryOk(m, t, x)' /\ EntryOk(m, t, y)'
    BY <2>1, <2>3
  <2>5. mem'[m][t] = x /\ db'[m][t] = y
    BY <2>2 DEF agentVars
  <2> QED
    BY <2>4, <2>5 DEF EntryOk, CrossOk, HashOk
<1>2. ASSUME NEW p \in Threads
      PROVE  JobOk(th[p])'
  <2>1. PICK j \in Job : j = th[p]
    BY DEF SafetyInv, TypeOK
  <2>2. JobOk(j)
    BY <2>1 DEF SafetyInv, AgentKnowledge
  <2>3. JobOk(j)'
    <3>1. j.op \in Maps /\ j.tx \in Tx /\ j.cross \in CrossTx /\ j.todo \subseteq Tx
      BY DEF Job
    <3>2. \A t \in Tx : Started(t) => Started(t)'
      BY DEF Lasting
    <3> QED
      BY <2>2, <3>1, <3>2, CrossLasts, HashLasts DEF JobOk
  <2>4. th'[p] = j
    BY <2>1 DEF agentVars
  <2> QED
    BY <2>3, <2>4 DEF JobOk, CrossOk, HashOk
<1> QED
  BY <1>1, <1>2 DEF AgentKnowledge

\* The pool after a step that takes nothing back and, at one place at most,
\* executes a transaction or removes it.
LEMMA PoolKnown ==
    ASSUME SafetyInv, TypeOK', Lasting, NEW l \in Layers, NEW h \in Hash, NEW u \in Tx,
           pool[l][h].tx = u,
           \/ UNCHANGED pool
           \/ Fail(l, h)
           \/ /\ Succeed(l, h)
              /\ pool[l][h].st = "pending"
              /\ pool[l][h].fn = "SendTx" => l = Dst(u) /\ DestInfo(u)'.exists
    PROVE  /\ PoolLasting
           /\ \A k \in Layers, g \in Hash : PoolTxOk(k, pool[k][g])'
<1>1. ASSUME NEW k \in Layers, NEW g \in Hash, pool'[k][g] = pool[k][g]
      PROVE  PoolTxOk(k, pool[k][g])'
  <2>1. PICK c \in PoolTx : c = pool[k][g]
    BY DEF SafetyInv, TypeOK, ChainTypeOK
  <2>2. PoolTxOk(k, c)'
    BY <2>1, PoolTxLasts DEF SafetyInv, AgentKnowledge
  <2> QED
    BY <1>1, <2>1, <2>2 DEF PoolTxOk
<1>2. CASE UNCHANGED pool
  BY <1>1, <1>2 DEF PoolLasting
<1>3. CASE Fail(l, h)
  <2>1. /\ pool'[l][h] = UnusedTx
        /\ \A k \in Layers, g \in Hash : (k = l /\ g = h) \/ pool'[k][g] = pool[k][g]
    BY <1>3 DEF Fail, SafetyInv, TypeOK, ChainTypeOK
  <2>2. UnusedTx.st = "unused"
    BY DEF UnusedTx
  <2>3. PoolTxOk(l, pool[l][h])'
    BY <2>1, <2>2 DEF PoolTxOk
  <2> QED
    BY <1>1, <2>1, <2>2, <2>3 DEF PoolLasting
<1>4. CASE /\ Succeed(l, h)
           /\ pool[l][h].st = "pending"
           /\ pool[l][h].fn = "SendTx" => l = Dst(u) /\ DestInfo(u)'.exists
  <2> DEFINE c == [pool[l][h] EXCEPT !.st = "ok", !.result = INIT, !.time = 0]
  <2>1. /\ pool'[l][h] = c
        /\ \A k \in Layers, g \in Hash : (k = l /\ g = h) \/ pool'[k][g] = pool[k][g]
    BY <1>4 DEF Succeed, SafetyInv, TypeOK, ChainTypeOK
  <2>2. c.st = "ok" /\ c.fn = pool[l][h].fn /\ c.tx = u
    <3>1. pool[l][h] \in PoolTx
      BY DEF SafetyInv, TypeOK, ChainTypeOK
    <3> QED
      BY <3>1 DEF PoolTx
  <2> HIDE DEF c
  <2>3. PoolTxOk(l, pool[l][h])'
    BY <1>4, <2>1, <2>2 DEF PoolTxOk
  <2> QED
    BY <1>1, <1>4, <2>1, <2>2, <2>3 DEF PoolLasting
<1> QED
  BY <1>2, <1>3, <1>4

\* Emit appends one event, if any.
LEMMA EmitKnown ==
    ASSUME SafetyInv, TypeOK', Lasting, NEW l \in Layers, NEW u \in Tx,
           NEW topic \in {"StartTx", "SendTx", "SendAckedTx"},
           UNCHANGED tlogs \/ Emit(l, topic, u),
           TlogOk(l, [topic |-> topic, tx |-> u])'
    PROVE  \A k \in Layers : \A i \in 1..Len(tlogs'[k]) : TlogOk(k, tlogs[k][i])'
<1> DEFINE e == [topic |-> topic, tx |-> u]
<1>1. tlogs \in [Layers -> Seq(Tlog)] /\ e \in Tlog
  BY DEF SafetyInv, TypeOK, ChainTypeOK, Tlog
<1>2. ASSUME NEW k \in Layers, NEW i \in 1..Len(tlogs'[k])
      PROVE  \/ i \in 1..Len(tlogs[k]) /\ tlogs'[k][i] = tlogs[k][i]
             \/ k = l /\ tlogs'[k][i] = e
  <2>1. CASE UNCHANGED tlogs
    BY <2>1
  <2>2. CASE tlogs' = [tlogs EXCEPT ![l] = Append(tlogs[l], e)]
    <3>1. CASE k = l
      <4>1. tlogs'[k] = Append(tlogs[k], e)
        BY <1>1, <2>2, <3>1
      <4> HIDE DEF e
      <4> QED
        BY <1>1, <3>1, <4>1
    <3>2. CASE k # l
      BY <1>1, <2>2, <3>2
    <3> QED
      BY <3>1, <3>2
  <2> QED
    BY <2>1, <2>2 DEF Emit
<1>3. ASSUME NEW k \in Layers, NEW i \in 1..Len(tlogs'[k]), k = l, tlogs'[k][i] = e
      PROVE  TlogOk(k, tlogs[k][i])'
  BY <1>3 DEF TlogOk
<1> QED
  BY <1>2, <1>3, TlogsKnown

\* A place of the pool holds a transaction for some transfer.
LEMMA PoolTxOfTransfer ==
    ASSUME SafetyInv, NEW l \in Layers, NEW h \in Hash
    PROVE  \E u \in Tx : pool[l][h].tx = u
<1>1. pool[l][h] \in PoolTx
  BY DEF SafetyInv, TypeOK, ChainTypeOK
<1> QED
  BY <1>1 DEF PoolTx

\* A step of the contracts and the chains keeps the safety invariant.
LEMMA ChainSafe ==
    ASSUME SafetyInv, TypeOK', ChainNext, UNCHANGED agentVars
    PROVE  ContractsAgree' /\ AgentKnowledge'
<1>1. ASSUME UNCHANGED <<crossTxInfo, paidIn, paidOut, pool, tlogs>>
      PROVE  ContractsAgree' /\ AgentKnowledge'
  <2>1. Lasting
    BY <1>1, SameContractsLast
  <2>2. ContractsAgree'
    BY <1>1 DEF SafetyInv, ContractsAgree, AccountOk, PairOk, OriginInfo, DestInfo
  <2>3. PoolLasting /\ \A l \in Layers, h \in Hash : PoolTxOk(l, pool[l][h])'
    <3>1. \A l \in Layers, h \in Hash : pool'[l][h] = pool[l][h]
      BY <1>1
    <3>2. \A l \in Layers, h \in Hash : PoolTxOk(l, pool[l][h])'
      BY <1>1, <3>1, SamePoolTx
    <3> QED
      BY <3>1, <3>2 DEF PoolLasting
  <2>4. \A l \in Layers : \A i \in 1..Len(tlogs'[l]) : TlogOk(l, tlogs[l][i])'
    BY <1>1, <2>1, TlogsKnown
  <2> QED
    BY <2>1, <2>2, <2>3, <2>4, ChainKeepsKnowledge
<1>2. ASSUME NEW u \in Tx, NEW n \in 1..MaxDup, StartTx(u, n)
      PROVE  ContractsAgree' /\ AgentKnowledge'
  <2>1. Lasting /\ ContractsAgree' /\ Started(u)'
    BY <1>2, StartTxAgrees
  <2>2. PoolLasting
    BY <1>2 DEF StartTx, PoolLasting
  <2>3. ASSUME NEW l \in Layers, NEW h \in Hash
        PROVE  PoolTxOk(l, pool[l][h])'
    <3>1. PICK v \in Tx : pool[l][h].tx = v
      BY PoolTxOfTransfer
    <3> QED
      BY <1>2, <2>1, <3>1, PoolKnown DEF StartTx
  <2>4. \A l \in Layers : \A i \in 1..Len(tlogs'[l]) : TlogOk(l, tlogs[l][i])'
    <3> DEFINE e == [topic |-> "StartTx", tx |-> u]
               s == [i \in 1..n |-> e]
    <3>1. Src(u) \in Layers /\ n \in Nat /\ e \in Tlog /\ tlogs \in [Layers -> Seq(Tlog)]
      <4>1. n \in Nat
        BY ConstantsAssumption
      <4>2. e \in Tlog
        BY DEF Tlog
      <4> QED
        BY <4>1, <4>2, LayersOfTransfer DEF SafetyInv, TypeOK, ChainTypeOK
    <3>2. s \in Seq(Tlog) /\ Len(s) = n
      <4>1. s \in Seq(Tlog)
        BY <3>1, EqualEvents
      <4> QED
        BY <3>1, <4>1
    <3>3. tlogs' = tlogs \/ tlogs' = [tlogs EXCEPT ![Src(u)] = tlogs[Src(u)] \o s]
      BY <1>2 DEF StartTx
    <3>4. TlogOk(Src(u), e)'
      BY <2>1, <3>1 DEF TlogOk
    <3>5. \A i \in 1..n : s[i] = e
      OBVIOUS
    <3> HIDE DEF e, s
    <3>6. ASSUME NEW k \in Layers, NEW i \in 1..Len(tlogs'[k])
          PROVE  \/ i \in 1..Len(tlogs[k]) /\ tlogs'[k][i] = tlogs[k][i]
                 \/ k = Src(u) /\ tlogs'[k][i] = e
      <4>1. CASE tlogs'[k] = tlogs[k]
        BY <4>1
      <4>2. CASE k = Src(u) /\ tlogs'[k] = tlogs[k] \o s
        <5>1. Len(tlogs'[k]) = Len(tlogs[k]) + n
          <6>1. tlogs[k] \in Seq(Tlog)
            BY <3>1
          <6>2. Len(tlogs[k] \o s) = Len(tlogs[k]) + Len(s)
            BY <3>2, <6>1, ConcatProperties
          <6> QED
            BY <3>2, <4>2, <6>2
        <5>2. CASE i \in 1..Len(tlogs[k])
          BY <3>1, <3>2, <4>2, <5>2, ConcatProperties
        <5>3. CASE i \notin 1..Len(tlogs[k])
          <6>1. i - Len(tlogs[k]) \in 1..n /\ tlogs'[k][i] = s[i - Len(tlogs[k])]
            BY <3>1, <3>2, <4>2, <5>1, <5>3, ConcatProperties
          <6> QED
            BY <3>5, <4>2, <6>1
        <5> QED
          BY <5>2, <5>3
      <4> QED
        BY <3>1, <3>3, <4>1, <4>2
    <3>7. ASSUME NEW k \in Layers, NEW i \in 1..Len(tlogs'[k]), k = Src(u), tlogs'[k][i] = e
          PROVE  TlogOk(k, tlogs[k][i])'
      BY <2>1, <3>7 DEF TlogOk, e
    <3> QED
      BY <2>1, <3>6, <3>7, TlogsKnown
  <2> QED
    BY <2>1, <2>2, <2>3, <2>4, ChainKeepsKnowledge
<1>3. ASSUME NEW l \in Layers, NEW h \in Hash, Execute(l, h) \/ Drop(l, h)
      PROVE  ContractsAgree' /\ AgentKnowledge'
  <2>1. PICK u \in Tx : pool[l][h].tx = u
    BY PoolTxOfTransfer
  <2>2. CASE ExecuteSendTx(l, h)
    <3>1. Lasting /\ ContractsAgree' /\ l = Dst(u) /\ DestInfo(u)'.exists
      BY <2>1, <2>2, SendTxAgrees
    <3>2. PoolLasting /\ \A k \in Layers, g \in Hash : PoolTxOk(k, pool[k][g])'
      BY <2>1, <2>2, <3>1, PoolKnown DEF ExecuteSendTx
    <3>3. TlogOk(l, [topic |-> "SendTx", tx |-> u])'
      BY <3>1 DEF TlogOk
    <3>4. \A k \in Layers : \A i \in 1..Len(tlogs'[k]) : TlogOk(k, tlogs[k][i])'
      BY <2>1, <2>2, <3>1, <3>3, EmitKnown DEF ExecuteSendTx
    <3> QED
      BY <3>1, <3>2, <3>4, ChainKeepsKnowledge
  <2>3. CASE ExecuteSendAckedTx(l, h)
    <3>1. Lasting /\ ContractsAgree' /\ (l = Dst(u) \/ crossTxInfo'[l][u].status = pool[l][h].result)
      BY <2>1, <2>3, SendAckedTxAgrees
    <3>2. PoolLasting /\ \A k \in Layers, g \in Hash : PoolTxOk(k, pool[k][g])'
      BY <2>1, <2>3, <3>1, PoolKnown DEF ExecuteSendAckedTx
    <3>3. \A k \in Layers : \A i \in 1..Len(tlogs'[k]) : TlogOk(k, tlogs[k][i])'
      <4>1. CASE UNCHANGED tlogs
        BY <3>1, <4>1, TlogsKnown
      <4>2. CASE ~UNCHANGED tlogs
        <5>1. /\ pool[l][h].result = ACK_SUCCESS /\ crossTxInfo[l][u].srcChainId = l
              /\ Emit(l, "SendAckedTx", u)
          BY <2>1, <2>3, <4>2 DEF ExecuteSendAckedTx
        <5>2. l = Src(u)
          BY <2>1, <2>3, <5>1
          DEF ExecuteSendAckedTx, SendAckedTxRequire, SafetyInv, ContractsAgree, AccountOk
        <5>3. TlogOk(l, [topic |-> "SendAckedTx", tx |-> u])'
          BY <3>1, <5>1, <5>2, LayersOfTransfer DEF TlogOk, OriginInfo
        <5> QED
          BY <3>1, <5>1, <5>3, EmitKnown
      <4> QED
        BY <4>1, <4>2
    <3> QED
      BY <3>1, <3>2, <3>3, ChainKeepsKnowledge
  <2>4. CASE Revert(l, h) \/ Drop(l, h)
    <3>1. Lasting /\ Fail(l, h) /\ UNCHANGED <<crossTxInfo, paidIn, paidOut, tlogs>>
      BY <2>4, SameContractsLast DEF Revert, Drop
    <3>2. ContractsAgree'
      BY <3>1 DEF SafetyInv, ContractsAgree, AccountOk, PairOk, OriginInfo, DestInfo
    <3>3. PoolLasting /\ \A k \in Layers, g \in Hash : PoolTxOk(k, pool[k][g])'
      BY <2>1, <3>1, PoolKnown
    <3>4. \A k \in Layers : \A i \in 1..Len(tlogs'[k]) : TlogOk(k, tlogs[k][i])'
      BY <3>1, TlogsKnown
    <3> QED
      BY <3>1, <3>2, <3>3, <3>4, ChainKeepsKnowledge
  <2> QED
    BY <1>3, <2>2, <2>3, <2>4 DEF Execute
<1>4. ASSUME NEW u \in Tx, NEW l \in Layers, Refund(l, u)
      PROVE  ContractsAgree' /\ AgentKnowledge'
  <2>1. Lasting /\ ContractsAgree' /\ UNCHANGED <<pool, tlogs>>
    BY <1>4, RefundAgrees DEF Refund
  <2>2. PoolLasting
    BY <2>1 DEF PoolLasting
  <2>3. ASSUME NEW k \in Layers, NEW h \in Hash
        PROVE  PoolTxOk(k, pool[k][h])'
    <3>1. PICK v \in Tx : pool[k][h].tx = v
      BY PoolTxOfTransfer
    <3> QED
      BY <2>1, <3>1, PoolKnown
  <2>4. \A k \in Layers : \A i \in 1..Len(tlogs'[k]) : TlogOk(k, tlogs[k][i])'
    BY <2>1, TlogsKnown
  <2> QED
    BY <2>1, <2>2, <2>3, <2>4, ChainKeepsKnowledge
<1> QED
  BY <1>1, <1>2, <1>3, <1>4 DEF ChainNext, Tick, Submit

-----------------------------------------------------------------------------
(* The agent's threads.                                                    *)

\* The agent changes no contract.
LEMMA AgentKeepsContracts ==
    ASSUME SafetyInv, UNCHANGED <<crossTxInfo, paidIn, paidOut>>
    PROVE  ContractsAgree' /\ Lasting
BY SameContractsLast DEF SafetyInv, ContractsAgree, AccountOk, PairOk, OriginInfo, DestInfo

\* A step of thread p that changes no contract and neither the pool nor the
\* maps, and loses events at most from the head of a queue, keeps what the
\* agent knows if p's new job rests on facts.
LEMMA JobKnown ==
    ASSUME SafetyInv, NEW p \in Threads, NEW j \in Job,
           UNCHANGED <<crossTxInfo, pool, mem, db>>,
           \A l \in Layers : tlogs'[l] = tlogs[l] \/ (tlogs[l] # <<>> /\ tlogs'[l] = Tail(tlogs[l])),
           th' = [th EXCEPT ![p] = j], JobOk(j)
    PROVE  AgentKnowledge'
<1>1. \A m \in Maps, t \in Tx : EntryOk(m, t, mem[m][t])' /\ EntryOk(m, t, db[m][t])'
  BY SameEntry
<1>2. ASSUME NEW q \in Threads
      PROVE  JobOk(th[q])'
  <2>1. PICK i : i = th'[q]
    OBVIOUS
  <2>2. JobOk(i)
    BY <2>1 DEF SafetyInv, AgentKnowledge, TypeOK
  <2> QED
    BY <2>1, <2>2 DEF JobOk, CrossOk, HashOk, Started, LockedAt, TakenAt, OriginInfo, DestInfo
<1>3. \A l \in Layers, h \in Hash : PoolTxOk(l, pool[l][h])'
  BY SamePoolTx
<1>4. ASSUME NEW l \in Layers, NEW i \in 1..Len(tlogs'[l])
      PROVE  TlogOk(l, tlogs[l][i])'
  <2>1. PICK k \in 1..Len(tlogs[l]) : tlogs'[l][i] = tlogs[l][k]
    <3>1. tlogs[l] \in Seq(Tlog)
      BY DEF SafetyInv, TypeOK, ChainTypeOK
    <3>2. CASE tlogs'[l] = tlogs[l]
      BY <3>2
    <3>3. CASE tlogs[l] # <<>> /\ tlogs'[l] = Tail(tlogs[l])
      <4>1. /\ i + 1 \in 1..Len(tlogs[l])
            /\ tlogs'[l][i] = tlogs[l][i + 1]
        BY <3>1, <3>3
      <4> QED
        BY <4>1
    <3> QED
      BY <3>2, <3>3
  <2>2. TlogOk(l, tlogs[l][k])
    BY DEF SafetyInv, AgentKnowledge
  <2> QED
    BY <2>1, <2>2 DEF TlogOk, Started, OriginInfo, DestInfo
<1> QED
  BY <1>1, <1>2, <1>3, <1>4 DEF AgentKnowledge

\* A thread at rest relies on nothing but the transfers left in its loop.
LEMMA RestingOk ==
    ASSUME SafetyInv, NEW p \in Threads, NEW todo \in SUBSET th[p].todo
    PROVE  /\ Resting(th[p], todo) \in Job
           /\ JobOk(Resting(th[p], todo))
<1>1. th[p] \in Job /\ JobOk(th[p])
  BY DEF SafetyInv, AgentKnowledge, TypeOK
<1>2. Resting(th[p], todo) \in Job
  BY <1>1, DefaultTypes DEF Resting, Job
<1>3. /\ Idle.pc = "idle" /\ Idle.cross.hash = NoHash /\ Idle.loop = "none"
      /\ Resting(th[p], todo).pc = "idle"
      /\ Resting(th[p], todo).cross.hash = NoHash
      /\ \/ Resting(th[p], todo).loop = "none"
         \/ Resting(th[p], todo).loop = th[p].loop /\ Resting(th[p], todo).todo = todo
  BY DEF Resting, Idle, NoCrossTx
<1> QED
  BY <1>1, <1>2, <1>3 DEF JobOk, HashOk

\* A job that Run makes rests on facts if the transaction it is about to
\* submit, or the entry it is about to save, does.
LEMMA RunOk ==
    ASSUME SafetyInv, NEW p \in Threads, NEW pc \in {"submit", "put", "delete"}, NEW op \in Maps,
           NEW t \in Tx, NEW cross \in CrossTx, NEW clr \in Maps \cup {"none"},
           NEW todo \in SUBSET th[p].todo, Run(p, pc, op, t, cross, clr, todo),
           pc # "delete" => CrossOk(op, t, cross), HashOk(op, t, cross)
    PROVE  \E j \in Job : th' = [th EXCEPT ![p] = j] /\ JobOk(j)
<1> DEFINE j == [pc |-> pc, op |-> op, tx |-> t, cross |-> cross, clr |-> clr,
                 loop |-> th[p].loop, obj |-> th[p].obj, todo |-> todo]
<1>1. th[p] \in Job /\ JobOk(th[p])
  BY DEF SafetyInv, AgentKnowledge, TypeOK
<1>2. j \in Job
  BY <1>1 DEF Job
<1>3. JobOk(j)
  BY <1>1 DEF JobOk
<1>4. th' = [th EXCEPT ![p] = j]
  BY DEF Run
<1> QED
  BY <1>2, <1>3, <1>4

\* The lock of a map is taken for a loop over it; the transfers of a loop
\* over start_tx_info_map_ were started.
LEMMA LoopOk ==
    ASSUME SafetyInv, NEW p \in Threads, NEW o \in Layers, NEW m \in Maps, NEW items \in SUBSET Tx,
           m = "StartTx" => \A t \in items : mem["StartTx"][t].saved
    PROVE  /\ [Idle EXCEPT !.loop = m, !.obj = o, !.todo = items] \in Job
           /\ JobOk([Idle EXCEPT !.loop = m, !.obj = o, !.todo = items])
<1> DEFINE j == [Idle EXCEPT !.loop = m, !.obj = o, !.todo = items]
<1>1. j \in Job
  BY LoopTypes DEF SafetyInv
<1>2. j.pc = "idle" /\ j.cross.hash = NoHash /\ j.loop = m /\ j.todo = items
  BY DefaultTypes DEF Idle, NoCrossTx, Job
<1>3. ASSUME m = "StartTx", NEW t \in items
      PROVE  Started(t)
  <2>1. mem["StartTx"][t].saved /\ EntryOk("StartTx", t, mem["StartTx"][t])
    BY <1>3 DEF SafetyInv, AgentKnowledge, Maps
  <2>2. mem["StartTx"][t] # NoEntry
    BY <2>1 DEF NoEntry
  <2> QED
    BY <2>1, <2>2 DEF EntryOk, CrossOk
<1> HIDE DEF j
<1>4. JobOk(j)
  BY <1>2, <1>3 DEF JobOk, HashOk
<1> QED
  BY <1>1, <1>4 DEF j

\* What handleSendTxEvent reports of a transfer whose amount is locked on the
\* destination is true; so is what HandleSendAckdTxEvent reports of one the
\* agent has been paid for.
LEMMA ReadOk ==
    ASSUME SafetyInv, NEW t \in Tx
    PROVE  /\ DestInfo(t).exists =>
                  CrossOk("SendAck", t, [MakeCrossTx(Dst(t), t) EXCEPT !.status = ACK_SUCCESS])
           /\ Started(t) => CrossOk("SendTx", t, MakeCrossTx(Src(t), t))
           /\ OriginInfo(t).status = ACK_SUCCESS =>
                  CrossOk("ReplyAck", t, MakeCrossTx(Src(t), t))
<1>1. Src(t) \in Layers /\ Dst(t) \in Layers
  BY LayersOfTransfer
<1>2. ASSUME NEW l \in Layers
      PROVE  /\ MakeCrossTx(l, t).status = crossTxInfo[l][t].status
             /\ MakeCrossTx(l, t).time = crossTxInfo[l][t].executeTimestamp
             /\ [MakeCrossTx(l, t) EXCEPT !.status = ACK_SUCCESS].time
                    = crossTxInfo[l][t].executeTimestamp
  BY DEF MakeCrossTx, NoCrossTx
<1>3. DestInfo(t).exists =>
          CrossOk("SendAck", t, [MakeCrossTx(Dst(t), t) EXCEPT !.status = ACK_SUCCESS])
  BY <1>1, <1>2 DEF CrossOk, LockedAt, DestInfo
<1>4. OriginInfo(t).status = ACK_SUCCESS => CrossOk("ReplyAck", t, MakeCrossTx(Src(t), t))
  BY <1>1, <1>2 DEF CrossOk, TakenAt, OriginInfo
<1> QED
  BY <1>3, <1>4 DEF CrossOk

\* GetTxResult answers yes for the hash kept with a SendTx only when SendTx was
\* executed for that very transfer.
LEMMA ResultMeansLocked ==
    ASSUME SafetyInv, NEW t \in Tx, TRUE \in GetTxResult(Dst(t), mem["SendTx"][t].cross.hash)
    PROVE  DestInfo(t).exists
<1> DEFINE h == mem["SendTx"][t].cross.hash
           c == pool[Dst(t)][h]
<1>1. h # NoHash /\ c.st = "ok"
  BY DEF GetTxResult
<1>2. "SendTx" \in Maps /\ Dst(t) \in Layers
  BY LayersOfTransfer DEF Maps
<1>3. mem["SendTx"][t] \in Entry
  BY <1>2 DEF SafetyInv, TypeOK
<1>4. h \in Hash
  BY <1>1, <1>3 DEF Entry, CrossTx
<1>5. HashOk("SendTx", t, mem["SendTx"][t].cross) /\ PoolTxOk(Dst(t), c)
  BY <1>2, <1>4 DEF SafetyInv, AgentKnowledge, EntryOk
<1>6. c.fn = "SendTx" /\ c.tx = t
  BY <1>1, <1>5 DEF HashOk
<1> QED
  BY <1>1, <1>5, <1>6 DEF PoolTxOk

\* An acknowledgement may be sent when it reports no success, or success of a
\* transfer whose amount is locked; an entry of an ack map may be sent again.
LEMMA AckOk ==
    ASSUME SafetyInv, NEW t \in Tx
    PROVE  /\ \A op \in Maps \ {"SendTx"}, cross \in CrossTx : HashOk(op, t, cross)
           /\ \A cross \in CrossTx : cross.status # ACK_SUCCESS => CrossOk("SendAck", t, cross)
           /\ \A op \in {"SendAck", "ReplyAck"} :
                  /\ [mem[op][t].cross EXCEPT !.hash = NoHash] \in CrossTx
                  /\ CrossOk(op, t, [mem[op][t].cross EXCEPT !.hash = NoHash])
<1>1. \A op \in Maps \ {"SendTx"}, cross \in CrossTx : HashOk(op, t, cross)
  BY DEF HashOk
<1>2. \A cross \in CrossTx : cross.status # ACK_SUCCESS => CrossOk("SendAck", t, cross)
  BY DEF CrossOk
<1>3. ASSUME NEW op \in {"SendAck", "ReplyAck"}
      PROVE  /\ [mem[op][t].cross EXCEPT !.hash = NoHash] \in CrossTx
             /\ CrossOk(op, t, [mem[op][t].cross EXCEPT !.hash = NoHash])
  <2> DEFINE cross == mem[op][t].cross
             again == [cross EXCEPT !.hash = NoHash]
  <2>1. op \in Maps
    BY DEF Maps
  <2>2. mem[op][t] \in Entry /\ cross \in CrossTx /\ again \in CrossTx
    BY <2>1, CrossTypes DEF SafetyInv, TypeOK
  <2>3. again.status = cross.status /\ again.time = cross.time
    BY <2>2 DEF CrossTx
  <2>4. CASE mem[op][t] = NoEntry
    <3>1. again.status = INIT /\ INIT # ACK_SUCCESS
      BY <2>3, <2>4 DEF NoEntry, NoCrossTx, INIT, ACK_SUCCESS
    <3> QED
      BY <2>2, <3>1 DEF CrossOk
  <2>5. CASE mem[op][t] # NoEntry
    <3>1. CrossOk(op, t, cross)
      BY <2>1, <2>5 DEF SafetyInv, AgentKnowledge, EntryOk
    <3> QED
      BY <2>2, <2>3, <3>1 DEF CrossOk
  <2> QED
    BY <2>4, <2>5
<1> QED
  BY <1>1, <1>2, <1>3

\* The timer's sweeps give the timer thread a job that rests on facts.
LEMMA SweepOk ==
    ASSUME SafetyInv, NEW t \in Tx,
           \/ t \in Tx1 /\ \/ SendTxToLayer2TimeOut(t) \/ SendAckToLayer1TimeOut(t)
                           \/ ReplyAckToLayer2TimeOut(t)
           \/ t \in Tx2 /\ \/ StartTxTimeOut(t) \/ SendTxToLayer1TimeOut(t)
                           \/ SendAckToLayer2TimeOut(t) \/ ReplyAckToLayer1TimeOut(t)
    PROVE  \E j \in Job : th' = [th EXCEPT !["timer"] = j] /\ JobOk(j)
<1> DEFINE p == "timer"
           rest == Rest(p, t)
           crossOf(m) == mem[m][t].cross
           known == \E j \in Job : th' = [th EXCEPT ![p] = j] /\ JobOk(j)
<1> SUFFICES known
  OBVIOUS
<1>1. /\ p \in Threads /\ rest \in SUBSET th[p].todo
      /\ {"StartTx", "SendTx", "SendAck", "ReplyAck"} = Maps
      /\ TypeOK
      /\ {ACK_SUCCESS, ACK_FAIL, ACK_TIMEOUT} \subseteq TxStatusEnum
      /\ ACK_FAIL # ACK_SUCCESS /\ ACK_TIMEOUT # ACK_SUCCESS
  BY DEF Threads, Rest, Maps, SafetyInv, TxStatusEnum, ACK_SUCCESS, ACK_FAIL, ACK_TIMEOUT
<1>2. \A m \in Maps : crossOf(m) \in CrossTx
  BY <1>1, CrossTypes
<1>3. ASSUME Done(p, rest)
      PROVE  known
  BY <1>1, <1>3, RestingOk DEF Done
<1>4. ASSUME NEW cross \in CrossTx, NEW clr \in Maps \cup {"none"}, CrossOk("SendAck", t, cross),
             Run(p, "submit", "SendAck", t, cross, clr, rest)
      PROVE  known
  BY <1>1, <1>4, AckOk, RunOk
<1>5. ASSUME NEW op \in {"SendAck", "ReplyAck"},
             \/ Run(p, "submit", op, t, [crossOf(op) EXCEPT !.hash = NoHash], "none", rest)
             \/ Run(p, "delete", op, t, NoCrossTx, op, rest)
      PROVE  known
  <2>1. NoCrossTx \in CrossTx /\ op \in Maps \ {"SendTx"}
    BY <1>1, DefaultTypes
  <2>2. CASE Run(p, "submit", op, t, [crossOf(op) EXCEPT !.hash = NoHash], "none", rest)
    <3> DEFINE again == [crossOf(op) EXCEPT !.hash = NoHash]
    <3>1. again \in CrossTx /\ CrossOk(op, t, again) /\ HashOk(op, t, again)
      BY <2>1, AckOk
    <3> HIDE DEF again
    <3>2. Run(p, "submit", op, t, again, "none", rest)
      BY <2>2 DEF again
    <3> QED
      BY <1>1, <2>1, <3>1, <3>2, RunOk
  <2>3. CASE Run(p, "delete", op, t, NoCrossTx, op, rest)
    BY <1>1, <2>1, <2>3, AckOk, RunOk
  <2> QED
    BY <1>5, <2>2, <2>3
<1>6. ASSUME NEW st \in {ACK_FAIL, ACK_TIMEOUT}, NEW m \in Maps, NEW clr \in Maps,
             \/ Run(p, "submit", "SendAck", t, [crossOf(m) EXCEPT !.status = st], clr, rest)
             \/ Run(p, "submit", "SendAck", t, [crossOf(m) EXCEPT !.status = st, !.hash = NoHash],
                    clr, rest)
      PROVE  known
  <2> DEFINE c1 == [crossOf(m) EXCEPT !.status = st]
             c2 == [crossOf(m) EXCEPT !.status = st, !.hash = NoHash]
  <2>1. c1 \in CrossTx /\ c1.status = st /\ c2 \in CrossTx /\ c2.status = st
    BY <1>1, <1>2 DEF CrossTx
  <2>2. CrossOk("SendAck", t, c1) /\ CrossOk("SendAck", t, c2)
    BY <1>1, <2>1, AckOk
  <2> HIDE DEF known
  <2> QED
    BY <1>4, <1>6, <2>1, <2>2
<1>7. ASSUME NEW l \in Layers, l = Dst(t), TRUE \in GetTxResult(l, crossOf("SendTx").hash),
             \/ Run(p, "submit", "SendAck", t, [MakeCrossTx(l, t) EXCEPT !.status = ACK_SUCCESS],
                    "SendTx", rest)
             \/ Done(p, rest)
      PROVE  known
  <2> DEFINE c == [MakeCrossTx(l, t) EXCEPT !.status = ACK_SUCCESS]
  <2>1. DestInfo(t).exists
    BY <1>7, ResultMeansLocked
  <2>2. c \in CrossTx /\ CrossOk("SendAck", t, c)
    BY <1>1, <1>7, <2>1, CrossTypes, ReadOk
  <2> HIDE DEF known
  <2> QED
    BY <1>1, <1>3, <1>4, <1>7, <2>2
<1> HIDE DEF known, rest
<1>8. ASSUME t \in Tx1
      PROVE  Src(t) = "L1" /\ Dst(t) = "L2" /\ "L2" \in Layers
  BY <1>8 DEF Tx1, Src, Dst, Other, Layers
<1>9. ASSUME t \in Tx2
      PROVE  Src(t) = "L2" /\ Dst(t) = "L1" /\ "L1" \in Layers
  BY <1>9 DEF Tx2, Src, Dst, Other, Layers
<1>10. CASE t \in Tx1 /\ SendTxToLayer2TimeOut(t)
  BY <1>1, <1>6, <1>7, <1>8, <1>10 DEF SendTxToLayer2TimeOut, L1AckSuccess, rest
<1>11. CASE SendAckToLayer1TimeOut(t)
  BY <1>5, <1>11 DEF SendAckToLayer1TimeOut, rest
<1>12. CASE ReplyAckToLayer2TimeOut(t)
  BY <1>5, <1>12 DEF ReplyAckToLayer2TimeOut, rest
<1>13. CASE StartTxTimeOut(t)
  BY <1>1, <1>6, <1>13 DEF StartTxTimeOut, rest
<1>14. CASE t \in Tx2 /\ SendTxToLayer1TimeOut(t)
  BY <1>1, <1>6, <1>7, <1>9, <1>14 DEF SendTxToLayer1TimeOut, L2AckSuccess, rest
<1>15. CASE SendAckToLayer2TimeOut(t)
  BY <1>5, <1>15 DEF SendAckToLayer2TimeOut, rest
<1>16. CASE ReplyAckToLayer1TimeOut(t)
  BY <1>5, <1>16 DEF ReplyAckToLayer1TimeOut, rest
<1> QED
  BY <1>10, <1>11, <1>12, <1>13, <1>14, <1>15, <1>16

\* The timer thread keeps what the agent knows.
LEMMA TimerKnown ==
    ASSUME SafetyInv, L1TimerStep \/ L2TimerStep
    PROVE  AgentKnowledge'
<1>1. /\ "timer" \in Threads
      /\ {"StartTx", "SendTx", "SendAck", "ReplyAck"} = Maps
      /\ {"L1", "L2"} = Layers
      /\ Tx1 \subseteq Tx /\ Tx2 \subseteq Tx
  BY DEF Threads, Maps, Layers, Tx1, Tx2
<1>2. ASSUME NEW o \in Layers, NEW m \in Maps, NEW items \in SUBSET Tx,
             m = "StartTx" => \A t \in items : mem["StartTx"][t].saved,
             EnterLoop("timer", o, m, items)
      PROVE  \E j \in Job : th' = [th EXCEPT !["timer"] = j] /\ JobOk(j)
  BY <1>1, <1>2, LoopOk DEF EnterLoop
<1>3. UNCHANGED chainVars /\ UNCHANGED <<mem, db>>
  BY DEF L1TimerStep, L2TimerStep, L1OnTimer, L2OnTimer, EnterLoop, SendTxToLayer2TimeOut,
         SendAckToLayer1TimeOut, ReplyAckToLayer2TimeOut, StartTxTimeOut, SendTxToLayer1TimeOut,
         SendAckToLayer2TimeOut, ReplyAckToLayer1TimeOut
<1>4. PICK j \in Job : th' = [th EXCEPT !["timer"] = j] /\ JobOk(j)
  <2>1. CASE L1OnTimer
    BY <1>1, <1>2, <2>1 DEF L1OnTimer
  <2>2. CASE L2OnTimer
    BY <1>1, <1>2, <2>2 DEF L2OnTimer
  <2> QED
    BY <1>1, <2>1, <2>2, SweepOk DEF L1TimerStep, L2TimerStep
<1> QED
  BY <1>1, <1>3, <1>4, JobKnown DEF chainVars

\* An event that is delivered stands for what happened.
LEMMA DeliveredOk ==
    ASSUME SafetyInv, NEW l \in Layers, NEW topic, NEW t \in Tx, Deliver(l, topic, t)
    PROVE  /\ topic = "StartTx" => l = Src(t) /\ Started(t)
           /\ topic = "SendTx" => l = Dst(t) /\ DestInfo(t).exists
           /\ topic = "SendAckedTx" => l = Src(t) /\ OriginInfo(t).status = ACK_SUCCESS
           /\ UNCHANGED <<crossTxInfo, pool>>
           /\ \A k \in Layers :
                  tlogs'[k] = tlogs[k] \/ (tlogs[k] # <<>> /\ tlogs'[k] = Tail(tlogs[k]))
<1>1. tlogs \in [Layers -> Seq(Tlog)]
  BY DEF SafetyInv, TypeOK, ChainTypeOK
<1>2. 1 \in 1..Len(tlogs[l]) /\ tlogs[l][1] = [topic |-> topic, tx |-> t]
  BY <1>1 DEF Deliver
<1>3. TlogOk(l, tlogs[l][1])
  BY <1>2 DEF SafetyInv, AgentKnowledge
<1>4. \A k \in Layers : tlogs'[k] = tlogs[k] \/ (tlogs[k] # <<>> /\ tlogs'[k] = Tail(tlogs[k]))
  BY <1>1 DEF Deliver
<1> QED
  BY <1>2, <1>3, <1>4 DEF TlogOk, Deliver

\* The handlers of events keep what the agent knows.
LEMMA EventKnown ==
    ASSUME SafetyInv, NEW t \in Tx, OnLayer1CrossContractTlog(t) \/ OnLayer2SubscribeResponse(t)
    PROVE  AgentKnowledge'
<1>1. /\ {"StartTx", "SendTx", "SendAck", "ReplyAck"} = Maps
      /\ {"L1", "L2"} = Layers /\ Layers \subseteq Threads
      /\ TypeOK /\ now \in Nat
      /\ {ACK_SUCCESS} \subseteq TxStatusEnum
  BY DEF Maps, Layers, Threads, SafetyInv, TypeOK, ChainTypeOK, TxStatusEnum
<1>2. ASSUME NEW l \in Layers, NEW topic \in {"StartTx", "SendTx", "SendAckedTx"}, Deliver(l, topic, t),
             UNCHANGED <<mem, db>>,
             NEW j \in Job, th' = [th EXCEPT ![l] = j], JobOk(j)
      PROVE  AgentKnowledge'
  BY <1>1, <1>2, DeliveredOk, JobKnown
<1>3. ASSUME NEW l \in Layers, NEW topic \in {"StartTx", "SendTx", "SendAckedTx"}, Deliver(l, topic, t),
             UNCHANGED <<mem, db>>, UNCHANGED th \/ Done(l, {})
      PROVE  AgentKnowledge'
  <2>1. th[l] \in Job /\ JobOk(th[l]) /\ th \in [Threads -> Job]
    BY <1>1 DEF SafetyInv, AgentKnowledge, TypeOK
  <2>2. CASE UNCHANGED th
    <3>1. th' = [th EXCEPT ![l] = th[l]]
      BY <1>1, <2>1, <2>2
    <3> QED
      BY <1>2, <1>3, <2>1, <3>1
  <2>3. CASE Done(l, {})
    BY <1>1, <1>2, <1>3, <2>3, RestingOk DEF Done
  <2> QED
    BY <1>3, <2>2, <2>3
<1>4. ASSUME NEW l \in Layers, NEW topic \in {"StartTx", "SendTx", "SendAckedTx"}, Deliver(l, topic, t),
             UNCHANGED <<mem, db>>,
             NEW pc \in {"submit", "put"}, NEW op \in Maps, NEW cross \in CrossTx,
             NEW clr \in Maps \cup {"none"}, CrossOk(op, t, cross), HashOk(op, t, cross),
             Run(l, pc, op, t, cross, clr, {})
      PROVE  AgentKnowledge'
  <2>1. l \in Threads /\ {} \in SUBSET th[l].todo /\ pc \in {"submit", "put", "delete"}
    BY <1>1
  <2>2. PICK j \in Job : th' = [th EXCEPT ![l] = j] /\ JobOk(j)
    BY <1>4, <2>1, RunOk
  <2> QED
    BY <1>2, <1>4, <2>2
<1>5. \A l \in Layers : MakeCrossTx(l, t) \in CrossTx /\ MakeCrossTx(l, t).hash = NoHash
  BY <1>1, CrossTypes DEF MakeCrossTx, NoCrossTx
<1>6. \A op \in Maps, cross \in CrossTx : cross.hash = NoHash => HashOk(op, t, cross)
  BY DEF HashOk
<1>7. ASSUME NEW l \in Layers, Deliver(l, "SendTx", t), UNCHANGED <<mem, db>>,
             Run(l, "submit", "SendAck", t, [MakeCrossTx(l, t) EXCEPT !.status = ACK_SUCCESS],
                 "SendTx", {})
      PROVE  AgentKnowledge'
  <2> DEFINE c == [MakeCrossTx(l, t) EXCEPT !.status = ACK_SUCCESS]
  <2>1. c \in CrossTx /\ c.hash = NoHash
    BY <1>1, <1>5 DEF CrossTx
  <2>2. CrossOk("SendAck", t, c)
    BY <1>7, DeliveredOk, ReadOk
  <2> HIDE DEF c
  <2>3. Run(l, "submit", "SendAck", t, c, "SendTx", {})
    BY <1>7 DEF c
  <2>4. HashOk("SendAck", t, c)
    BY <1>1, <1>6, <2>1
  <2> QED
    BY <1>1, <1>4, <1>7, <2>1, <2>2, <2>3, <2>4
<1>8. ASSUME Deliver("L2", "StartTx", t), UNCHANGED <<mem, db>>,
             Run("L2", "put", "StartTx", t, [MakeCrossTx("L2", t) EXCEPT !.confirmSeq = now],
                 "none", {})
      PROVE  AgentKnowledge'
  <2> DEFINE c == [MakeCrossTx("L2", t) EXCEPT !.confirmSeq = now]
  <2>1. c \in CrossTx /\ c.hash = NoHash
    BY <1>1, <1>5 DEF CrossTx
  <2>2. CrossOk("StartTx", t, c)
    BY <1>1, <1>8, DeliveredOk DEF CrossOk
  <2> HIDE DEF c
  <2>3. Run("L2", "put", "StartTx", t, c, "none", {})
    BY <1>8 DEF c
  <2>4. HashOk("StartTx", t, c)
    BY <1>1, <1>6, <2>1
  <2> QED
    BY <1>1, <1>4, <1>8, <2>1, <2>2, <2>3, <2>4
<1>9. ASSUME NEW l \in Layers, Deliver(l, "SendAckedTx", t), UNCHANGED <<mem, db>>,
             Run(l, "submit", "ReplyAck", t, MakeCrossTx(l, t), "SendAck", {})
      PROVE  AgentKnowledge'
  <2>1. CrossOk("ReplyAck", t, MakeCrossTx(l, t))
    BY <1>9, DeliveredOk, ReadOk
  <2>2. HashOk("ReplyAck", t, MakeCrossTx(l, t))
    BY <1>1, <1>5, <1>6
  <2> QED
    BY <1>1, <1>4, <1>5, <1>9, <2>1, <2>2
<1>10. ASSUME NEW l \in Layers, Deliver(l, "StartTx", t), UNCHANGED <<mem, db>>,
              Run(l, "submit", "SendTx", t, MakeCrossTx(l, t), "none", {})
       PROVE  AgentKnowledge'
  <2>1. CrossOk("SendTx", t, MakeCrossTx(l, t))
    BY <1>10, DeliveredOk, ReadOk
  <2>2. HashOk("SendTx", t, MakeCrossTx(l, t))
    BY <1>1, <1>5, <1>6
  <2> QED
    BY <1>1, <1>4, <1>5, <1>10, <2>1, <2>2
<1>11. CASE OnLayer1CrossContractTlog(t)
  BY <1>1, <1>3, <1>7, <1>9, <1>10, <1>11
  DEF OnLayer1CrossContractTlog, L1HandleStartTxEvent, L2HandleSendTxEvent, L2AckSuccess,
      L1HandleSendAckdTxEvent
<1>12. CASE OnLayer2SubscribeResponse(t)
  BY <1>1, <1>3, <1>7, <1>8, <1>9, <1>12
  DEF OnLayer2SubscribeResponse, L2HandleStartTxEvent, L1HandleSendTxEvent, L1AckSuccess,
      L2HandleSendAckdTxEvent
<1> QED
  BY <1>11, <1>12

\* A confirmed layer-2 ledger, and the transfers it covers.
LEMMA ConfirmKnown ==
    ASSUME SafetyInv, OnLayer1ManagerContractTlog \/ (\E t \in Tx : ConfirmedTx(t))
    PROVE  AgentKnowledge'
<1>1. /\ "L1" \in Threads /\ "L1" \in Layers /\ "L2" \in Layers
      /\ {"StartTx", "SendTx", "SendAck", "ReplyAck"} = Maps
      /\ TypeOK
      /\ ACK_TIMEOUT \in TxStatusEnum /\ ACK_TIMEOUT # ACK_SUCCESS
  BY DEF Threads, Layers, Maps, SafetyInv, TxStatusEnum, ACK_TIMEOUT, ACK_SUCCESS
<1>2. ASSUME NEW j \in Job, th' = [th EXCEPT !["L1"] = j], JobOk(j),
             UNCHANGED <<crossTxInfo, pool, mem, db, tlogs>>
      PROVE  AgentKnowledge'
  BY <1>1, <1>2, JobKnown
<1>3. CASE OnLayer1ManagerContractTlog
  <2>1. PICK seq : HandleConfirmSeqEvent(seq)
    BY <1>3 DEF OnLayer1ManagerContractTlog
  <2> DEFINE items == {t \in Tx2 : /\ mem["StartTx"][t].saved
                                   /\ mem["StartTx"][t].cross.confirmSeq <= seq}
             j == [Idle EXCEPT !.loop = "StartTx", !.obj = "L2", !.todo = items]
  <2>2. j \in Job /\ JobOk(j)
    <3>1. items \in SUBSET Tx /\ \A t \in items : mem["StartTx"][t].saved
      BY DEF Tx2
    <3> HIDE DEF items
    <3> QED
      BY <1>1, <3>1, LoopOk
  <2>3. th["L1"] \in Job /\ JobOk(th["L1"]) /\ th \in [Threads -> Job]
    BY <1>1 DEF SafetyInv, AgentKnowledge, TypeOK
  <2>4. th' = [th EXCEPT !["L1"] = th["L1"]] \/ th' = [th EXCEPT !["L1"] = j]
    BY <1>1, <2>1, <2>3 DEF HandleConfirmSeqEvent
  <2>5. UNCHANGED <<crossTxInfo, pool, mem, db, tlogs>>
    BY <1>3, <2>1 DEF OnLayer1ManagerContractTlog, HandleConfirmSeqEvent
  <2> HIDE DEF j
  <2> QED
    BY <1>2, <2>2, <2>3, <2>4, <2>5
<1>4. ASSUME NEW t \in Tx, ConfirmedTx(t)
      PROVE  AgentKnowledge'
  <2> DEFINE c == [mem["StartTx"][t].cross EXCEPT !.hash = NoHash]
             late == [c EXCEPT !.status = ACK_TIMEOUT]
  <2>1. mem["StartTx"][t].cross \in CrossTx
    BY <1>1, CrossTypes
  <2>2. /\ c \in CrossTx /\ c.hash = NoHash /\ late \in CrossTx
        /\ late.status = ACK_TIMEOUT /\ late.hash = NoHash
    BY <1>1, <2>1 DEF CrossTx
  <2>3. Started(t) /\ Rest("L1", t) \in SUBSET th["L1"].todo
    BY <1>1, <1>4 DEF ConfirmedTx, Item, Holds, Rest, SafetyInv, AgentKnowledge, JobOk
  <2>4. /\ CrossOk("SendTx", t, c) /\ HashOk("SendTx", t, c)
        /\ CrossOk("SendAck", t, late) /\ HashOk("SendAck", t, late)
    BY <1>1, <2>2, <2>3 DEF CrossOk, HashOk
  <2>5. \/ Run("L1", "submit", "SendAck", t, late, "none", Rest("L1", t))
        \/ Run("L1", "submit", "SendTx", t, c, "StartTx", Rest("L1", t))
    BY <1>4 DEF ConfirmedTx
  <2> HIDE DEF c, late
  <2>6. PICK j \in Job : th' = [th EXCEPT !["L1"] = j] /\ JobOk(j)
    BY <1>1, <2>2, <2>3, <2>4, <2>5, RunOk
  <2> QED
    BY <1>2, <1>4, <2>6 DEF ConfirmedTx, chainVars
<1> QED
  BY <1>3, <1>4

\* Saving and clearing entries keep what the agent knows.
LEMMA SaveClearKnown ==
    ASSUME SafetyInv, NEW p \in Threads, DBPut(p) \/ Emplace(p) \/ DBDelete(p) \/ Erase(p)
    PROVE  AgentKnowledge'
<1>1. PICK j \in Job : j = th[p]
  BY DEF SafetyInv, TypeOK
<1> DEFINE x == [saved |-> TRUE, cross |-> j.cross]
<1>2. /\ JobOk(j) /\ j.op \in Maps /\ j.tx \in Tx
      /\ th \in [Threads -> Job]
      /\ mem \in [Maps -> [Tx -> Entry]] /\ db \in [Maps -> [Tx -> Entry]]
  BY <1>1 DEF SafetyInv, AgentKnowledge, TypeOK, Job
<1>3. UNCHANGED <<crossTxInfo, pool, tlogs>>
  BY DEF DBPut, Emplace, DBDelete, Erase, chainVars
<1>4. \A m \in Maps, t \in Tx : EntryOk(m, t, NoEntry)
  BY DEF EntryOk, HashOk, NoEntry, NoCrossTx
<1>5. j.pc \in {"put", "emplace"} => EntryOk(j.op, j.tx, x)
  BY <1>2 DEF EntryOk, JobOk
<1>6. PICK i \in Job : th' = [th EXCEPT ![p] = i] /\ JobOk(i)
  <2>1. CASE \E todo \in SUBSET j.todo : Done(p, todo)
    BY <1>1, <2>1, RestingOk DEF Done
  <2>2. ASSUME NEW pc \in {"emplace", "delete", "erase"}, pc = "emplace" => j.pc = "put",
               th' = [th EXCEPT ![p] = [j EXCEPT !.pc = pc]]
        PROVE  \E k \in Job : th' = [th EXCEPT ![p] = k] /\ JobOk(k)
    <3> DEFINE k == [j EXCEPT !.pc = pc]
    <3>1. /\ k \in Job /\ k.pc = pc /\ k.op = j.op /\ k.tx = j.tx /\ k.cross = j.cross
          /\ k.loop = j.loop /\ k.todo = j.todo
      BY DEF Job
    <3> HIDE DEF k
    <3>2. JobOk(k)
      BY <1>2, <2>2, <3>1 DEF JobOk
    <3>3. th' = [th EXCEPT ![p] = k]
      BY <2>2 DEF k
    <3> QED
      BY <3>1, <3>2, <3>3
  <2>3. CASE DBPut(p)
    BY <1>1, <2>2, <2>3 DEF DBPut
  <2>4. CASE Emplace(p)
    BY <1>1, <2>1, <2>2, <2>4 DEF Emplace
  <2>5. CASE DBDelete(p)
    BY <1>1, <2>2, <2>5 DEF DBDelete
  <2>6. CASE Erase(p)
    BY <1>1, <2>1, <2>6 DEF Erase
  <2> QED
    BY <2>3, <2>4, <2>5, <2>6
<1>7. ASSUME NEW m \in Maps, NEW t \in Tx, NEW y, NEW z, y = mem'[m][t], z = db'[m][t]
      PROVE  EntryOk(m, t, y) /\ EntryOk(m, t, z)
  <2>1. EntryOk(m, t, mem[m][t]) /\ EntryOk(m, t, db[m][t])
    BY DEF SafetyInv, AgentKnowledge
  <2> HIDE DEF x
  <2>2. CASE DBPut(p)
    BY <1>1, <1>2, <1>5, <1>7, <2>1, <2>2 DEF DBPut, WriteFails, x
  <2>3. CASE Emplace(p)
    BY <1>1, <1>2, <1>5, <1>7, <2>1, <2>3 DEF Emplace, x
  <2>4. CASE DBDelete(p)
    BY <1>1, <1>2, <1>4, <1>7, <2>1, <2>4 DEF DBDelete, WriteFails
  <2>5. CASE Erase(p)
    BY <1>1, <1>2, <1>4, <1>7, <2>1, <2>5 DEF Erase
  <2> QED
    BY <2>2, <2>3, <2>4, <2>5
<1>8. ASSUME NEW m \in Maps, NEW t \in Tx
      PROVE  EntryOk(m, t, mem[m][t])' /\ EntryOk(m, t, db[m][t])'
  <2>1. PICK y, z : y = mem'[m][t] /\ z = db'[m][t]
    OBVIOUS
  <2>2. EntryOk(m, t, y) /\ EntryOk(m, t, z)
    BY <1>7, <2>1
  <2> QED
    BY <1>3, <2>1, <2>2 DEF EntryOk, CrossOk, HashOk, Started, LockedAt, TakenAt, OriginInfo, DestInfo
<1>9. ASSUME NEW q \in Threads
      PROVE  JobOk(th[q])'
  <2>1. PICK k : k = th'[q]
    OBVIOUS
  <2>2. JobOk(k)
    BY <1>2, <1>6, <2>1 DEF SafetyInv, AgentKnowledge
  <2> QED
    BY <1>3, <2>1, <2>2 DEF JobOk, CrossOk, HashOk, Started, LockedAt, TakenAt, OriginInfo, DestInfo
<1>10. /\ \A l \in Layers, h \in Hash : PoolTxOk(l, pool[l][h])'
       /\ \A l \in Layers : \A i0 \in 1..Len(tlogs'[l]) : TlogOk(l, tlogs[l][i0])'
  <2>1. \A l \in Layers, h \in Hash : PoolTxOk(l, pool[l][h])'
    BY <1>3, SamePoolTx
  <2>2. \A l \in Layers : \A i0 \in 1..Len(tlogs'[l]) : TlogOk(l, tlogs[l][i0])'
    BY <1>3 DEF SafetyInv, AgentKnowledge, TlogOk, Started, OriginInfo, DestInfo
  <2> QED
    BY <2>1, <2>2
<1> QED
  BY <1>8, <1>9, <1>10 DEF AgentKnowledge

\* Submitting a transaction gives it a hash that nothing the agent keeps has,
\* so every hash kept still names its own transaction; the pool then holds a
\* transaction that reports what is true.
LEMMA SubmitKnown ==
    ASSUME SafetyInv, NEW p \in Threads, NEW l \in Layers, NEW h,
           th[p].pc = "submit", th[p].op # "StartTx", Target(th[p].op, th[p].tx) = l,
           UNCHANGED crossTxInfo,
           \/ UNCHANGED pool
           \/ ~Kept(l, h) /\ pool' = [pool EXCEPT ![l][h] = CallOf(th[p])]
    PROVE  /\ \A m \in Maps, t \in Tx : /\ HashOk(m, t, mem[m][t].cross) =>
                                              (\A c : c = mem[m][t].cross => HashOk(m, t, c)')
                                        /\ HashOk(m, t, db[m][t].cross) =>
                                              (\A c : c = db[m][t].cross => HashOk(m, t, c)')
           /\ \A q \in Threads, j \in Job :
                  j = th[q] /\ HashOk(j.op, j.tx, j.cross) => HashOk(j.op, j.tx, j.cross)'
           /\ \A k \in Layers, g \in Hash : PoolTxOk(k, pool[k][g])'
<1> DEFINE j == th[p]
           c == CallOf(j)
<1>1. j \in Job /\ JobOk(j) /\ pool \in [Layers -> [Hash -> PoolTx]]
  BY DEF SafetyInv, AgentKnowledge, TypeOK, ChainTypeOK
<1>2. j.op \in Maps /\ j.tx \in Tx /\ j.cross \in CrossTx /\ CrossOk(j.op, j.tx, j.cross)
  BY <1>1 DEF JobOk, Job
<1>3. \A k \in Layers, g \in Hash :
          pool'[k][g] = pool[k][g] \/ (k = l /\ g = h /\ pool'[k][g] = c /\ ~Kept(l, h))
  BY <1>1
<1>4. ASSUME NEW m \in Maps, NEW t \in Tx, NEW x \in CrossTx, HashOk(m, t, x),
             m = "SendTx" /\ Dst(t) = l /\ x.hash = h => Kept(l, h)
      PROVE  HashOk(m, t, x)'
  <2>1. x.hash \in Hash \cup {NoHash} /\ Dst(t) \in Layers
    BY LayersOfTransfer DEF CrossTx
  <2> HIDE DEF c
  <2> QED
    BY <1>3, <1>4, <2>1 DEF HashOk
<1>5. ASSUME NEW m \in Maps, NEW t \in Tx, NEW x, x = mem[m][t].cross \/ x = db[m][t].cross,
             HashOk(m, t, x)
      PROVE  HashOk(m, t, x)'
  <2>1. mem[m][t] \in Entry /\ db[m][t] \in Entry
    BY DEF SafetyInv, TypeOK
  <2>2. x \in CrossTx
    BY <1>5, <2>1 DEF Entry
  <2>3. m = "SendTx" /\ Dst(t) = l /\ x.hash = h => Kept(l, h)
    BY <1>5 DEF Kept, Target
  <2> QED
    BY <1>4, <1>5, <2>2, <2>3
<1>6. ASSUME NEW q \in Threads, NEW i \in Job, i = th[q], HashOk(i.op, i.tx, i.cross)
      PROVE  HashOk(i.op, i.tx, i.cross)'
  <2>1. i.op \in Maps /\ i.tx \in Tx /\ i.cross \in CrossTx
    BY DEF Job
  <2>2. i.op = "SendTx" /\ Dst(i.tx) = l /\ i.cross.hash = h => Kept(l, h)
    BY <1>6 DEF Kept, Target
  <2> QED
    BY <1>4, <1>6, <2>1, <2>2
<1>7. ASSUME NEW k \in Layers, NEW g \in Hash
      PROVE  PoolTxOk(k, pool[k][g])'
  <2>1. CASE pool'[k][g] = pool[k][g]
    BY <2>1, SamePoolTx
  <2>2. CASE k = l /\ pool'[k][g] = c
    <3>1. /\ c.st = "pending" /\ c.tx = j.tx
          /\ j.op = "SendTx" => c.fn = "SendTx"
          /\ j.op # "SendTx" => /\ c.fn = "SendAckedTx" /\ c.result = j.cross.status
                                /\ c.time = j.cross.time
      BY DEF CallOf
    <3>2. PoolTxOk(l, c)
      <4>1. CASE j.op = "SendTx"
        BY <1>2, <3>1, <4>1 DEF PoolTxOk, CrossOk, Target
      <4>2. CASE j.op = "SendAck"
        BY <1>2, <3>1, <4>2 DEF PoolTxOk, CrossOk, Target
      <4>3. CASE j.op = "ReplyAck"
        BY <1>2, <3>1, <4>3 DEF PoolTxOk, CrossOk, Target
      <4> QED
        BY <1>2, <4>1, <4>2, <4>3 DEF Maps
    <3> HIDE DEF c
    <3> QED
      BY <2>2, <3>2 DEF PoolTxOk, Started, LockedAt, TakenAt, OriginInfo, DestInfo
  <2> QED
    BY <1>3, <2>1, <2>2
<1> QED
  BY <1>5, <1>6, <1>7

\* A transaction of either handle is submitted to the layer of its contract,
\* and the agent sees it accepted, or sees a failure.
LEMMA TransactionCases ==
    ASSUME SafetyInv, NEW p \in Threads,
           \/ SendTxToLayer2(p) \/ SendAckToLayer1(p) \/ ReplyAckToLayer2(p)
           \/ SendTxToLayer1(p) \/ SendAckToLayer2(p) \/ ReplyAckToLayer1(p)
    PROVE  \E l \in Layers :
              /\ th[p].pc = "submit" /\ th[p].op # "StartTx" /\ Target(th[p].op, th[p].tx) = l
              /\ UNCHANGED <<chainButPool, up, mem, db>>
              /\ \/ Accepted(p, l)
                 \/ Failed(p, l) /\ Done(p, th[p].todo)
                 \/ /\ Failed(p, l)
                    /\ Run(p, "submit", "SendAck", th[p].tx,
                           [th[p].cross EXCEPT !.status = ACK_FAIL], "none", th[p].todo)
<1>1. "L1" \in Layers /\ "L2" \in Layers
  BY DEF Layers
<1>2. CASE SendTxToLayer2(p)
  <2>1. Target(th[p].op, th[p].tx) = "L2"
    BY <1>2 DEF SendTxToLayer2, Submitting, Target, Src, Dst, Other
  <2> QED
    BY <1>1, <1>2, <2>1 DEF SendTxToLayer2, Submitting
<1>3. CASE SendAckToLayer1(p)
  <2>1. Target(th[p].op, th[p].tx) = "L1"
    BY <1>3 DEF SendAckToLayer1, Submitting, Target, Src
  <2> QED
    BY <1>1, <1>3, <2>1 DEF SendAckToLayer1, Submitting
<1>4. CASE ReplyAckToLayer2(p)
  <2>1. Target(th[p].op, th[p].tx) = "L2"
    BY <1>4 DEF ReplyAckToLayer2, Submitting, Target, Src, Dst, Other
  <2> QED
    BY <1>1, <1>4, <2>1 DEF ReplyAckToLayer2, Submitting
<1>5. CASE SendTxToLayer1(p)
  <2>1. Target(th[p].op, th[p].tx) = "L1"
    BY <1>5 DEF SendTxToLayer1, Submitting, Target, Src, Dst, Other
  <2> QED
    BY <1>1, <1>5, <2>1 DEF SendTxToLayer1, Submitting
<1>6. CASE SendAckToLayer2(p)
  <2>1. Target(th[p].op, th[p].tx) = "L2"
    BY <1>6 DEF SendAckToLayer2, Submitting, Target, Src
  <2> QED
    BY <1>1, <1>6, <2>1 DEF SendAckToLayer2, Submitting
<1>7. CASE ReplyAckToLayer1(p)
  <2>1. Target(th[p].op, th[p].tx) = "L1"
    BY <1>7 DEF ReplyAckToLayer1, Submitting, Target, Src, Dst, Other
  <2> QED
    BY <1>1, <1>7, <2>1 DEF ReplyAckToLayer1, Submitting
<1> QED
  BY <1>2, <1>3, <1>4, <1>5, <1>6, <1>7

\* The transactions keep what the agent knows.
LEMMA TransactionKnown ==
    ASSUME SafetyInv, TypeOK', NEW p \in Threads,
           \/ SendTxToLayer2(p) \/ SendAckToLayer1(p) \/ ReplyAckToLayer2(p)
           \/ SendTxToLayer1(p) \/ SendAckToLayer2(p) \/ ReplyAckToLayer1(p)
    PROVE  AgentKnowledge'
<1>1. PICK l \in Layers :
         /\ th[p].pc = "submit" /\ th[p].op # "StartTx" /\ Target(th[p].op, th[p].tx) = l
         /\ UNCHANGED <<chainButPool, up, mem, db>>
         /\ \/ Accepted(p, l)
            \/ Failed(p, l) /\ Done(p, th[p].todo)
            \/ /\ Failed(p, l)
               /\ Run(p, "submit", "SendAck", th[p].tx,
                      [th[p].cross EXCEPT !.status = ACK_FAIL], "none", th[p].todo)
  BY TransactionCases
<1>2. UNCHANGED <<crossTxInfo, tlogs, mem, db>>
  BY <1>1 DEF chainButPool
<1>3. FreeHash(l) # {} => NewHash(l) \in Hash /\ ~Kept(l, NewHash(l))
  BY DEF NewHash, FreeHash
<1>4. UNCHANGED pool \/ \E h \in Hash : ~Kept(l, h) /\ pool' = [pool EXCEPT ![l][h] = CallOf(th[p])]
  BY <1>1, <1>3 DEF Accepted, Failed
<1>5. PICK j \in Job : j = th[p]
  BY DEF SafetyInv, TypeOK
<1>6. /\ \A m \in Maps, t \in Tx : /\ HashOk(m, t, mem[m][t].cross) =>
                                         (\A c : c = mem[m][t].cross => HashOk(m, t, c)')
                                   /\ HashOk(m, t, db[m][t].cross) =>
                                         (\A c : c = db[m][t].cross => HashOk(m, t, c)')
      /\ \A q \in Threads, i \in Job :
             i = th[q] /\ HashOk(i.op, i.tx, i.cross) => HashOk(i.op, i.tx, i.cross)'
      /\ \A k \in Layers, g \in Hash : PoolTxOk(k, pool[k][g])'
  <2>1. PICK h : UNCHANGED pool \/ (~Kept(l, h) /\ pool' = [pool EXCEPT ![l][h] = CallOf(th[p])])
    BY <1>4
  <2> QED
    BY <1>1, <1>2, <2>1, SubmitKnown
<1>7. ASSUME NEW m \in Maps, NEW t \in Tx
      PROVE  EntryOk(m, t, mem[m][t])' /\ EntryOk(m, t, db[m][t])'
  <2>1. EntryOk(m, t, mem[m][t]) /\ EntryOk(m, t, db[m][t])
    BY DEF SafetyInv, AgentKnowledge
  <2>2. PICK x, y : x = mem[m][t] /\ y = db[m][t]
    OBVIOUS
  <2>3. HashOk(m, t, x.cross)' /\ HashOk(m, t, y.cross)'
    BY <1>6, <2>1, <2>2 DEF EntryOk
  <2>4. EntryOk(m, t, x)' /\ EntryOk(m, t, y)'
    BY <1>2, <2>1, <2>2, <2>3 DEF EntryOk, CrossOk, Started, LockedAt, TakenAt, OriginInfo, DestInfo
  <2> QED
    BY <1>2, <2>2, <2>4 DEF EntryOk, CrossOk, HashOk
<1>8. PICK i \in Job : th' = [th EXCEPT ![p] = i] /\ JobOk(i)'
  <2>1. JobOk(j) /\ j.op \in Maps /\ j.tx \in Tx /\ j.cross \in CrossTx
    BY <1>5 DEF SafetyInv, AgentKnowledge, Job
  <2>2. CASE Accepted(p, l)
    <3>1. PICK h \in Hash : /\ pool' = [pool EXCEPT ![l][h] = CallOf(j)]
                            /\ th' = [th EXCEPT ![p] = [j EXCEPT !.pc = "put", !.cross.hash = h]]
      BY <1>3, <1>5, <2>2 DEF Accepted
    <3> DEFINE i == [j EXCEPT !.pc = "put", !.cross.hash = h]
    <3>2. /\ i.pc = "put" /\ i.op = j.op /\ i.tx = j.tx /\ i.loop = j.loop /\ i.todo = j.todo
          /\ i.cross.status = j.cross.status /\ i.cross.time = j.cross.time /\ i.cross.hash = h
      BY <2>1 DEF Job, CrossTx
    <3>3. i \in Job
      <4>1. [j.cross EXCEPT !.hash = h] \in CrossTx
        BY <2>1 DEF CrossTx
      <4> QED
        BY <4>1 DEF Job
    <3> HIDE DEF i
    <3>4. CrossOk(i.op, i.tx, i.cross)'
      BY <1>1, <1>2, <1>5, <2>1, <3>2
      DEF JobOk, CrossOk, Started, LockedAt, TakenAt, OriginInfo, DestInfo
    <3>5. HashOk(i.op, i.tx, i.cross)'
      <4>1. pool'[l][h] = CallOf(j)
        BY <3>1 DEF SafetyInv, TypeOK, ChainTypeOK
      <4>2. j.op = "SendTx" => Dst(j.tx) = l /\ CallOf(j).fn = "SendTx" /\ CallOf(j).tx = j.tx
        BY <1>1, <1>5 DEF Target, CallOf
      <4> QED
        BY <3>2, <4>1, <4>2 DEF HashOk
    <3>6. JobOk(i)'
      BY <1>2, <2>1, <3>2, <3>4, <3>5 DEF JobOk, Started, OriginInfo
    <3> QED
      BY <3>1, <3>3, <3>6 DEF i
  <2>3. ASSUME NEW k \in Job, JobOk(k), k.op = "SendTx" => k.cross.hash = NoHash
        PROVE  JobOk(k)'
    BY <1>2, <2>3 DEF JobOk, CrossOk, HashOk, Started, LockedAt, TakenAt, OriginInfo, DestInfo
  <2>4. CASE Done(p, th[p].todo)
    <3>1. PICK k \in Job : k = Resting(th[p], th[p].todo) /\ JobOk(k)
      BY RestingOk
    <3>2. k.cross.hash = NoHash
      BY <3>1 DEF Resting, Idle, NoCrossTx
    <3> QED
      BY <2>3, <2>4, <3>1, <3>2 DEF Done
  <2>5. CASE Run(p, "submit", "SendAck", th[p].tx, [th[p].cross EXCEPT !.status = ACK_FAIL],
                 "none", th[p].todo)
    <3> DEFINE cross == [j.cross EXCEPT !.status = ACK_FAIL]
               k == [pc |-> "submit", op |-> "SendAck", tx |-> j.tx, cross |-> cross,
                     clr |-> "none", loop |-> j.loop, obj |-> j.obj, todo |-> j.todo]
    <3>1. cross \in CrossTx /\ cross.status # ACK_SUCCESS
      BY <2>1 DEF CrossTx, TxStatusEnum, ACK_FAIL, ACK_SUCCESS
    <3>2. k \in Job
      BY <3>1 DEF Job, Maps
    <3>3. JobOk(k)
      BY <2>1, <3>1 DEF JobOk, CrossOk, HashOk
    <3>4. th' = [th EXCEPT ![p] = k]
      BY <1>5, <2>5 DEF Run
    <3> QED
      BY <2>3, <3>2, <3>3, <3>4
  <2> QED
    BY <1>1, <2>2, <2>4, <2>5
<1>9. ASSUME NEW q \in Threads
      PROVE  JobOk(th[q])'
  <2>1. CASE q = p
    <3>1. th'[q] = i
      BY <1>8, <2>1 DEF SafetyInv, TypeOK
    <3> QED
      BY <1>8, <3>1 DEF JobOk, CrossOk, HashOk
  <2>2. CASE q # p
    <3>1. PICK k \in Job : k = th[q]
      BY DEF SafetyInv, TypeOK
    <3>2. th'[q] = k /\ JobOk(k)
      BY <1>8, <2>2, <3>1 DEF SafetyInv, TypeOK, AgentKnowledge
    <3>3. HashOk(k.op, k.tx, k.cross)'
      BY <1>6, <3>1, <3>2 DEF JobOk
    <3>4. JobOk(k)'
      BY <1>2, <3>2, <3>3 DEF JobOk, CrossOk, Started, LockedAt, TakenAt, OriginInfo, DestInfo
    <3> QED
      BY <3>2, <3>4 DEF JobOk, CrossOk, HashOk
  <2> QED
    BY <2>1, <2>2
<1>10. \A k \in Layers : \A n \in 1..Len(tlogs'[k]) : TlogOk(k, tlogs[k][n])'
  BY <1>2 DEF SafetyInv, AgentKnowledge, TlogOk, Started, OriginInfo, DestInfo
<1> QED
  BY <1>6, <1>7, <1>9, <1>10 DEF AgentKnowledge

-----------------------------------------------------------------------------
(* The bridge.                                                             *)

\* Lost connections, crashes and restarts keep what the agent knows: a
\* restart finds in the database what the maps could hold.
LEMMA RestartKnown ==
    ASSUME SafetyInv, (\E l \in Layers : Disconnect(l) \/ Subscribe(l)) \/ Crash \/ Initialize
    PROVE  AgentKnowledge'
<1>1. UNCHANGED <<crossTxInfo, pool, db>>
  BY DEF Disconnect, Subscribe, Crash, Initialize, agentVars, chainVars
<1>2. \A l \in Layers : tlogs'[l] = tlogs[l] \/ tlogs'[l] = <<>>
  BY DEF Disconnect, Subscribe, Crash, Initialize, chainVars, SafetyInv, TypeOK, ChainTypeOK
<1>3. UNCHANGED mem \/ mem' = db \/ mem' = [m \in Maps |-> [t \in Tx |-> NoEntry]]
  BY DEF Disconnect, Subscribe, Crash, Initialize, agentVars
<1>4. UNCHANGED th \/ th' = [p \in Threads |-> Idle]
  BY DEF Disconnect, Subscribe, Crash, Initialize, agentVars
<1>5. ASSUME NEW m \in Maps, NEW t \in Tx
      PROVE  EntryOk(m, t, mem[m][t])' /\ EntryOk(m, t, db[m][t])'
  <2>1. PICK x, y : x = mem'[m][t] /\ y = db'[m][t]
    OBVIOUS
  <2>2. EntryOk(m, t, NoEntry)
    BY DEF EntryOk, HashOk, NoEntry, NoCrossTx
  <2>3. EntryOk(m, t, x) /\ EntryOk(m, t, y)
    BY <1>1, <1>3, <2>1, <2>2 DEF SafetyInv, AgentKnowledge
  <2> QED
    BY <1>1, <2>1, <2>3 DEF EntryOk, CrossOk, HashOk, Started, LockedAt, TakenAt, OriginInfo, DestInfo
<1>6. ASSUME NEW p \in Threads
      PROVE  JobOk(th[p])'
  <2>1. PICK j : j = th'[p]
    OBVIOUS
  <2>2. JobOk(Idle)
    BY DEF JobOk, HashOk, Idle, NoCrossTx
  <2>3. JobOk(j)
    BY <1>4, <2>1, <2>2 DEF SafetyInv, AgentKnowledge
  <2> QED
    BY <1>1, <2>1, <2>3 DEF JobOk, CrossOk, HashOk, Started, LockedAt, TakenAt, OriginInfo, DestInfo
<1>7. \A l \in Layers, h \in Hash : PoolTxOk(l, pool[l][h])'
  BY <1>1, SamePoolTx
<1>8. ASSUME NEW l \in Layers, NEW i \in 1..Len(tlogs'[l])
      PROVE  TlogOk(l, tlogs[l][i])'
  <2>1. tlogs'[l] = tlogs[l]
    BY <1>2, <1>8
  <2>2. TlogOk(l, tlogs[l][i])
    BY <2>1 DEF SafetyInv, AgentKnowledge
  <2> QED
    BY <1>1, <2>1, <2>2 DEF TlogOk, Started, OriginInfo, DestInfo
<1> QED
  BY <1>5, <1>6, <1>7, <1>8 DEF AgentKnowledge

\* A step of the agent writes to no contract.
LEMMA AgentLeavesContracts ==
    ASSUME AgentNext
    PROVE  UNCHANGED <<crossTxInfo, paidIn, paidOut>>
<1>1. ASSUME NEW p, L1ThreadStep(p) \/ L2ThreadStep(p)
      PROVE  UNCHANGED <<crossTxInfo, paidIn, paidOut>>
  BY <1>1 DEF L1ThreadStep, L2ThreadStep, L1SaveInfo, L2SaveInfo, L1ClearInfo, L2ClearInfo,
     SendTxToLayer2, SendAckToLayer1, ReplyAckToLayer2, SendTxToLayer1, SendAckToLayer2,
     ReplyAckToLayer1, DBPut, Emplace, DBDelete, Erase, chainVars, chainButPool
<1>2. ASSUME L1TimerStep \/ L2TimerStep
      PROVE  UNCHANGED <<crossTxInfo, paidIn, paidOut>>
  BY <1>2 DEF L1TimerStep, L2TimerStep, L1OnTimer, L2OnTimer, EnterLoop, SendTxToLayer2TimeOut,
     SendAckToLayer1TimeOut, ReplyAckToLayer2TimeOut, StartTxTimeOut, SendTxToLayer1TimeOut,
     SendAckToLayer2TimeOut, ReplyAckToLayer1TimeOut, chainVars
<1>3. ASSUME NEW t \in Tx,
             OnLayer1CrossContractTlog(t) \/ OnLayer2SubscribeResponse(t) \/ ConfirmedTx(t)
      PROVE  UNCHANGED <<crossTxInfo, paidIn, paidOut>>
  BY <1>3 DEF OnLayer1CrossContractTlog, OnLayer2SubscribeResponse, ConfirmedTx, Deliver, chainVars
<1> QED
  BY <1>1, <1>2, <1>3 DEF AgentNext, TimerThread, WebSocketThread, OnLayer1ManagerContractTlog,
     Disconnect, Subscribe, Crash, Initialize, chainVars

\* Every step of the bridge keeps the safety invariant.
LEMMA NextSafe == SafetyInv /\ [Next]_vars => SafetyInv'
<1> SUFFICES ASSUME SafetyInv, [Next]_vars PROVE SafetyInv'
  OBVIOUS
<1>1. TypeOK'
  BY NextTypes DEF SafetyInv
<1>2. CASE ChainNext /\ UNCHANGED agentVars
  BY <1>1, <1>2, ChainSafe DEF SafetyInv
<1>3. CASE AgentNext
  <2>1. ContractsAgree'
    BY <1>3, AgentLeavesContracts, AgentKeepsContracts
  <2>2. ASSUME NEW p \in Threads, L1ThreadStep(p) \/ L2ThreadStep(p)
        PROVE  AgentKnowledge'
    BY <1>1, <2>2, TransactionKnown, SaveClearKnown
    DEF L1ThreadStep, L2ThreadStep, L1SaveInfo, L1ClearInfo, L2SaveInfo, L2ClearInfo
  <2>3. ASSUME TimerThread
        PROVE  AgentKnowledge'
    BY <2>2, <2>3, TimerKnown DEF TimerThread, Threads
  <2>4. ASSUME NEW l \in Layers, WebSocketThread(l)
        PROVE  AgentKnowledge'
    BY <2>2, <2>4, EventKnown, ConfirmKnown DEF WebSocketThread, Threads
  <2>5. AgentKnowledge'
    BY <1>3, <2>3, <2>4, RestartKnown DEF AgentNext
  <2> QED
    BY <1>1, <2>1, <2>5 DEF SafetyInv
<1>4. CASE UNCHANGED vars
  <2>1. ContractsAgree'
    BY <1>4, AgentKeepsContracts DEF vars, chainVars
  <2>2. PICK j \in Job : j = th["timer"]
    BY DEF SafetyInv, TypeOK, Threads
  <2>3. th' = [th EXCEPT !["timer"] = j] /\ JobOk(j) /\ "timer" \in Threads
    BY <1>4, <2>2 DEF vars, agentVars, SafetyInv, TypeOK, AgentKnowledge, Threads
  <2>4. AgentKnowledge'
    BY <1>4, <2>3, JobKnown DEF vars, chainVars, agentVars
  <2> QED
    BY <1>1, <2>1, <2>4 DEF SafetyInv
<1> QED
  BY <1>2, <1>3, <1>4 DEF Next

\* The safety invariant holds before anything happens.
LEMMA InitSafe == Init => SafetyInv
<1> SUFFICES ASSUME Init PROVE SafetyInv
  OBVIOUS
<1>1. TypeOK
  BY DefaultTypes DEF Init, ChainInit, TypeOK, ChainTypeOK
<1>2. /\ \A l \in Layers, t \in Tx :
             crossTxInfo[l][t] = EmptyInfo /\ paidIn[l][t] = 0 /\ paidOut[l][t] = 0
      /\ ~EmptyInfo.exists /\ EmptyInfo.status = INIT /\ EmptyInfo.refunded = "NONE"
      /\ INIT # ACK_SUCCESS
  BY DEF Init, ChainInit, EmptyInfo, INIT, ACK_SUCCESS
<1>3. \A t \in Tx : Src(t) \in Layers /\ Dst(t) \in Layers
  BY LayersOfTransfer
<1>4. ContractsAgree
  BY <1>2, <1>3 DEF ContractsAgree, AccountOk, PairOk, OriginInfo, DestInfo
<1>5. AgentKnowledge
  <2>1. \A m \in Maps, t \in Tx : EntryOk(m, t, mem[m][t]) /\ EntryOk(m, t, db[m][t])
    BY DEF Init, EntryOk, HashOk, NoEntry, NoCrossTx
  <2>2. \A p \in Threads : JobOk(th[p])
    BY DEF Init, JobOk, HashOk, Idle, NoCrossTx
  <2>3. \A l \in Layers, h \in Hash : PoolTxOk(l, pool[l][h])
    BY DEF Init, ChainInit, PoolTxOk, UnusedTx
  <2>4. \A l \in Layers : \A i \in 1..Len(tlogs[l]) : TlogOk(l, tlogs[l][i])
    BY DEF Init, ChainInit
  <2> QED
    BY <2>1, <2>2, <2>3, <2>4 DEF AgentKnowledge
<1> QED
  BY <1>1, <1>4, <1>5 DEF SafetyInv

\* SafetyInv is an invariant of the bridge, whatever the constants.
THEOREM Safety == Spec => []SafetyInv
BY InitSafe, NextSafe, PTL DEF Spec

\* A receiver who was paid excludes a refund on the origin, in every reachable
\* state and however the acknowledgements race.
THEOREM PaidOrRefunded == Spec => []NeverPaidAndRefunded
<1>1. SafetyInv => NeverPaidAndRefunded
  <2> SUFFICES ASSUME SafetyInv, NEW t \in Tx, DestInfo(t).status = ACK_SUCCESS
               PROVE  OriginInfo(t).status = ACK_SUCCESS /\ OriginInfo(t).refunded = "NONE"
    BY DEF NeverPaidAndRefunded
  <2>1. PairOk(t) /\ AccountOk(Src(t), t)
    BY LayersOfTransfer DEF SafetyInv, ContractsAgree
  <2> QED
    BY <2>1 DEF PairOk, AccountOk, OriginInfo
<1> QED
  BY <1>1, Safety, PTL

\* The agent is paid on the origin only for an amount it has locked on the
\* destination in time.
THEOREM PaidForLockedAmount == Spec => []AgentPaidForLockedAmount
<1>1. SafetyInv => AgentPaidForLockedAmount
  BY DEF SafetyInv, ContractsAgree, PairOk, AgentPaidForLockedAmount
<1> QED
  BY <1>1, Safety, PTL

\* No contract pays more for a transfer than it received for it.
THEOREM Solvency == Spec => []Solvent
<1>1. SafetyInv => Solvent
  <2> SUFFICES ASSUME SafetyInv, NEW l \in Layers, NEW t \in Tx
               PROVE  paidOut[l][t] + (IF /\ crossTxInfo[l][t].status # ACK_SUCCESS
                                          /\ crossTxInfo[l][t].refunded # "REFUNDED"
                                          /\ crossTxInfo[l][t].exists THEN 1 ELSE 0) <= paidIn[l][t]
    BY DEF Solvent
  <2>1. AccountOk(l, t) /\ paidIn[l][t] \in Nat
    BY DEF SafetyInv, ContractsAgree, TypeOK, ChainTypeOK
  <2>2. EmptyInfo.status # ACK_SUCCESS /\ EmptyInfo.refunded # "REFUNDED"
    BY DEF EmptyInfo, INIT, ACK_SUCCESS
  <2> QED
    BY <2>1, <2>2 DEF AccountOk
<1> QED
  BY <1>1, Safety, PTL

\* The agent's amount on the destination can never be refunded to the sender.
THEOREM NoRefundOfAgent == Spec => []DestNeverRefundable
<1>1. SafetyInv => DestNeverRefundable
  <2> SUFFICES ASSUME SafetyInv, NEW t \in Tx
               PROVE  DestInfo(t).status \in {INIT, ACK_SUCCESS} /\ DestInfo(t).refunded = "NONE"
    BY DEF DestNeverRefundable
  <2>1. PairOk(t) /\ AccountOk(Dst(t), t)
    BY LayersOfTransfer DEF SafetyInv, ContractsAgree
  <2> QED
    BY <2>1 DEF PairOk, AccountOk, DestInfo
<1> QED
  BY <1>1, Safety, PTL

\* Whatever the agent holds or has in flight reports what a contract recorded.
THEOREM Knowledge == Spec => []AgentKnowledge
<1>1. SafetyInv => AgentKnowledge
  BY DEF SafetyInv
<1> QED
  BY <1>1, Safety, PTL

\* The two contracts never disagree about a transfer: the accounts of each and the pair of
\* their records fit together in every reachable state.
THEOREM Agreement == Spec => []ContractsAgree
<1>1. SafetyInv => ContractsAgree
  BY DEF SafetyInv
<1> QED
  BY <1>1, Safety, PTL
=============================================================================
