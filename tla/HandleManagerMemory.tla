------------------------ MODULE HandleManagerMemory ------------------------
(***************************************************************************)
(* What the agent remembers: an entry leaves the database or a map only    *)
(* when the next stage of its transfer is there (HandedOverBeforeCleared,  *)
(* LockedIsRemembered).                                                    *)
(*                                                                         *)
(* Both rest on AcksSettled, which holds whatever fails: an entry of an    *)
(* ack map is cleared only once the contract has settled that stage.  The  *)
(* sweeps decide it from the hash they keep, so the invariant says what    *)
(* that hash names and what an executed acknowledgement has done.  On top  *)
(* of it, one argument serves the database and the maps: a job that is     *)
(* about to clear an entry has put the entry of the next stage there       *)
(* before, and that one is in turn cleared only under the same condition.  *)
(*                                                                         *)
(* The operators take the part of the state they speak of as arguments     *)
(* (ct the contracts' mappings, pl the pools, store the maps or the        *)
(* database), so that they read alike before and after a step.             *)
(***************************************************************************)
EXTENDS HandleManagerSafety

\* the origin has settled the transfer; the receiver has been paid
Settled(ct, t) == ct[Src(t)][t].status # INIT
Delivered(ct, t) == ct[Dst(t)][t].status = ACK_SUCCESS

\* The hash kept with an acknowledgement of t is the hash of such a
\* transaction; a transfer that waits for its confirmation has none.
AckHash(pl, m, t, hash) ==
    /\ m = "StartTx" => hash = NoHash
    /\ m \in {"SendAck", "ReplyAck"} /\ hash # NoHash =>
           \/ pl[Target(m, t)][hash].st = "unused"
           \/ pl[Target(m, t)][hash].fn = "SendAckedTx" /\ pl[Target(m, t)][hash].tx = t

\* An acknowledgement executed on layer l has settled its transfer there.
AckExecuted(ct, l, c) ==
    c.st = "ok" /\ c.fn = "SendAckedTx" =>
        (l = Src(c.tx) /\ Settled(ct, c.tx)) \/ (l = Dst(c.tx) /\ Delivered(ct, c.tx))

\* What a job clears: the stage before the one it saves, or an
\* acknowledgement that has been settled.
Clears(ct, j) ==
    /\ j.clr = "StartTx" => j.op \in {"SendTx", "SendAck"}
    /\ j.clr = "SendTx" => j.op = "SendAck"
    /\ j.clr = "SendAck" => Settled(ct, j.tx)
    /\ j.clr = "ReplyAck" => Delivered(ct, j.tx)

AcksSettled ==
    /\ \A m \in Maps, t \in Tx : /\ AckHash(pool, m, t, mem[m][t].cross.hash)
                                 /\ AckHash(pool, m, t, db[m][t].cross.hash)
    /\ \A p \in Threads : /\ AckHash(pool, th[p].op, th[p].tx, th[p].cross.hash)
                          /\ th[p].pc = "submit" => th[p].cross.hash = NoHash
                          /\ Clears(crossTxInfo, th[p])
    /\ \A l \in Layers, h \in Hash : AckExecuted(crossTxInfo, l, pool[l][h])

\* The stage after SendTx, and the stage after StartTx, is in the store or
\* needed no more.
AckKept(ct, store, t) == store["SendAck"][t].saved \/ Settled(ct, t)
SendKept(ct, store, t) == store["SendTx"][t].saved \/ AckKept(ct, store, t)

\* the job has handed over what it clears
HandedOn(ct, store, j) ==
    /\ j.clr = "StartTx" => SendKept(ct, store, j.tx)
    /\ j.clr = "SendTx" => AckKept(ct, store, j.tx)

\* between the write of the database that saves and the one that clears
DbHandedOn ==
    \A p \in Threads : th[p].pc \in {"emplace", "delete"} => HandedOn(crossTxInfo, db, th[p])

\* between the update of the map that saves and the one that clears
MapsHandedOn ==
    \A p \in Threads : th[p].pc \in {"delete", "erase"} => HandedOn(crossTxInfo, mem, th[p])

\* thread p is about to save the SendTx of t it has submitted
Saving(p, t) == th[p].pc \in {"put", "emplace"} /\ th[p].op = "SendTx" /\ th[p].tx = t

\* a SendTx of t waits in the pool of its destination
SendPending(pl, t) ==
    \E h \in Hash : LET c == pl[Dst(t)][h] IN c.st = "pending" /\ c.fn = "SendTx" /\ c.tx = t

\* From the moment a SendTx is in the pool its transfer is remembered.
SentIsRemembered ==
    \A t \in Tx : SendPending(pool, t) \/ DestInfo(t).exists =>
        SendKept(crossTxInfo, mem, t) \/ \E p \in Threads : Saving(p, t)

\* The inductive invariants of the proofs: for every fault, without faults of
\* the database, and for an agent that neither stops nor loses an answer.
ClearInv == SafetyInv /\ AcksSettled
DatabaseInv == ClearInv /\ DbHandedOn
MemoryInv == ClearInv /\ up /\ MapsHandedOn /\ SentIsRemembered

-----------------------------------------------------------------------------
(* What lasts.                                                             *)

\* A status other than INIT is final: no step of a contract changes it.
LEMMA StatusFinal ==
    ASSUME SafetyInv, [Next]_vars
    PROVE  \A l \in Layers, t \in Tx :
              crossTxInfo[l][t].status # INIT =>
                  crossTxInfo'[l][t].status = crossTxInfo[l][t].status
<1> SUFFICES ASSUME NEW l \in Layers, NEW t \in Tx, crossTxInfo[l][t].status # INIT
             PROVE  crossTxInfo'[l][t].status = crossTxInfo[l][t].status
  OBVIOUS
<1>1. /\ crossTxInfo \in [Layers -> [Tx -> CrossTxInfo]]
      /\ crossTxInfo[l][t].exists
  BY DEF SafetyInv, TypeOK, ChainTypeOK, ContractsAgree, AccountOk, EmptyInfo
<1>2. ASSUME NEW u \in Tx, NEW n \in 1..MaxDup, StartTx(u, n)
      PROVE  crossTxInfo'[l][t] = crossTxInfo[l][t]
  BY <1>1, <1>2, LayersOfTransfer DEF StartTx
<1>3. ASSUME NEW k \in Layers, NEW u \in Tx, Refund(k, u)
      PROVE  crossTxInfo'[l][t].status = crossTxInfo[l][t].status
  <2>1. \A i \in CrossTxInfo : [i EXCEPT !.refunded = "REFUNDED"].status = i.status
    BY DEF CrossTxInfo
  <2> QED
    BY <1>1, <1>3, <2>1 DEF Refund
<1>4. ASSUME NEW k \in Layers, NEW h \in Hash, Execute(k, h) \/ Drop(k, h)
      PROVE  crossTxInfo'[l][t] = crossTxInfo[l][t]
  <2>1. PICK u \in Tx : pool[k][h].tx = u
    BY PoolTxOfTransfer
  <2>2. CASE ExecuteSendTx(k, h)
    BY <1>1, <2>1, <2>2 DEF ExecuteSendTx, SendTxRequire
  <2>3. CASE ExecuteSendAckedTx(k, h)
    BY <1>1, <2>1, <2>3 DEF ExecuteSendAckedTx, SendAckedTxRequire
  <2> QED
    BY <1>4, <2>2, <2>3 DEF Execute, Revert, Drop
<1>5. CASE AgentNext \/ UNCHANGED vars
  BY <1>5, AgentLeavesContracts DEF vars, chainVars
<1> QED
  BY <1>2, <1>3, <1>4, <1>5 DEF Next, ChainNext, Tick, Submit

\* So a stage that is settled stays settled.
LEMMA SettledLasts ==
    ASSUME SafetyInv, [Next]_vars, NEW t \in Tx
    PROVE  /\ Settled(crossTxInfo, t) => Settled(crossTxInfo', t)
           /\ Delivered(crossTxInfo, t) => Delivered(crossTxInfo', t)
BY StatusFinal, LayersOfTransfer DEF Settled, Delivered, INIT, ACK_SUCCESS

-----------------------------------------------------------------------------
(* How a thread takes up a job.                                            *)

\* A job that a handler or a sweep starts, or a thread that rests.
FreshJob(j) ==
    /\ j.pc \in {"idle", "submit", "put", "delete"}
    /\ j.cross.hash = NoHash
    /\ j.pc = "put" => j.op = "StartTx"
    /\ j.pc = "delete" => j.clr \in {"SendAck", "ReplyAck"}
    /\ Clears(crossTxInfo, j)

\* thread p, which was idle, takes up a fresh job
Starts(p) ==
    /\ th[p].pc = "idle"
    /\ \E j \in Job : th' = [th EXCEPT ![p] = j] /\ FreshJob(j)
    /\ UNCHANGED <<crossTxInfo, pool, mem, db, up>>

\* Run starts a fresh job.
LEMMA RunFresh ==
    ASSUME TypeOK, NEW p \in Threads, NEW pc \in {"submit", "put", "delete"}, NEW op \in Maps,
           NEW t \in Tx, NEW cross \in CrossTx, NEW clr \in Maps \cup {"none"},
           NEW todo \in SUBSET Tx, Run(p, pc, op, t, cross, clr, todo),
           cross.hash = NoHash,
           pc = "put" => op = "StartTx",
           pc = "delete" => clr \in {"SendAck", "ReplyAck"},
           clr = "StartTx" => op \in {"SendTx", "SendAck"},
           clr = "SendTx" => op = "SendAck",
           clr = "SendAck" => Settled(crossTxInfo, t),
           clr = "ReplyAck" => Delivered(crossTxInfo, t)
    PROVE  \E j \in Job : th' = [th EXCEPT ![p] = j] /\ FreshJob(j)
<1> DEFINE j == [pc |-> pc, op |-> op, tx |-> t, cross |-> cross, clr |-> clr,
                 loop |-> th[p].loop, obj |-> th[p].obj, todo |-> todo]
<1>1. th[p] \in Job
  BY DEF TypeOK
<1>2. j \in Job
  BY <1>1 DEF Job
<1>3. FreshJob(j)
  BY DEF FreshJob, Clears
<1>4. th' = [th EXCEPT ![p] = j]
  BY DEF Run
<1> QED
  BY <1>2, <1>3, <1>4

\* A thread at rest, in a loop or not, has nothing to clear.
LEMMA RestFresh ==
    ASSUME TypeOK, NEW p \in Threads
    PROVE  /\ \A todo \in SUBSET th[p].todo :
                  Resting(th[p], todo) \in Job /\ FreshJob(Resting(th[p], todo))
           /\ \A o \in Layers, m \in Maps, items \in SUBSET Tx :
                  /\ [Idle EXCEPT !.loop = m, !.obj = o, !.todo = items] \in Job
                  /\ FreshJob([Idle EXCEPT !.loop = m, !.obj = o, !.todo = items])
           /\ Idle \in Job /\ FreshJob(Idle)
<1>1. th[p] \in Job /\ Idle \in Job
  BY DefaultTypes DEF TypeOK
<1>2. \A m, o, items : LET j == [Idle EXCEPT !.loop = m, !.obj = o, !.todo = items]
                       IN  j.pc = "idle" /\ j.cross.hash = NoHash /\ j.clr = "none"
  BY DEF Idle, NoCrossTx
<1>3. Idle.pc = "idle" /\ Idle.cross.hash = NoHash /\ Idle.clr = "none"
  BY DEF Idle, NoCrossTx
<1>4. \A o \in Layers, m \in Maps, items \in SUBSET Tx :
          /\ [Idle EXCEPT !.loop = m, !.obj = o, !.todo = items] \in Job
          /\ FreshJob([Idle EXCEPT !.loop = m, !.obj = o, !.todo = items])
  <2> SUFFICES ASSUME NEW o \in Layers, NEW m \in Maps, NEW items \in SUBSET Tx
               PROVE  /\ [Idle EXCEPT !.loop = m, !.obj = o, !.todo = items] \in Job
                      /\ FreshJob([Idle EXCEPT !.loop = m, !.obj = o, !.todo = items])
    OBVIOUS
  <2>1. [Idle EXCEPT !.loop = m, !.obj = o, !.todo = items] \in Job
    BY LoopTypes
  <2> QED
    BY <1>2, <2>1 DEF FreshJob, Clears
<1>5. ASSUME NEW todo \in SUBSET th[p].todo
      PROVE  Resting(th[p], todo) \in Job /\ FreshJob(Resting(th[p], todo))
  <2>1. Resting(th[p], todo) \in Job
    BY <1>1 DEF Resting, Job
  <2> QED
    BY <1>2, <1>3, <2>1 DEF Resting, FreshJob, Clears
<1> QED
  BY <1>1, <1>3, <1>4, <1>5 DEF FreshJob, Clears

\* What the agent reads from a contract has no hash.
LEMMA ReadHash ==
    ASSUME TypeOK, NEW t \in Tx
    PROVE  /\ \A l \in Layers : /\ MakeCrossTx(l, t) \in CrossTx
                                /\ MakeCrossTx(l, t).hash = NoHash
           /\ \A cross \in CrossTx, st \in TxStatusEnum :
                  /\ [cross EXCEPT !.status = st] \in CrossTx
                  /\ [cross EXCEPT !.status = st].hash = cross.hash
                  /\ [cross EXCEPT !.status = st, !.hash = NoHash] \in CrossTx
                  /\ [cross EXCEPT !.status = st, !.hash = NoHash].hash = NoHash
                  /\ [cross EXCEPT !.hash = NoHash] \in CrossTx
                  /\ [cross EXCEPT !.hash = NoHash].hash = NoHash
           /\ \A cross \in CrossTx : \A s \in Nat :
                  /\ [cross EXCEPT !.confirmSeq = s] \in CrossTx
                  /\ [cross EXCEPT !.confirmSeq = s].hash = cross.hash
<1>1. \A l \in Layers : MakeCrossTx(l, t) \in CrossTx
  BY CrossTypes
<1>2. \A l \in Layers : MakeCrossTx(l, t).hash = NoHash
  BY DEF MakeCrossTx, NoCrossTx
<1>3. \A cross \in CrossTx, st \in TxStatusEnum :
          /\ [cross EXCEPT !.status = st].hash = cross.hash
          /\ [cross EXCEPT !.status = st, !.hash = NoHash].hash = NoHash
          /\ [cross EXCEPT !.hash = NoHash].hash = NoHash
  BY DEF CrossTx
<1>4. \A cross \in CrossTx, s \in Nat : [cross EXCEPT !.confirmSeq = s].hash = cross.hash
  BY DEF CrossTx
<1> QED
  BY <1>1, <1>2, <1>3, <1>4, CrossTypes

\* The answer that an acknowledgement was executed means that it has settled
\* its transfer, on the layer it went to.
LEMMA ResultMeansSettled ==
    ASSUME ClearInv, NEW t \in Tx
    PROVE  /\ TRUE \in GetTxResult(Src(t), mem["SendAck"][t].cross.hash) =>
                  Settled(crossTxInfo, t)
           /\ TRUE \in GetTxResult(Dst(t), mem["ReplyAck"][t].cross.hash) =>
                  Delivered(crossTxInfo, t)
<1>1. ASSUME NEW m \in {"SendAck", "ReplyAck"}, NEW l \in Layers, l = Target(m, t),
             TRUE \in GetTxResult(l, mem[m][t].cross.hash)
      PROVE  \/ l = Src(t) /\ Settled(crossTxInfo, t)
             \/ l = Dst(t) /\ Delivered(crossTxInfo, t)
  <2> DEFINE h == mem[m][t].cross.hash
  <2>1. m \in Maps
    BY DEF Maps
  <2>2. h # NoHash /\ pool[l][h].st = "ok"
    BY <1>1 DEF GetTxResult
  <2>3. h \in Hash
    BY <2>1, <2>2, CrossTypes DEF ClearInv, SafetyInv, CrossTx
  <2>4. AckHash(pool, m, t, h) /\ AckExecuted(crossTxInfo, l, pool[l][h])
    BY <2>1, <2>3 DEF ClearInv, AcksSettled
  <2> QED
    BY <1>1, <2>2, <2>4 DEF AckHash, AckExecuted
<1>2. Src(t) \in Layers /\ Dst(t) \in Layers /\ Src(t) # Dst(t)
  BY LayersOfTransfer
<1>3. Target("SendAck", t) = Src(t) /\ Target("ReplyAck", t) = Dst(t)
  BY DEF Target
<1> QED
  BY <1>1, <1>2, <1>3

\* So does a status other than INIT.
LEMMA StatusMeansSettled ==
    ASSUME ClearInv, NEW t \in Tx, NEW l \in Layers, NEW st \in GetCrossTxStatus(l, t), st # INIT
    PROVE  /\ l = Src(t) => Settled(crossTxInfo, t)
           /\ l = Dst(t) => Delivered(crossTxInfo, t)
<1>1. st = crossTxInfo[l][t].status
  BY DEF GetCrossTxStatus
<1>2. PairOk(t)
  BY DEF ClearInv, SafetyInv, ContractsAgree
<1> QED
  BY <1>1, <1>2 DEF Settled, Delivered, PairOk, DestInfo

\* Each item of a sweep of the timer starts a fresh job.
LEMMA SweepStarts ==
    ASSUME ClearInv, NEW t \in Tx,
           \/ t \in Tx1 /\ \/ SendTxToLayer2TimeOut(t) \/ SendAckToLayer1TimeOut(t)
                           \/ ReplyAckToLayer2TimeOut(t)
           \/ t \in Tx2 /\ \/ StartTxTimeOut(t) \/ SendTxToLayer1TimeOut(t)
                           \/ SendAckToLayer2TimeOut(t) \/ ReplyAckToLayer1TimeOut(t)
    PROVE  \E j \in Job : th' = [th EXCEPT !["timer"] = j] /\ FreshJob(j)
<1> DEFINE p == "timer"
           rest == Rest(p, t)
           crossOf(m) == mem[m][t].cross
           fresh == \E j \in Job : th' = [th EXCEPT ![p] = j] /\ FreshJob(j)
<1> SUFFICES fresh
  OBVIOUS
<1>1. /\ p \in Threads /\ th[p] \in Job
      /\ {"StartTx", "SendTx", "SendAck", "ReplyAck"} = Maps
      /\ TypeOK
      /\ {ACK_SUCCESS, ACK_FAIL, ACK_TIMEOUT} \subseteq TxStatusEnum
  BY DEF Threads, Maps, ClearInv, SafetyInv, TypeOK, TxStatusEnum
<1>2. rest \in SUBSET th[p].todo /\ rest \in SUBSET Tx
  BY <1>1 DEF Rest, Job
<1>3. /\ \A m \in Maps : crossOf(m) \in CrossTx
      /\ NoCrossTx \in CrossTx /\ NoCrossTx.hash = NoHash
  BY <1>1, CrossTypes, DefaultTypes DEF NoCrossTx
<1>4. crossOf("StartTx").hash = NoHash
  BY <1>1 DEF ClearInv, AcksSettled, AckHash
<1> HIDE DEF rest, crossOf
<1>5. ASSUME Done(p, rest)
      PROVE  fresh
  BY <1>1, <1>2, <1>5, RestFresh DEF Done
<1>6. ASSUME NEW op \in {"SendAck", "ReplyAck"}, NEW cross \in CrossTx, cross.hash = NoHash,
             NEW clr \in {"none", "StartTx", "SendTx"},
             clr # "none" => op = "SendAck",
             Run(p, "submit", op, t, cross, clr, rest)
      PROVE  fresh
  <2>1. op \in Maps /\ clr \in Maps \cup {"none"} /\ clr \notin {"SendAck", "ReplyAck"}
    BY <1>1
  <2> QED
    BY <1>1, <1>2, <1>6, <2>1, RunFresh
<1>7. ASSUME NEW op \in {"SendAck", "ReplyAck"},
             op = "SendAck" => Settled(crossTxInfo, t),
             op = "ReplyAck" => Delivered(crossTxInfo, t),
             Run(p, "delete", op, t, NoCrossTx, op, rest)
      PROVE  fresh
  <2>1. op \in Maps /\ op \in Maps \cup {"none"} /\ op \notin {"StartTx", "SendTx"}
    BY <1>1
  <2> QED
    BY <1>1, <1>2, <1>3, <1>7, <2>1, RunFresh
<1>8. ASSUME NEW l \in Layers, NEW m \in {"StartTx", "SendTx"},
             \/ Run(p, "submit", "SendAck", t, [MakeCrossTx(l, t) EXCEPT !.status = ACK_SUCCESS],
                    m, rest)
             \/ m = "StartTx" /\ Run(p, "submit", "SendAck", t,
                                     [crossOf(m) EXCEPT !.status = ACK_FAIL], m, rest)
             \/ Run(p, "submit", "SendAck", t,
                    [crossOf(m) EXCEPT !.status = ACK_TIMEOUT, !.hash = NoHash], m, rest)
      PROVE  fresh
  <2> DEFINE c1 == [MakeCrossTx(l, t) EXCEPT !.status = ACK_SUCCESS]
             c2 == [crossOf(m) EXCEPT !.status = ACK_FAIL]
             c3 == [crossOf(m) EXCEPT !.status = ACK_TIMEOUT, !.hash = NoHash]
  <2>1. /\ c1 \in CrossTx /\ c1.hash = NoHash
        /\ c2 \in CrossTx /\ (m = "StartTx" => c2.hash = NoHash)
        /\ c3 \in CrossTx /\ c3.hash = NoHash
    <3>1. PICK x \in CrossTx : x = MakeCrossTx(l, t) /\ x.hash = NoHash
      BY <1>1, ReadHash
    <3>2. PICK y \in CrossTx : y = crossOf(m) /\ (m = "StartTx" => y.hash = NoHash)
      BY <1>1, <1>3, <1>4
    <3> QED
      BY <1>1, <3>1, <3>2, ReadHash
  <2> HIDE DEF c1, c2, c3, fresh
  <2>2. \/ Run(p, "submit", "SendAck", t, c1, m, rest)
        \/ m = "StartTx" /\ Run(p, "submit", "SendAck", t, c2, m, rest)
        \/ Run(p, "submit", "SendAck", t, c3, m, rest)
    BY <1>8 DEF c1, c2, c3
  <2> QED
    BY <1>6, <2>1, <2>2
<1>9. ASSUME NEW op \in {"SendAck", "ReplyAck"},
             Run(p, "submit", op, t, [crossOf(op) EXCEPT !.hash = NoHash], "none", rest)
      PROVE  fresh
  <2> DEFINE c == [crossOf(op) EXCEPT !.hash = NoHash]
  <2>1. c \in CrossTx /\ c.hash = NoHash
    BY <1>1, <1>3, ReadHash
  <2> HIDE DEF c, fresh
  <2>2. Run(p, "submit", op, t, c, "none", rest)
    BY <1>9 DEF c
  <2> QED
    BY <1>6, <2>1, <2>2
<1> HIDE DEF fresh
<1>10. ASSUME t \in Tx1
       PROVE  Src(t) = "L1" /\ Dst(t) = "L2" /\ "L1" \in Layers /\ "L2" \in Layers
  BY <1>10 DEF Tx1, Src, Dst, Other, Layers
<1>11. ASSUME t \in Tx2
       PROVE  Src(t) = "L2" /\ Dst(t) = "L1" /\ "L1" \in Layers /\ "L2" \in Layers
  BY <1>11 DEF Tx2, Src, Dst, Other, Layers
<1>12. ASSUME NEW ok \in GetTxResult(Src(t), crossOf("SendAck").hash),
              NEW st \in GetCrossTxStatus(Src(t), t), ok \/ st # INIT
       PROVE  Settled(crossTxInfo, t)
  BY <1>12, LayersOfTransfer, ResultMeansSettled, StatusMeansSettled DEF GetTxResult, crossOf
<1>13. ASSUME NEW ok \in GetTxResult(Dst(t), crossOf("ReplyAck").hash),
              NEW st \in GetCrossTxStatus(Dst(t), t), ok \/ st # INIT
       PROVE  Delivered(crossTxInfo, t)
  BY <1>13, LayersOfTransfer, ResultMeansSettled, StatusMeansSettled DEF GetTxResult, crossOf
<1>14. CASE t \in Tx1 /\ SendTxToLayer2TimeOut(t)
  BY <1>5, <1>8, <1>10, <1>14 DEF SendTxToLayer2TimeOut, L1AckSuccess, rest, crossOf
<1>15. CASE t \in Tx1 /\ SendAckToLayer1TimeOut(t)
  BY <1>7, <1>9, <1>10, <1>12, <1>15 DEF SendAckToLayer1TimeOut, rest, crossOf
<1>16. CASE t \in Tx1 /\ ReplyAckToLayer2TimeOut(t)
  BY <1>7, <1>9, <1>10, <1>13, <1>16 DEF ReplyAckToLayer2TimeOut, rest, crossOf
<1>17. CASE t \in Tx2 /\ StartTxTimeOut(t)
  BY <1>8, <1>11, <1>17 DEF StartTxTimeOut, rest, crossOf
<1>18. CASE t \in Tx2 /\ SendTxToLayer1TimeOut(t)
  BY <1>5, <1>8, <1>11, <1>18 DEF SendTxToLayer1TimeOut, L2AckSuccess, rest, crossOf
<1>19. CASE t \in Tx2 /\ SendAckToLayer2TimeOut(t)
  BY <1>7, <1>9, <1>11, <1>12, <1>19 DEF SendAckToLayer2TimeOut, rest, crossOf
<1>20. CASE t \in Tx2 /\ ReplyAckToLayer1TimeOut(t)
  BY <1>7, <1>9, <1>11, <1>13, <1>20 DEF ReplyAckToLayer1TimeOut, rest, crossOf
<1> QED
  BY <1>14, <1>15, <1>16, <1>17, <1>18, <1>19, <1>20

\* The timer thread starts fresh jobs.
LEMMA TimerStarts ==
    ASSUME ClearInv, L1TimerStep \/ L2TimerStep
    PROVE  Starts("timer")
<1>1. /\ "timer" \in Threads /\ TypeOK
      /\ {"StartTx", "SendTx", "SendAck", "ReplyAck"} = Maps
      /\ {"L1", "L2"} = Layers
      /\ Tx1 \subseteq Tx /\ Tx2 \subseteq Tx
  BY DEF Threads, Maps, Layers, Tx1, Tx2, ClearInv, SafetyInv
<1>2. ASSUME NEW o \in Layers, NEW m \in Maps, NEW items \in SUBSET Tx,
             EnterLoop("timer", o, m, items)
      PROVE  \E j \in Job : th' = [th EXCEPT !["timer"] = j] /\ FreshJob(j)
  BY <1>1, <1>2, RestFresh DEF EnterLoop
<1>3. UNCHANGED <<crossTxInfo, pool, mem, db, up>> /\ th["timer"].pc = "idle"
  BY DEF L1TimerStep, L2TimerStep, L1OnTimer, L2OnTimer, EnterLoop, SendTxToLayer2TimeOut,
         SendAckToLayer1TimeOut, ReplyAckToLayer2TimeOut, StartTxTimeOut, SendTxToLayer1TimeOut,
         SendAckToLayer2TimeOut, ReplyAckToLayer1TimeOut, chainVars, Item, Ready
<1>4. \E j \in Job : th' = [th EXCEPT !["timer"] = j] /\ FreshJob(j)
  <2>1. CASE L1OnTimer
    BY <1>1, <1>2, <2>1 DEF L1OnTimer
  <2>2. CASE L2OnTimer
    BY <1>1, <1>2, <2>2 DEF L2OnTimer
  <2> QED
    BY <1>1, <2>1, <2>2, SweepStarts DEF L1TimerStep, L2TimerStep
<1> QED
  BY <1>3, <1>4 DEF Starts

\* A thread that drops what it was about to do rests or stays as it was.
LEMMA IdleFresh ==
    ASSUME ClearInv, NEW p \in Threads, th[p].pc = "idle",
           UNCHANGED th \/ Done(p, {}),
           UNCHANGED <<crossTxInfo, pool, mem, db, up>>
    PROVE  Starts(p) \/ UNCHANGED th
<1>1. TypeOK
  BY DEF ClearInv, SafetyInv
<1> QED
  BY <1>1, RestFresh DEF Done, Starts

\* The handlers of events start fresh jobs.
LEMMA EventStarts ==
    ASSUME ClearInv, NEW t \in Tx, OnLayer1CrossContractTlog(t) \/ OnLayer2SubscribeResponse(t)
    PROVE  /\ UNCHANGED <<crossTxInfo, pool, mem, db, up>>
           /\ UNCHANGED th \/ \E p \in Threads : Starts(p)
<1> DEFINE same == UNCHANGED <<crossTxInfo, pool, mem, db, up>>
           starts == UNCHANGED th \/ \E p \in Threads : Starts(p)
<1>1. /\ {"StartTx", "SendTx", "SendAck", "ReplyAck"} = Maps
      /\ {"L1", "L2"} = Layers /\ Layers \subseteq Threads
      /\ SafetyInv /\ TypeOK /\ now \in Nat
      /\ ACK_SUCCESS \in TxStatusEnum
  BY DEF Maps, Layers, Threads, ClearInv, SafetyInv, TypeOK, ChainTypeOK, TxStatusEnum
<1>2. same
  BY DEF OnLayer1CrossContractTlog, OnLayer2SubscribeResponse, Deliver, L1HandleStartTxEvent,
         L2HandleStartTxEvent, L1HandleSendTxEvent, L2HandleSendTxEvent,
         L1HandleSendAckdTxEvent, L2HandleSendAckdTxEvent
<1>3. ASSUME NEW l \in Layers, NEW topic, Deliver(l, topic, t)
      PROVE  th[l].pc = "idle"
  BY <1>3 DEF Deliver, Ready
<1>4. ASSUME NEW l \in Layers, NEW topic, Deliver(l, topic, t), UNCHANGED th \/ Done(l, {})
      PROVE  starts
  BY <1>1, <1>2, <1>3, <1>4, IdleFresh
<1>5. ASSUME NEW l \in Layers, NEW topic, Deliver(l, topic, t),
             NEW pc \in {"submit", "put"}, NEW op \in Maps, NEW cross \in CrossTx,
             NEW clr \in {"none", "SendTx", "SendAck"}, cross.hash = NoHash,
             pc = "put" => op = "StartTx",
             clr = "SendTx" => op = "SendAck", clr = "SendAck" => Settled(crossTxInfo, t),
             Run(l, pc, op, t, cross, clr, {})
      PROVE  starts
  <2>1. clr \in Maps \cup {"none"} /\ clr \notin {"StartTx", "ReplyAck"} /\ l \in Threads
        /\ pc \in {"submit", "put", "delete"} /\ pc # "delete" /\ {} \in SUBSET Tx
    BY <1>1
  <2>2. \E j \in Job : th' = [th EXCEPT ![l] = j] /\ FreshJob(j)
    BY <1>1, <1>5, <2>1, RunFresh
  <2> QED
    BY <1>2, <1>3, <1>5, <2>1, <2>2 DEF Starts
<1>6. \A l \in Layers : MakeCrossTx(l, t) \in CrossTx /\ MakeCrossTx(l, t).hash = NoHash
  BY <1>1, ReadHash
<1>7. ASSUME NEW l \in Layers, Deliver(l, "SendTx", t),
             Run(l, "submit", "SendAck", t, [MakeCrossTx(l, t) EXCEPT !.status = ACK_SUCCESS],
                 "SendTx", {})
      PROVE  starts
  <2> DEFINE c == [MakeCrossTx(l, t) EXCEPT !.status = ACK_SUCCESS]
  <2>1. c \in CrossTx /\ c.hash = NoHash
    BY <1>1, <1>6, ReadHash
  <2> HIDE DEF c, starts
  <2>2. Run(l, "submit", "SendAck", t, c, "SendTx", {})
    BY <1>7 DEF c
  <2> QED
    BY <1>1, <1>5, <1>7, <2>1, <2>2
<1>8. ASSUME Deliver("L2", "StartTx", t),
             Run("L2", "put", "StartTx", t, [MakeCrossTx("L2", t) EXCEPT !.confirmSeq = now],
                 "none", {})
      PROVE  starts
  <2> DEFINE c == [MakeCrossTx("L2", t) EXCEPT !.confirmSeq = now]
  <2>1. c \in CrossTx /\ c.hash = NoHash
    BY <1>1, <1>6, ReadHash
  <2> HIDE DEF c, starts
  <2>2. Run("L2", "put", "StartTx", t, c, "none", {})
    BY <1>8 DEF c
  <2> QED
    BY <1>1, <1>5, <1>8, <2>1, <2>2
<1>9. ASSUME NEW l \in Layers, Deliver(l, "SendAckedTx", t),
             Run(l, "submit", "ReplyAck", t, MakeCrossTx(l, t), "SendAck", {})
      PROVE  starts
  <2>1. Settled(crossTxInfo, t)
    BY <1>1, <1>9, DeliveredOk DEF Settled, OriginInfo, INIT, ACK_SUCCESS
  <2> HIDE DEF starts
  <2> QED
    BY <1>1, <1>5, <1>6, <1>9, <2>1
<1>10. ASSUME NEW l \in Layers, Deliver(l, "StartTx", t),
              Run(l, "submit", "SendTx", t, MakeCrossTx(l, t), "none", {})
       PROVE  starts
  <2> HIDE DEF starts
  <2> QED
    BY <1>1, <1>5, <1>6, <1>10
<1> HIDE DEF starts
<1>11. ASSUME Deliver("L1", "StartTx", t), L1HandleStartTxEvent(t)
       PROVE  starts
  BY <1>1, <1>4, <1>10, <1>11 DEF L1HandleStartTxEvent
<1>12. ASSUME Deliver("L2", "StartTx", t), L2HandleStartTxEvent(t)
       PROVE  starts
  BY <1>1, <1>4, <1>8, <1>12 DEF L2HandleStartTxEvent
<1>13. ASSUME Deliver("L1", "SendTx", t), L2HandleSendTxEvent(t)
       PROVE  starts
  BY <1>1, <1>4, <1>7, <1>13 DEF L2HandleSendTxEvent, L2AckSuccess
<1>14. ASSUME Deliver("L2", "SendTx", t), L1HandleSendTxEvent(t)
       PROVE  starts
  BY <1>1, <1>4, <1>7, <1>14 DEF L1HandleSendTxEvent, L1AckSuccess
<1>15. ASSUME Deliver("L1", "SendAckedTx", t), L1HandleSendAckdTxEvent(t)
       PROVE  starts
  BY <1>1, <1>4, <1>9, <1>15 DEF L1HandleSendAckdTxEvent
<1>16. ASSUME Deliver("L2", "SendAckedTx", t), L2HandleSendAckdTxEvent(t)
       PROVE  starts
  BY <1>1, <1>4, <1>9, <1>16 DEF L2HandleSendAckdTxEvent
<1>17. starts
  BY <1>11, <1>12, <1>13, <1>14, <1>15, <1>16
  DEF OnLayer1CrossContractTlog, OnLayer2SubscribeResponse
<1> QED
  BY <1>2, <1>17 DEF starts

\* So does a confirmed layer-2 ledger.
LEMMA ConfirmStarts ==
    ASSUME ClearInv, OnLayer1ManagerContractTlog \/ (\E t \in Tx : ConfirmedTx(t))
    PROVE  /\ UNCHANGED <<crossTxInfo, pool, mem, db, up>>
           /\ UNCHANGED th \/ Starts("L1")
<1>1. /\ "L1" \in Threads /\ "L2" \in Layers /\ th["L1"] \in Job
      /\ {"StartTx", "SendTx", "SendAck", "ReplyAck"} = Maps
      /\ TypeOK
      /\ ACK_TIMEOUT \in TxStatusEnum
  BY DEF Threads, Layers, Maps, ClearInv, SafetyInv, TypeOK, TxStatusEnum
<1>2. UNCHANGED <<crossTxInfo, pool, mem, db, up>> /\ th["L1"].pc = "idle"
  BY DEF OnLayer1ManagerContractTlog, HandleConfirmSeqEvent, ConfirmedTx, Ready, Item, chainVars
<1>3. CASE OnLayer1ManagerContractTlog
  <2>1. PICK seq : HandleConfirmSeqEvent(seq)
    BY <1>3 DEF OnLayer1ManagerContractTlog
  <2> DEFINE items == {t \in Tx2 : /\ mem["StartTx"][t].saved
                                   /\ mem["StartTx"][t].cross.confirmSeq <= seq}
             j == [Idle EXCEPT !.loop = "StartTx", !.obj = "L2", !.todo = items]
  <2>2. j \in Job /\ FreshJob(j)
    <3>1. items \in SUBSET Tx
      BY DEF Tx2
    <3> HIDE DEF items
    <3> QED
      BY <1>1, <3>1, RestFresh
  <2>3. UNCHANGED th \/ th' = [th EXCEPT !["L1"] = j]
    BY <2>1 DEF HandleConfirmSeqEvent
  <2> HIDE DEF j
  <2> QED
    BY <1>2, <2>2, <2>3 DEF Starts
<1>4. ASSUME NEW t \in Tx, ConfirmedTx(t)
      PROVE  Starts("L1")
  <2> DEFINE c == [mem["StartTx"][t].cross EXCEPT !.hash = NoHash]
             late == [c EXCEPT !.status = ACK_TIMEOUT]
  <2>1. c \in CrossTx /\ c.hash = NoHash
    BY <1>1, CrossTypes, ReadHash
  <2>2. late \in CrossTx /\ late.hash = NoHash
    BY <1>1, <2>1, ReadHash
  <2>3. Rest("L1", t) \in SUBSET Tx
    BY <1>1 DEF Rest, Job
  <2>4. \/ Run("L1", "submit", "SendAck", t, late, "none", Rest("L1", t))
        \/ Run("L1", "submit", "SendTx", t, c, "StartTx", Rest("L1", t))
    BY <1>4 DEF ConfirmedTx
  <2> HIDE DEF c, late
  <2>5. \E j \in Job : th' = [th EXCEPT !["L1"] = j] /\ FreshJob(j)
    <3>1. CASE Run("L1", "submit", "SendAck", t, late, "none", Rest("L1", t))
      <4>1. \A clr \in Maps \cup {"none"}, op \in Maps, pc \in {"submit", "put", "delete"} :
               Run("L1", pc, op, t, late, clr, Rest("L1", t)) /\ clr = "none" /\ pc = "submit" =>
                   \E j \in Job : th' = [th EXCEPT !["L1"] = j] /\ FreshJob(j)
        BY <1>1, <2>2, <2>3, RunFresh
      <4>2. "SendAck" \in Maps /\ "none" \in Maps \cup {"none"}
        BY <1>1
      <4> QED
        BY <3>1, <4>1, <4>2
    <3>2. CASE Run("L1", "submit", "SendTx", t, c, "StartTx", Rest("L1", t))
      BY <1>1, <2>1, <2>3, <3>2, RunFresh
    <3> QED
      BY <2>4, <3>1, <3>2
  <2> QED
    BY <1>2, <2>5 DEF Starts
<1> QED
  BY <1>2, <1>3, <1>4

-----------------------------------------------------------------------------
(* The steps of the agent, as far as its memory is concerned.              *)

\* thread p goes on with its job at pc, or has no job any more
Goes(p, pc) ==
    /\ th'[p].pc = pc
    /\ th'[p].op = th[p].op /\ th'[p].tx = th[p].tx
    /\ th'[p].cross = th[p].cross /\ th'[p].clr = th[p].clr
Rests(p) == th'[p].pc = "idle" /\ th'[p].cross.hash = NoHash /\ th'[p].clr = "none"

\* Each of the four steps that save or clear touches one entry.
LEMMA SaveClearSteps ==
    ASSUME TypeOK, NEW p \in Threads, DBPut(p) \/ Emplace(p) \/ DBDelete(p) \/ Erase(p)
    PROVE  /\ UNCHANGED <<crossTxInfo, pool, up>>
           /\ \A q \in Threads \ {p} : th'[q] = th[q]
           /\ DBPut(p) =>
                  /\ th[p].pc = "put" /\ Goes(p, "emplace") /\ UNCHANGED mem
                  /\ \A m \in Maps, t \in Tx :
                         \/ db'[m][t] = db[m][t]
                         \/ /\ m = th[p].op /\ t = th[p].tx
                            /\ db'[m][t].saved /\ db'[m][t].cross = th[p].cross
                  /\ "database" \in Faults \/ db'[th[p].op][th[p].tx].saved
           /\ Emplace(p) =>
                  /\ th[p].pc = "emplace" /\ UNCHANGED db
                  /\ IF th[p].clr = "none" THEN Rests(p) ELSE Goes(p, "delete")
                  /\ \A m \in Maps, t \in Tx :
                         \/ mem'[m][t] = mem[m][t]
                         \/ /\ m = th[p].op /\ t = th[p].tx
                            /\ mem'[m][t].saved /\ mem'[m][t].cross = th[p].cross
                  /\ mem'[th[p].op][th[p].tx].saved
           /\ DBDelete(p) =>
                  /\ th[p].pc = "delete" /\ Goes(p, "erase") /\ UNCHANGED mem
                  /\ \A m \in Maps, t \in Tx :
                         \/ db'[m][t] = db[m][t]
                         \/ m = th[p].clr /\ t = th[p].tx /\ db'[m][t] = NoEntry
           /\ Erase(p) =>
                  /\ th[p].pc = "erase" /\ Rests(p) /\ UNCHANGED db
                  /\ \A m \in Maps, t \in Tx :
                         \/ mem'[m][t] = mem[m][t]
                         \/ m = th[p].clr /\ t = th[p].tx /\ mem'[m][t] = NoEntry
<1>1. PICK j \in Job : j = th[p]
  BY DEF TypeOK
<1>2. /\ th \in [Threads -> Job] /\ j.op \in Maps /\ j.tx \in Tx
      /\ db \in [Maps -> [Tx -> Entry]] /\ mem \in [Maps -> [Tx -> Entry]]
  BY <1>1 DEF TypeOK, Job
<1>3. \A pc : th' = [th EXCEPT ![p] = [th[p] EXCEPT !.pc = pc]] =>
                  Goes(p, pc) /\ \A q \in Threads \ {p} : th'[q] = th[q]
  <2>1. ASSUME NEW pc
        PROVE  LET i == [j EXCEPT !.pc = pc]
               IN  i.pc = pc /\ i.op = j.op /\ i.tx = j.tx /\ i.cross = j.cross /\ i.clr = j.clr
    BY DEF Job
  <2> QED
    BY <1>1, <1>2, <2>1 DEF Goes
<1>4. \A todo : Done(p, todo) => Rests(p) /\ \A q \in Threads \ {p} : th'[q] = th[q]
  <2>1. \A todo : /\ Resting(j, todo).pc = "idle" /\ Resting(j, todo).cross.hash = NoHash
                  /\ Resting(j, todo).clr = "none"
    BY DEF Resting, Idle, NoCrossTx
  <2> QED
    BY <1>1, <1>2, <2>1 DEF Done, Rests
<1>5. UNCHANGED <<crossTxInfo, pool, up>>
  BY DEF DBPut, Emplace, DBDelete, Erase, chainVars
<1>6. DBPut(p) =>
          /\ th[p].pc = "put" /\ Goes(p, "emplace") /\ UNCHANGED mem
          /\ \A q \in Threads \ {p} : th'[q] = th[q]
          /\ \A m \in Maps, t \in Tx :
                 \/ db'[m][t] = db[m][t]
                 \/ /\ m = th[p].op /\ t = th[p].tx
                    /\ db'[m][t].saved /\ db'[m][t].cross = th[p].cross
          /\ "database" \in Faults \/ db'[th[p].op][th[p].tx].saved
  <2>1. DBPut(p) => /\ th[p].pc = "put" /\ Goes(p, "emplace") /\ UNCHANGED mem
                    /\ \A q \in Threads \ {p} : th'[q] = th[q]
    BY <1>3 DEF DBPut
  <2>2. DBPut(p) => \/ "database" \in Faults /\ UNCHANGED db
                    \/ db' = [db EXCEPT ![j.op][j.tx] = [saved |-> TRUE, cross |-> j.cross]]
    BY <1>1 DEF DBPut, WriteFails
  <2> QED
    BY <1>1, <1>2, <2>1, <2>2
<1>7. Emplace(p) =>
          /\ th[p].pc = "emplace" /\ UNCHANGED db
          /\ IF th[p].clr = "none" THEN Rests(p) ELSE Goes(p, "delete")
          /\ \A q \in Threads \ {p} : th'[q] = th[q]
          /\ \A m \in Maps, t \in Tx :
                 \/ mem'[m][t] = mem[m][t]
                 \/ /\ m = th[p].op /\ t = th[p].tx
                    /\ mem'[m][t].saved /\ mem'[m][t].cross = th[p].cross
          /\ mem'[th[p].op][th[p].tx].saved
  <2>1. Emplace(p) => /\ th[p].pc = "emplace" /\ UNCHANGED db
                      /\ IF th[p].clr = "none" THEN Rests(p) ELSE Goes(p, "delete")
                      /\ \A q \in Threads \ {p} : th'[q] = th[q]
    BY <1>3, <1>4 DEF Emplace
  <2>2. Emplace(p) => mem' = IF mem[j.op][j.tx].saved THEN mem
                             ELSE [mem EXCEPT ![j.op][j.tx] = [saved |-> TRUE, cross |-> j.cross]]
    BY <1>1 DEF Emplace
  <2>3. Emplace(p) =>
            /\ \A m \in Maps, t \in Tx :
                   \/ mem'[m][t] = mem[m][t]
                   \/ /\ m = th[p].op /\ t = th[p].tx
                      /\ mem'[m][t].saved /\ mem'[m][t].cross = th[p].cross
            /\ mem'[th[p].op][th[p].tx].saved
    BY <1>1, <1>2, <2>2
  <2> QED
    BY <2>1, <2>3
<1>8. DBDelete(p) =>
          /\ th[p].pc = "delete" /\ Goes(p, "erase") /\ UNCHANGED mem
          /\ \A q \in Threads \ {p} : th'[q] = th[q]
          /\ \A m \in Maps, t \in Tx :
                 \/ db'[m][t] = db[m][t]
                 \/ m = th[p].clr /\ t = th[p].tx /\ db'[m][t] = NoEntry
  <2>1. DBDelete(p) => UNCHANGED db \/ db' = [db EXCEPT ![j.clr][j.tx] = NoEntry]
    BY <1>1 DEF DBDelete, WriteFails
  <2>2. DBDelete(p) => /\ th[p].pc = "delete" /\ Goes(p, "erase") /\ UNCHANGED mem
                       /\ \A q \in Threads \ {p} : th'[q] = th[q]
    BY <1>3 DEF DBDelete
  <2> QED
    BY <1>1, <1>2, <2>1, <2>2
<1>9. Erase(p) =>
          /\ th[p].pc = "erase" /\ Rests(p) /\ UNCHANGED db
          /\ \A q \in Threads \ {p} : th'[q] = th[q]
          /\ \A m \in Maps, t \in Tx :
                 \/ mem'[m][t] = mem[m][t]
                 \/ m = th[p].clr /\ t = th[p].tx /\ mem'[m][t] = NoEntry
  <2>1. Erase(p) => mem' = [mem EXCEPT ![j.clr][j.tx] = NoEntry]
    BY <1>1 DEF Erase
  <2>2. Erase(p) => /\ th[p].pc = "erase" /\ Rests(p) /\ UNCHANGED db
                    /\ \A q \in Threads \ {p} : th'[q] = th[q]
    BY <1>4 DEF Erase
  <2> QED
    BY <1>1, <1>2, <2>1, <2>2
<1> QED
  BY <1>5, <1>6, <1>7, <1>8, <1>9

\* thread p submits its transaction to layer l
Submits(p, l) ==
    /\ th[p].pc = "submit" /\ th[p].op # "StartTx" /\ Target(th[p].op, th[p].tx) = l
    /\ UNCHANGED <<chainButPool, up, mem, db>>
    /\ \/ Accepted(p, l)
       \/ Failed(p, l) /\ Done(p, th[p].todo)
       \/ /\ Failed(p, l)
          /\ Run(p, "submit", "SendAck", th[p].tx,
                 [th[p].cross EXCEPT !.status = ACK_FAIL], "none", th[p].todo)

\* Every step of the agent is one of these.
LEMMA AgentCases ==
    ASSUME ClearInv, AgentNext
    PROVE  \/ \E p \in Threads : DBPut(p) \/ Emplace(p) \/ DBDelete(p) \/ Erase(p)
           \/ \E p \in Threads, l \in Layers : Submits(p, l)
           \/ \E p \in Threads : Starts(p)
           \/ UNCHANGED <<crossTxInfo, pool, mem, db, th, up>>
           \/ Crash \/ Initialize
<1> DEFINE cases == \/ \E p \in Threads : DBPut(p) \/ Emplace(p) \/ DBDelete(p) \/ Erase(p)
                    \/ \E p \in Threads, l \in Layers : Submits(p, l)
                    \/ \E p \in Threads : Starts(p)
                    \/ UNCHANGED <<crossTxInfo, pool, mem, db, th, up>>
<1>1. SafetyInv /\ "timer" \in Threads /\ "L1" \in Threads /\ Layers \subseteq Threads
  BY DEF ClearInv, Threads, Layers
<1>2. ASSUME NEW p \in Threads, L1ThreadStep(p) \/ L2ThreadStep(p)
      PROVE  cases
  <2>1. CASE \/ SendTxToLayer2(p) \/ SendAckToLayer1(p) \/ ReplyAckToLayer2(p)
             \/ SendTxToLayer1(p) \/ SendAckToLayer2(p) \/ ReplyAckToLayer1(p)
    <3>1. \E l \in Layers : Submits(p, l)
      BY <1>1, <2>1, TransactionCases DEF Submits
    <3> QED
      BY <3>1
  <2> QED
    BY <1>2, <2>1
    DEF L1ThreadStep, L2ThreadStep, L1SaveInfo, L1ClearInfo, L2SaveInfo, L2ClearInfo
<1>3. ASSUME TimerThread
      PROVE  cases
  BY <1>1, <1>2, <1>3, TimerStarts DEF TimerThread
<1>4. ASSUME NEW l \in Layers, WebSocketThread(l)
      PROVE  cases
  <2>1. CASE \E t \in Tx : OnLayer1CrossContractTlog(t) \/ OnLayer2SubscribeResponse(t)
    BY <2>1, EventStarts
  <2>2. CASE OnLayer1ManagerContractTlog \/ \E t \in Tx : ConfirmedTx(t)
    BY <1>1, <2>2, ConfirmStarts
  <2> QED
    BY <1>1, <1>2, <1>4, <2>1, <2>2 DEF WebSocketThread
<1>5. ASSUME NEW l \in Layers, Disconnect(l) \/ Subscribe(l)
      PROVE  cases
  BY <1>5 DEF Disconnect, Subscribe, agentVars
<1> HIDE DEF cases
<1>6. cases \/ Crash \/ Initialize
  BY <1>3, <1>4, <1>5 DEF AgentNext
<1> QED
  BY <1>6 DEF cases

\* A transaction that is submitted gets a hash that nothing kept names; the
\* thread goes on to save it, or has no transaction.
LEMMA SubmitSteps ==
    ASSUME ClearInv, NEW p \in Threads, NEW l \in Layers, Submits(p, l)
    PROVE  /\ UNCHANGED <<crossTxInfo, mem, db, up>>
           /\ \A q \in Threads \ {p} : th'[q] = th[q]
           /\ \/ UNCHANGED pool
              \/ \E h \in Hash : ~Kept(l, h) /\ pool' = [pool EXCEPT ![l][h] = CallOf(th[p])]
           /\ \/ /\ \E h \in Hash : pool'[l][h] = CallOf(th[p]) /\ th'[p].cross.hash = h
                 /\ th'[p].pc = "put" /\ th'[p].op = th[p].op
                 /\ th'[p].tx = th[p].tx /\ th'[p].clr = th[p].clr
              \/ /\ th'[p].pc \in {"idle", "submit"}
                 /\ th'[p].cross.hash = NoHash /\ th'[p].clr = "none"
                 /\ "submit" \notin Faults => UNCHANGED pool
<1>1. PICK j \in Job : j = th[p]
  BY DEF ClearInv, SafetyInv, TypeOK
<1>2. /\ th \in [Threads -> Job] /\ pool \in [Layers -> [Hash -> PoolTx]]
      /\ j.op \in Maps /\ j.tx \in Tx /\ j.cross \in CrossTx
  BY <1>1 DEF ClearInv, SafetyInv, TypeOK, ChainTypeOK, Job
<1>3. UNCHANGED <<crossTxInfo, mem, db, up>>
  BY DEF Submits, chainButPool
<1>4. FreeHash(l) # {} => NewHash(l) \in Hash /\ ~Kept(l, NewHash(l))
  BY DEF NewHash, FreeHash
<1>5. \/ UNCHANGED pool
      \/ \E h \in Hash : ~Kept(l, h) /\ pool' = [pool EXCEPT ![l][h] = CallOf(th[p])]
  BY <1>4 DEF Submits, Accepted, Failed
<1>6. CASE Accepted(p, l)
  <2>1. PICK h \in Hash : /\ pool' = [pool EXCEPT ![l][h] = CallOf(th[p])]
                          /\ th' = [th EXCEPT ![p] = [j EXCEPT !.pc = "put", !.cross.hash = h]]
    BY <1>1, <1>4, <1>6 DEF Accepted
  <2>2. LET i == [j EXCEPT !.pc = "put", !.cross.hash = h]
        IN  i.pc = "put" /\ i.op = j.op /\ i.tx = j.tx /\ i.clr = j.clr /\ i.cross.hash = h
    BY <1>2 DEF Job, CrossTx
  <2>3. pool'[l][h] = CallOf(th[p])
    BY <1>2, <2>1
  <2>4. /\ \A q \in Threads \ {p} : th'[q] = th[q]
        /\ th'[p].pc = "put" /\ th'[p].op = th[p].op /\ th'[p].cross.hash = h
        /\ th'[p].tx = th[p].tx /\ th'[p].clr = th[p].clr
    BY <1>1, <1>2, <2>1, <2>2
  <2> QED
    BY <1>3, <1>5, <2>3, <2>4
<1>7. CASE Failed(p, l) /\ Done(p, th[p].todo)
  <2>1. /\ Resting(j, j.todo).pc = "idle" /\ Resting(j, j.todo).cross.hash = NoHash
        /\ Resting(j, j.todo).clr = "none"
    BY DEF Resting, Idle, NoCrossTx
  <2>2. /\ \A q \in Threads \ {p} : th'[q] = th[q]
        /\ th'[p].pc = "idle" /\ th'[p].cross.hash = NoHash /\ th'[p].clr = "none"
    BY <1>1, <1>2, <1>7, <2>1 DEF Done
  <2> QED
    BY <1>3, <1>5, <1>7, <2>2 DEF Failed
<1>8. CASE /\ Failed(p, l)
           /\ Run(p, "submit", "SendAck", th[p].tx,
                  [th[p].cross EXCEPT !.status = ACK_FAIL], "none", th[p].todo)
  <2>1. j.cross.hash = NoHash
    BY <1>1 DEF Submits, ClearInv, AcksSettled
  <2>2. [j.cross EXCEPT !.status = ACK_FAIL].hash = NoHash
    BY <1>2, <2>1 DEF CrossTx
  <2>3. /\ \A q \in Threads \ {p} : th'[q] = th[q]
        /\ th'[p].pc = "submit" /\ th'[p].cross.hash = NoHash /\ th'[p].clr = "none"
    BY <1>1, <1>2, <1>8, <2>2 DEF Run
  <2> QED
    BY <1>3, <1>5, <1>8, <2>3 DEF Failed
<1> QED
  BY <1>6, <1>7, <1>8 DEF Submits

-----------------------------------------------------------------------------
(* Acknowledgements are cleared only once they are settled.                *)

\* no hash names nothing
LEMMA NoHashNames ==
    ASSUME NEW pl, NEW m, NEW t
    PROVE  AckHash(pl, m, t, NoHash)
BY DEF AckHash

\* Starting a job keeps the invariant.
LEMMA StartsSettled ==
    ASSUME ClearInv, NEW p \in Threads, Starts(p)
    PROVE  AcksSettled'
<1>1. PICK j \in Job : th' = [th EXCEPT ![p] = j] /\ FreshJob(j)
  BY DEF Starts
<1>2. \A q \in Threads : th'[q] = IF q = p THEN j ELSE th[q]
  BY <1>1 DEF ClearInv, SafetyInv, TypeOK
<1>3. ASSUME NEW q \in Threads
      PROVE  /\ AckHash(pool, th'[q].op, th'[q].tx, th'[q].cross.hash)
             /\ th'[q].pc = "submit" => th'[q].cross.hash = NoHash
             /\ Clears(crossTxInfo, th'[q])
  <2>1. CASE q = p
    BY <1>1, <1>2, <2>1, NoHashNames DEF FreshJob
  <2>2. CASE q # p
    BY <1>2, <2>2 DEF ClearInv, AcksSettled
  <2> QED
    BY <2>1, <2>2
<1> QED
  BY <1>3 DEF Starts, ClearInv, AcksSettled

\* Saving an entry saves the hash of its job, clearing one leaves none.
LEMMA SaveClearSettled ==
    ASSUME ClearInv, NEW p \in Threads, DBPut(p) \/ Emplace(p) \/ DBDelete(p) \/ Erase(p)
    PROVE  AcksSettled'
<1>1. /\ UNCHANGED <<crossTxInfo, pool>>
      /\ \A q \in Threads \ {p} : th'[q] = th[q]
      /\ Rests(p) \/ (\E pc \in {"emplace", "delete", "erase"} : Goes(p, pc))
      /\ \A m \in Maps, t \in Tx :
             /\ \/ db'[m][t] = db[m][t] \/ db'[m][t] = NoEntry
                \/ m = th[p].op /\ t = th[p].tx /\ db'[m][t].cross = th[p].cross
             /\ \/ mem'[m][t] = mem[m][t] \/ mem'[m][t] = NoEntry
                \/ m = th[p].op /\ t = th[p].tx /\ mem'[m][t].cross = th[p].cross
  BY SaveClearSteps DEF ClearInv, SafetyInv
<1>2. AckHash(pool, th[p].op, th[p].tx, th[p].cross.hash) /\ Clears(crossTxInfo, th[p])
  BY DEF ClearInv, AcksSettled
<1>3. NoEntry.cross.hash = NoHash
  BY DEF NoEntry, NoCrossTx
<1>4. ASSUME NEW m \in Maps, NEW t \in Tx
      PROVE  AckHash(pool, m, t, mem'[m][t].cross.hash) /\ AckHash(pool, m, t, db'[m][t].cross.hash)
  <2>1. AckHash(pool, m, t, mem[m][t].cross.hash) /\ AckHash(pool, m, t, db[m][t].cross.hash)
    BY DEF ClearInv, AcksSettled
  <2> QED
    BY <1>1, <1>2, <1>3, <2>1, NoHashNames
<1>5. ASSUME NEW q \in Threads
      PROVE  /\ AckHash(pool, th'[q].op, th'[q].tx, th'[q].cross.hash)
             /\ th'[q].pc = "submit" => th'[q].cross.hash = NoHash
             /\ Clears(crossTxInfo, th'[q])
  <2>1. CASE q = p /\ Rests(p)
    BY <2>1, NoHashNames DEF Rests, Clears
  <2>2. CASE q = p /\ \E pc \in {"emplace", "delete", "erase"} : Goes(p, pc)
    BY <1>2, <2>2 DEF Goes, Clears
  <2>3. CASE q # p
    BY <1>1, <2>3 DEF ClearInv, AcksSettled
  <2> QED
    BY <1>1, <2>1, <2>2, <2>3
<1> QED
  BY <1>1, <1>4, <1>5 DEF ClearInv, AcksSettled

\* A new transaction does not take the hash of one that is kept.
LEMMA NewHashNames ==
    ASSUME pool \in [Layers -> [Hash -> PoolTx]], NEW l \in Layers, NEW h \in Hash, NEW c,
           pool' = [pool EXCEPT ![l][h] = c],
           NEW m \in Maps, NEW t \in Tx, NEW g \in Hash \cup {NoHash}, AckHash(pool, m, t, g),
           ~(Target(m, t) = l /\ g = h)
    PROVE  AckHash(pool', m, t, g)
<1>1. Target(m, t) \in Layers
  BY LayersOfTransfer DEF Target
<1>2. g # NoHash => pool'[Target(m, t)][g] = pool[Target(m, t)][g]
  BY <1>1
<1> QED
  BY <1>2 DEF AckHash

\* Submitting a transaction keeps the invariant.
LEMMA SubmitSettled ==
    ASSUME ClearInv, NEW p \in Threads, NEW l \in Layers, Submits(p, l)
    PROVE  AcksSettled'
<1>1. /\ UNCHANGED <<crossTxInfo, mem, db, up>>
      /\ \A q \in Threads \ {p} : th'[q] = th[q]
      /\ \/ UNCHANGED pool
         \/ \E h \in Hash : ~Kept(l, h) /\ pool' = [pool EXCEPT ![l][h] = CallOf(th[p])]
      /\ \/ /\ \E h \in Hash : pool'[l][h] = CallOf(th[p]) /\ th'[p].cross.hash = h
            /\ th'[p].pc = "put" /\ th'[p].op = th[p].op
            /\ th'[p].tx = th[p].tx /\ th'[p].clr = th[p].clr
         \/ /\ th'[p].pc \in {"idle", "submit"}
            /\ th'[p].cross.hash = NoHash /\ th'[p].clr = "none"
  BY SubmitSteps
<1>2. /\ TypeOK /\ pool \in [Layers -> [Hash -> PoolTx]] /\ th \in [Threads -> Job]
      /\ mem \in [Maps -> [Tx -> Entry]] /\ db \in [Maps -> [Tx -> Entry]]
  BY DEF ClearInv, SafetyInv, TypeOK, ChainTypeOK
<1>3. ASSUME NEW m \in Maps, NEW t \in Tx, NEW g \in Hash \cup {NoHash}, AckHash(pool, m, t, g),
             Target(m, t) = l => g = NoHash \/ Kept(l, g)
      PROVE  AckHash(pool', m, t, g)
  <2>1. CASE g = NoHash
    BY <2>1, NoHashNames
  <2>2. CASE UNCHANGED pool
    BY <1>3, <2>2
  <2>3. ASSUME NEW h \in Hash, ~Kept(l, h), pool' = [pool EXCEPT ![l][h] = CallOf(th[p])],
               g # NoHash
        PROVE  AckHash(pool', m, t, g)
    BY <1>2, <1>3, <2>3, NewHashNames
  <2> QED
    BY <1>1, <2>1, <2>2, <2>3
<1>4. ASSUME NEW m \in Maps, NEW t \in Tx
      PROVE  AckHash(pool', m, t, mem[m][t].cross.hash) /\ AckHash(pool', m, t, db[m][t].cross.hash)
  <2>1. mem[m][t].cross.hash \in Hash \cup {NoHash} /\ db[m][t].cross.hash \in Hash \cup {NoHash}
    BY <1>2 DEF Entry, CrossTx
  <2>2. AckHash(pool, m, t, mem[m][t].cross.hash) /\ AckHash(pool, m, t, db[m][t].cross.hash)
    BY DEF ClearInv, AcksSettled
  <2>3. Target(m, t) = l => Kept(l, mem[m][t].cross.hash) /\ Kept(l, db[m][t].cross.hash)
    BY DEF Kept
  <2> QED
    BY <1>3, <2>1, <2>2, <2>3
<1>5. ASSUME NEW q \in Threads
      PROVE  /\ AckHash(pool', th'[q].op, th'[q].tx, th'[q].cross.hash)
             /\ th'[q].pc = "submit" => th'[q].cross.hash = NoHash
             /\ Clears(crossTxInfo, th'[q])
  <2>1. PICK i \in Job : i = th[q]
    BY <1>2
  <2>2. i.op \in Maps /\ i.tx \in Tx /\ i.cross.hash \in Hash \cup {NoHash}
    BY DEF Job, CrossTx
  <2>3. /\ AckHash(pool, i.op, i.tx, i.cross.hash) /\ Clears(crossTxInfo, i)
        /\ i.pc = "submit" => i.cross.hash = NoHash
    BY <2>1 DEF ClearInv, AcksSettled
  <2>4. CASE q # p
    <3>1. Target(i.op, i.tx) = l => Kept(l, i.cross.hash)
      BY <2>1 DEF Kept
    <3>2. AckHash(pool', i.op, i.tx, i.cross.hash)
      BY <1>3, <2>2, <2>3, <3>1
    <3> QED
      BY <1>1, <2>1, <2>3, <2>4, <3>2
  <2>5. CASE /\ q = p /\ th'[p].cross.hash = NoHash /\ th'[p].clr = "none"
    BY <2>5, NoHashNames DEF Clears
  <2>6. CASE /\ q = p
             /\ \E h \in Hash : pool'[l][h] = CallOf(th[p]) /\ th'[p].cross.hash = h
             /\ th'[p].pc = "put" /\ th'[p].op = th[p].op
             /\ th'[p].tx = th[p].tx /\ th'[p].clr = th[p].clr
    <3>1. PICK h \in Hash : pool'[l][h] = CallOf(i) /\ th'[p].cross.hash = h
      BY <2>1, <2>6
    <3>2. i.op # "StartTx" /\ Target(i.op, i.tx) = l
      BY <2>1, <2>6 DEF Submits
    <3>3. i.op \in {"SendAck", "ReplyAck"} => CallOf(i).fn = "SendAckedTx" /\ CallOf(i).tx = i.tx
      BY DEF CallOf
    <3>4. AckHash(pool', i.op, i.tx, h)
      BY <3>1, <3>2, <3>3 DEF AckHash
    <3> QED
      BY <2>1, <2>3, <2>6, <3>1, <3>4 DEF Clears
  <2> QED
    BY <1>1, <2>4, <2>5, <2>6
<1>6. ASSUME NEW k \in Layers, NEW g \in Hash
      PROVE  AckExecuted(crossTxInfo, k, pool'[k][g])
  <2>1. AckExecuted(crossTxInfo, k, pool[k][g])
    BY DEF ClearInv, AcksSettled
  <2>2. CallOf(th[p]).st # "ok"
    BY DEF CallOf
  <2>3. pool'[k][g] = pool[k][g] \/ pool'[k][g] = CallOf(th[p])
    BY <1>1, <1>2
  <2> QED
    BY <2>1, <2>2, <2>3 DEF AckExecuted
<1> QED
  BY <1>1, <1>4, <1>5, <1>6 DEF AcksSettled

\* How a step of the chains changes the pools, and what an acknowledgement
\* that it executes has done.
LEMMA ChainPool ==
    ASSUME SafetyInv, ChainNext
    PROVE  /\ PoolLasting
           /\ \A l \in Layers, h \in Hash :
                 \/ pool'[l][h] = pool[l][h]
                 \/ pool'[l][h].st = "unused"
                 \/ /\ ExecuteSendTx(l, h) \/ ExecuteSendAckedTx(l, h)
                    /\ pool'[l][h].st = "ok"
                    /\ pool'[l][h].fn = pool[l][h].fn /\ pool'[l][h].tx = pool[l][h].tx
<1>1. pool \in [Layers -> [Hash -> PoolTx]]
  BY DEF SafetyInv, TypeOK, ChainTypeOK
<1>2. ASSUME NEW k \in Layers, NEW g \in Hash, Fail(k, g)
      PROVE  \A l \in Layers, h \in Hash :
                pool'[l][h] = pool[l][h] \/ pool'[l][h].st = "unused"
  BY <1>1, <1>2 DEF Fail, UnusedTx
<1>3. ASSUME NEW k \in Layers, NEW g \in Hash, Succeed(k, g)
      PROVE  \A l \in Layers, h \in Hash :
                \/ pool'[l][h] = pool[l][h]
                \/ /\ l = k /\ h = g
                   /\ pool'[l][h].st = "ok"
                   /\ pool'[l][h].fn = pool[l][h].fn /\ pool'[l][h].tx = pool[l][h].tx
  <2>1. PICK c \in PoolTx : c = pool[k][g]
    BY <1>1
  <2>2. LET d == [c EXCEPT !.st = "ok", !.result = INIT, !.time = 0]
        IN  d.st = "ok" /\ d.fn = c.fn /\ d.tx = c.tx
    BY DEF PoolTx
  <2> QED
    BY <1>1, <1>3, <2>1, <2>2 DEF Succeed
<1>4. \A l \in Layers, h \in Hash :
          \/ pool'[l][h] = pool[l][h]
          \/ pool'[l][h].st = "unused"
          \/ /\ ExecuteSendTx(l, h) \/ ExecuteSendAckedTx(l, h)
             /\ pool'[l][h].st = "ok"
             /\ pool'[l][h].fn = pool[l][h].fn /\ pool'[l][h].tx = pool[l][h].tx
  <2>1. CASE UNCHANGED pool
    BY <2>1
  <2>2. ASSUME NEW k \in Layers, NEW g \in Hash, Revert(k, g) \/ Drop(k, g)
        PROVE  \A l \in Layers, h \in Hash :
                  pool'[l][h] = pool[l][h] \/ pool'[l][h].st = "unused"
    BY <1>2, <2>2 DEF Revert, Drop
  <2>3. ASSUME NEW k \in Layers, NEW g \in Hash, ExecuteSendTx(k, g) \/ ExecuteSendAckedTx(k, g)
        PROVE  \A l \in Layers, h \in Hash :
                  \/ pool'[l][h] = pool[l][h]
                  \/ /\ ExecuteSendTx(l, h) \/ ExecuteSendAckedTx(l, h)
                     /\ pool'[l][h].st = "ok"
                     /\ pool'[l][h].fn = pool[l][h].fn /\ pool'[l][h].tx = pool[l][h].tx
    <3>1. Succeed(k, g)
      BY <2>3 DEF ExecuteSendTx, ExecuteSendAckedTx
    <3> QED
      BY <1>3, <2>3, <3>1
  <2> QED
    BY <2>1, <2>2, <2>3 DEF ChainNext, Execute, Tick, StartTx, Refund, Submit
<1>5. PoolLasting
  <2>1. \A l \in Layers, h \in Hash :
            ExecuteSendTx(l, h) \/ ExecuteSendAckedTx(l, h) => pool[l][h].st = "pending"
    BY DEF ExecuteSendTx, ExecuteSendAckedTx
  <2> QED
    BY <1>4, <2>1 DEF PoolLasting
<1> QED
  BY <1>4, <1>5

\* An acknowledgement that is executed settles its transfer on that layer.
LEMMA ExecutedSettles ==
    ASSUME SafetyInv, NEW l \in Layers, NEW h \in Hash, ExecuteSendAckedTx(l, h),
           NEW u \in Tx, pool[l][h].tx = u
    PROVE  \/ l = Src(u) /\ Settled(crossTxInfo', u)
           \/ l = Dst(u) /\ Delivered(crossTxInfo', u)
<1> DEFINE r == pool[l][h].result
           e0 == pool[l][h].time
           info == SendAckedTxInfo(crossTxInfo[l][u], r, e0)
<1>1. crossTxInfo \in [Layers -> [Tx -> CrossTxInfo]] /\ crossTxInfo[l][u] \in CrossTxInfo
  BY DEF SafetyInv, TypeOK, ChainTypeOK
<1>2. r # INIT /\ crossTxInfo' = [crossTxInfo EXCEPT ![l][u] = info]
  BY DEF ExecuteSendAckedTx, SendAckedTxRequire
<1>3. info.status = r
  BY <1>1 DEF SendAckedTxInfo, CrossTxInfo
<1>4. l = Src(u) \/ (l = Dst(u) /\ r = ACK_SUCCESS)
  BY <1>2 DEF SafetyInv, AgentKnowledge, PoolTxOk, ExecuteSendAckedTx
<1> HIDE DEF info, r
<1>5. crossTxInfo'[l][u].status = r
  BY <1>1, <1>2, <1>3
<1> QED
  BY <1>2, <1>4, <1>5 DEF Settled, Delivered

\* The chains keep the invariant.
LEMMA ChainSettled ==
    ASSUME ClearInv, ChainNext, UNCHANGED agentVars
    PROVE  AcksSettled'
<1>1. /\ SafetyInv /\ [Next]_vars /\ UNCHANGED <<mem, db, th>>
      /\ pool \in [Layers -> [Hash -> PoolTx]] /\ th \in [Threads -> Job]
      /\ mem \in [Maps -> [Tx -> Entry]] /\ db \in [Maps -> [Tx -> Entry]]
  BY DEF ClearInv, SafetyInv, TypeOK, ChainTypeOK, Next, agentVars
<1>2. ASSUME NEW m \in Maps, NEW t \in Tx, NEW g \in Hash \cup {NoHash}, AckHash(pool, m, t, g)
      PROVE  AckHash(pool', m, t, g)
  <2>1. Target(m, t) \in Layers
    BY LayersOfTransfer DEF Target
  <2>2. PoolLasting
    BY <1>1, ChainPool
  <2> QED
    BY <1>2, <2>1, <2>2 DEF AckHash, PoolLasting
<1>3. ASSUME NEW m \in Maps, NEW t \in Tx
      PROVE  AckHash(pool', m, t, mem[m][t].cross.hash) /\ AckHash(pool', m, t, db[m][t].cross.hash)
  <2>1. mem[m][t].cross.hash \in Hash \cup {NoHash} /\ db[m][t].cross.hash \in Hash \cup {NoHash}
    BY <1>1 DEF Entry, CrossTx
  <2> QED
    BY <1>2, <2>1 DEF ClearInv, AcksSettled
<1>4. ASSUME NEW p \in Threads
      PROVE  /\ AckHash(pool', th[p].op, th[p].tx, th[p].cross.hash)
             /\ th[p].pc = "submit" => th[p].cross.hash = NoHash
             /\ Clears(crossTxInfo', th[p])
  <2>1. th[p].op \in Maps /\ th[p].tx \in Tx /\ th[p].cross.hash \in Hash \cup {NoHash}
    BY <1>1 DEF Job, CrossTx
  <2>2. /\ AckHash(pool, th[p].op, th[p].tx, th[p].cross.hash)
        /\ th[p].pc = "submit" => th[p].cross.hash = NoHash
        /\ Clears(crossTxInfo, th[p])
    BY DEF ClearInv, AcksSettled
  <2>3. Clears(crossTxInfo', th[p])
    BY <1>1, <2>1, <2>2, SettledLasts DEF Clears
  <2> QED
    BY <1>2, <2>1, <2>2, <2>3
<1>5. ASSUME NEW l \in Layers, NEW h \in Hash
      PROVE  AckExecuted(crossTxInfo', l, pool'[l][h])
  <2>1. PICK u \in Tx : pool[l][h].tx = u
    BY <1>1, PoolTxOfTransfer
  <2>2. AckExecuted(crossTxInfo, l, pool[l][h])
    BY DEF ClearInv, AcksSettled
  <2>3. CASE pool'[l][h] = pool[l][h]
    BY <1>1, <2>1, <2>2, <2>3, SettledLasts DEF AckExecuted
  <2>4. CASE ExecuteSendTx(l, h) /\ pool'[l][h].fn = pool[l][h].fn
    BY <2>4 DEF ExecuteSendTx, AckExecuted
  <2>5. CASE ExecuteSendAckedTx(l, h) /\ pool'[l][h].tx = pool[l][h].tx
    BY <1>1, <2>1, <2>5, ExecutedSettles DEF AckExecuted
  <2>6. CASE pool'[l][h].st = "unused"
    BY <2>6 DEF AckExecuted
  <2> QED
    BY <1>1, <2>3, <2>4, <2>5, <2>6, ChainPool
<1> QED
  BY <1>1, <1>3, <1>4, <1>5 DEF AcksSettled

\* A crash leaves nothing to clear; a restart loads what the database has.
LEMMA RestartSettled ==
    ASSUME ClearInv, Crash \/ Initialize
    PROVE  AcksSettled'
<1>1. /\ UNCHANGED <<crossTxInfo, pool, db>>
      /\ mem' = db \/ mem' = [m \in Maps |-> [t \in Tx |-> NoEntry]]
      /\ UNCHANGED th \/ th' = [p \in Threads |-> Idle]
  BY DEF Crash, Initialize, chainVars
<1>2. NoEntry.cross.hash = NoHash
  BY DEF NoEntry, NoCrossTx
<1>3. \A m \in Maps, t \in Tx : /\ AckHash(pool, m, t, mem'[m][t].cross.hash)
                                /\ AckHash(pool, m, t, db[m][t].cross.hash)
  BY <1>1, <1>2, NoHashNames DEF ClearInv, AcksSettled
<1>4. /\ AckHash(pool, Idle.op, Idle.tx, Idle.cross.hash)
      /\ Idle.pc # "submit" /\ Clears(crossTxInfo, Idle)
  <2>1. Idle.cross.hash = NoHash /\ Idle.clr = "none" /\ Idle.pc = "idle"
    BY DEF Idle, NoCrossTx
  <2> QED
    BY <2>1, NoHashNames DEF Clears
<1>5. \A p \in Threads : /\ AckHash(pool, th'[p].op, th'[p].tx, th'[p].cross.hash)
                         /\ th'[p].pc = "submit" => th'[p].cross.hash = NoHash
                         /\ Clears(crossTxInfo, th'[p])
  BY <1>1, <1>4 DEF ClearInv, AcksSettled
<1> QED
  BY <1>1, <1>3, <1>5 DEF ClearInv, AcksSettled

\* Every step keeps ClearInv.
LEMMA NextClear == ClearInv /\ [Next]_vars => ClearInv'
<1> SUFFICES ASSUME ClearInv, [Next]_vars PROVE ClearInv'
  OBVIOUS
<1>1. SafetyInv'
  BY NextSafe DEF ClearInv
<1>2. CASE ChainNext /\ UNCHANGED agentVars
  BY <1>1, <1>2, ChainSettled DEF ClearInv
<1>3. ASSUME UNCHANGED <<crossTxInfo, pool, mem, db, th>>
      PROVE  AcksSettled'
  BY <1>3 DEF ClearInv, AcksSettled
<1>4. CASE AgentNext
  BY <1>1, <1>3, <1>4, AgentCases, SaveClearSettled, SubmitSettled, StartsSettled, RestartSettled
  DEF ClearInv
<1>5. CASE UNCHANGED vars
  BY <1>1, <1>3, <1>5 DEF ClearInv, vars, chainVars, agentVars
<1> QED
  BY <1>2, <1>4, <1>5 DEF Next

\* ClearInv holds before anything happens.
LEMMA InitClear == Init => ClearInv
<1> SUFFICES ASSUME Init PROVE ClearInv
  OBVIOUS
<1>1. SafetyInv
  BY InitSafe
<1>2. /\ NoEntry.cross.hash = NoHash
      /\ Idle.cross.hash = NoHash /\ Idle.clr = "none" /\ Idle.pc = "idle"
      /\ UnusedTx.st = "unused"
  BY DEF NoEntry, Idle, NoCrossTx, UnusedTx
<1>3. /\ \A m \in Maps, t \in Tx : mem[m][t] = NoEntry /\ db[m][t] = NoEntry
      /\ \A p \in Threads : th[p] = Idle
      /\ \A l \in Layers, h \in Hash : pool[l][h] = UnusedTx
  BY DEF Init, ChainInit
<1>4. AcksSettled
  BY <1>2, <1>3, NoHashNames DEF AcksSettled, Clears, AckExecuted
<1> QED
  BY <1>1, <1>4 DEF ClearInv

\* ClearInv is an invariant of the bridge whatever fails: a job that clears
\* an acknowledgement (ClearSendAckInfo, ClearReplyAckInfo) does so only after
\* the contract it went to has settled the transfer.
THEOREM ClearedAcksSettled == Spec => []ClearInv
BY InitClear, NextClear, PTL DEF Spec

-----------------------------------------------------------------------------
(* The database.                                                           *)

\* What a store keeps of a transfer lasts, if an acknowledgement leaves it
\* only when it is settled, and a SendTx only when the acknowledgement stays.
LEMMA StoreLasts ==
    ASSUME SafetyInv, [Next]_vars, NEW t \in Tx, NEW old, NEW new,
           old["SendAck"][t].saved => AckKept(crossTxInfo, new, t),
           old["SendTx"][t].saved => SendKept(crossTxInfo, new, t)
    PROVE  /\ AckKept(crossTxInfo, old, t) => AckKept(crossTxInfo', new, t)
           /\ SendKept(crossTxInfo, old, t) => SendKept(crossTxInfo', new, t)
BY SettledLasts DEF AckKept, SendKept

\* The database keeps the transfers that are in it.
LEMMA DatabaseLasts ==
    ASSUME DatabaseInv, [Next]_vars, NEW t \in Tx
    PROVE  /\ AckKept(crossTxInfo, db, t) => AckKept(crossTxInfo', db', t)
           /\ SendKept(crossTxInfo, db, t) => SendKept(crossTxInfo', db', t)
<1>1. SafetyInv /\ TypeOK /\ ClearInv /\ "SendAck" \in Maps /\ "SendTx" \in Maps
  BY DEF DatabaseInv, ClearInv, SafetyInv, Maps
<1>2. CASE UNCHANGED db
  BY <1>1, <1>2, StoreLasts DEF AckKept, SendKept
<1>3. ASSUME NEW p \in Threads, DBPut(p)
      PROVE  \A m \in Maps : db[m][t].saved => db'[m][t].saved
  BY <1>1, <1>3, SaveClearSteps
<1>4. ASSUME NEW p \in Threads, DBDelete(p)
      PROVE  /\ db["SendAck"][t].saved => AckKept(crossTxInfo, db', t)
             /\ db["SendTx"][t].saved => SendKept(crossTxInfo, db', t)
  <2>1. /\ th[p].pc = "delete"
        /\ \A m \in Maps : \/ db'[m][t] = db[m][t]
                           \/ m = th[p].clr /\ t = th[p].tx /\ db'[m][t] = NoEntry
    BY <1>1, <1>4, SaveClearSteps
  <2>2. Clears(crossTxInfo, th[p]) /\ HandedOn(crossTxInfo, db, th[p])
    BY <2>1 DEF DatabaseInv, ClearInv, AcksSettled, DbHandedOn
  <2> QED
    BY <1>1, <2>1, <2>2 DEF Clears, HandedOn, AckKept, SendKept
<1>5. UNCHANGED db \/ \E p \in Threads : DBPut(p) \/ DBDelete(p)
  <2>1. CASE AgentNext
    <3>1. \A p \in Threads : Emplace(p) \/ Erase(p) => UNCHANGED db
      BY DEF Emplace, Erase
    <3>2. \A p \in Threads, l \in Layers : Submits(p, l) => UNCHANGED db
      BY DEF Submits
    <3>3. \A p \in Threads : Starts(p) => UNCHANGED db
      BY DEF Starts
    <3>4. Crash \/ Initialize => UNCHANGED db
      BY DEF Crash, Initialize
    <3> QED
      BY <1>1, <2>1, <3>1, <3>2, <3>3, <3>4, AgentCases
  <2> QED
    BY <2>1 DEF Next, vars, agentVars
<1>6. CASE \E p \in Threads : DBPut(p)
  BY <1>1, <1>3, <1>6, StoreLasts DEF AckKept, SendKept
<1>7. CASE \E p \in Threads : DBDelete(p)
  BY <1>1, <1>4, <1>7, StoreLasts
<1> QED
  BY <1>2, <1>5, <1>6, <1>7

\* Where a thread that is about to clear comes from.
LEMMA JobSteps ==
    ASSUME ClearInv, [Next]_vars, NEW q \in Threads
    PROVE  \/ th'[q] = th[q]
           \/ DBPut(q) \/ Emplace(q) \/ DBDelete(q) \/ Erase(q)
           \/ th[q].pc = "submit" /\ th'[q].pc \in {"idle", "submit", "put"}
           \/ th[q].pc = "idle" /\ th'[q].pc # "emplace"
              /\ (th'[q].pc = "delete" => th'[q].clr \in {"SendAck", "ReplyAck"})
              /\ th'[q].pc # "erase"
           \/ "crash" \in Faults /\ th'[q].pc = "idle"
<1>1. SafetyInv /\ TypeOK /\ th \in [Threads -> Job]
  BY DEF ClearInv, SafetyInv, TypeOK
<1>2. CASE AgentNext
  <2>1. ASSUME NEW p \in Threads, DBPut(p) \/ Emplace(p) \/ DBDelete(p) \/ Erase(p)
        PROVE  p = q \/ th'[q] = th[q]
    BY <1>1, <2>1, SaveClearSteps
  <2>2. ASSUME NEW p \in Threads, NEW l \in Layers, Submits(p, l)
        PROVE  \/ th'[q] = th[q]
               \/ th[q].pc = "submit" /\ th'[q].pc \in {"idle", "submit", "put"}
    <3>1. CASE q # p
      BY <2>2, <3>1, SubmitSteps
    <3>2. CASE q = p
      <4>1. th[q].pc = "submit"
        BY <2>2, <3>2 DEF Submits
      <4>2. th'[q].pc \in {"idle", "submit"} \/ th'[q].pc = "put"
        BY <2>2, <3>2, SubmitSteps
      <4> QED
        BY <4>1, <4>2
    <3> QED
      BY <3>1, <3>2
  <2>3. ASSUME NEW p \in Threads, Starts(p)
        PROVE  \/ th'[q] = th[q]
               \/ /\ th[q].pc = "idle" /\ th'[q].pc # "emplace" /\ th'[q].pc # "erase"
                  /\ th'[q].pc = "delete" => th'[q].clr \in {"SendAck", "ReplyAck"}
    <3>1. PICK j \in Job : th' = [th EXCEPT ![p] = j] /\ FreshJob(j) /\ th[p].pc = "idle"
      BY <2>3 DEF Starts
    <3>2. th'[q] = th[q] \/ (q = p /\ th'[q] = j)
      BY <1>1, <3>1
    <3> QED
      BY <3>1, <3>2 DEF FreshJob
  <2>4. CASE Crash
    <3>1. th'[q] = Idle /\ Idle.pc = "idle" /\ "crash" \in Faults
      BY <2>4 DEF Crash, Idle
    <3> QED
      BY <3>1
  <2>5. CASE Initialize
    BY <2>5 DEF Initialize
  <2> QED
    BY <1>2, <2>1, <2>2, <2>3, <2>4, <2>5, AgentCases
<1> QED
  BY <1>2 DEF Next, vars, agentVars

\* A database that takes every write hands over what it clears.
LEMMA NextDatabase ==
    ASSUME "database" \notin Faults, DatabaseInv, [Next]_vars
    PROVE  DatabaseInv'
<1>1. SafetyInv /\ TypeOK /\ ClearInv /\ th \in [Threads -> Job]
  BY DEF DatabaseInv, ClearInv, SafetyInv, TypeOK
<1>2. ClearInv'
  BY <1>1, NextClear
<1>3. ASSUME NEW q \in Threads, th'[q].pc \in {"emplace", "delete"}
      PROVE  HandedOn(crossTxInfo', db', th'[q])
  <2>1. th[q].tx \in Tx /\ th[q].op \in Maps
    BY <1>1 DEF Job
  <2>2. ASSUME HandedOn(crossTxInfo, db, th[q]),
               th'[q].clr = th[q].clr, th'[q].tx = th[q].tx
        PROVE  HandedOn(crossTxInfo', db', th'[q])
    BY <2>1, <2>2, DatabaseLasts DEF HandedOn
  <2>3. CASE th'[q] = th[q]
    BY <1>3, <2>2, <2>3 DEF DatabaseInv, DbHandedOn
  <2>4. CASE DBPut(q)
    <3>1. Goes(q, "emplace") /\ db'[th[q].op][th[q].tx].saved
      BY <1>1, <2>4, SaveClearSteps
    <3>2. Clears(crossTxInfo', th'[q])
      BY <1>2 DEF ClearInv, AcksSettled
    <3> QED
      BY <3>1, <3>2 DEF Goes, Clears, HandedOn, SendKept, AckKept
  <2>5. CASE Emplace(q)
    <3>1. th[q].pc = "emplace" /\ (Rests(q) \/ Goes(q, "delete"))
      BY <1>1, <2>5, SaveClearSteps
    <3> QED
      BY <1>3, <2>2, <3>1 DEF Goes, Rests, DatabaseInv, DbHandedOn
  <2>6. CASE DBDelete(q) \/ Erase(q)
    BY <1>1, <1>3, <2>6, SaveClearSteps DEF Goes, Rests
  <2>7. CASE th'[q].pc # "emplace" /\ th'[q].clr \in {"SendAck", "ReplyAck"}
    BY <2>7 DEF HandedOn
  <2> QED
    BY <1>1, <1>3, <2>3, <2>4, <2>5, <2>6, <2>7, JobSteps
<1> QED
  BY <1>2, <1>3 DEF DatabaseInv, DbHandedOn

\* A step that clears an entry of the database finds it handed over.
LEMMA DatabaseHandsOver ==
    ASSUME DatabaseInv, [Next]_vars, NEW t \in Tx
    PROVE  HandsOver(t)
<1>1. SafetyInv /\ TypeOK /\ ClearInv /\ {"StartTx", "SendTx", "SendAck", "ReplyAck"} = Maps
  BY DEF DatabaseInv, ClearInv, SafetyInv, Maps
<1>2. ASSUME NEW p \in Threads, DBPut(p) \/ Emplace(p) \/ Erase(p), NEW m \in Maps
      PROVE  ~Cleared(m, t)
  <2>1. db'[m][t] = db[m][t] \/ db'[m][t].saved
    BY <1>1, <1>2, SaveClearSteps
  <2> QED
    BY <2>1 DEF Cleared
<1>3. ASSUME UNCHANGED db, NEW m \in Maps
      PROVE  ~Cleared(m, t)
  BY <1>3 DEF Cleared
<1>4. ASSUME NEW p \in Threads, DBDelete(p)
      PROVE  HandsOver(t)
  <2>1. /\ th[p].pc = "delete"
        /\ \A m \in Maps : Cleared(m, t) => m = th[p].clr /\ t = th[p].tx
    BY <1>1, <1>4, SaveClearSteps DEF Cleared
  <2>2. Clears(crossTxInfo, th[p]) /\ HandedOn(crossTxInfo, db, th[p])
    BY <2>1 DEF DatabaseInv, ClearInv, AcksSettled, DbHandedOn
  <2>3. /\ Settled(crossTxInfo, t) <=> OriginInfo(t).status # INIT
        /\ Delivered(crossTxInfo, t) <=> DestInfo(t).status = ACK_SUCCESS
    BY DEF Settled, Delivered, OriginInfo, DestInfo
  <2> QED
    BY <1>1, <2>1, <2>2, <2>3 DEF Clears, HandedOn, AckKept, SendKept, HandsOver
<1>5. CASE AgentNext
  <2>1. /\ \A p \in Threads, l \in Layers : Submits(p, l) => UNCHANGED db
        /\ \A p \in Threads : Starts(p) => UNCHANGED db
        /\ Crash \/ Initialize => UNCHANGED db
    BY DEF Submits, Starts, Crash, Initialize
  <2> QED
    BY <1>1, <1>2, <1>3, <1>4, <1>5, <2>1, AgentCases DEF HandsOver
<1>6. CASE UNCHANGED db
  BY <1>1, <1>3, <1>6 DEF HandsOver
<1> QED
  BY <1>5, <1>6 DEF Next, vars, agentVars

\* Unless a write of the database fails, an entry leaves it only when its
\* transfer has been handed over to the next stage or settled: crashes, lost
\* answers, failed queries and slow chains included.
THEOREM HandedOver ==
    ASSUME "database" \notin Faults
    PROVE  Spec => HandedOverBeforeCleared
<1>1. Init => DatabaseInv
  <2>1. Init => \A p \in Threads : th[p].pc = "idle"
    BY DEF Init, Idle
  <2> QED
    BY <2>1, InitClear DEF DatabaseInv, DbHandedOn
<1>2. DatabaseInv /\ [Next]_vars => DatabaseInv'
  BY NextDatabase
<1>3. DatabaseInv /\ [Next]_vars => [\A t \in Tx : HandsOver(t)]_vars
  BY DatabaseHandsOver
<1> QED
  BY <1>1, <1>2, <1>3, PTL DEF Spec, HandedOverBeforeCleared

-----------------------------------------------------------------------------
(* The maps.                                                               *)

\* An agent that does not stop never loads its maps again.
LEMMA StaysUp ==
    ASSUME "crash" \notin Faults, ClearInv, up, [Next]_vars
    PROVE  up' /\ ~Crash /\ ~Initialize
<1>1. ~Crash /\ ~Initialize
  BY DEF Crash, Initialize
<1>2. CASE AgentNext
  <2>1. \A p \in Threads : DBPut(p) \/ Emplace(p) \/ DBDelete(p) \/ Erase(p) => UNCHANGED up
    BY DEF DBPut, Emplace, DBDelete, Erase
  <2>2. /\ \A p \in Threads, l \in Layers : Submits(p, l) => UNCHANGED up
        /\ \A p \in Threads : Starts(p) => UNCHANGED up
    BY DEF Submits, Starts
  <2> QED
    BY <1>1, <1>2, <2>1, <2>2, AgentCases
<1> QED
  BY <1>1, <1>2 DEF Next, vars, agentVars

\* The maps keep the transfers that are in them.
LEMMA MapsLast ==
    ASSUME "crash" \notin Faults, MemoryInv, [Next]_vars, NEW t \in Tx
    PROVE  /\ AckKept(crossTxInfo, mem, t) => AckKept(crossTxInfo', mem', t)
           /\ SendKept(crossTxInfo, mem, t) => SendKept(crossTxInfo', mem', t)
<1>1. SafetyInv /\ TypeOK /\ ClearInv /\ up /\ "SendAck" \in Maps /\ "SendTx" \in Maps
  BY DEF MemoryInv, ClearInv, SafetyInv, Maps
<1>2. CASE UNCHANGED mem
  BY <1>1, <1>2, StoreLasts DEF AckKept, SendKept
<1>3. ASSUME NEW p \in Threads, Emplace(p)
      PROVE  \A m \in Maps : mem[m][t].saved => mem'[m][t].saved
  BY <1>1, <1>3, SaveClearSteps
<1>4. ASSUME NEW p \in Threads, Erase(p)
      PROVE  /\ mem["SendAck"][t].saved => AckKept(crossTxInfo, mem', t)
             /\ mem["SendTx"][t].saved => SendKept(crossTxInfo, mem', t)
  <2>1. /\ th[p].pc = "erase"
        /\ \A m \in Maps : \/ mem'[m][t] = mem[m][t]
                           \/ m = th[p].clr /\ t = th[p].tx /\ mem'[m][t] = NoEntry
    <3>1. /\ th[p].pc = "erase"
          /\ \A m \in Maps, s \in Tx :
                 \/ mem'[m][s] = mem[m][s]
                 \/ m = th[p].clr /\ s = th[p].tx /\ mem'[m][s] = NoEntry
      BY <1>1, <1>4, SaveClearSteps
    <3> QED
      BY <3>1
  <2>2. Clears(crossTxInfo, th[p]) /\ HandedOn(crossTxInfo, mem, th[p])
    BY <2>1 DEF MemoryInv, ClearInv, AcksSettled, MapsHandedOn
  <2>3. mem["SendAck"][t].saved => AckKept(crossTxInfo, mem', t)
    <3>1. CASE mem'["SendAck"][t] = mem["SendAck"][t]
      BY <3>1 DEF AckKept
    <3>2. CASE th[p].clr = "SendAck" /\ t = th[p].tx
      BY <2>2, <3>2 DEF Clears, AckKept
    <3> QED
      BY <1>1, <2>1, <3>1, <3>2
  <2>4. mem["SendTx"][t].saved => SendKept(crossTxInfo, mem', t)
    <3>1. CASE mem'["SendTx"][t] = mem["SendTx"][t]
      BY <3>1 DEF SendKept
    <3>2. CASE th[p].clr = "SendTx" /\ t = th[p].tx
      <4>1. AckKept(crossTxInfo, mem, t)
        BY <2>2, <3>2 DEF HandedOn
      <4> QED
        BY <2>3, <4>1 DEF AckKept, SendKept
    <3> QED
      BY <1>1, <2>1, <3>1, <3>2
  <2> QED
    BY <2>3, <2>4
<1>5. UNCHANGED mem \/ \E p \in Threads : Emplace(p) \/ Erase(p)
  <2>1. CASE AgentNext
    <3>1. \A p \in Threads : DBPut(p) \/ DBDelete(p) => UNCHANGED mem
      BY DEF DBPut, DBDelete
    <3>2. /\ \A p \in Threads, l \in Layers : Submits(p, l) => UNCHANGED mem
          /\ \A p \in Threads : Starts(p) => UNCHANGED mem
      BY DEF Submits, Starts
    <3> QED
      BY <1>1, <2>1, <3>1, <3>2, AgentCases, StaysUp
  <2> QED
    BY <2>1 DEF Next, vars, agentVars
<1>6. CASE \E p \in Threads : Emplace(p)
  BY <1>1, <1>3, <1>6, StoreLasts DEF AckKept, SendKept
<1>7. CASE \E p \in Threads : Erase(p)
  BY <1>1, <1>4, <1>7, StoreLasts
<1> QED
  BY <1>2, <1>5, <1>6, <1>7

\* A job that is about to clear has put the next stage in its map.
LEMMA NextMapsHandedOn ==
    ASSUME "crash" \notin Faults, MemoryInv, [Next]_vars
    PROVE  MapsHandedOn'
<1>1. SafetyInv /\ TypeOK /\ ClearInv /\ th \in [Threads -> Job]
  BY DEF MemoryInv, ClearInv, SafetyInv, TypeOK
<1>2. ClearInv'
  BY <1>1, NextClear
<1>3. ASSUME NEW q \in Threads, th'[q].pc \in {"delete", "erase"}
      PROVE  HandedOn(crossTxInfo', mem', th'[q])
  <2>1. th[q].tx \in Tx /\ th[q].op \in Maps
    BY <1>1 DEF Job
  <2>2. ASSUME HandedOn(crossTxInfo, mem, th[q]),
               th'[q].clr = th[q].clr, th'[q].tx = th[q].tx
        PROVE  HandedOn(crossTxInfo', mem', th'[q])
    BY <2>1, <2>2, MapsLast DEF HandedOn
  <2>3. CASE th'[q] = th[q]
    BY <1>3, <2>2, <2>3 DEF MemoryInv, MapsHandedOn
  <2>4. CASE Emplace(q)
    <3>1. (Rests(q) \/ Goes(q, "delete")) /\ mem'[th[q].op][th[q].tx].saved
      BY <1>1, <2>4, SaveClearSteps
    <3>2. Clears(crossTxInfo', th'[q])
      BY <1>2 DEF ClearInv, AcksSettled
    <3> QED
      BY <3>1, <3>2 DEF Goes, Rests, Clears, HandedOn, SendKept, AckKept
  <2>5. CASE DBDelete(q)
    <3>1. th[q].pc = "delete" /\ Goes(q, "erase")
      BY <1>1, <2>5, SaveClearSteps
    <3> QED
      BY <2>2, <3>1 DEF Goes, MemoryInv, MapsHandedOn
  <2>6. CASE DBPut(q) \/ Erase(q)
    BY <1>1, <1>3, <2>6, SaveClearSteps DEF Goes, Rests
  <2>7. CASE th'[q].clr \in {"SendAck", "ReplyAck"}
    BY <2>7 DEF HandedOn
  <2> QED
    BY <1>1, <1>3, <2>3, <2>4, <2>5, <2>6, <2>7, JobSteps
<1> QED
  BY <1>3 DEF MapsHandedOn

\* A thread that is about to save a SendTx goes on to do so.
LEMMA SavingLasts ==
    ASSUME "crash" \notin Faults, MemoryInv, [Next]_vars, NEW p \in Threads, NEW t \in Tx,
           Saving(p, t)
    PROVE  Saving(p, t)' \/ SendKept(crossTxInfo', mem', t)
<1>1. TypeOK /\ ClearInv
  BY DEF MemoryInv, ClearInv, SafetyInv
<1>2. CASE th'[p] = th[p]
  BY <1>2 DEF Saving
<1>3. CASE DBPut(p)
  <2>1. Goes(p, "emplace")
    BY <1>1, <1>3, SaveClearSteps
  <2> QED
    BY <2>1 DEF Saving, Goes
<1>4. CASE Emplace(p)
  <2>1. mem'[th[p].op][th[p].tx].saved
    BY <1>1, <1>4, SaveClearSteps
  <2> QED
    BY <2>1 DEF Saving, SendKept
<1>5. CASE DBDelete(p) \/ Erase(p)
  BY <1>5 DEF DBDelete, Erase, Saving
<1> QED
  BY <1>1, <1>2, <1>3, <1>4, <1>5, JobSteps DEF Saving

\* Where a SendTx in the pool, or an entry of the destination, comes from.
LEMMA SentBefore ==
    ASSUME ClearInv, [Next]_vars, NEW t \in Tx, SendPending(pool', t) \/ DestInfo(t)'.exists
    PROVE  \/ SendPending(pool, t) \/ DestInfo(t).exists
           \/ \E p \in Threads, l \in Layers :
                  Submits(p, l) /\ ~UNCHANGED pool /\ th[p].op = "SendTx" /\ th[p].tx = t
<1>1. /\ SafetyInv /\ crossTxInfo \in [Layers -> [Tx -> CrossTxInfo]]
      /\ pool \in [Layers -> [Hash -> PoolTx]]
      /\ Src(t) \in Layers /\ Dst(t) \in Layers /\ Src(t) # Dst(t)
  BY LayersOfTransfer DEF ClearInv, SafetyInv, TypeOK, ChainTypeOK
<1>2. CASE ChainNext
  <2>1. ASSUME SendPending(pool', t)
        PROVE  SendPending(pool, t)
    BY <1>1, <1>2, <2>1, ChainPool DEF SendPending
  <2>2. ASSUME DestInfo(t)'.exists, ~DestInfo(t).exists
        PROVE  SendPending(pool, t)
    <3>1. crossTxInfo'[Dst(t)][t] # crossTxInfo[Dst(t)][t]
      BY <2>2 DEF DestInfo
    <3>2. ASSUME NEW u \in Tx, NEW n \in 1..MaxDup, StartTx(u, n)
          PROVE  FALSE
      BY <1>1, <3>1, <3>2 DEF StartTx
    <3>3. ASSUME NEW k \in Layers, NEW u \in Tx, Refund(k, u)
          PROVE  FALSE
      <4>1. k = Dst(t) /\ u = t
        BY <1>1, <3>1, <3>3 DEF Refund
      <4> QED
        BY <2>2, <3>3, <4>1 DEF Refund, RefundRequire, DestInfo
    <3>4. ASSUME NEW k \in Layers, NEW h \in Hash, ExecuteSendAckedTx(k, h)
          PROVE  FALSE
      <4>1. PICK u \in Tx : pool[k][h].tx = u
        BY <1>1, PoolTxOfTransfer
      <4>2. k = Dst(t) /\ u = t
        BY <1>1, <3>1, <3>4, <4>1 DEF ExecuteSendAckedTx
      <4> QED
        BY <2>2, <3>4, <4>1, <4>2 DEF ExecuteSendAckedTx, SendAckedTxRequire, DestInfo
    <3>5. ASSUME NEW k \in Layers, NEW h \in Hash, ExecuteSendTx(k, h)
          PROVE  SendPending(pool, t)
      <4>1. PICK u \in Tx : pool[k][h].tx = u
        BY <1>1, PoolTxOfTransfer
      <4>2. k = Dst(t) /\ u = t
        BY <1>1, <3>1, <3>5, <4>1 DEF ExecuteSendTx
      <4> QED
        BY <3>5, <4>1, <4>2 DEF ExecuteSendTx, SendPending
    <3> QED
      BY <1>2, <3>1, <3>2, <3>3, <3>4, <3>5
      DEF ChainNext, Execute, Tick, Submit, Revert, Drop
  <2> QED
    BY <2>1, <2>2
<1>3. CASE AgentNext
  <2>1. DestInfo(t)' = DestInfo(t)
    BY <1>3, AgentLeavesContracts DEF DestInfo
  <2>2. CASE UNCHANGED pool
    BY <2>1, <2>2
  <2>3. CASE ~UNCHANGED pool
    <3>1. PICK p \in Threads, l \in Layers : Submits(p, l)
      <4>1. \A p \in Threads : DBPut(p) \/ Emplace(p) \/ DBDelete(p) \/ Erase(p) => UNCHANGED pool
        BY DEF DBPut, Emplace, DBDelete, Erase, chainVars
      <4>2. \A p \in Threads : Starts(p) => UNCHANGED pool
        BY DEF Starts
      <4>3. Crash \/ Initialize => UNCHANGED pool
        BY DEF Crash, Initialize, chainVars
      <4> QED
        BY <1>3, <2>3, <4>1, <4>2, <4>3, AgentCases
    <3>2. PICK h \in Hash : pool' = [pool EXCEPT ![l][h] = CallOf(th[p])]
      BY <2>3, <3>1, SubmitSteps
    <3>3. \A g \in Hash : \/ pool'[Dst(t)][g] = pool[Dst(t)][g]
                          \/ pool'[Dst(t)][g] = CallOf(th[p])
      BY <1>1, <3>2
    <3>4. CallOf(th[p]).fn = "SendTx" => th[p].op = "SendTx"
      BY DEF CallOf
    <3>5. CallOf(th[p]).tx = th[p].tx
      BY DEF CallOf
    <3> QED
      BY <2>1, <2>3, <3>1, <3>3, <3>4, <3>5 DEF SendPending
  <2> QED
    BY <2>2, <2>3
<1>4. CASE UNCHANGED vars
  BY <1>4 DEF vars, chainVars, DestInfo
<1> QED
  BY <1>2, <1>3, <1>4 DEF Next

\* A transfer whose SendTx is in the pool stays in the agent's memory.
LEMMA NextRemembered ==
    ASSUME "crash" \notin Faults, "submit" \notin Faults, MemoryInv, [Next]_vars
    PROVE  SentIsRemembered'
<1>1. TypeOK /\ ClearInv
  BY DEF MemoryInv, ClearInv, SafetyInv
<1>2. ASSUME NEW t \in Tx, SendPending(pool', t) \/ DestInfo(t)'.exists
      PROVE  SendKept(crossTxInfo', mem', t) \/ \E p \in Threads : Saving(p, t)'
  <2>1. CASE SendPending(pool, t) \/ DestInfo(t).exists
    <3>1. SendKept(crossTxInfo, mem, t) \/ \E p \in Threads : Saving(p, t)
      BY <2>1 DEF MemoryInv, SentIsRemembered
    <3> QED
      BY <3>1, MapsLast, SavingLasts
  <2>2. ASSUME NEW p \in Threads, NEW l \in Layers, Submits(p, l), ~UNCHANGED pool,
               th[p].op = "SendTx", th[p].tx = t
        PROVE  Saving(p, t)'
    <3>1. th'[p].pc = "put" /\ th'[p].op = th[p].op /\ th'[p].tx = th[p].tx
      BY <1>1, <2>2, SubmitSteps
    <3> QED
      BY <2>2, <3>1 DEF Saving
  <2> QED
    BY <1>1, <1>2, <2>1, <2>2, SentBefore
<1> QED
  BY <1>2 DEF SentIsRemembered

\* Unless the agent stops or an answer to a submission is lost, an amount
\* locked on the destination for a transfer that is open on the origin is
\* never forgotten: whatever events are lost, queries or writes of the
\* database fail, transactions are dropped or slow.
THEOREM Remembered ==
    ASSUME "crash" \notin Faults, "submit" \notin Faults
    PROVE  Spec => []LockedIsRemembered
<1>1. Init => MemoryInv
  <2> SUFFICES ASSUME Init PROVE MemoryInv
    OBVIOUS
  <2>1. ClearInv /\ up
    BY InitClear DEF Init
  <2>2. MapsHandedOn
    <3>1. \A p \in Threads : th[p].pc = "idle"
      BY DEF Init, Idle
    <3> QED
      BY <3>1 DEF MapsHandedOn
  <2>3. ASSUME NEW t \in Tx
        PROVE  ~SendPending(pool, t) /\ ~DestInfo(t).exists
    <3>1. Dst(t) \in Layers /\ UnusedTx.st = "unused" /\ ~EmptyInfo.exists
      BY LayersOfTransfer DEF UnusedTx, EmptyInfo
    <3> QED
      BY <3>1 DEF Init, ChainInit, SendPending, DestInfo
  <2> QED
    BY <2>1, <2>2, <2>3 DEF MemoryInv, SentIsRemembered
<1>2. MemoryInv /\ [Next]_vars => MemoryInv'
  BY NextClear, StaysUp, NextMapsHandedOn, NextRemembered DEF MemoryInv
<1>3. MemoryInv => LockedIsRemembered
  <2> SUFFICES ASSUME MemoryInv, NEW t \in Tx, DestInfo(t).exists, OriginInfo(t).status = INIT
               PROVE  \/ \E m \in {"StartTx", "SendTx", "SendAck"} : mem[m][t].saved
                      \/ \E p \in Threads : th[p].pc # "idle" /\ th[p].tx = t /\ th[p].op # "ReplyAck"
    BY DEF LockedIsRemembered
  <2>1. SendKept(crossTxInfo, mem, t) \/ \E p \in Threads : Saving(p, t)
    BY DEF MemoryInv, SentIsRemembered
  <2>2. ~Settled(crossTxInfo, t)
    BY DEF Settled, OriginInfo
  <2> QED
    BY <2>1, <2>2 DEF SendKept, AckKept, Saving
<1> QED
  BY <1>1, <1>2, <1>3, PTL DEF Spec
=============================================================================
