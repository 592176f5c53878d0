------------------------- MODULE HandleManagerTypes -------------------------
(***************************************************************************)
(* Type correctness of the bridge, for every set of transfers and hashes,  *)
(* every timeout and clock skew, and every combination of faults.          *)
(***************************************************************************)
EXTENDS HandleManager, SequenceTheorems, TLAPS

-----------------------------------------------------------------------------
(* The constants of the model.                                             *)

\* An unwritten entry of the contract's mapping, a free place of the pool, an
\* absent entry of a map and an idle thread have their types.
LEMMA DefaultTypes ==
    /\ EmptyInfo \in CrossTxInfo
    /\ UnusedTx \in PoolTx
    /\ NoCrossTx \in CrossTx
    /\ NoEntry \in Entry
    /\ Idle \in Job
<1>1. (CHOOSE t \in Tx : TRUE) \in Tx
  BY ConstantsAssumption
<1>2. EmptyInfo \in CrossTxInfo
  BY DEF EmptyInfo, CrossTxInfo, Layers, TxStatusEnum, TxRefundedEnum, INIT
<1>3. UnusedTx \in PoolTx
  BY <1>1 DEF UnusedTx, PoolTx, TxStatusEnum, INIT
<1>4. NoCrossTx \in CrossTx
  BY DEF NoCrossTx, CrossTx, TxStatusEnum, INIT
<1>5. NoEntry \in Entry
  BY <1>4 DEF NoEntry, Entry
<1>6. Idle \in Job
  BY <1>1, <1>4 DEF Idle, Job, Maps, Layers
<1> QED
  BY <1>2, <1>3, <1>4, <1>5, <1>6

\* The two contracts of a transfer are on different layers.
LEMMA LayersOfTransfer ==
    ASSUME NEW t \in Tx
    PROVE  /\ Src(t) \in Layers
           /\ Dst(t) \in Layers
           /\ Src(t) # Dst(t)
BY ConstantsAssumption DEF Src, Dst, Other, Layers

\* Clocks show natural numbers.
LEMMA ClockTypes ==
    ASSUME TypeOK
    PROVE  /\ \A l \in Layers : BlockTime(l) \in Nat
           /\ AgentTime \in Nat
<1>1. now \in Nat /\ Skew \in [Layers \cup {"agent"} -> Nat]
  BY ConstantsAssumption DEF TypeOK, ChainTypeOK
<1> QED
  BY <1>1 DEF BlockTime, AgentTime

-----------------------------------------------------------------------------
(* The contracts and the chains.                                           *)

\* A sequence of n equal events, as n calls of StartTx in one block emit.
LEMMA EqualEvents ==
    ASSUME NEW n \in Nat, NEW e \in Tlog
    PROVE  [i \in 1..n |-> e] \in Seq(Tlog)
BY IsASeq

\* Emitting an event leaves a sequence of events.
LEMMA EmitType ==
    ASSUME TypeOK, NEW l \in Layers, NEW t \in Tx,
           NEW topic \in {"StartTx", "SendTx", "SendAckedTx"}, Emit(l, topic, t)
    PROVE  tlogs' \in [Layers -> Seq(Tlog)]
<1>1. [topic |-> topic, tx |-> t] \in Tlog
  BY DEF Tlog
<1>2. Append(tlogs[l], [topic |-> topic, tx |-> t]) \in Seq(Tlog)
  BY <1>1, AppendProperties DEF TypeOK, ChainTypeOK
<1> QED
  BY <1>2 DEF Emit, TypeOK, ChainTypeOK

\* A transaction that was executed, or is gone, leaves a typed pool.
LEMMA PoolTypes ==
    ASSUME TypeOK, NEW l \in Layers, NEW h \in Hash, Succeed(l, h) \/ Fail(l, h)
    PROVE  pool' \in [Layers -> [Hash -> PoolTx]]
<1>1. [pool[l][h] EXCEPT !.st = "ok", !.result = INIT, !.time = 0] \in PoolTx
  <2>1. pool[l][h] \in PoolTx
    BY DEF TypeOK, ChainTypeOK
  <2> QED
    BY <2>1 DEF PoolTx, TxStatusEnum, INIT
<1>2. CASE Succeed(l, h)
  BY <1>1, <1>2 DEF Succeed, TypeOK, ChainTypeOK
<1>3. CASE Fail(l, h)
  BY <1>3, DefaultTypes DEF Fail, TypeOK, ChainTypeOK
<1> QED
  BY <1>2, <1>3

\* A step of the contracts or of the chains keeps the types.
LEMMA ChainTypes ==
    ASSUME TypeOK, ChainNext
    PROVE  ChainTypeOK'
<1> USE DEF ChainTypeOK
<1>1. CASE Tick
  BY <1>1 DEF Tick, TypeOK
<1>2. ASSUME NEW t \in Tx, NEW n \in 1..MaxDup, StartTx(t, n)
      PROVE  ChainTypeOK'
  <2> DEFINE l == Src(t)
             e == [topic |-> "StartTx", tx |-> t]
  <2>1. l \in Layers
    BY LayersOfTransfer
  <2>2. n \in Nat
    BY ConstantsAssumption
  <2>3. StartTxInfo(l, BlockTime(l)) \in CrossTxInfo
    BY <2>1, ClockTypes, ConstantsAssumption
    DEF StartTxInfo, CrossTxInfo, TxStatusEnum, TxRefundedEnum, INIT
  <2>4. tlogs[l] \o [i \in 1..n |-> e] \in Seq(Tlog)
    <3>1. e \in Tlog
      BY DEF Tlog
    <3>2. [i \in 1..n |-> e] \in Seq(Tlog)
      BY <2>2, <3>1, EqualEvents
    <3> QED
      BY <2>1, <3>2, ConcatProperties DEF TypeOK
  <2>5. crossTxInfo' \in [Layers -> [Tx -> CrossTxInfo]]
    BY <1>2, <2>1, <2>3 DEF StartTx, TypeOK
  <2>6. paidIn' \in [Layers -> [Tx -> Nat]]
    BY <1>2, <2>1, <2>2 DEF StartTx, TypeOK
  <2>7. tlogs' \in [Layers -> Seq(Tlog)]
    BY <1>2, <2>1, <2>4 DEF StartTx, TypeOK
  <2> QED
    BY <1>2, <2>5, <2>6, <2>7 DEF StartTx, TypeOK
<1>3. ASSUME NEW t \in Tx, NEW l \in Layers, Refund(l, t)
      PROVE  ChainTypeOK'
  <2>1. [crossTxInfo[l][t] EXCEPT !.refunded = "REFUNDED"] \in CrossTxInfo
    <3>1. crossTxInfo[l][t] \in CrossTxInfo
      BY DEF TypeOK
    <3> QED
      BY <3>1 DEF CrossTxInfo, TxRefundedEnum
  <2>2. crossTxInfo' \in [Layers -> [Tx -> CrossTxInfo]]
    BY <1>3, <2>1 DEF Refund, TypeOK
  <2>3. paidOut' \in [Layers -> [Tx -> Nat]]
    BY <1>3 DEF Refund, TypeOK
  <2> QED
    BY <1>3, <2>2, <2>3 DEF Refund, TypeOK
<1>4. ASSUME NEW l \in Layers, NEW h \in Hash, ExecuteSendTx(l, h)
      PROVE  ChainTypeOK'
  <2> DEFINE c == pool[l][h]
  <2>1. c \in PoolTx
    BY DEF TypeOK
  <2>2. /\ c.tx \in Tx
        /\ c.time \in Nat
    BY <2>1 DEF PoolTx
  <2>3. SendTxInfo(l, c.time, BlockTime(l)) \in CrossTxInfo
    BY <2>2, ClockTypes DEF SendTxInfo, EmptyInfo, CrossTxInfo, Other, Layers, TxStatusEnum,
       TxRefundedEnum, INIT
  <2>4. crossTxInfo' \in [Layers -> [Tx -> CrossTxInfo]]
    BY <1>4, <2>2, <2>3 DEF ExecuteSendTx, TypeOK
  <2>5. paidIn' \in [Layers -> [Tx -> Nat]]
    BY <1>4, <2>2 DEF ExecuteSendTx, TypeOK
  <2>6. tlogs' \in [Layers -> Seq(Tlog)]
    BY <1>4, <2>2, EmitType DEF ExecuteSendTx
  <2>7. pool' \in [Layers -> [Hash -> PoolTx]]
    BY <1>4, PoolTypes DEF ExecuteSendTx
  <2> QED
    BY <1>4, <2>4, <2>5, <2>6, <2>7 DEF ExecuteSendTx, TypeOK
<1>5. ASSUME NEW l \in Layers, NEW h \in Hash, ExecuteSendAckedTx(l, h)
      PROVE  ChainTypeOK'
  <2> DEFINE c == pool[l][h]
             info == crossTxInfo[l][c.tx]
  <2>1. c \in PoolTx
    BY DEF TypeOK
  <2>2. /\ c.tx \in Tx
        /\ c.time \in Nat
        /\ c.result \in TxStatusEnum
    BY <2>1 DEF PoolTx
  <2>3. SendAckedTxInfo(info, c.result, c.time) \in CrossTxInfo
    <3>1. info \in CrossTxInfo
      BY <2>2 DEF TypeOK
    <3> QED
      BY <2>2, <3>1 DEF SendAckedTxInfo, CrossTxInfo, TxRefundedEnum
  <2>4. crossTxInfo' \in [Layers -> [Tx -> CrossTxInfo]]
    BY <1>5, <2>2, <2>3 DEF ExecuteSendAckedTx, TypeOK
  <2>5. paidOut' \in [Layers -> [Tx -> Nat]]
    BY <1>5, <2>2 DEF ExecuteSendAckedTx, TypeOK
  <2>6. tlogs' \in [Layers -> Seq(Tlog)]
    BY <1>5, <2>2, EmitType DEF ExecuteSendAckedTx, TypeOK
  <2>7. pool' \in [Layers -> [Hash -> PoolTx]]
    BY <1>5, PoolTypes DEF ExecuteSendAckedTx
  <2> QED
    BY <1>5, <2>4, <2>5, <2>6, <2>7 DEF ExecuteSendAckedTx, TypeOK
<1>6. ASSUME NEW l \in Layers, NEW h \in Hash, Revert(l, h) \/ Drop(l, h)
      PROVE  ChainTypeOK'
  <2>1. Fail(l, h)
    BY <1>6 DEF Revert, Drop
  <2>2. pool' \in [Layers -> [Hash -> PoolTx]]
    BY <2>1, PoolTypes
  <2> QED
    BY <1>6, <2>2 DEF Revert, Drop, TypeOK
<1>7. ASSUME NEW seq \in ConfirmSeqs, Submit(seq)
      PROVE  ChainTypeOK'
  <2>1. seq \in Nat
    BY ConstantsAssumption
  <2> QED
    BY <1>7, <2>1 DEF Submit, TypeOK
<1> QED
  BY <1>1, <1>2, <1>3, <1>4, <1>5, <1>6, <1>7 DEF ChainNext, Execute

-----------------------------------------------------------------------------
(* The threads.                                                            *)

\* What a thread may go on with after an item of its loop is a job.
LEMMA DoneType ==
    ASSUME TypeOK, NEW p \in Threads, NEW todo \in SUBSET Tx, Done(p, todo)
    PROVE  th' \in [Threads -> Job]
<1>1. /\ th[p].loop \in Maps \cup {"none"}
      /\ th[p].obj \in Layers
  BY DEF TypeOK, Job
<1>2. Resting(th[p], todo) \in Job
  BY <1>1, DefaultTypes DEF Resting, Job
<1> QED
  BY <1>2 DEF Done, TypeOK

\* So is what Run makes of its arguments.
LEMMA RunType ==
    ASSUME TypeOK, NEW p \in Threads, NEW pc \in {"submit", "put", "delete"}, NEW op \in Maps,
           NEW t \in Tx, NEW cross \in CrossTx, NEW clr \in Maps \cup {"none"},
           NEW todo \in SUBSET Tx, Run(p, pc, op, t, cross, clr, todo)
    PROVE  th' \in [Threads -> Job]
<1>1. /\ th[p].loop \in Maps \cup {"none"}
      /\ th[p].obj \in Layers
  BY DEF TypeOK, Job
<1>2. [pc |-> pc, op |-> op, tx |-> t, cross |-> cross, clr |-> clr,
       loop |-> th[p].loop, obj |-> th[p].obj, todo |-> todo] \in Job
  BY <1>1 DEF Job
<1> QED
  BY <1>2 DEF Run, TypeOK

\* What a handler reads from a contract, and what it makes of it or of an
\* entry of a map, is a CrossTx.
LEMMA CrossTypes ==
    ASSUME TypeOK
    PROVE  /\ \A l \in Layers, t \in Tx : MakeCrossTx(l, t) \in CrossTx
           /\ \A m \in Maps, t \in Tx : mem[m][t].cross \in CrossTx
           /\ \A cross \in CrossTx :
                 /\ [cross EXCEPT !.hash = NoHash] \in CrossTx
                 /\ \A st \in TxStatusEnum : [cross EXCEPT !.status = st] \in CrossTx
                 /\ \A st \in TxStatusEnum :
                       [cross EXCEPT !.status = st, !.hash = NoHash] \in CrossTx
                 /\ \A s \in Nat : [cross EXCEPT !.confirmSeq = s] \in CrossTx
<1>1. ASSUME NEW l \in Layers, NEW t \in Tx
      PROVE  MakeCrossTx(l, t) \in CrossTx
  <2>1. crossTxInfo[l][t] \in CrossTxInfo
    BY DEF TypeOK, ChainTypeOK
  <2> QED
    BY <2>1, DefaultTypes DEF MakeCrossTx, CrossTx, CrossTxInfo
<1>2. ASSUME NEW m \in Maps, NEW t \in Tx
      PROVE  mem[m][t].cross \in CrossTx
  <2>1. mem[m][t] \in Entry
    BY DEF TypeOK
  <2> QED
    BY <2>1 DEF Entry
<1>3. ASSUME NEW cross \in CrossTx
      PROVE  /\ [cross EXCEPT !.hash = NoHash] \in CrossTx
             /\ \A st \in TxStatusEnum : [cross EXCEPT !.status = st] \in CrossTx
             /\ \A st \in TxStatusEnum : [cross EXCEPT !.status = st, !.hash = NoHash] \in CrossTx
             /\ \A s \in Nat : [cross EXCEPT !.confirmSeq = s] \in CrossTx
  BY DEF CrossTx
<1> QED
  BY <1>1, <1>2, <1>3

\* A submitted transaction leaves a typed pool, whether its hash reaches the
\* agent or not.
LEMMA SubmitTypes ==
    ASSUME TypeOK, NEW p \in Threads, NEW l \in Layers
    PROVE  /\ Accepted(p, l) => /\ pool' \in [Layers -> [Hash -> PoolTx]]
                                /\ th' \in [Threads -> Job]
           /\ Failed(p, l) => pool' \in [Layers -> [Hash -> PoolTx]]
<1>1. th[p] \in Job
  BY DEF TypeOK
<1>2. CallOf(th[p]) \in PoolTx
  BY <1>1 DEF CallOf, Job, CrossTx, PoolTx
<1>3. FreeHash(l) # {} => NewHash(l) \in Hash
  BY DEF NewHash, FreeHash
<1>4. ASSUME NEW h \in Hash
      PROVE  [th[p] EXCEPT !.pc = "put", !.cross.hash = h] \in Job
  <2>1. [th[p].cross EXCEPT !.hash = h] \in CrossTx
    BY <1>1 DEF Job, CrossTx
  <2> QED
    BY <1>1, <2>1 DEF Job
<1>5. ASSUME Accepted(p, l)
      PROVE  /\ pool' \in [Layers -> [Hash -> PoolTx]]
             /\ th' \in [Threads -> Job]
  <2> DEFINE h == NewHash(l)
  <2>1. /\ h \in Hash
        /\ pool' = [pool EXCEPT ![l][h] = CallOf(th[p])]
        /\ th' = [th EXCEPT ![p] = [th[p] EXCEPT !.pc = "put", !.cross.hash = h]]
    BY <1>3, <1>5 DEF Accepted, TypeOK
  <2> HIDE DEF h
  <2>2. pool' \in [Layers -> [Hash -> PoolTx]]
    BY <1>2, <2>1 DEF TypeOK, ChainTypeOK
  <2>3. th' \in [Threads -> Job]
    BY <1>4, <2>1 DEF TypeOK
  <2> QED
    BY <2>2, <2>3
<1>6. ASSUME Failed(p, l)
      PROVE  pool' \in [Layers -> [Hash -> PoolTx]]
  <2> DEFINE h == NewHash(l)
  <2>1. \/ UNCHANGED pool
        \/ h \in Hash /\ pool' = [pool EXCEPT ![l][h] = CallOf(th[p])]
    BY <1>3, <1>6 DEF Failed
  <2> HIDE DEF h
  <2>2. CASE UNCHANGED pool
    BY <2>2 DEF TypeOK, ChainTypeOK
  <2>3. CASE h \in Hash /\ pool' = [pool EXCEPT ![l][h] = CallOf(th[p])]
    BY <1>2, <2>3 DEF TypeOK, ChainTypeOK
  <2> QED
    BY <2>1, <2>2, <2>3
<1> QED
  BY <1>5, <1>6

\* Saving and clearing keep the types.
LEMMA SaveClearTypes ==
    ASSUME TypeOK, NEW p \in Threads, DBPut(p) \/ Emplace(p) \/ DBDelete(p) \/ Erase(p)
    PROVE  TypeOK'
<1> DEFINE j == th[p]
<1>1. j \in Job
  BY DEF TypeOK
<1>2. /\ j.op \in Maps /\ j.tx \in Tx /\ j.cross \in CrossTx /\ j.todo \in SUBSET Tx
      /\ \A pc \in {"emplace", "delete", "erase"} : [j EXCEPT !.pc = pc] \in Job
      /\ [saved |-> TRUE, cross |-> j.cross] \in Entry
  BY <1>1 DEF Job, Entry
<1>3. CASE DBPut(p)
  <2>1. th' \in [Threads -> Job]
    BY <1>2, <1>3 DEF DBPut, TypeOK
  <2>2. db' \in [Maps -> [Tx -> Entry]]
    <3>1. CASE db' = [db EXCEPT ![j.op][j.tx] = [saved |-> TRUE, cross |-> j.cross]]
      BY <1>2, <3>1 DEF TypeOK
    <3>2. CASE WriteFails
      BY <3>2 DEF WriteFails, TypeOK
    <3> QED
      BY <1>3, <3>1, <3>2 DEF DBPut
  <2> QED
    BY <1>3, <2>1, <2>2 DEF DBPut, TypeOK, ChainTypeOK, chainVars
<1>4. CASE Emplace(p)
  <2>1. th' \in [Threads -> Job]
    BY <1>2, <1>4, DoneType DEF Emplace, TypeOK
  <2>2. mem' \in [Maps -> [Tx -> Entry]]
    BY <1>2, <1>4 DEF Emplace, TypeOK
  <2> QED
    BY <1>4, <2>1, <2>2 DEF Emplace, TypeOK, ChainTypeOK, chainVars
<1>5. CASE DBDelete(p)
  <2>1. th' \in [Threads -> Job]
    BY <1>2, <1>5 DEF DBDelete, TypeOK
  <2>2. db' \in [Maps -> [Tx -> Entry]]
    <3>1. CASE db' = [db EXCEPT ![j.clr][j.tx] = NoEntry]
      BY <1>2, <3>1, DefaultTypes DEF TypeOK
    <3>2. CASE WriteFails
      BY <3>2 DEF WriteFails, TypeOK
    <3> QED
      BY <1>5, <3>1, <3>2 DEF DBDelete
  <2> QED
    BY <1>5, <2>1, <2>2 DEF DBDelete, TypeOK, ChainTypeOK, chainVars
<1>6. CASE Erase(p)
  <2>1. th' \in [Threads -> Job]
    BY <1>2, <1>6, DoneType DEF Erase
  <2>2. mem' \in [Maps -> [Tx -> Entry]]
    BY <1>2, <1>6, DefaultTypes DEF Erase, TypeOK
  <2> QED
    BY <1>6, <2>1, <2>2 DEF Erase, TypeOK, ChainTypeOK, chainVars
<1> QED
  BY <1>3, <1>4, <1>5, <1>6

\* A step of a handler that leaves the chains alone, except for the pool, and
\* the maps keeps the types if it leaves a typed pool and typed threads.
LEMMA HandlerTypes ==
    ASSUME TypeOK, UNCHANGED <<chainButPool, up, mem, db>>,
           pool' \in [Layers -> [Hash -> PoolTx]], th' \in [Threads -> Job]
    PROVE  TypeOK'
BY DEF TypeOK, ChainTypeOK, chainButPool

\* The transactions of both handles.
LEMMA TransactionTypes ==
    ASSUME TypeOK, NEW p \in Threads,
           \/ SendTxToLayer2(p) \/ SendAckToLayer1(p) \/ ReplyAckToLayer2(p)
           \/ SendTxToLayer1(p) \/ SendAckToLayer2(p) \/ ReplyAckToLayer1(p)
    PROVE  TypeOK'
<1>1. /\ th[p].tx \in Tx /\ th[p].todo \in SUBSET Tx
      /\ [th[p].cross EXCEPT !.status = ACK_FAIL] \in CrossTx
  <2>1. th[p] \in Job
    BY DEF TypeOK
  <2> QED
    BY <2>1 DEF Job, CrossTx, TxStatusEnum, ACK_FAIL
<1>2. PICK l \in Layers : \/ Accepted(p, l)
                          \/ Failed(p, l) /\ Done(p, th[p].todo)
                          \/ /\ Failed(p, l)
                             /\ Run(p, "submit", "SendAck", th[p].tx,
                                    [th[p].cross EXCEPT !.status = ACK_FAIL], "none", th[p].todo)
  BY DEF SendTxToLayer2, SendAckToLayer1, ReplyAckToLayer2, SendTxToLayer1, SendAckToLayer2,
         ReplyAckToLayer1, Layers
<1>3. UNCHANGED <<chainButPool, up, mem, db>>
  BY DEF SendTxToLayer2, SendAckToLayer1, ReplyAckToLayer2, SendTxToLayer1, SendAckToLayer2,
         ReplyAckToLayer1
<1>4. pool' \in [Layers -> [Hash -> PoolTx]]
  BY <1>2, SubmitTypes
<1>5. th' \in [Threads -> Job]
  <2>1. CASE Accepted(p, l)
    BY <2>1, SubmitTypes
  <2>2. CASE Done(p, th[p].todo)
    BY <1>1, <2>2, DoneType
  <2>3. CASE Run(p, "submit", "SendAck", th[p].tx, [th[p].cross EXCEPT !.status = ACK_FAIL],
                 "none", th[p].todo)
    BY <1>1, <2>3, RunType DEF Maps
  <2> QED
    BY <1>2, <2>1, <2>2, <2>3
<1> QED
  BY <1>3, <1>4, <1>5, HandlerTypes

\* A loop over a map starts.
LEMMA LoopTypes ==
    ASSUME TypeOK, NEW p \in Threads, NEW o \in Layers, NEW m \in Maps, NEW items \in SUBSET Tx
    PROVE  [Idle EXCEPT !.loop = m, !.obj = o, !.todo = items] \in Job
BY DefaultTypes DEF Job

\* The timer's sweeps.
LEMMA TimerTypes ==
    ASSUME TypeOK, L1TimerStep \/ L2TimerStep
    PROVE  TypeOK'
<1> DEFINE p == "timer"
<1>1. /\ p \in Threads
      /\ {"StartTx", "SendTx", "SendAck", "ReplyAck"} = Maps
      /\ {"L1", "L2"} = Layers
      /\ {ACK_SUCCESS, ACK_FAIL, ACK_TIMEOUT} \subseteq TxStatusEnum
      /\ Tx1 \subseteq Tx /\ Tx2 \subseteq Tx
  BY DEF Threads, Maps, Layers, TxStatusEnum, Tx1, Tx2
<1>2. ASSUME NEW o \in Layers, NEW m \in Maps, NEW items \in SUBSET Tx, EnterLoop(p, o, m, items)
      PROVE  TypeOK'
  <2>1. th' \in [Threads -> Job]
    BY <1>1, <1>2, LoopTypes DEF EnterLoop, TypeOK
  <2> QED
    BY <1>2, <2>1 DEF EnterLoop, TypeOK, ChainTypeOK, chainVars
<1>3. CASE L1OnTimer \/ L2OnTimer
  <2>1. PICK o \in Layers, m \in Maps, items \in SUBSET Tx : EnterLoop(p, o, m, items)
    <3>1. CASE L1OnTimer
      BY <1>1, <3>1 DEF L1OnTimer
    <3>2. CASE L2OnTimer
      BY <1>1, <3>2 DEF L2OnTimer
    <3> QED
      BY <1>3, <3>1, <3>2
  <2> QED
    BY <1>2, <2>1
<1>4. ASSUME NEW t \in Tx,
             \/ SendTxToLayer2TimeOut(t) \/ SendAckToLayer1TimeOut(t) \/ ReplyAckToLayer2TimeOut(t)
             \/ StartTxTimeOut(t) \/ SendTxToLayer1TimeOut(t)
             \/ SendAckToLayer2TimeOut(t) \/ ReplyAckToLayer1TimeOut(t)
      PROVE  TypeOK'
  <2>1. UNCHANGED <<chainVars, up, mem, db>>
    BY <1>4 DEF SendTxToLayer2TimeOut, SendAckToLayer1TimeOut, ReplyAckToLayer2TimeOut,
       StartTxTimeOut, SendTxToLayer1TimeOut, SendAckToLayer2TimeOut, ReplyAckToLayer1TimeOut
  <2>2. Rest(p, t) \in SUBSET Tx
    <3>1. th[p] \in Job
      BY <1>1 DEF TypeOK
    <3> QED
      BY <3>1 DEF Rest, Job
  <2>3. \/ Done(p, Rest(p, t))
        \/ \E pc \in {"submit", "put", "delete"}, op \in Maps, cross \in CrossTx,
              clr \in Maps \cup {"none"} : Run(p, pc, op, t, cross, clr, Rest(p, t))
    <3>1. /\ MakeCrossTx("L1", t) \in CrossTx /\ MakeCrossTx("L2", t) \in CrossTx
          /\ \A m \in Maps : mem[m][t].cross \in CrossTx
      BY <1>1, CrossTypes
    <3>2. CASE SendTxToLayer2TimeOut(t)
      BY <1>1, <3>1, <3>2, CrossTypes DEF SendTxToLayer2TimeOut, L1AckSuccess
    <3>3. CASE SendAckToLayer1TimeOut(t)
      BY <1>1, <3>1, <3>3, CrossTypes, DefaultTypes DEF SendAckToLayer1TimeOut
    <3>4. CASE ReplyAckToLayer2TimeOut(t)
      BY <1>1, <3>1, <3>4, CrossTypes, DefaultTypes DEF ReplyAckToLayer2TimeOut
    <3>5. CASE StartTxTimeOut(t)
      BY <1>1, <3>1, <3>5, CrossTypes DEF StartTxTimeOut
    <3>6. CASE SendTxToLayer1TimeOut(t)
      BY <1>1, <3>1, <3>6, CrossTypes DEF SendTxToLayer1TimeOut, L2AckSuccess
    <3>7. CASE SendAckToLayer2TimeOut(t)
      BY <1>1, <3>1, <3>7, CrossTypes, DefaultTypes DEF SendAckToLayer2TimeOut
    <3>8. CASE ReplyAckToLayer1TimeOut(t)
      BY <1>1, <3>1, <3>8, CrossTypes, DefaultTypes DEF ReplyAckToLayer1TimeOut
    <3> QED
      BY <1>4, <3>2, <3>3, <3>4, <3>5, <3>6, <3>7, <3>8
  <2>4. th' \in [Threads -> Job]
    <3>1. CASE Done(p, Rest(p, t))
      BY <1>1, <2>2, <3>1, DoneType
    <3>2. ASSUME NEW pc \in {"submit", "put", "delete"}, NEW op \in Maps, NEW cross \in CrossTx,
                 NEW clr \in Maps \cup {"none"}, Run(p, pc, op, t, cross, clr, Rest(p, t))
          PROVE  th' \in [Threads -> Job]
      BY <1>1, <2>2, <3>2, RunType
    <3> QED
      BY <2>3, <3>1, <3>2
  <2> QED
    BY <2>1, <2>4 DEF TypeOK, ChainTypeOK, chainVars
<1> QED
  BY <1>1, <1>3, <1>4 DEF L1TimerStep, L2TimerStep

\* The web socket threads: events given to the handlers, and the transfers a
\* confirmed layer-2 ledger covers.
LEMMA EventTypes ==
    ASSUME TypeOK, NEW t \in Tx,
           OnLayer1CrossContractTlog(t) \/ OnLayer2SubscribeResponse(t) \/ ConfirmedTx(t)
    PROVE  TypeOK'
<1>1. /\ {"StartTx", "SendTx", "SendAck", "ReplyAck"} = Maps
      /\ {"L1", "L2"} = Layers /\ Layers \subseteq Threads
      /\ {ACK_SUCCESS, ACK_TIMEOUT} \subseteq TxStatusEnum
      /\ now \in Nat
      /\ {} \in SUBSET Tx
  BY DEF Maps, Layers, Threads, TxStatusEnum, TypeOK, ChainTypeOK
<1>2. /\ MakeCrossTx("L1", t) \in CrossTx /\ MakeCrossTx("L2", t) \in CrossTx
      /\ mem["StartTx"][t].cross \in CrossTx
  BY <1>1, CrossTypes
<1>3. ASSUME NEW p \in Threads, NEW pc \in {"submit", "put", "delete"}, NEW op \in Maps,
             NEW cross \in CrossTx, NEW clr \in Maps \cup {"none"}, NEW todo \in SUBSET Tx,
             Run(p, pc, op, t, cross, clr, todo)
      PROVE  th' \in [Threads -> Job]
  BY <1>3, RunType
<1>4. CASE ConfirmedTx(t)
  <2>1. th["L1"] \in Job
    BY <1>1 DEF TypeOK
  <2>2. Rest("L1", t) \in SUBSET Tx
    BY <2>1 DEF Rest, Job
  <2>3. PICK op \in Maps, cross \in CrossTx, clr \in Maps \cup {"none"} :
            Run("L1", "submit", op, t, cross, clr, Rest("L1", t))
    BY <1>1, <1>2, <1>4, CrossTypes DEF ConfirmedTx
  <2>4. th' \in [Threads -> Job]
    BY <1>1, <1>3, <2>2, <2>3
  <2> QED
    BY <1>4, <2>4 DEF ConfirmedTx, TypeOK, ChainTypeOK, chainVars
<1>5. ASSUME NEW l \in Layers, NEW topic, Deliver(l, topic, t)
      PROVE  ChainTypeOK'
  <2>1. Tail(tlogs[l]) \in Seq(Tlog)
    BY <1>5 DEF Deliver, TypeOK, ChainTypeOK
  <2> QED
    BY <1>5, <2>1 DEF Deliver, TypeOK, ChainTypeOK
<1>6. CASE OnLayer1CrossContractTlog(t)
  <2>1. ChainTypeOK' /\ UNCHANGED <<up, mem, db>>
    BY <1>1, <1>5, <1>6 DEF OnLayer1CrossContractTlog, L1HandleStartTxEvent, L2HandleSendTxEvent,
       L1HandleSendAckdTxEvent
  <2>2. \/ UNCHANGED th
        \/ Done("L1", {})
        \/ \E op \in Maps, cross \in CrossTx, clr \in Maps \cup {"none"} :
              Run("L1", "submit", op, t, cross, clr, {})
    BY <1>1, <1>2, <1>6, CrossTypes DEF OnLayer1CrossContractTlog, L1HandleStartTxEvent,
       L2HandleSendTxEvent, L2AckSuccess, L1HandleSendAckdTxEvent
  <2>3. th' \in [Threads -> Job]
    BY <1>1, <1>3, <2>2, DoneType DEF TypeOK
  <2> QED
    BY <2>1, <2>3 DEF TypeOK
<1>7. CASE OnLayer2SubscribeResponse(t)
  <2>1. ChainTypeOK' /\ UNCHANGED <<up, mem, db>>
    BY <1>1, <1>5, <1>7 DEF OnLayer2SubscribeResponse, L2HandleStartTxEvent, L1HandleSendTxEvent,
       L2HandleSendAckdTxEvent
  <2>2. \/ UNCHANGED th
        \/ Done("L2", {})
        \/ \E pc \in {"submit", "put", "delete"}, op \in Maps, cross \in CrossTx,
              clr \in Maps \cup {"none"} : Run("L2", pc, op, t, cross, clr, {})
    BY <1>1, <1>2, <1>7, CrossTypes DEF OnLayer2SubscribeResponse, L2HandleStartTxEvent,
       L1HandleSendTxEvent, L1AckSuccess, L2HandleSendAckdTxEvent
  <2>3. th' \in [Threads -> Job]
    <3>1. CASE UNCHANGED th
      BY <3>1 DEF TypeOK
    <3>2. CASE Done("L2", {})
      BY <1>1, <3>2, DoneType
    <3> QED
      BY <1>1, <1>3, <2>2, <3>1, <3>2
  <2> QED
    BY <2>1, <2>3 DEF TypeOK
<1> QED
  BY <1>4, <1>6, <1>7

\* A Submit event of the manager contract.
LEMMA ConfirmTypes ==
    ASSUME TypeOK, OnLayer1ManagerContractTlog
    PROVE  TypeOK'
<1>1. PICK seq \in submits : submits' = submits \ {seq} /\ HandleConfirmSeqEvent(seq)
  BY DEF OnLayer1ManagerContractTlog
<1> DEFINE items == {t \in Tx2 : /\ mem["StartTx"][t].saved
                                 /\ mem["StartTx"][t].cross.confirmSeq <= seq}
<1>2. [Idle EXCEPT !.loop = "StartTx", !.obj = "L2", !.todo = items] \in Job
  BY LoopTypes DEF Maps, Layers, Tx2, Threads
<1>3. th' \in [Threads -> Job]
  BY <1>1, <1>2 DEF HandleConfirmSeqEvent, TypeOK, Threads, Layers
<1> QED
  BY <1>1, <1>3 DEF OnLayer1ManagerContractTlog, HandleConfirmSeqEvent, TypeOK, ChainTypeOK

\* Connections, crashes and restarts.
LEMMA RestartTypes ==
    ASSUME TypeOK,
           (\E l \in Layers : Disconnect(l) \/ Subscribe(l)) \/ Crash \/ Initialize
    PROVE  TypeOK'
<1>1. <<>> \in Seq(Tlog)
  OBVIOUS
<1>2. ASSUME NEW l \in Layers, Disconnect(l)
      PROVE  TypeOK'
  BY <1>1, <1>2 DEF Disconnect, TypeOK, ChainTypeOK, agentVars
<1>3. ASSUME NEW l \in Layers, Subscribe(l)
      PROVE  TypeOK'
  BY <1>3 DEF Subscribe, TypeOK, ChainTypeOK, agentVars
<1>4. CASE Crash
  BY <1>1, <1>4, DefaultTypes DEF Crash, TypeOK, ChainTypeOK
<1>5. CASE Initialize
  BY <1>5 DEF Initialize, TypeOK, ChainTypeOK, chainVars
<1> QED
  BY <1>2, <1>3, <1>4, <1>5

-----------------------------------------------------------------------------
(* The bridge.                                                             *)

\* Every step of the bridge keeps the types.
LEMMA NextTypes == TypeOK /\ [Next]_vars => TypeOK'
<1> SUFFICES ASSUME TypeOK, [Next]_vars PROVE TypeOK'
  OBVIOUS
<1>1. CASE ChainNext /\ UNCHANGED agentVars
  BY <1>1, ChainTypes DEF TypeOK, agentVars
<1>2. ASSUME NEW p \in Threads, L1ThreadStep(p) \/ L2ThreadStep(p)
      PROVE  TypeOK'
  BY <1>2, TransactionTypes, SaveClearTypes
  DEF L1ThreadStep, L2ThreadStep, L1SaveInfo, L1ClearInfo, L2SaveInfo, L2ClearInfo
<1>3. CASE TimerThread
  BY <1>2, <1>3, TimerTypes DEF TimerThread, Threads
<1>4. ASSUME NEW l \in Layers, WebSocketThread(l)
      PROVE  TypeOK'
  BY <1>2, <1>4, EventTypes, ConfirmTypes DEF WebSocketThread, Threads
<1>5. CASE UNCHANGED vars
  BY <1>5 DEF vars, chainVars, agentVars, TypeOK, ChainTypeOK
<1> QED
  BY <1>1, <1>3, <1>4, <1>5, RestartTypes DEF Next, AgentNext

\* TypeOK is an invariant of the bridge, whatever the constants.
THEOREM TypeCorrect == Spec => []TypeOK
<1>1. Init => TypeOK
  BY DefaultTypes DEF Init, ChainInit, TypeOK, ChainTypeOK
<1>2. TypeOK /\ [Next]_vars => TypeOK'
  BY NextTypes
<1> QED
  BY <1>1, <1>2, PTL DEF Spec
=============================================================================
