---------------------------- MODULE ThreadsProof ----------------------------
(***************************************************************************)
(* The library's lock, its two pools of threads, its timers and the        *)
(* watchdog, for any number of threads, tasks, timers and faults; and the  *)
(* threads of the agent itself, the web server's and its clients'.         *)
(*                                                                         *)
(* utils::ReadWriteLock excludes writers from readers and from each other. *)
(* The inductive invariant is LockInv: the counter is the number of        *)
(* threads inside the read lock, the mutex is held where the code says,    *)
(* and the counter is 0 under the write lock.                              *)
(*                                                                         *)
(* The counter of ThreadNewPool is right, and Wait may be believed.        *)
(*                                                                         *)
(* No task of utils::ThreadPool is lost or run twice, and WaitAndJoin      *)
(* returns behind all of them.  The inductive invariant is ThreadPoolInv:  *)
(* a task is in one place, a worker that is alive is one a join waits for, *)
(* and a join has left none alive behind it.                               *)
(*                                                                         *)
(* agentd and the agent use one segment (WatchdogInv), so that no agent    *)
(* that writes is taken for dead.                                          *)
(*                                                                         *)
(* A timer fires once, in order and not early.  The inductive invariant is *)
(* TimerInv: an element is in one place, and those that were fired, are    *)
(* taken and wait follow each other in the order of their times.           *)
(*                                                                         *)
(* What a request is checked against is never left over from a link that   *)
(* has ended, and no event reaches a HandleManager that is deleted: in     *)
(* order to end, main joins both clients (ExitInv).                        *)
(***************************************************************************)
EXTENDS MCThreads, FiniteSetTheorems, SequenceTheorems, TLAPS

-----------------------------------------------------------------------------
(* utils::ReadWriteLock.                                                   *)

\* The threads inside the read lock are finitely many, so that the value of
\* _reads, their number, is a natural number and 0 only when there are none.
LEMMA ReadersFinite ==
    /\ IsFiniteSet(Readers)
    /\ Cardinality(Readers) \in Nat
    /\ Cardinality(Readers) = 0 <=> Readers = {}
<1>1. Readers \subseteq Thread
    BY DEF Readers
<1>2. IsFiniteSet(Readers)
    BY <1>1, ThreadAssumption, FS_Subset
<1> QED
    BY <1>2, FS_CardinalityType, FS_EmptySet

\* The lock's invariant gives exclusion: a reader at "find" is counted, and
\* the counter is 0 while a writer is inside; two writers would both hold
\* _enterLock.
LEMMA LockInvExcludes == LockInv => MutualExclusion
<1> SUFFICES ASSUME LockInv, NEW t \in Thread, NEW u \in Thread,
                    pc[t] \in Writers, u # t
             PROVE  pc[u] \notin Writers \cup {"find"}
    BY DEF MutualExclusion
<1>1. Readers = {}
    BY ReadersFinite DEF LockInv
<1>2. pc[u] # "find"
    BY <1>1 DEF Readers, Counted
<1>3. enterLock = t
    BY DEF LockInv, Writers, Holders
<1>4. pc[u] \notin Holders
    BY <1>3 DEF LockInv
<1> QED
    BY <1>2, <1>4 DEF Writers, Holders

\* A step of one thread that leaves it inside, or outside, the read lock
\* leaves the set of readers alone.
LEMMA ReadersKept ==
    ASSUME TypeOK, NEW t \in Thread, NEW p \in Places, Goto(t, p),
           pc[t] \in Counted <=> p \in Counted
    PROVE  Readers' = Readers
BY DEF TypeOK, Goto, Readers

\* AtomicInc(&_reads) counts exactly the thread that enters.
LEMMA ReaderEnters ==
    ASSUME TypeOK, NEW t \in Thread, NEW p \in Places, Goto(t, p),
           pc[t] \notin Counted, p \in Counted
    PROVE  Cardinality(Readers') = Cardinality(Readers) + 1
<1>1. Readers' = Readers \cup {t}
    BY DEF TypeOK, Goto, Readers
<1>2. t \notin Readers
    BY DEF Readers
<1> QED
    BY <1>1, <1>2, ReadersFinite, FS_AddElement

\* AtomicDec(&_reads) takes exactly the thread that leaves.
LEMMA ReaderLeaves ==
    ASSUME TypeOK, NEW t \in Thread, NEW p \in Places, Goto(t, p),
           pc[t] \in Counted, p \notin Counted
    PROVE  Cardinality(Readers') = Cardinality(Readers) - 1
<1>1. Readers' = Readers \ {t}
    BY DEF TypeOK, Goto, Readers
<1>2. t \in Readers
    BY DEF Readers
<1> QED
    BY <1>1, <1>2, ReadersFinite, FS_RemoveElement

\* The lock's invariant holds before the first call and is kept by every step
\* of every thread.
THEOREM LockInvariant == Spec => []LockInv
<1> USE DEF Places, Counted, Holders, Writers
<1>1. Init => LockInv
  <2> SUFFICES ASSUME Init PROVE LockInv
      OBVIOUS
  <2>1. TypeOK
      BY DEF Init, TypeOK
  <2>2. Readers = {}
      BY DEF Init, Readers
  <2>3. reads = Cardinality(Readers)
      BY <2>2, ReadersFinite DEF Init
  <2> QED
      BY <2>1, <2>3, ThreadAssumption DEF Init, LockInv
<1>2. LockInv /\ [Next]_vars => LockInv'
  <2> SUFFICES ASSUME LockInv, [Next]_vars PROVE LockInv'
      OBVIOUS
  <2>0. TypeOK
      BY DEF LockInv
  <2>1. ASSUME NEW t \in Thread, NEW k \in Key, GetEncAddress(t, k)
        PROVE  LockInv'
    <3>1. Readers' = Readers
        BY <2>0, <2>1, ReadersKept DEF GetEncAddress
    <3> QED
        BY <2>0, <2>1, <3>1, ThreadAssumption DEF GetEncAddress, LockInv, TypeOK, Goto
  <2>2. ASSUME NEW t \in Thread, ReadLockEnter(t) PROVE LockInv'
    <3>1. Readers' = Readers
        BY <2>0, <2>2, ReadersKept DEF ReadLockEnter
    <3> QED
        BY <2>0, <2>2, <3>1, ThreadAssumption DEF ReadLockEnter, LockInv, TypeOK, Goto
  <2>3. ASSUME NEW t \in Thread, ReadLockInc(t) PROVE LockInv'
    <3>1. Cardinality(Readers') = Cardinality(Readers) + 1
        BY <2>0, <2>3, ReaderEnters DEF ReadLockInc
    <3>2. enterLock = t /\ \A u \in Thread : pc[u] \notin Writers
        BY <2>3, ThreadAssumption DEF ReadLockInc, LockInv
    <3> QED
        BY <2>0, <2>3, <3>1, <3>2, ThreadAssumption DEF ReadLockInc, LockInv, TypeOK, Goto
  <2>4. ASSUME NEW t \in Thread, ReadLockLeave(t) PROVE LockInv'
    <3>1. Readers' = Readers
        BY <2>0, <2>4, ReadersKept DEF ReadLockLeave
    <3> QED
        BY <2>0, <2>4, <3>1, ThreadAssumption DEF ReadLockLeave, LockInv, TypeOK, Goto
  <2>5. ASSUME NEW t \in Thread, Find(t) PROVE LockInv'
    <3>1. Readers' = Readers
        BY <2>0, <2>5, ReadersKept DEF Find
    <3> QED
        BY <2>0, <2>5, <3>1, ThreadAssumption DEF Find, LockInv, TypeOK, Goto
  <2>6. ASSUME NEW t \in Thread, ReadUnlock(t) PROVE LockInv'
    <3>1. Cardinality(Readers') = Cardinality(Readers) - 1
        BY <2>0, <2>6, ReaderLeaves DEF ReadUnlock
    <3>2. reads # 0
        BY <2>6, ReadersFinite DEF ReadUnlock, LockInv, Readers
    <3>3. \A u \in Thread : pc[u] \notin Writers
        BY <3>2 DEF LockInv
    <3> QED
        BY <2>0, <2>6, <3>1, <3>3, ThreadAssumption DEF ReadUnlock, LockInv, TypeOK, Goto
  <2>7. ASSUME NEW t \in Thread, WriteLockEnter(t) PROVE LockInv'
    <3>1. Readers' = Readers
        BY <2>0, <2>7, ReadersKept DEF WriteLockEnter
    <3> QED
        BY <2>0, <2>7, <3>1, ThreadAssumption DEF WriteLockEnter, LockInv, TypeOK, Goto
  <2>8. ASSUME NEW t \in Thread, WriteLockSpin(t) PROVE LockInv'
    <3>1. Readers' = Readers
        BY <2>0, <2>8, ReadersKept DEF WriteLockSpin
    <3>2. reads = 0
        BY <2>8, ReadersFinite DEF WriteLockSpin, LockInv
    <3> QED
        BY <2>0, <2>8, <3>1, <3>2, ThreadAssumption DEF WriteLockSpin, LockInv, TypeOK, Goto
  <2>9. ASSUME NEW t \in Thread, Insert(t) PROVE LockInv'
    <3>1. Readers' = Readers
        BY <2>0, <2>9, ReadersKept DEF Insert
    <3> QED
        BY <2>0, <2>9, <3>1, ThreadAssumption DEF Insert, LockInv, TypeOK, Goto
  <2>10. ASSUME NEW t \in Thread, WriteUnlock(t) PROVE LockInv'
    <3>1. Readers' = Readers
        BY <2>0, <2>10, ReadersKept DEF WriteUnlock
    <3> QED
        BY <2>0, <2>10, <3>1, ThreadAssumption DEF WriteUnlock, LockInv, TypeOK, Goto
  <2>11. CASE UNCHANGED vars
      BY <2>11 DEF vars, LockInv, TypeOK, Readers
  <2> QED
      BY <2>1, <2>2, <2>3, <2>4, <2>5, <2>6, <2>7, <2>8, <2>9, <2>10, <2>11
      DEF Next, Step, ReadLock, WriteLock
<1> QED
    BY <1>1, <1>2, PTL DEF Spec

\* While one thread changes g_pub_to_address under the write lock, no other
\* changes it or looks it up, for any number of threads and keys.
THEOREM Exclusion == Spec => []MutualExclusion
BY LockInvariant, LockInvExcludes, PTL

-----------------------------------------------------------------------------
(* ThreadNewPool.                                                          *)

PoolTypeOK ==
    /\ m_taskQueue \in Seq(Task) /\ m_taskSize \in Int /\ m_isStop \in BOOLEAN
    /\ worker \in [Worker -> {"lock", "wait", "task", "dec", "check", "notify", "ended"}]
    /\ holds \in [Worker -> Task \cup {NoTask}]
    /\ stopper \in {"idle", "join", "zero", "clean", "stopped"}

StopIsKnown == stopper # "idle" => m_isStop

Queued(t) == \E i \in 1 .. Len(m_taskQueue) : m_taskQueue[i] = t

\* Until the queue is thrown away, a task that was added has been run, is queued, or is
\* held by a worker that is about to run it.
NoTaskIsLost ==
    stopper # "stopped" =>
        \A t \in added : t \in done \/ Queued(t) \/ \E w \in Worker : worker[w] = "task" /\ holds[w] = t

PoolInv == PoolTypeOK /\ StopIsKnown /\ NoTaskIsLost /\ SizeCounts

LEMMA InFlightFinite == IsFiniteSet(InFlight) /\ Cardinality(InFlight) \in Nat
<1>1. InFlight \subseteq Worker
  BY DEF InFlight
<1> QED
  BY <1>1, PoolAssumption, FS_Subset, FS_CardinalityType

LEMMA InFlightSame ==
    ASSUME PoolTypeOK, \A v \in Worker : worker'[v] \in {"task", "dec"} <=> worker[v] \in {"task", "dec"}
    PROVE  Cardinality(InFlight') = Cardinality(InFlight)
<1>1. InFlight' = InFlight
  BY DEF InFlight
<1> QED
  BY <1>1

\* A worker takes a task.
LEMMA InFlightMore ==
    ASSUME PoolTypeOK, NEW w \in Worker, worker[w] \notin {"task", "dec"}, WorkerGoto(w, "task")
    PROVE  Cardinality(InFlight') = Cardinality(InFlight) + 1
<1>1. InFlight' = InFlight \cup {w} /\ w \notin InFlight
  BY DEF InFlight, WorkerGoto, PoolTypeOK
<1> QED
  BY <1>1, InFlightFinite, FS_AddElement

\* A worker counts its task off.
LEMMA InFlightLess ==
    ASSUME PoolTypeOK, NEW w \in Worker, worker[w] = "dec", WorkerGoto(w, "check")
    PROVE  Cardinality(InFlight') = Cardinality(InFlight) - 1
<1>1. InFlight' = InFlight \ {w} /\ w \in InFlight
  BY DEF InFlight, WorkerGoto, PoolTypeOK
<1> QED
  BY <1>1, InFlightFinite, FS_RemoveElement

LEMMA InitPool == NewPoolInit => PoolInv
<1> SUFFICES ASSUME NewPoolInit PROVE PoolInv
  OBVIOUS
<1>1. InFlight = {}
  BY DEF NewPoolInit, InitThreadNum, InFlight
<1>2. m_isStop \in BOOLEAN /\ stopper = "idle" /\ added = {}
  BY Zenon DEF NewPoolInit
<1>3. m_taskQueue = <<>> /\ m_taskSize = 0
  BY DEF NewPoolInit
<1>4. worker = [w \in Worker |-> "lock"] /\ holds = [w \in Worker |-> NoTask]
  BY DEF NewPoolInit, InitThreadNum
<1>5. PoolTypeOK
  BY <1>2, <1>3, <1>4 DEF PoolTypeOK
<1>6. StopIsKnown /\ NoTaskIsLost
  BY <1>2 DEF StopIsKnown, NoTaskIsLost
<1>7. SizeCounts
  BY <1>1, <1>3, FS_EmptySet DEF SizeCounts
<1> QED
  BY <1>5, <1>6, <1>7 DEF PoolInv

\* Steps that change neither queue, counter nor any task, and at most move workers between
\* the places where they hold none.
LEMMA QuietPool ==
    ASSUME PoolInv, UNCHANGED <<m_taskQueue, m_taskSize, m_isStop, holds, stopper, added, done>>,
           PoolTypeOK',
           \A v \in Worker : worker'[v] = worker[v] \/ {worker'[v], worker[v]} \cap {"task", "dec"} = {}
    PROVE  PoolInv'
<1>1. Cardinality(InFlight') = Cardinality(InFlight)
  BY InFlightSame DEF PoolInv
<1>2. NoTaskIsLost'
  BY DEF PoolInv, NoTaskIsLost, Queued
<1> QED
  BY <1>1, <1>2 DEF PoolInv, StopIsKnown, SizeCounts

LEMMA NextPool == PoolInv /\ [NewPoolNext]_newPoolVars => PoolInv'
<1> SUFFICES ASSUME PoolInv, [NewPoolNext]_newPoolVars PROVE PoolInv'
  OBVIOUS
<1>0. PoolTypeOK
  BY DEF PoolInv
<1>1. CASE UNCHANGED newPoolVars
  BY <1>0, <1>1, QuietPool DEF newPoolVars, PoolTypeOK
<1>2. ASSUME NEW t \in Task, AddTask(t) PROVE PoolInv'
  <2>1. PoolTypeOK' /\ StopIsKnown' /\ Len(m_taskQueue') = Len(m_taskQueue) + 1
    BY <1>0, <1>2 DEF AddTask, PoolInv, PoolTypeOK, StopIsKnown
  <2>2. Cardinality(InFlight') = Cardinality(InFlight)
    BY <1>0, <1>2, InFlightSame DEF AddTask
  <2>3. SizeCounts'
    <3>1. m_taskSize' = m_taskSize + 1 /\ stopper' = stopper
      BY <1>2 DEF AddTask
    <3>2. Len(m_taskQueue) \in Nat /\ Cardinality(InFlight) \in Nat
      BY <1>0, InFlightFinite DEF PoolTypeOK
    <3> QED
      BY <2>1, <2>2, <3>1, <3>2 DEF PoolInv, SizeCounts
  <2>4. ASSUME NEW u, Queued(u) \/ u = t PROVE Queued(u)'
    BY <1>0, <1>2, <2>4 DEF AddTask, Queued, PoolTypeOK
  <2>5. NoTaskIsLost'
    BY <1>2, <2>4 DEF AddTask, PoolInv, NoTaskIsLost
  <2> QED
    BY <2>1, <2>3, <2>5 DEF PoolInv
<1>3. CASE NotifyOne
  BY <1>0, <1>3, QuietPool DEF NotifyOne, WorkerGoto, PoolTypeOK
<1>4. ASSUME NEW w \in Worker, Lock(w) PROVE PoolInv'
  <2>1. CASE m_isStop \/ m_taskQueue = <<>>
    BY <1>0, <1>4, <2>1, QuietPool DEF Lock, WorkerGoto, PoolTypeOK
  <2>2. CASE ~m_isStop /\ m_taskQueue # <<>>
    <3>1. /\ WorkerGoto(w, "task") /\ holds' = [holds EXCEPT ![w] = Head(m_taskQueue)]
          /\ m_taskQueue' = Tail(m_taskQueue) /\ worker[w] = "lock"
          /\ UNCHANGED <<m_taskSize, m_isStop, stopper, added, done>>
      BY <1>4, <2>2 DEF Lock
    <3>2. PoolTypeOK' /\ StopIsKnown' /\ Len(m_taskQueue') = Len(m_taskQueue) - 1
      BY <1>0, <2>2, <3>1 DEF PoolInv, PoolTypeOK, StopIsKnown, WorkerGoto
    <3>3. Cardinality(InFlight') = Cardinality(InFlight) + 1
      BY <1>0, <3>1, InFlightMore
    <3>4. SizeCounts'
      BY <1>0, <3>1, <3>2, <3>3, InFlightFinite DEF PoolInv, PoolTypeOK, SizeCounts
    <3>5. ASSUME NEW u, Queued(u) PROVE Queued(u)' \/ holds'[w] = u
      <4>1. PICK i \in 1 .. Len(m_taskQueue) : m_taskQueue[i] = u
        BY <3>5 DEF Queued
      <4>2. CASE i = 1
        BY <1>0, <2>2, <3>1, <4>1, <4>2 DEF PoolTypeOK
      <4>3. CASE i # 1
        <5>1. i - 1 \in 1 .. Len(m_taskQueue') /\ m_taskQueue'[i - 1] = u
          BY <1>0, <2>2, <3>1, <4>1, <4>3 DEF PoolTypeOK
        <5> QED
          BY <5>1 DEF Queued
      <4> QED
        BY <4>2, <4>3
    <3>6. ASSUME NEW v \in Worker, worker[v] = "task"
          PROVE  worker'[v] = "task" /\ holds'[v] = holds[v]
      BY <1>0, <3>1, <3>6 DEF PoolTypeOK, WorkerGoto
    <3>7. worker'[w] = "task"
      BY <1>0, <3>1 DEF PoolTypeOK, WorkerGoto
    <3>8. NoTaskIsLost'
      BY <3>1, <3>5, <3>6, <3>7 DEF PoolInv, NoTaskIsLost
    <3> QED
      BY <3>2, <3>4, <3>8 DEF PoolInv
  <2> QED
    BY <2>1, <2>2
<1>5. ASSUME NEW w \in Worker, SpuriousWakeup(w) PROVE PoolInv'
  BY <1>0, <1>5, QuietPool DEF SpuriousWakeup, WorkerGoto, PoolTypeOK
<1>6. ASSUME NEW w \in Worker, RunTask(w) PROVE PoolInv'
  <2>1. PoolTypeOK' /\ StopIsKnown'
    BY <1>0, <1>6 DEF RunTask, PoolInv, PoolTypeOK, StopIsKnown, WorkerGoto
  <2>2. Cardinality(InFlight') = Cardinality(InFlight)
    BY <1>0, <1>6, InFlightSame DEF RunTask, WorkerGoto, PoolTypeOK
  <2>3. SizeCounts'
    BY <1>6, <2>2 DEF RunTask, PoolInv, SizeCounts
  <2>4. NoTaskIsLost'
    BY <1>0, <1>6 DEF RunTask, PoolInv, PoolTypeOK, NoTaskIsLost, Queued, WorkerGoto
  <2> QED
    BY <2>1, <2>3, <2>4 DEF PoolInv
<1>7. ASSUME NEW w \in Worker, Decrement(w) PROVE PoolInv'
  <2>1. PoolTypeOK' /\ StopIsKnown'
    BY <1>0, <1>7 DEF Decrement, PoolInv, PoolTypeOK, StopIsKnown, WorkerGoto
  <2>2. Cardinality(InFlight') = Cardinality(InFlight) - 1
    BY <1>0, <1>7, InFlightLess DEF Decrement
  <2>3. SizeCounts'
    BY <1>0, <1>7, <2>2, InFlightFinite DEF Decrement, PoolInv, PoolTypeOK, SizeCounts
  <2>4. NoTaskIsLost'
    BY <1>0, <1>7 DEF Decrement, PoolInv, PoolTypeOK, NoTaskIsLost, Queued, WorkerGoto
  <2> QED
    BY <2>1, <2>3, <2>4 DEF PoolInv
<1>8. ASSUME NEW w \in Worker, CheckEmpty(w) \/ NotifyEmpty(w) PROVE PoolInv'
  BY <1>0, <1>8, QuietPool DEF CheckEmpty, NotifyEmpty, WorkerGoto, PoolTypeOK
<1>9. CASE WaitCalled \/ WaitLooks
  BY <1>0, <1>9, QuietPool DEF WaitCalled, WaitLooks, PoolTypeOK
<1>10. CASE Stop
  <2>1. PoolTypeOK' /\ StopIsKnown'
    BY <1>0, <1>10 DEF Stop, PoolTypeOK, StopIsKnown
  <2>2. Cardinality(InFlight') = Cardinality(InFlight)
    BY <1>0, <1>10, InFlightSame DEF Stop, PoolTypeOK
  <2>3. SizeCounts' /\ NoTaskIsLost'
    BY <1>0, <1>10, <2>2 DEF Stop, PoolInv, PoolTypeOK, SizeCounts, NoTaskIsLost, Queued
  <2> QED
    BY <2>1, <2>3 DEF PoolInv
<1>11. CASE Terminate
  <2>0. m_isStop' = m_isStop /\ stopper # "idle"
    BY <1>11 DEF Terminate, JoinAll, ZeroSize, CleanTaskQueue
  <2>1. PoolTypeOK' /\ StopIsKnown'
    <3>1. StopIsKnown'
      BY <2>0 DEF PoolInv, StopIsKnown
    <3>2. CASE JoinAll
      BY <1>0, <3>1, <3>2 DEF JoinAll, PoolTypeOK
    <3>3. CASE ZeroSize
      BY <1>0, <3>1, <3>3 DEF ZeroSize, PoolTypeOK
    <3>4. CASE CleanTaskQueue
      BY <1>0, <3>1, <3>4 DEF CleanTaskQueue, PoolTypeOK
    <3> QED
      BY <1>11, <3>2, <3>3, <3>4 DEF Terminate
  <2>2. Cardinality(InFlight') = Cardinality(InFlight)
    BY <1>0, <1>11, InFlightSame DEF Terminate, JoinAll, ZeroSize, CleanTaskQueue
  <2>3. SizeCounts' /\ NoTaskIsLost'
    BY <1>11, <2>2 DEF Terminate, JoinAll, ZeroSize, CleanTaskQueue, PoolInv, SizeCounts, NoTaskIsLost, Queued
  <2> QED
    BY <2>1, <2>3 DEF PoolInv
<1> QED
  BY <1>1, <1>2, <1>3, <1>4, <1>5, <1>6, <1>7, <1>8, <1>9, <1>10, <1>11 DEF NewPoolNext, RunTaskLoop

LEMMA PoolSafe == NewPoolSpec => []PoolInv
BY InitPool, NextPool, PTL DEF NewPoolSpec

\* m_taskSize is the number of tasks queued and running, at every step of every worker and
\* of every caller, until terminate resets it.
THEOREM SizeIsRight == NewPoolSpec => []SizeCounts
<1>1. PoolInv => SizeCounts
  BY DEF PoolInv
<1> QED
  BY <1>1, PoolSafe, PTL

\* When Wait returns and the pool was not stopped, every task that was added has been run.
THEOREM WaitIsSound == NewPoolSpec => WaitSound
<1>1. ASSUME PoolInv, [NewPoolNext]_newPoolVars
      PROVE  [waiter = "lock" /\ waiter' = "idle" => added \subseteq done \/ m_isStop]_newPoolVars
  <2> SUFFICES ASSUME waiter = "lock", waiter' = "idle", ~m_isStop
               PROVE  added \subseteq done
    OBVIOUS
  <2>1. WaitLooks /\ WaitOver
    BY <1>1 DEF NewPoolNext, newPoolVars, AddTask, NotifyOne, RunTaskLoop, Lock, RunTask, Decrement, CheckEmpty,
                NotifyEmpty, WakeWaiter, SpuriousWakeup, WaitCalled, WaitLooks, Stop, Terminate,
                JoinAll, ZeroSize, CleanTaskQueue
  <2>2. m_taskQueue \in Seq(Task) /\ stopper = "idle"
    BY <1>1 DEF PoolInv, PoolTypeOK, StopIsKnown
  <2>3. Len(m_taskQueue) = 0 /\ Cardinality(InFlight) = 0
    BY <1>1, <2>1, <2>2, InFlightFinite DEF WaitOver, PoolInv, SizeCounts
  <2>4. InFlight = {}
    BY <2>3, InFlightFinite, FS_EmptySet
  <2> QED
    BY <1>1, <2>2, <2>3, <2>4 DEF PoolInv, NoTaskIsLost, Queued, InFlight
<1> QED
  BY <1>1, PoolSafe, PTL DEF NewPoolSpec, WaitSound

-----------------------------------------------------------------------------
(* ThreadPool.                                                             *)

\* The places of threadProc where it has Run to end, or handle_ to clear.
Alive == {"run", "clear_handle", "cancelled"}

Waiting(t) == \E i \in 1 .. Len(tasks_) : tasks_[i] = t

OwnerTypeOK ==
    /\ owner \in [op : P!Ops \cup {"none"}, i : Nat,
                  at : {"idle", "wait", "disable", "next", "poll", "joined"}]
    /\ owner.at = "idle" <=> owner = P!Idle
    /\ owner.at # "idle" => owner.i > 0
    /\ owner.at \in {"wait", "disable"} => owner.i = 1
    /\ owner.at = "poll" => owner.i <= Len(threads_)

\* A task is in one place, and no other task is there.
TasksApart ==
    /\ \A i, j \in 1 .. Len(tasks_) : tasks_[i] = tasks_[j] => i = j
    /\ \A v, w \in Worker : pool_holds[v] = pool_holds[w] /\ pool_holds[v] # NoTask => v = w
    /\ \A w \in Worker : pool_holds[w] # NoTask => ~Waiting(pool_holds[w])
    /\ \A t \in Task :
           \/ t \in pool_added /\ ran[t] = 0 /\ (Waiting(t) \/ \E w \in Worker : pool_holds[w] = t)
           \/ /\ ran[t] = IF t \in pool_added THEN 1 ELSE 0
              /\ ~Waiting(t) /\ \A w \in Worker : pool_holds[w] # t

\* A worker holds a task from Get to the end of it, inside Run.
HeldInRun ==
    \A w \in Worker : /\ pool_holds[w] # NoTask <=> at[w] = "task"
                      /\ at[w] = "task" => proc[w] \in {"run", "cancelled"}

\* A worker that is alive is one that a join waits for.
AliveIsKnown ==
    \A w \in Worker : proc[w] \in Alive => handle_[w] /\ running_[w] /\ w \in P!ToSet(threads_)

\* A join has passed only workers that are not alive, and has found them all.
JoinPassed ==
    /\ owner.at \in {"next", "poll"} =>
           \A j \in 1 .. Len(threads_) : j < owner.i => proc[threads_[j]] \notin Alive
    /\ owner.at = "joined" => \A w \in Worker : proc[w] \notin Alive

\* WaitAndJoin has seen the queue empty, and nobody puts a task into it meanwhile.
QueueStaysEmpty ==
    owner.op = "WaitAndJoin" /\ owner.at \in {"disable", "next", "poll", "joined"} => tasks_ = <<>>

ThreadPoolInv ==
    /\ P!TypeOK /\ OwnerTypeOK /\ TasksApart /\ HeldInRun /\ AliveIsKnown /\ JoinPassed
    /\ QueueStaysEmpty

\* ThreadPool counts as this module does.
LEMMA SameCardinality == \A S : P!Cardinality(S) = Cardinality(S)
BY DEF Cardinality, P!Cardinality

\* The new workers in some order.
LEMMA WorkersInOrder ==
    ASSUME NEW S \in SUBSET Worker
    PROVE  P!SetToSeq(S) \in Seq(Worker) /\ P!ToSet(P!SetToSeq(S)) = S
<1> DEFINE n == Cardinality(S)
<1>1. IsFiniteSet(S) /\ n \in Nat /\ ExistsBijection(1 .. n, S)
  BY PoolAssumption, FS_Subset, FS_CardinalityType
<1>2. PICK g : g \in Bijection(1 .. n, S)
  BY <1>1 DEF ExistsBijection
<1>3. \E f \in [1 .. n -> S] : P!IsInjective(f)
  BY <1>2 DEF Bijection, Injection, IsInjective, P!IsInjective
<1>4. P!SetToSeq(S) \in [1 .. n -> S] /\ P!IsInjective(P!SetToSeq(S))
  BY <1>3, SameCardinality DEF P!SetToSeq
<1>5. P!SetToSeq(S) \in Injection(1 .. n, S)
  BY <1>4 DEF Injection, IsInjective, P!IsInjective
<1>6. Cardinality(1 .. n) = n
  BY <1>1, FS_Interval
<1>7. P!SetToSeq(S) \in Surjection(1 .. n, S)
  BY <1>1, <1>5, <1>6, FS_Injection
<1> QED
  BY <1>1, <1>4, <1>7 DEF Surjection, P!ToSet

LEMMA InitThreadPool == P!Init => ThreadPoolInv
<1> SUFFICES ASSUME P!Init PROVE ThreadPoolInv
  OBVIOUS
<1>1. P!TypeOK
  <2>1. enabled_ \in BOOLEAN
    BY Zenon DEF P!Init
  <2>2. threads_ \in Seq(Worker) /\ tasks_ \in Seq(Task) /\ P!ThreadTypeOK
    BY DEF P!Init, P!ThreadInit, P!ThreadTypeOK, P!ProcStates
  <2> QED
    BY <2>1, <2>2, ThreadPoolAssumption DEF P!Init, P!TypeOK, P!Idle
<1>2. OwnerTypeOK
  BY DEF P!Init, OwnerTypeOK, P!Idle
<1>3. TasksApart /\ HeldInRun
  BY PoolAssumption DEF P!Init, TasksApart, HeldInRun, Waiting
<1>4. AliveIsKnown /\ JoinPassed /\ QueueStaysEmpty
  BY DEF P!Init, P!ThreadInit, AliveIsKnown, JoinPassed, QueueStaysEmpty, P!Idle, Alive
<1> QED
  BY <1>1, <1>2, <1>3, <1>4 DEF ThreadPoolInv

\* What AddWorker does, whichever thread cannot start.
LEMMA Started ==
    ASSUME ThreadPoolInv, P!PoolInit
    PROVE  \E ok \in SUBSET {w \in Worker : proc[w] = "none"} :
              /\ threads_' \in Seq(Worker) /\ P!ToSet(threads_) \cup ok \subseteq P!ToSet(threads_')
              /\ thr_enabled_' \in [Worker -> BOOLEAN]
              /\ running_' \in [Worker -> BOOLEAN] /\ handle_' \in [Worker -> BOOLEAN]
              /\ \A w \in Worker : /\ running_[w] \/ w \in ok => running_'[w]
                                   /\ handle_[w] \/ w \in ok => handle_'[w]
              /\ proc' = [w \in Worker |-> IF w \in ok THEN "run" ELSE proc[w]]
              /\ at' = [w \in Worker |-> IF w \in ok THEN "check" ELSE at[w]]
<1> DEFINE new == {w \in Worker : proc[w] = "none" /\ w \notin P!ToSet(threads_)}
<1>1. PICK ok \in SUBSET new, bad \in SUBSET new, noattr \in SUBSET new : P!AddWorker(ok, bad, noattr)
  BY DEF P!PoolInit
<1>2. P!TypeOK /\ P!ThreadTypeOK
  BY DEF ThreadPoolInv, P!TypeOK
<1> DEFINE s1 == P!SetToSeq(ok)
           s2 == P!SetToSeq(bad)
<1>3. s1 \in Seq(Worker) /\ P!ToSet(s1) = ok /\ s2 \in Seq(Worker)
  BY <1>1, WorkersInOrder
<1>4. threads_' = (threads_ \o s1) \o s2 /\ threads_ \in Seq(Worker)
  BY <1>1, <1>2 DEF P!AddWorker, P!TypeOK
<1>5. /\ threads_ \o s1 \in Seq(Worker) /\ Len(threads_ \o s1) = Len(threads_) + Len(s1)
      /\ \A i \in 1 .. Len(threads_) : (threads_ \o s1)[i] = threads_[i]
      /\ \A i \in 1 .. Len(s1) : (threads_ \o s1)[Len(threads_) + i] = s1[i]
  <2> HIDE DEF s1
  <2> QED
    BY <1>3, <1>4
<1>6. /\ threads_' \in Seq(Worker) /\ Len(threads_') = Len(threads_ \o s1) + Len(s2)
      /\ \A i \in 1 .. Len(threads_ \o s1) : threads_'[i] = (threads_ \o s1)[i]
  <2> HIDE DEF s1, s2
  <2> QED
    BY <1>3, <1>4, <1>5
<1>7. P!ToSet(threads_) \cup ok \subseteq P!ToSet(threads_')
  <2> HIDE DEF s1, s2
  <2>1. Len(threads_) \in Nat /\ Len(s1) \in Nat /\ Len(s2) \in Nat
    BY <1>3, <1>4
  <2>2. ASSUME NEW i \in 1 .. Len(threads_) PROVE threads_[i] \in P!ToSet(threads_')
    <3>1. i \in 1 .. Len(threads_') /\ threads_'[i] = threads_[i]
      BY <1>5, <1>6, <2>1
    <3> QED
      BY <1>6, <3>1 DEF P!ToSet
  <2>3. ASSUME NEW i \in 1 .. Len(s1) PROVE s1[i] \in P!ToSet(threads_')
    <3>1. Len(threads_) + i \in 1 .. Len(threads_') /\ threads_'[Len(threads_) + i] = s1[i]
      BY <1>5, <1>6, <2>1
    <3> QED
      BY <1>6, <3>1 DEF P!ToSet
  <2>4. P!ToSet(threads_) = {threads_[i] : i \in 1 .. Len(threads_)}
    BY <1>4 DEF P!ToSet
  <2>5. P!ToSet(s1) = {s1[i] : i \in 1 .. Len(s1)}
    BY <1>3 DEF P!ToSet
  <2> QED
    BY <1>3, <2>2, <2>3, <2>4, <2>5
<1>8. /\ thr_enabled_' \in [Worker -> BOOLEAN]
      /\ running_' \in [Worker -> BOOLEAN] /\ handle_' \in [Worker -> BOOLEAN]
      /\ \A w \in Worker : /\ running_[w] \/ w \in ok => running_'[w]
                           /\ handle_[w] \/ w \in ok => handle_'[w]
      /\ proc' = [w \in Worker |-> IF w \in ok THEN "run" ELSE proc[w]]
      /\ at' = [w \in Worker |-> IF w \in ok THEN "check" ELSE at[w]]
  BY <1>1, <1>2 DEF P!AddWorker, P!StartAll, P!ThreadTypeOK
<1> QED
  BY <1>6, <1>7, <1>8

LEMMA NextPoolTypes ==
    ASSUME ThreadPoolInv, [P!Next]_(P!vars)
    PROVE  P!TypeOK' /\ OwnerTypeOK'
<1>0. P!TypeOK /\ P!ThreadTypeOK /\ OwnerTypeOK
  BY DEF ThreadPoolInv, P!TypeOK
<1> USE DEF P!Ops, P!Joins
<1>1. CASE UNCHANGED P!vars
  BY <1>0, <1>1 DEF P!vars, P!threadVars, P!poolVars, P!workerVars, P!TypeOK, P!ThreadTypeOK, OwnerTypeOK
<1>2. CASE P!PoolInit
  <2>1. P!ThreadTypeOK' /\ threads_' \in Seq(Worker)
        /\ at' \in [Worker -> {"none", "check", "get", "task", "sleep", "done"}]
    BY <1>0, <1>2, Started DEF P!ThreadTypeOK, P!TypeOK, P!ProcStates
  <2>2. enabled_' \in BOOLEAN /\ UNCHANGED <<tasks_, pool_holds, ran, cancel, terminates, owner, pool_added>>
        /\ owner = P!Idle
    BY <1>2 DEF P!PoolInit, P!OwnerIdle
  <2> QED
    BY <1>0, <2>1, <2>2 DEF P!TypeOK, OwnerTypeOK, P!Idle
<1>3. ASSUME NEW t \in Task, P!AddTask(t) PROVE P!TypeOK' /\ OwnerTypeOK'
  BY <1>0, <1>3 DEF P!AddTask, P!TypeOK, P!ThreadTypeOK, P!threadVars, P!workerVars, OwnerTypeOK
\* The steps of the owner that change no more than these.
<1>4. ASSUME UNCHANGED <<running_, handle_, proc, tasks_, at, pool_holds, ran, pool_added>>,
             thr_enabled_' \in [Worker -> BOOLEAN], enabled_' \in BOOLEAN, threads_' \in Seq(Worker),
             cancel' \in SUBSET Worker, terminates' \in 0 .. MaxTerminate, OwnerTypeOK'
      PROVE  P!TypeOK'
  BY <1>0, <1>4 DEF P!TypeOK, P!ThreadTypeOK, OwnerTypeOK
<1>5. ASSUME NEW op \in P!Ops, P!Call(op) PROVE P!TypeOK' /\ OwnerTypeOK'
  <2>1. OwnerTypeOK'
    BY <1>0, <1>5 DEF P!Call, OwnerTypeOK, P!Idle
  <2> QED
    BY <1>0, <1>4, <1>5, <2>1 DEF P!Call, P!TypeOK, P!ThreadTypeOK, P!threadVars, P!poolVars, P!workerVars
<1>6. CASE P!WaitEnds \/ P!Disable
  <2>1. OwnerTypeOK'
    BY <1>0, <1>6 DEF P!WaitEnds, P!Disable, OwnerTypeOK, P!Idle, P!poolVars
  <2>2. enabled_' \in BOOLEAN
    BY <1>0, <1>6 DEF P!WaitEnds, P!Disable, P!poolVars, P!TypeOK
  <2> QED
    BY <1>0, <1>4, <1>6, <2>1, <2>2 DEF P!WaitEnds, P!Disable, P!TypeOK, P!ThreadTypeOK, P!threadVars, P!poolVars, P!workerVars
<1>7. CASE P!JoinNext \/ P!JoinPoll
  <2>1. OwnerTypeOK'
    <3>1. /\ \/ owner.at = "next" /\ owner' = [owner EXCEPT !.i = @ + 1]
             \/ owner.i <= Len(threads_) /\ owner.at = "next" /\ owner' = [owner EXCEPT !.at = "poll"]
             \/ owner.at = "poll" /\ owner' = [owner EXCEPT !.at = "next", !.i = @ + 1]
          /\ UNCHANGED threads_
      BY <1>7 DEF P!JoinNext, P!JoinPoll, P!poolVars
    <3>2. /\ owner \in [op : P!Ops \cup {"none"}, i : Nat,
                       at : {"idle", "wait", "disable", "next", "poll", "joined"}]
          /\ owner.i > 0 /\ owner.at \in {"next", "poll"}
      BY <1>0, <3>1 DEF OwnerTypeOK
    <3>3. /\ owner' \in [op : P!Ops \cup {"none"}, i : Nat,
                        at : {"idle", "wait", "disable", "next", "poll", "joined"}]
          /\ owner'.at \in {"next", "poll"} /\ owner'.i > 0
          /\ owner'.at = "poll" => owner'.i <= Len(threads_)
      <4>1. CASE owner.at = "next" /\ owner' = [owner EXCEPT !.i = @ + 1]
        BY <3>2, <4>1
      <4>2. CASE owner.i <= Len(threads_) /\ owner.at = "next" /\ owner' = [owner EXCEPT !.at = "poll"]
        BY <3>2, <4>2
      <4>3. CASE owner' = [owner EXCEPT !.at = "next", !.i = @ + 1]
        <5> DEFINE o == [owner EXCEPT !.at = "next"]
        <5>1. /\ o \in [op : P!Ops \cup {"none"}, i : Nat,
                        at : {"idle", "wait", "disable", "next", "poll", "joined"}]
              /\ o.at = "next" /\ o.i = owner.i /\ owner' = [o EXCEPT !.i = o.i + 1]
          BY <3>2, <4>3
        <5> HIDE DEF o
        <5> QED
          BY <3>2, <5>1
      <4> QED
        BY <3>1, <4>1, <4>2, <4>3
    <3>4. owner' # P!Idle
      BY <3>3 DEF P!Idle
    <3> QED
      BY <3>1, <3>3, <3>4 DEF OwnerTypeOK
  <2>2. thr_enabled_' \in [Worker -> BOOLEAN] /\ UNCHANGED <<running_, handle_, proc>>
    BY <1>0, <1>7 DEF P!JoinNext, P!JoinPoll, P!AskToStop, P!ThreadTypeOK, P!threadVars
  <2> QED
    BY <1>0, <1>4, <1>7, <2>1, <2>2 DEF P!JoinNext, P!JoinPoll, P!TypeOK, P!poolVars, P!workerVars
<1>8. CASE P!JoinReturns \/ P!OwnerGoesOn
  <2>1. OwnerTypeOK'
    BY <1>0, <1>8 DEF P!JoinReturns, P!OwnerGoesOn, OwnerTypeOK, P!Idle
  <2>2. threads_' \in {threads_, <<>>}
    BY <1>8 DEF P!JoinReturns, P!OwnerGoesOn, P!poolVars
  <2> QED
    BY <1>0, <1>4, <1>8, <2>1, <2>2, EmptySeq DEF P!JoinReturns, P!OwnerGoesOn, P!TypeOK, P!ThreadTypeOK, P!threadVars, P!poolVars, P!workerVars
<1>9. CASE P!Terminate
  <2>1. terminates' \in 0 .. MaxTerminate /\ cancel' \in SUBSET Worker
    <3>1. P!ToSet(threads_) \subseteq Worker
      BY <1>0 DEF P!TypeOK, P!ToSet
    <3> QED
      BY <1>0, <1>9, <3>1, ThreadPoolAssumption DEF P!Terminate, P!TypeOK
  <2>2. thr_enabled_' \in [Worker -> BOOLEAN] /\ UNCHANGED <<running_, handle_, proc>>
    BY <1>0, <1>9 DEF P!Terminate, P!Terminated, P!ThreadTypeOK
  <2> QED
    BY <1>0, <1>4, <1>9, <2>1, <2>2 DEF P!Terminate, P!TypeOK, OwnerTypeOK, P!poolVars, P!workerVars
<1>10. ASSUME NEW w \in Worker, P!WorkerStep(w) PROVE P!TypeOK' /\ OwnerTypeOK'
  <2>1. UNCHANGED <<enabled_, threads_, owner, terminates, pool_added, cancel>>
    BY <1>10 DEF P!WorkerStep, P!WorkerCheck, P!Get, P!RunTask, P!WorkerSleep, P!CancelledInRun, P!ProcEnds, P!Rest, P!poolVars
  <2>2. P!ThreadTypeOK'
    BY <1>0, <1>10 DEF P!WorkerStep, P!WorkerCheck, P!Get, P!RunTask, P!WorkerSleep, P!CancelledInRun, P!ProcEnds,
       P!RunReturns, P!Cancelled, P!ClearHandle, P!ClearRunning, P!threadVars, P!ThreadTypeOK, P!ProcStates
  <2>3. at' \in [Worker -> {"none", "check", "get", "task", "sleep", "done"}]
    BY <1>0, <1>10 DEF P!WorkerStep, P!WorkerCheck, P!Get, P!RunTask, P!WorkerSleep, P!CancelledInRun, P!ProcEnds,
       P!workerVars, P!TypeOK
  <2>4. pool_holds' \in [Worker -> Task \cup {NoTask}] /\ tasks_' \in Seq(Task)
    <3>1. CASE P!Get(w)
      <4>1. Len(tasks_) > 0 => Head(tasks_) \in Task /\ Tail(tasks_) \in Seq(Task)
        BY <1>0 DEF P!TypeOK
      <4> QED
        BY <1>0, <3>1, <4>1 DEF P!Get, P!TypeOK
    <3> QED
      BY <1>0, <1>10, <3>1 DEF P!WorkerStep, P!WorkerCheck, P!RunTask, P!WorkerSleep, P!CancelledInRun, P!ProcEnds,
         P!workerVars, P!poolVars, P!Rest, P!TypeOK
  <2>5. ran' \in [Task -> 0 .. 2]
    BY <1>0, <1>10 DEF P!WorkerStep, P!WorkerCheck, P!Get, P!RunTask, P!WorkerSleep, P!CancelledInRun, P!ProcEnds,
       P!workerVars, P!TypeOK
  <2> QED
    BY <1>0, <2>1, <2>2, <2>3, <2>4, <2>5 DEF P!TypeOK, OwnerTypeOK
<1> QED
  BY <1>1, <1>2, <1>3, <1>5, <1>6, <1>7, <1>8, <1>9, <1>10 DEF P!Next, P!Owner

\* Every step of the pool is one of these; only four change where a task is.
LEMMA PoolSteps ==
    ASSUME ThreadPoolInv, [P!Next]_(P!vars)
    PROVE  \/ UNCHANGED <<tasks_, pool_holds, pool_added, ran, at, proc, handle_, running_>>
           \/ P!PoolInit
           \/ \E t \in Task : P!AddTask(t)
           \/ \E w \in Worker : \/ P!WorkerCheck(w) \/ P!WorkerSleep(w) \/ P!CancelledInRun(w)
                                \/ P!ProcEnds(w) \/ P!Get(w) \/ P!RunTask(w)
<1>1. CASE UNCHANGED P!vars
  BY <1>1 DEF P!vars, P!threadVars, P!poolVars, P!workerVars
<1>2. ASSUME NEW op \in P!Ops, P!Call(op)
      PROVE  UNCHANGED <<tasks_, pool_holds, pool_added, ran, at, proc, handle_, running_>>
  BY <1>2 DEF P!Call, P!threadVars, P!poolVars, P!workerVars
<1>3. CASE P!WaitEnds \/ P!Disable \/ P!JoinReturns \/ P!OwnerGoesOn
  BY <1>3 DEF P!WaitEnds, P!Disable, P!JoinReturns, P!OwnerGoesOn, P!threadVars, P!poolVars, P!workerVars
<1>4. CASE P!JoinNext \/ P!JoinPoll \/ P!Terminate
  BY <1>4 DEF P!JoinNext, P!JoinPoll, P!Terminate, P!AskToStop, P!Terminated, P!threadVars, P!poolVars, P!workerVars
<1> QED
  BY <1>1, <1>2, <1>3, <1>4 DEF P!Next, P!Owner, P!WorkerStep

\* Get and AddTask move a task between the ends of the queue and a worker, RunTask from
\* the worker to its count, and no other step moves one.
LEMMA NextTasks ==
    ASSUME ThreadPoolInv, [P!Next]_(P!vars)
    PROVE  (TasksApart /\ HeldInRun)'
<1>0. P!TypeOK /\ P!ThreadTypeOK /\ TasksApart /\ HeldInRun /\ tasks_ \in Seq(Task) /\ NoTask \notin Task
  BY PoolAssumption DEF ThreadPoolInv, P!TypeOK
<1>1. ASSUME UNCHANGED <<tasks_, pool_holds, pool_added, ran>> PROVE TasksApart'
  BY <1>0, <1>1 DEF TasksApart, Waiting
<1>2. CASE UNCHANGED <<tasks_, pool_holds, pool_added, ran, at, proc, handle_, running_>>
  BY <1>0, <1>1, <1>2 DEF HeldInRun
<1>3. CASE P!PoolInit
  <2>1. UNCHANGED <<tasks_, pool_holds, ran, pool_added>>
    BY <1>3 DEF P!PoolInit
  <2> QED
    BY <1>0, <1>1, <1>3, <2>1, Started DEF HeldInRun
<1>4. ASSUME NEW t \in Task, P!AddTask(t) PROVE (TasksApart /\ HeldInRun)'
  <2>1. /\ t \notin pool_added /\ pool_added' = pool_added \cup {t} /\ tasks_' = Append(tasks_, t)
        /\ UNCHANGED <<pool_holds, ran, at, proc>>
    BY <1>4 DEF P!AddTask, P!threadVars, P!workerVars
  <2>2. /\ Len(tasks_') = Len(tasks_) + 1 /\ Len(tasks_) \in Nat /\ tasks_'[Len(tasks_) + 1] = t
        /\ \A i \in 1 .. Len(tasks_) : tasks_'[i] = tasks_[i]
    BY <1>0, <2>1
  <2>3. /\ ran[t] = 0 /\ ~Waiting(t) /\ \A w \in Worker : pool_holds[w] # t
    BY <1>0, <2>1 DEF TasksApart
  <2>4. \A u : Waiting(u)' <=> Waiting(u) \/ u = t
    BY <2>2 DEF Waiting
  <2>5. \A i, j \in 1 .. Len(tasks_') : tasks_'[i] = tasks_'[j] => i = j
    BY <1>0, <2>2, <2>3 DEF TasksApart, Waiting
  <2>6. \A u \in Task :
           \/ u \in pool_added' /\ ran'[u] = 0 /\ (Waiting(u)' \/ \E w \in Worker : pool_holds'[w] = u)
           \/ /\ ran'[u] = IF u \in pool_added' THEN 1 ELSE 0
              /\ ~Waiting(u)' /\ \A w \in Worker : pool_holds'[w] # u
    BY <1>0, <2>1, <2>3, <2>4 DEF TasksApart
  <2> QED
    BY <1>0, <2>1, <2>3, <2>4, <2>5, <2>6 DEF TasksApart, HeldInRun
<1>5. ASSUME NEW w \in Worker, P!WorkerCheck(w) \/ P!WorkerSleep(w) \/ P!CancelledInRun(w) \/ P!ProcEnds(w)
      PROVE  (TasksApart /\ HeldInRun)'
  <2>1. UNCHANGED <<tasks_, pool_holds, pool_added, ran>>
    BY <1>5 DEF P!WorkerCheck, P!WorkerSleep, P!CancelledInRun, P!ProcEnds, P!Rest, P!poolVars, P!workerVars
  <2>2. HeldInRun'
    BY <1>0, <1>5, <2>1 DEF P!WorkerCheck, P!WorkerSleep, P!CancelledInRun, P!ProcEnds, P!RunReturns, P!Cancelled,
       P!ClearHandle, P!ClearRunning, P!workerVars, P!threadVars, P!TypeOK, P!ThreadTypeOK, HeldInRun
  <2> QED
    BY <1>1, <2>1, <2>2
<1>6. ASSUME NEW w \in Worker, P!Get(w) PROVE (TasksApart /\ HeldInRun)'
  <2>1. CASE Len(tasks_) > 0
    <3>1. /\ pool_holds' = [pool_holds EXCEPT ![w] = Head(tasks_)] /\ tasks_' = Tail(tasks_)
          /\ at' = [at EXCEPT ![w] = "task"] /\ at[w] = "get" /\ proc[w] = "run"
          /\ UNCHANGED <<pool_added, ran, proc>>
      BY <1>6, <2>1 DEF P!Get, P!threadVars
    <3>2. /\ Len(tasks_) \in Nat /\ Len(tasks_') = Len(tasks_) - 1 /\ Head(tasks_) = tasks_[1]
          /\ \A i \in 1 .. Len(tasks_') : tasks_'[i] = tasks_[i + 1]
      BY <1>0, <2>1, <3>1
    <3>a. PICK t \in Task : t = Head(tasks_)
      BY <1>0, <2>1
    <3>3. t \in Task /\ Waiting(t)
      BY <1>0, <2>1, <3>a, <3>2 DEF Waiting
    <3>4. pool_holds[w] = NoTask /\ \A v \in Worker : pool_holds[v] # t
      BY <1>0, <3>a, <3>1, <3>3 DEF TasksApart, HeldInRun
    <3>5. \A u : Waiting(u) <=> Waiting(u)' \/ u = t
      <4>1. ASSUME NEW i \in 1 .. Len(tasks_), i # 1 PROVE \E j \in 1 .. Len(tasks_') : tasks_'[j] = tasks_[i]
        <5>1. i - 1 \in 1 .. Len(tasks_') /\ (i - 1) + 1 = i
          BY <3>2, <4>1
        <5> QED
          BY <3>2, <5>1
      <4>2. ASSUME NEW i \in 1 .. Len(tasks_') PROVE i + 1 \in 1 .. Len(tasks_) /\ tasks_'[i] = tasks_[i + 1]
        BY <3>2
      <4>3. t = tasks_[1] /\ 1 \in 1 .. Len(tasks_)
        BY <2>1, <3>a, <3>2
      <4>4. ASSUME NEW u, Waiting(u) PROVE Waiting(u)' \/ u = t
        BY <4>1, <4>3, <4>4, Zenon DEF Waiting
      <4>5. ASSUME NEW u, Waiting(u)' PROVE Waiting(u)
        BY <4>2, <4>5, Zenon DEF Waiting
      <4>6. Waiting(t)
        BY <3>3
      <4> QED
        BY <4>4, <4>5, <4>6, Zenon
    <3>6. ~Waiting(t)'
      <4> SUFFICES ASSUME NEW i \in 1 .. Len(tasks_'), tasks_'[i] = t PROVE FALSE
        BY DEF Waiting
      <4>1. i + 1 \in 1 .. Len(tasks_) /\ 1 \in 1 .. Len(tasks_) /\ tasks_[i + 1] = tasks_[1] /\ i + 1 # 1
        BY <2>1, <3>a, <3>2
      <4> QED
        BY <1>0, <4>1 DEF TasksApart
    <3>7. \A i, j \in 1 .. Len(tasks_') : tasks_'[i] = tasks_'[j] => i = j
      <4> SUFFICES ASSUME NEW i \in 1 .. Len(tasks_'), NEW j \in 1 .. Len(tasks_'), tasks_'[i] = tasks_'[j]
                   PROVE  i = j
        OBVIOUS
      <4>1. i + 1 \in 1 .. Len(tasks_) /\ j + 1 \in 1 .. Len(tasks_) /\ tasks_[i + 1] = tasks_[j + 1]
        BY <3>2
      <4>2. i + 1 = j + 1
        BY <1>0, <4>1 DEF TasksApart
      <4> QED
        BY <4>2
    <3>8. \A v \in Worker : pool_holds'[v] = IF v = w THEN t ELSE pool_holds[v]
      BY <1>0, <3>a, <3>1 DEF P!TypeOK
    <3>9. /\ \A v, u \in Worker : pool_holds'[v] = pool_holds'[u] /\ pool_holds'[v] # NoTask => v = u
          /\ \A v \in Worker : pool_holds'[v] # NoTask => ~Waiting(pool_holds[v])'
      BY <1>0, <3>4, <3>5, <3>6, <3>8 DEF TasksApart
    <3>10. \A u \in Task :
           \/ u \in pool_added' /\ ran'[u] = 0 /\ (Waiting(u)' \/ \E v \in Worker : pool_holds'[v] = u)
           \/ /\ ran'[u] = IF u \in pool_added' THEN 1 ELSE 0
              /\ ~Waiting(u)' /\ \A v \in Worker : pool_holds'[v] # u
      BY <1>0, <3>1, <3>3, <3>4, <3>5, <3>8 DEF TasksApart
    <3>11. HeldInRun'
      BY <1>0, <3>1, <3>3, <3>8 DEF HeldInRun, P!TypeOK
    <3> QED
      BY <3>7, <3>9, <3>10, <3>11 DEF TasksApart
  <2>2. CASE ~(Len(tasks_) > 0)
    <3>1. UNCHANGED <<tasks_, pool_holds, pool_added, ran, proc>> /\ at' = [at EXCEPT ![w] = "sleep"] /\ at[w] = "get"
      BY <1>6, <2>2 DEF P!Get, P!threadVars
    <3> QED
      BY <1>0, <1>1, <3>1 DEF HeldInRun, P!TypeOK
  <2> QED
    BY <2>1, <2>2
<1>7. ASSUME NEW w \in Worker, P!RunTask(w) PROVE (TasksApart /\ HeldInRun)'
  <2> DEFINE t == pool_holds[w]
  <2>1. /\ at[w] = "task" /\ at' = [at EXCEPT ![w] = "check"]
        /\ pool_holds' = [pool_holds EXCEPT ![w] = NoTask]
        /\ ran' = [ran EXCEPT ![t] = IF @ < 2 THEN @ + 1 ELSE 2]
        /\ UNCHANGED <<tasks_, pool_added, proc>>
    BY <1>7 DEF P!RunTask, P!Rest, P!poolVars, P!threadVars
  <2>2. t \in Task /\ ~Waiting(t)
    BY <1>0, <2>1 DEF HeldInRun, TasksApart, P!TypeOK
  <2>3. ran[t] = 0 /\ t \in pool_added
    BY <1>0, <2>2 DEF TasksApart
  <2>4. \A u \in Task : ran'[u] = IF u = t THEN 1 ELSE ran[u]
    BY <1>0, <2>1, <2>2, <2>3 DEF P!TypeOK
  <2>5. \A v \in Worker : pool_holds'[v] = IF v = w THEN NoTask ELSE pool_holds[v]
    BY <1>0, <2>1 DEF P!TypeOK
  <2>6. \A u : Waiting(u)' = Waiting(u)
    BY <2>1 DEF Waiting
  <2>7. \A v \in Worker : v # w => pool_holds[v] # t
    BY <1>0, <2>2 DEF TasksApart
  <2>8. HeldInRun'
    BY <1>0, <2>1, <2>5 DEF HeldInRun, P!TypeOK
  <2>9. t # NoTask
    BY <1>0, <2>2
  <2> HIDE DEF t
  <2>10. \A u \in Task :
           \/ u \in pool_added' /\ ran'[u] = 0 /\ (Waiting(u)' \/ \E v \in Worker : pool_holds'[v] = u)
           \/ /\ ran'[u] = IF u \in pool_added' THEN 1 ELSE 0
              /\ ~Waiting(u)' /\ \A v \in Worker : pool_holds'[v] # u
    <3> SUFFICES ASSUME NEW u \in Task
                 PROVE  \/ u \in pool_added' /\ ran'[u] = 0 /\ (Waiting(u)' \/ \E v \in Worker : pool_holds'[v] = u)
                        \/ /\ ran'[u] = IF u \in pool_added' THEN 1 ELSE 0
                           /\ ~Waiting(u)' /\ \A v \in Worker : pool_holds'[v] # u
      OBVIOUS
    <3>1. CASE u = t
      BY <1>0, <2>1, <2>2, <2>3, <2>4, <2>5, <2>6, <2>7, <2>9, <3>1
    <3>2. CASE u # t
      <4>1. pool_holds[w] # u
        BY <3>2 DEF t
      <4>2. ran'[u] = ran[u] /\ Waiting(u)' = Waiting(u) /\ pool_added' = pool_added /\ u # NoTask
        BY <1>0, <2>1, <2>4, <2>6, <3>2
      <4>3. \A v \in Worker : pool_holds'[v] = u <=> pool_holds[v] = u
        BY <2>5, <4>1, <4>2
      <4> QED
        BY <1>0, <4>2, <4>3 DEF TasksApart
    <3> QED
      BY <3>1, <3>2
  <2> QED
    BY <1>0, <2>1, <2>5, <2>6, <2>8, <2>10 DEF TasksApart
<1> QED
  BY <1>2, <1>3, <1>4, <1>5, <1>6, <1>7, PoolSteps

\* Terminate and the steps of the owner leave the workers as they are; a worker's step
\* makes none alive, and of one that stays alive it changes neither handle_ nor running_.
LEMMA AliveShrinks ==
    ASSUME ThreadPoolInv, [P!Next]_(P!vars), ~P!PoolInit,
           NEW w \in Worker, proc'[w] \in Alive
    PROVE  proc[w] \in Alive /\ handle_'[w] = handle_[w] /\ running_'[w] = running_[w]
<1>0. P!ThreadTypeOK
  BY DEF ThreadPoolInv, P!TypeOK
<1>1. ASSUME NEW v \in Worker,
             P!WorkerCheck(v) \/ P!WorkerSleep(v) \/ P!CancelledInRun(v) \/ P!ProcEnds(v) \/ P!Get(v) \/ P!RunTask(v)
      PROVE  proc[w] \in Alive /\ handle_'[w] = handle_[w] /\ running_'[w] = running_[w]
  BY <1>0, <1>1 DEF P!WorkerCheck, P!WorkerSleep, P!CancelledInRun, P!ProcEnds, P!Get, P!RunTask, P!RunReturns,
     P!Cancelled, P!ClearHandle, P!ClearRunning, P!threadVars, P!ThreadTypeOK, Alive
<1>2. ASSUME NEW t \in Task, P!AddTask(t) PROVE UNCHANGED <<proc, handle_, running_>>
  BY <1>2 DEF P!AddTask, P!threadVars
<1> QED
  BY <1>1, <1>2, PoolSteps

\* A worker that lives is in threads_ with its handle_ and running_ set, so that
\* JoinWithStop neither skips it nor ends before it does.
LEMMA NextJoins ==
    ASSUME ThreadPoolInv, [P!Next]_(P!vars)
    PROVE  (AliveIsKnown /\ JoinPassed /\ QueueStaysEmpty)'
<1>0. P!TypeOK /\ OwnerTypeOK /\ AliveIsKnown /\ JoinPassed /\ QueueStaysEmpty
  BY DEF ThreadPoolInv
<1>1. threads_ \in Seq(Worker) /\ tasks_ \in Seq(Task) /\ \A i \in 1 .. Len(threads_) : threads_[i] \in Worker
  BY <1>0 DEF P!TypeOK
<1>2. CASE P!PoolInit
  <2>1. UNCHANGED <<owner, tasks_>> /\ owner.at = "idle"
    BY <1>2 DEF P!PoolInit, P!OwnerIdle, P!Idle
  <2>2. AliveIsKnown'
    BY <1>0, <1>2, Started DEF AliveIsKnown
  <2> QED
    BY <2>1, <2>2 DEF JoinPassed, QueueStaysEmpty
<1> SUFFICES ASSUME ~P!PoolInit PROVE (AliveIsKnown /\ JoinPassed /\ QueueStaysEmpty)'
  BY <1>2
<1>3. \A w \in Worker : proc'[w] \in Alive =>
          proc[w] \in Alive /\ handle_'[w] = handle_[w] /\ running_'[w] = running_[w]
  BY AliveShrinks
<1>4. ASSUME UNCHANGED threads_ PROVE AliveIsKnown'
  BY <1>0, <1>3, <1>4 DEF AliveIsKnown
<1>5. ASSUME UNCHANGED <<threads_, owner>> PROVE JoinPassed'
  BY <1>0, <1>1, <1>3, <1>5 DEF JoinPassed
<1>6. CASE UNCHANGED P!vars \/ P!Terminate
  <2>1. UNCHANGED <<threads_, owner, tasks_>>
    BY <1>6 DEF P!vars, P!poolVars, P!Terminate
  <2> QED
    BY <1>0, <1>4, <1>5, <2>1 DEF QueueStaysEmpty
<1>7. ASSUME NEW t \in Task, P!AddTask(t) PROVE (AliveIsKnown /\ JoinPassed /\ QueueStaysEmpty)'
  <2>1. UNCHANGED <<threads_, owner>> /\ owner.at = "idle"
    BY <1>7 DEF P!AddTask, P!OwnerIdle, P!Idle
  <2> QED
    BY <1>4, <1>5, <2>1 DEF QueueStaysEmpty
<1>8. ASSUME NEW op \in P!Ops, P!Call(op) PROVE (AliveIsKnown /\ JoinPassed /\ QueueStaysEmpty)'
  <2>1. UNCHANGED <<threads_, tasks_>> /\ owner'.at \in {"wait", "disable"}
        /\ (owner'.op = "WaitAndJoin" => owner'.at = "wait")
    BY <1>8 DEF P!Call, P!poolVars
  <2> QED
    BY <1>4, <2>1 DEF JoinPassed, QueueStaysEmpty
<1>9. CASE P!WaitEnds
  <2>1. UNCHANGED <<threads_, tasks_>> /\ tasks_ = <<>>
    BY <1>1, <1>9 DEF P!WaitEnds, P!poolVars
  <2>2. owner'.at \in {"disable", "idle"}
    BY <1>0, <1>9 DEF P!WaitEnds, P!Idle, OwnerTypeOK
  <2> QED
    BY <1>4, <2>1, <2>2 DEF JoinPassed, QueueStaysEmpty
<1>10. CASE P!Disable
  <2>1. UNCHANGED <<threads_, tasks_>> /\ owner.at = "disable"
        /\ owner'.at = "next" /\ owner'.i = 1 /\ owner'.op = owner.op
    BY <1>0, <1>10 DEF P!Disable, OwnerTypeOK
  <2> QED
    BY <1>0, <1>4, <2>1 DEF JoinPassed, QueueStaysEmpty
<1>11. CASE P!JoinNext \/ P!JoinPoll
  <2>1. UNCHANGED <<threads_, tasks_>> /\ owner.at \in {"next", "poll"} /\ owner.i \in 1 .. Len(threads_)
    BY <1>0, <1>1, <1>11 DEF P!JoinNext, P!JoinPoll, P!poolVars, OwnerTypeOK
  <2>2. \/ owner' = [owner EXCEPT !.at = "poll"]
        \/ /\ owner' = [owner EXCEPT !.i = @ + 1] \/ owner' = [owner EXCEPT !.at = "next", !.i = @ + 1]
           /\ proc[threads_[owner.i]] \notin Alive
    BY <1>0, <1>1, <1>11, <2>1 DEF P!JoinNext, P!JoinPoll, P!JoinSkips, P!JoinLoopEnds, AliveIsKnown
  <2>3. /\ owner'.op = owner.op /\ owner'.at \in {"next", "poll"}
        /\ \/ owner'.i = owner.i
           \/ owner'.i = owner.i + 1 /\ proc[threads_[owner.i]] \notin Alive
    <3>1. CASE owner' = [owner EXCEPT !.at = "poll"]
      BY <1>0, <3>1 DEF OwnerTypeOK
    <3>2. CASE /\ owner' = [owner EXCEPT !.i = @ + 1]
               /\ proc[threads_[owner.i]] \notin Alive
      BY <1>0, <2>1, <3>2 DEF OwnerTypeOK
    <3>3. CASE /\ owner' = [owner EXCEPT !.at = "next", !.i = @ + 1]
               /\ proc[threads_[owner.i]] \notin Alive
      <4> DEFINE o == [owner EXCEPT !.at = "next"]
      <4>1. o \in [op : P!Ops \cup {"none"}, i : Nat,
                   at : {"idle", "wait", "disable", "next", "poll", "joined"}]
            /\ o.at = "next" /\ o.i = owner.i /\ o.op = owner.op /\ owner' = [o EXCEPT !.i = o.i + 1]
        BY <1>0, <3>3 DEF OwnerTypeOK
      <4> HIDE DEF o
      <4> QED
        BY <3>3, <4>1
    <3> QED
      BY <2>2, <3>1, <3>2, <3>3
  <2>4. \A j \in 1 .. Len(threads_) : j < owner'.i => proc[threads_[j]] \notin Alive
    BY <1>0, <2>1, <2>3 DEF JoinPassed
  <2>5. JoinPassed'
    BY <1>1, <1>3, <2>1, <2>3, <2>4 DEF JoinPassed
  <2>6. QueueStaysEmpty'
    BY <1>0, <2>1, <2>3 DEF QueueStaysEmpty
  <2> QED
    BY <1>4, <2>1, <2>5, <2>6
<1>12. CASE P!JoinReturns
  <2>1. /\ owner.at = "next" /\ owner.i > Len(threads_) /\ UNCHANGED tasks_
        /\ owner'.at = "joined" /\ owner'.op = owner.op
    BY <1>0, <1>12 DEF P!JoinReturns, OwnerTypeOK
  <2>2. \A w \in P!ToSet(threads_) : proc[w] \notin Alive
    <3>1. \A j \in 1 .. Len(threads_) : j < owner.i
      BY <1>0, <1>1, <2>1 DEF OwnerTypeOK
    <3> QED
      BY <1>0, <2>1, <3>1 DEF JoinPassed, P!ToSet
  <2>3. \A w \in Worker : proc'[w] \notin Alive
    BY <1>0, <1>3, <2>2 DEF AliveIsKnown
  <2> QED
    BY <1>0, <2>1, <2>3 DEF AliveIsKnown, JoinPassed, QueueStaysEmpty
<1>13. CASE P!OwnerGoesOn
  <2>1. UNCHANGED threads_ /\ owner'.at = "idle"
    BY <1>13 DEF P!OwnerGoesOn, P!Idle, P!poolVars
  <2> QED
    BY <1>4, <2>1 DEF JoinPassed, QueueStaysEmpty
<1>14. ASSUME NEW w \in Worker, P!WorkerStep(w) PROVE (AliveIsKnown /\ JoinPassed /\ QueueStaysEmpty)'
  <2>1. UNCHANGED <<threads_, owner>> /\ (tasks_ = <<>> => tasks_' = tasks_)
    BY <1>14 DEF P!WorkerStep, P!WorkerCheck, P!Get, P!RunTask, P!WorkerSleep, P!CancelledInRun, P!ProcEnds, P!Rest, P!poolVars
  <2> QED
    BY <1>0, <1>4, <1>5, <2>1 DEF QueueStaysEmpty
<1> QED
  BY <1>6, <1>7, <1>8, <1>9, <1>10, <1>11, <1>12, <1>13, <1>14 DEF P!Next, P!Owner

LEMMA ThreadPoolSafe == P!Spec => []ThreadPoolInv
<1>1. ThreadPoolInv /\ [P!Next]_(P!vars) => ThreadPoolInv'
  BY NextPoolTypes, NextTasks, NextJoins DEF ThreadPoolInv
<1> QED
  BY InitThreadPool, <1>1, PTL DEF P!Spec

\* A task that was added is in the queue, or held, or was run.
LEMMA TaskIsOnce == ThreadPoolInv => P!EachTaskOnce
<1> SUFFICES ASSUME ThreadPoolInv, NEW t \in pool_added
             PROVE  Cardinality({i \in 1 .. Len(tasks_) : tasks_[i] = t})
                      + Cardinality({w \in Worker : pool_holds[w] = t}) + ran[t] = 1
  BY SameCardinality DEF P!EachTaskOnce
<1> DEFINE Q == {i \in 1 .. Len(tasks_) : tasks_[i] = t}
           H == {w \in Worker : pool_holds[w] = t}
<1>1. t \in Task /\ t # NoTask /\ TasksApart
  BY PoolAssumption DEF ThreadPoolInv, P!TypeOK
<1>2. Cardinality({}) = 0 /\ \A x : Cardinality({x}) = 1
  BY FS_EmptySet, FS_Singleton
<1>3. CASE Waiting(t)
  <2>1. PICK i \in 1 .. Len(tasks_) : tasks_[i] = t
    BY <1>3 DEF Waiting
  <2>2. Q = {i} /\ H = {} /\ ran[t] = 0
    BY <1>1, <1>3, <2>1 DEF TasksApart
  <2>3. Cardinality(Q) = 1 /\ Cardinality(H) = 0
    BY <1>2, <2>2, Zenon
  <2> QED
    BY <2>2, <2>3
<1>4. CASE ~Waiting(t) /\ \E w \in Worker : pool_holds[w] = t
  <2>1. PICK w \in Worker : pool_holds[w] = t
    BY <1>4
  <2>2. Q = {} /\ H = {w} /\ ran[t] = 0
    BY <1>1, <1>4, <2>1 DEF TasksApart, Waiting
  <2>3. Cardinality(Q) = 0 /\ Cardinality(H) = 1
    BY <1>2, <2>2, Zenon
  <2> QED
    BY <2>2, <2>3
<1>5. CASE ~Waiting(t) /\ ~\E w \in Worker : pool_holds[w] = t
  <2>1. Q = {} /\ H = {} /\ ran[t] = 1
    BY <1>1, <1>5 DEF TasksApart, Waiting
  <2>2. Cardinality(Q) = 0 /\ Cardinality(H) = 0
    BY <1>2, <2>1, Zenon
  <2> QED
    BY <2>1, <2>2
<1> QED
  BY <1>3, <1>4, <1>5

\* Behind the join nobody holds a task, and the queue is empty.
LEMMA JoinIsComplete == ThreadPoolInv => P!WaitAndJoinRanAll
<1> SUFFICES ASSUME ThreadPoolInv, owner.op = "WaitAndJoin", owner.at = "joined", NEW t \in pool_added
             PROVE  ran[t] = 1
  BY DEF P!WaitAndJoinRanAll
<1>1. tasks_ = <<>> /\ \A w \in Worker : proc[w] \notin Alive
  BY DEF ThreadPoolInv, QueueStaysEmpty, JoinPassed
<1>2. ~Waiting(t)
  BY <1>1 DEF Waiting
<1>3. \A w \in Worker : pool_holds[w] = NoTask
  BY <1>1 DEF ThreadPoolInv, HeldInRun, Alive
<1>4. t \in Task /\ t # NoTask
  BY PoolAssumption DEF ThreadPoolInv, P!TypeOK
<1> QED
  BY <1>2, <1>3, <1>4 DEF ThreadPoolInv, TasksApart

\* In both pools no task is lost, run twice or forgotten by the call that waits for all:
\* a task of ThreadPool is queued, held by one worker or run once, at every step of every
\* worker and whatever is started, cancelled and joined; behind WaitAndJoin all were run;
\* and m_taskSize of ThreadNewPool counts the tasks that are queued or running.
THEOREM Tasks == P!Spec /\ NewPoolSpec => []TasksAccountedFor
<1>1. ThreadPoolInv /\ SizeCounts => TasksAccountedFor
  BY TaskIsOnce, JoinIsComplete DEF ThreadPoolInv, TasksAccountedFor
<1> QED
  BY <1>1, ThreadPoolSafe, SizeIsRight, PTL

-----------------------------------------------------------------------------
(* The watchdog.                                                           *)

\* Until agentd has stopped, the key names the one segment that both processes use;
\* so a time the agent wrote since the last look is one that agentd sees.
WatchdogInv ==
    /\ shm_key \in Nat /\ segments \in Nat /\ agentds \in 0 .. 1
    /\ differs \in BOOLEAN /\ wrote \in BOOLEAN
    /\ agentd \in {"up", "down"}
    /\ agentd = "up" => agentds = 1 /\ shm = shm_key /\ shm_key # 0
    /\ agentds = 0 \/ agentd = "up" => shared \in {0, shm_key}
    /\ wrote => differs /\ agentd = "up"

LEMMA InitWatchdog == D!Init => WatchdogInv
<1> SUFFICES ASSUME D!Init PROVE WatchdogInv
  OBVIOUS
<1>1. differs \in BOOLEAN /\ wrote \in BOOLEAN
  BY Zenon DEF D!Init
<1>2. ~wrote
  BY DEF D!Init
<1> QED
  BY <1>1, <1>2 DEF D!Init, WatchdogInv

LEMMA NextWatchdog == WatchdogInv /\ [D!Next]_(D!vars) => WatchdogInv'
<1> SUFFICES ASSUME WatchdogInv, [D!Next]_(D!vars) PROVE WatchdogInv'
  OBVIOUS
<1>1. CASE UNCHANGED D!vars
  BY <1>1 DEF D!vars, WatchdogInv
\* shmget by either process: the key is kept, or made when there was none.
<1>2. ASSUME D!AgentStarts
      PROVE  /\ shm_key' \in Nat /\ segments' \in Nat /\ shared' \in {0, shm_key'}
             /\ shm_key # 0 => shm_key' = shm_key
  BY <1>2 DEF D!AgentStarts, D!AgentShmget, D!Segment, WatchdogInv
<1>3. CASE D!StartAgent
  <2>1. UNCHANGED <<agentd, shm, differs, wrote, agentds>> /\ D!AgentStarts
    BY <1>3 DEF D!StartAgent
  <2> QED
    BY <1>2, <2>1 DEF WatchdogInv
<1>4. CASE D!OnTimer
  BY <1>4 DEF D!OnTimer, WatchdogInv
<1>5. CASE D!AgentStops
  BY <1>5 DEF D!AgentStops, WatchdogInv
<1>6. CASE D!StartAgentd
  <2>1. /\ agentds' = 1 /\ agentd' = "up" /\ shm' = shm_key' /\ shm_key' \in Nat \ {0} /\ segments' \in Nat
        /\ shm_key = 0 \/ shm_key' = shm_key
        /\ UNCHANGED <<shared, wrote>> /\ agentds = 0 /\ agentd = "down"
    BY <1>6 DEF D!StartAgentd, D!Segment, WatchdogInv
  <2>2. differs' \in BOOLEAN
    BY <1>6 DEF D!StartAgentd
  <2> QED
    BY <2>1, <2>2 DEF WatchdogInv
<1>7. CASE D!Look
  <2>1. UNCHANGED <<agentd, shm, agentds>> /\ ~differs' /\ ~wrote' /\ agentd = "up"
    BY <1>7 DEF D!Look, D!LookAtShared
  <2>2. differs' \in BOOLEAN /\ wrote' \in BOOLEAN
    BY <1>7, Zenon DEF D!Look, D!LookAtShared
  <2>3. D!AgentStarts \/ UNCHANGED <<shared, shm_key, segments>>
    BY <1>7 DEF D!Look, D!LookAtShared, D!Exec
  <2> QED
    BY <1>2, <2>1, <2>2, <2>3 DEF WatchdogInv
<1>8. CASE D!StopAgentd \/ D!KillAgentd
  <2>1. differs' \in BOOLEAN /\ wrote' \in BOOLEAN
    BY <1>8, Zenon DEF D!StopAgentd, D!KillAgentd
  <2> QED
    BY <1>8, <2>1 DEF D!StopAgentd, D!KillAgentd, WatchdogInv
<1> QED
  BY <1>1, <1>3, <1>4, <1>5, <1>6, <1>7, <1>8 DEF D!Next

\* agentd takes no agent for dead that wrote its time since the last look, whichever of the
\* two was started first and however often the agent stops, restarts or finds no segment,
\* as long as agentd itself is started once.
THEOREM Alarms == D!Spec => AlarmOnlyIfSilent
<1>1. WatchdogInv /\ [D!Next]_(D!vars) => [D!Look => ~(wrote /\ alarm')]_daemonVars
  <2> SUFFICES ASSUME WatchdogInv, D!Look, wrote PROVE ~alarm'
    OBVIOUS
  <2> QED
    BY DEF D!Look, D!LookAtShared, WatchdogInv
<1> QED
  BY <1>1, InitWatchdog, NextWatchdog, PTL DEF D!Spec, AlarmOnlyIfSilent

-----------------------------------------------------------------------------
(* utils::Timer.                                                           *)

TimerElement == [id : Nat, expire : Nat]
Callback == [id : Nat, expire : Nat, at : Nat]

TimerTypeOK ==
    /\ now \in Nat /\ current_time \in 0 .. now
    /\ time_ele_ \in Seq(TimerElement) /\ exeute_list_ \in Seq(TimerElement)
    /\ executed \in 0 .. Len(exeute_list_)
    /\ fired \in Seq(Callback)
    /\ global_element_id_ \in Nat \ {0}
    /\ loop # "execute" => exeute_list_ = <<>>

\* From position a on, the elements of q have different ids, or one has this id.
DifferentFrom(q, a) == \A i, j \in a .. Len(q) : q[i].id = q[j].id => i = j
InFrom(q, a, id) == \E i \in a .. Len(q) : q[i].id = id

\* An element that was added waits, is taken for execution, was fired or was deleted.
Waits(id) == InFrom(time_ele_, 1, id)
Taken(id) == InFrom(exeute_list_, executed + 1, id)
Fired(id) == InFrom(fired, 1, id)
Deleted(id) == id \in deleted

OneOf(a, b, c, d) == (a \/ b \/ c \/ d) /\ ~(a /\ (b \/ c \/ d)) /\ ~(b /\ (c \/ d)) /\ ~(c /\ d)

ElementsApart ==
    /\ DifferentFrom(time_ele_, 1) /\ DifferentFrom(exeute_list_, executed + 1)
    /\ DifferentFrom(fired, 1)
    /\ \A id \in Nat : IF id \in 1 .. global_element_id_ - 1
                       THEN OneOf(Waits(id), Taken(id), Fired(id), Deleted(id))
                       ELSE ~(Waits(id) \/ Taken(id) \/ Fired(id) \/ Deleted(id))

\* From position a on, the elements of q come in the order of their times, and none
\* before time.
OrderedFrom(q, a) == \A i, j \in a .. Len(q) : i < j => q[i].expire <= q[j].expire
AfterFrom(q, a, time) == \A i \in a .. Len(q) : time <= q[i].expire

\* What was fired, is taken and waits follow each other, and what was fired or taken
\* expired by current_time.
TimesInOrder ==
    /\ OrderedFrom(time_ele_, 1) /\ OrderedFrom(exeute_list_, executed + 1) /\ OrderedFrom(fired, 1)
    /\ \A i \in executed + 1 .. Len(exeute_list_) :
           /\ exeute_list_[i].expire <= current_time
           /\ AfterFrom(time_ele_, 1, exeute_list_[i].expire)
    /\ \A i \in 1 .. Len(fired) :
           /\ fired[i].expire <= current_time /\ fired[i].expire <= fired[i].at
           /\ AfterFrom(time_ele_, 1, fired[i].expire)
           /\ AfterFrom(exeute_list_, executed + 1, fired[i].expire)

TimerInv == TimerTypeOK /\ ElementsApart /\ TimesInOrder

\* The elements of q behind the first a, up to the b-th.
LEMMA Cut ==
    ASSUME NEW q \in Seq(TimerElement), NEW b \in 0 .. Len(q), NEW a \in 0 .. b
    PROVE  /\ SubSeq(q, a + 1, b) \in Seq(TimerElement) /\ Len(SubSeq(q, a + 1, b)) = b - a
           /\ \A i \in 1 .. b - a : SubSeq(q, a + 1, b)[i] = q[a + i]
<1> DEFINE s == SubSeq(q, a + 1, b)
<1>1. \A i \in a + 1 .. b : q[i] \in TimerElement
  BY ElementOfSeq
<1>2. /\ s \in Seq(TimerElement) /\ Len(s) = IF a + 1 <= b THEN b - (a + 1) + 1 ELSE 0
      /\ \A i \in 1 .. b - (a + 1) + 1 : s[i] = q[(a + 1) + i - 1]
  BY <1>1, SubSeqProperties
<1>3. b - (a + 1) + 1 = b - a /\ \A i \in 1 .. b - a : (a + 1) + i - 1 = a + i
  OBVIOUS
<1> HIDE DEF s
<1>4. s \in Seq(TimerElement) /\ Len(s) = b - a /\ \A i \in 1 .. b - a : s[i] = q[a + i]
  BY <1>2, <1>3
<1> QED
  BY <1>4 DEF s

\* Of a sequence of which elements were taken away, the rest is as it was.
LEMMA Kept ==
    ASSUME NEW q \in Seq(TimerElement), NEW s \in Seq(TimerElement), NEW f,
           \A i \in 1 .. Len(s) : f[i] \in 1 .. Len(q) /\ s[i] = q[f[i]],
           \A i, j \in 1 .. Len(s) : i < j => f[i] < f[j]
    PROVE  /\ DifferentFrom(q, 1) => DifferentFrom(s, 1)
           /\ OrderedFrom(q, 1) => OrderedFrom(s, 1)
           /\ \A x : AfterFrom(q, 1, x) => AfterFrom(s, 1, x)
           /\ \A x : InFrom(s, 1, x) => InFrom(q, 1, x)
<1>1. ASSUME DifferentFrom(q, 1), NEW i \in 1 .. Len(s), NEW j \in 1 .. Len(s), s[i].id = s[j].id
      PROVE  i = j
  <2>1. f[i] = f[j]
    BY <1>1 DEF DifferentFrom
  <2>2. f[i] \in Nat /\ f[j] \in Nat /\ ~(i < j) /\ ~(j < i)
    BY <2>1
  <2> QED
    BY <2>2
<1>2. ASSUME OrderedFrom(q, 1), NEW i \in 1 .. Len(s), NEW j \in 1 .. Len(s), i < j
      PROVE  s[i].expire <= s[j].expire
  BY <1>2 DEF OrderedFrom
<1>3. ASSUME NEW x, AfterFrom(q, 1, x) PROVE AfterFrom(s, 1, x)
  BY <1>3 DEF AfterFrom
<1>4. ASSUME NEW x, InFrom(s, 1, x) PROVE InFrom(q, 1, x)
  BY <1>4 DEF InFrom
<1> QED
  BY <1>1, <1>2, <1>3, <1>4 DEF DifferentFrom, OrderedFrom

\* multimap::erase of one element.
LEMMA Removed ==
    ASSUME NEW q \in Seq(TimerElement), NEW m \in 1 .. Len(q), NEW s, s = T!RemoveAt(q, m)
    PROVE  /\ s \in Seq(TimerElement)
           /\ DifferentFrom(q, 1) =>
                DifferentFrom(s, 1) /\ \A x : InFrom(s, 1, x) <=> InFrom(q, 1, x) /\ x # q[m].id
           /\ OrderedFrom(q, 1) => OrderedFrom(s, 1)
           /\ \A x : AfterFrom(q, 1, x) => AfterFrom(s, 1, x)
<1> DEFINE n == Len(q)
           q1 == SubSeq(q, 0 + 1, m - 1)
           q2 == SubSeq(q, m + 1, n)
           f(i) == IF i < m THEN i ELSE i + 1
<1>0. n \in Nat /\ m \in 1 .. n /\ 0 \in 0 .. m - 1 /\ m - 1 \in 0 .. n /\ m \in 0 .. n /\ n \in 0 .. n
  OBVIOUS
<1>1. q1 \in Seq(TimerElement) /\ Len(q1) = (m - 1) - 0 /\ \A i \in 1 .. (m - 1) - 0 : q1[i] = q[0 + i]
  BY <1>0, Cut
<1>2. q2 \in Seq(TimerElement) /\ Len(q2) = n - m /\ \A i \in 1 .. n - m : q2[i] = q[m + i]
  BY <1>0, Cut
<1>3. s = q1 \o q2
  <2>1. 0 + 1 = 1
    OBVIOUS
  <2> QED
    BY <2>1, Zenon DEF T!RemoveAt
<1> HIDE DEF q1, q2, n
<1>4. s \in Seq(TimerElement) /\ Len(s) = n - 1 /\ \A i \in 1 .. n - 1 : s[i] = IF i < m THEN q1[i] ELSE q2[i - (m - 1)]
  <2>1. /\ q1 \o q2 \in Seq(TimerElement) /\ Len(q1 \o q2) = Len(q1) + Len(q2)
        /\ \A i \in 1 .. Len(q1) + Len(q2) : (q1 \o q2)[i] = IF i <= Len(q1) THEN q1[i] ELSE q2[i - Len(q1)]
    BY <1>1, <1>2, ConcatProperties, Zenon
  <2>2. Len(q1) + Len(q2) = n - 1 /\ Len(q1) = m - 1
    BY <1>0, <1>1, <1>2
  <2>3. /\ s \in Seq(TimerElement) /\ Len(s) = n - 1
        /\ \A i \in 1 .. n - 1 : s[i] = IF i <= m - 1 THEN q1[i] ELSE q2[i - (m - 1)]
    BY <1>3, <2>1, <2>2, Zenon
  <2> QED
    BY <1>0, <2>3
<1>5. ASSUME NEW i \in 1 .. n - 1 PROVE f(i) \in 1 .. n /\ f(i) # m /\ s[i] = q[f(i)]
  <2>1. CASE i < m
    BY <1>0, <1>1, <1>4, <2>1
  <2>2. CASE i >= m
    <3>1. i - (m - 1) \in 1 .. n - m /\ m + (i - (m - 1)) = i + 1
      BY <1>0, <2>2
    <3>2. q2[i - (m - 1)] = q[i + 1]
      BY <1>2, <3>1
    <3> QED
      BY <1>0, <1>4, <2>2, <3>2
  <2> QED
    BY <1>0, <2>1, <2>2
<1>6. \A i, j \in 1 .. n - 1 : i < j => f(i) < f(j)
  BY <1>0
<1>7. ASSUME NEW j \in 1 .. n, j # m PROVE \E i \in 1 .. n - 1 : f(i) = j
  <2>1. CASE j < m
    BY <1>0, <2>1
  <2>2. CASE j > m
    <3>1. j - 1 \in 1 .. n - 1 /\ ~(j - 1 < m) /\ (j - 1) + 1 = j
      BY <1>0, <2>2
    <3> QED
      BY <3>1
  <2> QED
    BY <1>0, <1>7, <2>1, <2>2
<1> HIDE DEF f
<1>8. /\ DifferentFrom(q, 1) => DifferentFrom(s, 1)
      /\ OrderedFrom(q, 1) => OrderedFrom(s, 1)
      /\ \A x : AfterFrom(q, 1, x) => AfterFrom(s, 1, x)
      /\ \A x : InFrom(s, 1, x) => InFrom(q, 1, x)
  <2> DEFINE h == [i \in 1 .. Len(s) |-> f(i)]
  <2>1. /\ \A i \in 1 .. Len(s) : h[i] \in 1 .. Len(q) /\ s[i] = q[h[i]]
        /\ \A i, j \in 1 .. Len(s) : i < j => h[i] < h[j]
    BY <1>4, <1>5, <1>6 DEF n
  <2> HIDE DEF h
  <2> QED
    BY <1>4, <2>1, Kept
<1>9. ASSUME DifferentFrom(q, 1), NEW x, InFrom(s, 1, x) PROVE x # q[m].id
  <2>1. PICK i \in 1 .. n - 1 : s[i].id = x
    BY <1>4, <1>9 DEF InFrom
  <2>2. f(i) \in 1 .. n /\ f(i) # m /\ s[i] = q[f(i)]
    BY <1>5
  <2>3. m \in 1 .. n /\ \A j, k \in 1 .. n : q[j].id = q[k].id => j = k
    BY <1>0, <1>9 DEF DifferentFrom, n
  <2> QED
    BY <2>1, <2>2, <2>3, Zenon
<1>10. ASSUME NEW x, InFrom(q, 1, x), x # q[m].id PROVE InFrom(s, 1, x)
  <2>1. PICK j \in 1 .. n : q[j].id = x
    BY <1>10 DEF InFrom, n
  <2>2. PICK i \in 1 .. n - 1 : f(i) = j
    BY <1>7, <1>10, <2>1
  <2> QED
    BY <1>4, <1>5, <2>1, <2>2 DEF InFrom
<1> QED
  BY <1>4, <1>8, <1>9, <1>10, Zenon

\* The first k elements of q, a, are taken, and the others, b, stay.
IsSplit(q, k, a, b) ==
    /\ a \in Seq(TimerElement) /\ b \in Seq(TimerElement)
    /\ DifferentFrom(q, 1) =>
         /\ DifferentFrom(a, 1) /\ DifferentFrom(b, 1)
         /\ \A x : /\ InFrom(q, 1, x) <=> InFrom(a, 1, x) \/ InFrom(b, 1, x)
                   /\ ~(InFrom(a, 1, x) /\ InFrom(b, 1, x))
    /\ OrderedFrom(q, 1) =>
         /\ OrderedFrom(a, 1) /\ OrderedFrom(b, 1)
         /\ \A i \in 1 .. Len(a) : AfterFrom(b, 1, a[i].expire)
    /\ \A x : AfterFrom(q, 1, x) => AfterFrom(a, 1, x) /\ AfterFrom(b, 1, x)
    /\ Len(a) = k /\ \A i \in 1 .. k : a[i] = q[i]
    /\ Len(b) = Len(q) - k /\ \A i \in 1 .. Len(q) - k : b[i] = q[k + i]

LEMMA Split ==
    ASSUME NEW q \in Seq(TimerElement), NEW k \in 0 .. Len(q), NEW a, NEW b,
           a = SubSeq(q, 1, k), b = SubSeq(q, k + 1, Len(q))
    PROVE  IsSplit(q, k, a, b)
<1> DEFINE n == Len(q)
           f(i) == i
           g(i) == k + i
<1>0. n \in Nat /\ k \in 0 .. n
  OBVIOUS
<1>1. a \in Seq(TimerElement) /\ Len(a) = k /\ \A i \in 1 .. k : f(i) \in 1 .. n /\ a[i] = q[f(i)]
  <2>1. /\ SubSeq(q, 0 + 1, k) \in Seq(TimerElement) /\ Len(SubSeq(q, 0 + 1, k)) = k - 0
        /\ \A i \in 1 .. k - 0 : SubSeq(q, 0 + 1, k)[i] = q[0 + i]
    BY <1>0, Cut
  <2>2. 0 + 1 = 1 /\ k - 0 = k /\ \A i \in 1 .. k : 0 + i = i /\ i \in 1 .. n
    BY <1>0
  <2> QED
    BY <2>1, <2>2, Zenon
<1>2. b \in Seq(TimerElement) /\ Len(b) = n - k /\ \A i \in 1 .. n - k : g(i) \in 1 .. n /\ b[i] = q[g(i)]
  <2>1. /\ SubSeq(q, k + 1, n) \in Seq(TimerElement) /\ Len(SubSeq(q, k + 1, n)) = n - k
        /\ \A i \in 1 .. n - k : SubSeq(q, k + 1, n)[i] = q[k + i]
    BY <1>0, Cut
  <2>2. \A i \in 1 .. n - k : k + i \in 1 .. n
    BY <1>0
  <2> QED
    BY <2>1, <2>2, Zenon
<1>3. /\ \A i, j \in 1 .. k : i < j => f(i) < f(j)
      /\ \A i, j \in 1 .. n - k : i < j => g(i) < g(j)
      /\ \A i \in 1 .. k, j \in 1 .. n - k : f(i) < g(j)
      /\ \A j \in 1 .. n : (\E i \in 1 .. k : f(i) = j) \/ (\E i \in 1 .. n - k : g(i) = j)
  <2>1. ASSUME NEW j \in 1 .. n PROVE (\E i \in 1 .. k : f(i) = j) \/ (\E i \in 1 .. n - k : g(i) = j)
    <3>1. CASE j <= k
      BY <1>0, <3>1
    <3>2. CASE j > k
      <4>1. j - k \in 1 .. n - k /\ k + (j - k) = j
        BY <1>0, <3>2
      <4> QED
        BY <4>1
    <3> QED
      BY <1>0, <3>1, <3>2
  <2> QED
    BY <1>0, <2>1
<1> HIDE DEF n, f, g
<1>4. /\ DifferentFrom(q, 1) => DifferentFrom(a, 1)
      /\ OrderedFrom(q, 1) => OrderedFrom(a, 1)
      /\ \A x : AfterFrom(q, 1, x) => AfterFrom(a, 1, x)
      /\ \A x : InFrom(a, 1, x) => InFrom(q, 1, x)
  <2> DEFINE h == [i \in 1 .. Len(a) |-> f(i)]
  <2>1. /\ \A i \in 1 .. Len(a) : h[i] \in 1 .. Len(q) /\ a[i] = q[h[i]]
        /\ \A i, j \in 1 .. Len(a) : i < j => h[i] < h[j]
    BY <1>1, <1>3 DEF n
  <2> HIDE DEF h
  <2> QED
    BY <1>1, <2>1, Kept
<1>5. /\ DifferentFrom(q, 1) => DifferentFrom(b, 1)
      /\ OrderedFrom(q, 1) => OrderedFrom(b, 1)
      /\ \A x : AfterFrom(q, 1, x) => AfterFrom(b, 1, x)
      /\ \A x : InFrom(b, 1, x) => InFrom(q, 1, x)
  <2> DEFINE h == [i \in 1 .. Len(b) |-> g(i)]
  <2>1. /\ \A i \in 1 .. Len(b) : h[i] \in 1 .. Len(q) /\ b[i] = q[h[i]]
        /\ \A i, j \in 1 .. Len(b) : i < j => h[i] < h[j]
    BY <1>2, <1>3 DEF n
  <2> HIDE DEF h
  <2> QED
    BY <1>2, <2>1, Kept
<1>6. ASSUME NEW x, InFrom(q, 1, x) PROVE InFrom(a, 1, x) \/ InFrom(b, 1, x)
  <2>1. PICK j \in 1 .. n : q[j].id = x
    BY <1>6 DEF InFrom, n
  <2>2. CASE \E i \in 1 .. k : f(i) = j
    BY <1>1, <2>1, <2>2 DEF InFrom
  <2>3. CASE \E i \in 1 .. n - k : g(i) = j
    BY <1>2, <2>1, <2>3 DEF InFrom
  <2> QED
    BY <1>3, <2>2, <2>3
<1>7. ASSUME DifferentFrom(q, 1), NEW x, InFrom(a, 1, x), InFrom(b, 1, x) PROVE FALSE
  <2>1. PICK i \in 1 .. k, j \in 1 .. n - k : a[i].id = b[j].id
    BY <1>1, <1>2, <1>7 DEF InFrom
  <2>2. f(i) = g(j) /\ f(i) \in 1 .. n
    <3>1. f(i) \in 1 .. n /\ g(j) \in 1 .. n /\ a[i] = q[f(i)] /\ b[j] = q[g(j)]
      BY <1>1, <1>2, Zenon
    <3> QED
      BY <1>7, <2>1, <3>1, Zenon DEF DifferentFrom, n
  <2> QED
    BY <1>0, <1>3, <2>2
<1>8. ASSUME OrderedFrom(q, 1), NEW i \in 1 .. Len(a), NEW j \in 1 .. Len(b) PROVE a[i].expire <= b[j].expire
  <2>1. f(i) \in 1 .. n /\ g(j) \in 1 .. n /\ f(i) < g(j) /\ a[i] = q[f(i)] /\ b[j] = q[g(j)]
    BY <1>1, <1>2, <1>3
  <2> QED
    BY <1>8, <2>1 DEF OrderedFrom, n
<1>9. \A i \in 1 .. k : a[i] = q[i]
  BY <1>1 DEF f
<1>10. Len(b) = Len(q) - k /\ \A i \in 1 .. Len(q) - k : b[i] = q[k + i]
  BY <1>2, Zenon DEF g, n
<1> QED
  <2>1. OrderedFrom(q, 1) => \A i \in 1 .. Len(a) : AfterFrom(b, 1, a[i].expire)
    BY <1>8 DEF AfterFrom
  <2> QED
    BY <1>1, <1>2, <1>4, <1>5, <1>6, <1>7, <1>9, <1>10, <2>1, Zenon DEF IsSplit

\* multimap::insert.
LEMMA Inserted ==
    ASSUME NEW q \in Seq(TimerElement), NEW k \in 0 .. Len(q), NEW e \in TimerElement,
           NEW s, s = T!InsertAt(q, k + 1, e)
    PROVE  /\ s \in Seq(TimerElement)
           /\ \A x : InFrom(s, 1, x) <=> InFrom(q, 1, x) \/ x = e.id
           /\ DifferentFrom(q, 1) /\ ~InFrom(q, 1, e.id) => DifferentFrom(s, 1)
           /\ OrderedFrom(q, 1) /\ (\A i \in 1 .. k : q[i].expire <= e.expire)
                /\ (k < Len(q) => q[k + 1].expire > e.expire) => OrderedFrom(s, 1)
           /\ \A x \in Nat : AfterFrom(q, 1, x) /\ x <= e.expire => AfterFrom(s, 1, x)
<1> DEFINE q1 == SubSeq(q, 1, k)
           q2 == SubSeq(q, k + 1, Len(q))
           n == Len(q)
<1>0. n \in Nat /\ k \in Nat /\ k <= n
  OBVIOUS
<1>i. IsSplit(q, k, q1, q2)
  BY Split, Zenon
<1>1. q1 \in Seq(TimerElement) /\ Len(q1) = k /\ \A i \in 1 .. k : q1[i] = q[i]
  BY <1>i, Zenon DEF IsSplit
<1>2. q2 \in Seq(TimerElement) /\ Len(q2) = n - k /\ \A i \in 1 .. n - k : q2[i] = q[k + i]
  BY <1>i, Zenon DEF IsSplit
<1>3. s = q1 \o <<e>> \o q2
  <2>1. (k + 1) - 1 = k
    BY <1>0
  <2> QED
    BY <2>1, Zenon DEF T!InsertAt
<1> HIDE DEF q1, q2
<1>4. /\ s \in Seq(TimerElement) /\ Len(s) = n + 1 /\ s[k + 1] = e
      /\ \A i \in 1 .. k : s[i] = q[i]
      /\ \A i \in k + 2 .. n + 1 : s[i] = q[i - 1]
  <2>1. q1 \o <<e>> \in Seq(TimerElement) /\ Len(q1 \o <<e>>) = k + 1
        /\ (q1 \o <<e>>)[k + 1] = e /\ \A i \in 1 .. k : (q1 \o <<e>>)[i] = q[i]
    <3>1. <<e>> \in Seq(TimerElement) /\ Len(<<e>>) = 1 /\ <<e>>[1] = e
      OBVIOUS
    <3>2. /\ q1 \o <<e>> \in Seq(TimerElement) /\ Len(q1 \o <<e>>) = k + 1
          /\ \A i \in 1 .. k + 1 : (q1 \o <<e>>)[i] = IF i <= k THEN q1[i] ELSE <<e>>[i - k]
      BY <1>1, <3>1, ConcatProperties, Zenon
    <3>3. k + 1 \in 1 .. k + 1 /\ ~(k + 1 <= k) /\ (k + 1) - k = 1 /\ \A i \in 1 .. k : i \in 1 .. k + 1 /\ i <= k
      BY <1>0
    <3> QED
      BY <1>1, <3>1, <3>2, <3>3, Zenon
  <2> DEFINE r == q1 \o <<e>>
  <2> HIDE DEF r
  <2>2. r \in Seq(TimerElement) /\ Len(r) = k + 1 /\ r[k + 1] = e /\ (\A i \in 1 .. k : r[i] = q[i]) /\ s = r \o q2
    BY <1>3, <2>1 DEF r
  <2>3. /\ s \in Seq(TimerElement) /\ Len(s) = n + 1
        /\ \A i \in 1 .. k + 1 : s[i] = r[i]
        /\ \A i \in 1 .. n - k : s[k + 1 + i] = q2[i]
    <3> HIDE DEF n
    <3>1. /\ s \in Seq(TimerElement) /\ Len(s) = (k + 1) + (n - k)
          /\ \A i \in 1 .. (k + 1) + (n - k) : s[i] = IF i <= k + 1 THEN r[i] ELSE q2[i - (k + 1)]
      <4>1. /\ r \o q2 \in Seq(TimerElement) /\ Len(r \o q2) = Len(r) + Len(q2)
            /\ \A i \in 1 .. Len(r) + Len(q2) :
                   (r \o q2)[i] = IF i <= Len(r) THEN r[i] ELSE q2[i - Len(r)]
        BY <1>2, <2>2, ConcatProperties, Zenon
      <4> QED
        BY <1>2, <2>2, <4>1, Zenon
    <3>2. ASSUME NEW i \in 1 .. n - k PROVE s[k + 1 + i] = q2[i]
      <4>1. /\ k + 1 + i \in 1 .. (k + 1) + (n - k) /\ ~(k + 1 + i <= k + 1)
            /\ (k + 1 + i) - (k + 1) = i
        BY <1>0
      <4> QED
        BY <3>1, <4>1
    <3> QED
      BY <1>0, <3>1, <3>2
  <2>4. ASSUME NEW i \in k + 2 .. n + 1 PROVE s[i] = q[i - 1]
    <3>1. i - (k + 1) \in 1 .. n - k /\ k + 1 + (i - (k + 1)) = i /\ k + (i - (k + 1)) = i - 1
      BY <1>0
    <3> DEFINE j == i - (k + 1)
    <3>2. j \in 1 .. n - k /\ k + 1 + j = i /\ k + j = i - 1
      BY <3>1
    <3> HIDE DEF j
    <3> QED
      BY <1>2, <2>3, <3>2
  <2> QED
    BY <1>0, <2>2, <2>3, <2>4
<1> HIDE DEF n
<1>5. \A i \in 1 .. n : q[i] \in TimerElement /\ q[i].expire \in Nat
  <2>1. \A i \in 1 .. n : q[i] \in TimerElement
    BY ElementOfSeq DEF n
  <2> QED
    BY <2>1 DEF TimerElement
<1>6. \A x : InFrom(s, 1, x) <=> InFrom(q, 1, x) \/ x = e.id
  <2>1. ASSUME NEW x, InFrom(s, 1, x) PROVE InFrom(q, 1, x) \/ x = e.id
    <3>1. PICK i \in 1 .. n + 1 : s[i].id = x
      BY <1>4, <2>1 DEF InFrom
    <3>2. i \in 1 .. k \/ i = k + 1 \/ (i \in k + 2 .. n + 1 /\ i - 1 \in 1 .. n)
      BY <1>0
    <3>3. s[i] = e \/ \E j \in 1 .. n : s[i] = q[j]
      BY <1>0, <1>4, <3>2
    <3> QED
      BY <3>1, <3>3, Zenon DEF InFrom, n
  <2>2. ASSUME NEW x, InFrom(q, 1, x) \/ x = e.id PROVE InFrom(s, 1, x)
    <3>1. CASE x = e.id
      BY <1>0, <1>4, <3>1 DEF InFrom
    <3>2. CASE InFrom(q, 1, x)
      <4>1. PICK i \in 1 .. n : q[i].id = x
        BY <3>2 DEF InFrom, n
      <4>2. i <= k => i \in 1 .. Len(s) /\ s[i].id = x
        BY <1>0, <1>4, <4>1
      <4>3. i > k => i + 1 \in 1 .. Len(s) /\ s[i + 1] = q[i]
        <5> SUFFICES ASSUME i > k PROVE i + 1 \in 1 .. Len(s) /\ s[i + 1] = q[i]
          OBVIOUS
        <5>1. i + 1 \in k + 2 .. n + 1 /\ (i + 1) - 1 = i
          BY <1>0
        <5> QED
          BY <1>0, <1>4, <5>1
      <4> QED
        BY <1>0, <4>1, <4>2, <4>3 DEF InFrom
    <3> QED
      BY <2>2, <3>1, <3>2
  <2> QED
    BY <2>1, <2>2, Zenon
<1> DEFINE at_(i) == IF i <= k THEN i ELSE i - 1
<1>7. ASSUME NEW i \in 1 .. n + 1, i # k + 1 PROVE at_(i) \in 1 .. n /\ s[i] = q[at_(i)]
  BY <1>0, <1>4, <1>7
<1>8. ASSUME DifferentFrom(q, 1), ~InFrom(q, 1, e.id) PROVE DifferentFrom(s, 1)
  <2> SUFFICES ASSUME NEW i \in 1 .. n + 1, NEW j \in 1 .. n + 1, s[i].id = s[j].id PROVE i = j
    BY <1>4 DEF DifferentFrom
  <2>1. CASE i # k + 1 /\ j # k + 1
    <3>1. at_(i) \in 1 .. n /\ at_(j) \in 1 .. n /\ q[at_(i)].id = q[at_(j)].id
      BY <1>7, <2>1
    <3>2. at_(i) = at_(j)
      BY <1>8, <3>1 DEF DifferentFrom, n
    <3> QED
      BY <1>0, <2>1, <3>2
  <2>2. CASE i = k + 1 /\ j # k + 1
    BY <1>4, <1>7, <1>8, <2>2 DEF InFrom, n
  <2>3. CASE i # k + 1 /\ j = k + 1
    BY <1>4, <1>7, <1>8, <2>3 DEF InFrom, n
  <2> QED
    BY <2>1, <2>2, <2>3
<1>9. ASSUME OrderedFrom(q, 1), \A i \in 1 .. k : q[i].expire <= e.expire, k < n => q[k + 1].expire > e.expire
      PROVE  OrderedFrom(s, 1)
  <2> SUFFICES ASSUME NEW i \in 1 .. n + 1, NEW j \in 1 .. n + 1, i < j PROVE s[i].expire <= s[j].expire
    BY <1>4 DEF OrderedFrom
  <2>0. e.expire \in Nat
    BY DEF TimerElement
  <2>1. CASE i # k + 1 /\ j # k + 1
    <3>1. at_(i) \in 1 .. n /\ at_(j) \in 1 .. n /\ at_(i) < at_(j) /\ s[i] = q[at_(i)] /\ s[j] = q[at_(j)]
      BY <1>0, <1>7, <2>1
    <3> QED
      BY <1>9, <3>1 DEF OrderedFrom, n
  <2>2. CASE i = k + 1
    <3>0. j \in k + 2 .. n + 1 /\ j - 1 \in k + 1 .. n /\ k + 1 \in 1 .. n
      BY <1>0, <2>2
    <3>1. j \in k + 2 .. n + 1 /\ j - 1 \in k + 1 .. n /\ k + 1 \in 1 .. n /\ s[j] = q[j - 1] /\ s[i] = e
      BY <1>4, <2>2, <3>0, Zenon
    <3>2. q[k + 1].expire > e.expire
      BY <1>0, <1>9, <3>1
    <3>3. q[k + 1].expire <= q[j - 1].expire
      <4>1. CASE j - 1 = k + 1
        BY <1>0, <1>5, <3>1, <4>1
      <4>2. CASE k + 1 < j - 1
        BY <1>0, <1>9, <3>1, <4>2 DEF OrderedFrom, n
      <4> QED
        BY <1>0, <3>1, <4>1, <4>2
    <3>4. q[k + 1].expire \in Nat /\ q[j - 1].expire \in Nat
      <4>1. j - 1 \in 1 .. n
        BY <1>0, <3>1
      <4> QED
        BY <1>5, <3>1, <4>1
    <3>5. e.expire <= q[j - 1].expire
      BY <2>0, <3>2, <3>3, <3>4
    <3> QED
      BY <3>1, <3>5, Zenon
  <2>3. CASE j = k + 1
    BY <1>0, <1>4, <1>9, <2>3
  <2> QED
    BY <2>1, <2>2, <2>3
<1>10. ASSUME NEW x \in Nat, AfterFrom(q, 1, x), x <= e.expire PROVE AfterFrom(s, 1, x)
  <2> SUFFICES ASSUME NEW i \in 1 .. n + 1 PROVE x <= s[i].expire
    BY <1>4 DEF AfterFrom
  <2>1. CASE i = k + 1
    BY <1>4, <1>10, <2>1
  <2>2. CASE i # k + 1
    BY <1>7, <1>10, <2>2 DEF AfterFrom, n
  <2> QED
    BY <2>1, <2>2
<1> QED
  BY <1>4, <1>6, <1>8, <1>9, <1>10 DEF n

\* What changes when the callback c of the first element behind the n-th of q is made,
\* and the callbacks are s.
IsMade(q, n, r, s, c) ==
    /\ s \in Seq(Callback)
    /\ \A x : InFrom(s, 1, x) <=> InFrom(r, 1, x) \/ x = c.id
    /\ \A x : InFrom(q, n + 1, x) <=> InFrom(q, n + 2, x) \/ x = c.id
    /\ DifferentFrom(q, n + 1) => DifferentFrom(q, n + 2) /\ ~InFrom(q, n + 2, c.id)
    /\ DifferentFrom(r, 1) /\ ~InFrom(r, 1, c.id) => DifferentFrom(s, 1)
    /\ OrderedFrom(q, n + 1) => OrderedFrom(q, n + 2) /\ AfterFrom(q, n + 2, c.expire)
    /\ OrderedFrom(r, 1) /\ (\A i \in 1 .. Len(r) : r[i].expire <= c.expire) => OrderedFrom(s, 1)
    /\ \A x : AfterFrom(q, n + 1, x) => AfterFrom(q, n + 2, x) /\ x <= c.expire

LEMMA CallbackMade ==
    ASSUME NEW q \in Seq(TimerElement), NEW n \in 0 .. Len(q), n < Len(q),
           NEW r \in Seq(Callback), NEW c \in Callback,
           c.id = q[n + 1].id, c.expire = q[n + 1].expire
    PROVE  IsMade(q, n, r, Append(r, c), c)
<1> DEFINE s == Append(r, c)
           m == Len(r)
<1>1. /\ s \in Seq(Callback) /\ m \in Nat /\ Len(s) = m + 1 /\ s[m + 1] = c
      /\ \A i \in 1 .. m : s[i] = r[i]
  OBVIOUS
<1> HIDE DEF s, m
<1>2. /\ n + 1 \in n + 1 .. Len(q) /\ \A i \in n + 2 .. Len(q) : i \in n + 1 .. Len(q) /\ n + 1 < i
      /\ \A i \in n + 1 .. Len(q) : i = n + 1 \/ i \in n + 2 .. Len(q)
  OBVIOUS
<1>3. m + 1 \in 1 .. m + 1 /\ \A i \in 1 .. m + 1 : i = m + 1 \/ (i \in 1 .. m /\ i < m + 1)
  BY <1>1
<1>4. ASSUME NEW x PROVE InFrom(s, 1, x) <=> InFrom(r, 1, x) \/ x = c.id
  <2>1. \A i \in 1 .. m : i \in 1 .. m + 1
    BY <1>1
  <2> QED
    BY <1>1, <1>3, <2>1, Zenon DEF InFrom, m
<1>5. ASSUME NEW x PROVE InFrom(q, n + 1, x) <=> InFrom(q, n + 2, x) \/ x = c.id
  BY <1>2, Zenon DEF InFrom
<1>6. ASSUME DifferentFrom(q, n + 1) PROVE DifferentFrom(q, n + 2) /\ ~InFrom(q, n + 2, c.id)
  BY <1>2, <1>6 DEF DifferentFrom, InFrom
<1>7. ASSUME DifferentFrom(r, 1), ~InFrom(r, 1, c.id) PROVE DifferentFrom(s, 1)
  <2> SUFFICES ASSUME NEW i \in 1 .. m + 1, NEW j \in 1 .. m + 1, s[i].id = s[j].id PROVE i = j
    BY <1>1 DEF DifferentFrom
  <2>1. CASE i \in 1 .. m /\ j \in 1 .. m
    BY <1>1, <1>7, <2>1 DEF DifferentFrom, m
  <2>2. CASE (i = m + 1 /\ j \in 1 .. m) \/ (i \in 1 .. m /\ j = m + 1)
    BY <1>1, <1>7, <2>2 DEF InFrom, m
  <2> QED
    BY <1>3, <2>1, <2>2
<1>8. ASSUME OrderedFrom(q, n + 1) PROVE OrderedFrom(q, n + 2) /\ AfterFrom(q, n + 2, c.expire)
  BY <1>2, <1>8 DEF OrderedFrom, AfterFrom
<1>9. ASSUME OrderedFrom(r, 1), \A i \in 1 .. m : r[i].expire <= c.expire PROVE OrderedFrom(s, 1)
  <2> SUFFICES ASSUME NEW i \in 1 .. m + 1, NEW j \in 1 .. m + 1, i < j PROVE s[i].expire <= s[j].expire
    BY <1>1 DEF OrderedFrom
  <2>1. i \in 1 .. m
    BY <1>1
  <2>2. CASE j \in 1 .. m
    BY <1>1, <1>9, <2>1, <2>2 DEF OrderedFrom, m
  <2>3. CASE j = m + 1
    BY <1>1, <1>9, <2>1, <2>3
  <2> QED
    BY <1>3, <2>2, <2>3
<1>10. ASSUME NEW x, AfterFrom(q, n + 1, x) PROVE AfterFrom(q, n + 2, x) /\ x <= c.expire
  BY <1>2, <1>10 DEF AfterFrom
<1> QED
  BY <1>1, <1>4, <1>5, <1>6, <1>7, <1>8, <1>9, <1>10 DEF IsMade, s, m

LEMMA ExpireIsTime ==
    ASSUME TimerInv
    PROVE  /\ \A i \in 1 .. Len(time_ele_) : time_ele_[i].expire \in Nat /\ time_ele_[i].id \in Nat
           /\ \A i \in executed + 1 .. Len(exeute_list_) : exeute_list_[i].expire \in Nat /\ exeute_list_[i] \in TimerElement
           /\ \A i \in 1 .. Len(fired) : fired[i].expire \in Nat /\ fired[i].at \in Nat
<1>1. /\ time_ele_ \in Seq(TimerElement) /\ exeute_list_ \in Seq(TimerElement) /\ fired \in Seq(Callback)
      /\ executed \in Nat
  BY DEF TimerInv, TimerTypeOK
<1>2. /\ \A i \in 1 .. Len(time_ele_) : time_ele_[i] \in TimerElement
      /\ \A i \in 1 .. Len(exeute_list_) : exeute_list_[i] \in TimerElement
      /\ \A i \in 1 .. Len(fired) : fired[i] \in Callback
  BY <1>1, ElementOfSeq
<1>3. \A i \in executed + 1 .. Len(exeute_list_) : i \in 1 .. Len(exeute_list_)
  BY <1>1
<1>4. /\ \A e \in TimerElement : e.id \in Nat /\ e.expire \in Nat
      /\ \A c \in Callback : c.expire \in Nat /\ c.at \in Nat
  BY DEF TimerElement, Callback
<1> QED
  BY <1>2, <1>3, <1>4

LEMMA InitTimer == T!Init => TimerInv
BY DEF T!Init, TimerInv, TimerTypeOK, ElementsApart, TimesInOrder, DifferentFrom, InFrom, OrderedFrom, AfterFrom,
   Waits, Taken, Fired, Deleted

LEMMA NextTimer == TimerInv /\ [T!Next]_(T!vars) => TimerInv'
<1> SUFFICES ASSUME TimerInv, [T!Next]_(T!vars) PROVE TimerInv'
  OBVIOUS
<1>0. TimerTypeOK /\ ElementsApart /\ TimesInOrder /\ Len(exeute_list_) \in Nat
  BY DEF TimerInv, TimerTypeOK
\* The steps that leave the elements alone.
<1>1. ASSUME UNCHANGED <<time_ele_, exeute_list_, executed, fired, deleted, global_element_id_>>,
             now' \in Nat, current_time' \in 0 .. now', current_time <= current_time',
             loop' # "execute" => loop # "execute"
      PROVE  TimerInv'
  <2>1. TimerTypeOK'
    BY <1>0, <1>1 DEF TimerTypeOK
  <2>2. ElementsApart'
    BY <1>0, <1>1 DEF ElementsApart, Waits, Taken, Fired, Deleted
  <2>3. /\ \A i \in executed + 1 .. Len(exeute_list_) : exeute_list_[i].expire \in Nat
        /\ \A i \in 1 .. Len(fired) : fired[i].expire \in Nat
    BY ExpireIsTime
  <2>4. TimesInOrder'
    BY <1>0, <1>1, <2>3 DEF TimesInOrder, TimerTypeOK
  <2> QED
    BY <2>1, <2>2, <2>4 DEF TimerInv
<1>2. CASE UNCHANGED T!vars
  BY <1>0, <1>1, <1>2 DEF T!vars, T!loopVars, T!timerVars, TimerTypeOK
<1>3. CASE T!LoopTop
  BY <1>0, <1>1, <1>3 DEF T!LoopTop, T!timerVars, TimerTypeOK
<1>4. CASE T!TimerWrapper \/ T!OnTimerReturns
  BY <1>0, <1>1, <1>4 DEF T!TimerWrapper, T!OnTimerReturns, T!timerVars, TimerTypeOK
<1>5. CASE T!Signal \/ T!Tick
  BY <1>0, <1>1, <1>5 DEF T!Signal, T!Tick, T!timerVars, T!loopVars, TimerTypeOK
<1>6. ASSUME NEW d \in Delays, T!AddTimer(d) PROVE TimerInv'
  <2> DEFINE e == [id |-> global_element_id_, expire |-> now + d]
  <2>1. /\ T!Insert(e) /\ global_element_id_' = global_element_id_ + 1
        /\ UNCHANGED <<now, current_time, loop, exeute_list_, executed, fired, deleted>>
    BY <1>6 DEF T!AddTimer, T!loopVars
  <2>2. e \in TimerElement /\ e.id = global_element_id_ /\ e.expire >= now
    BY <1>0, TimerAssumption DEF TimerTypeOK, TimerElement, T!TimesOK
  <2> HIDE DEF e
  <2>3. PICK k \in 0 .. Len(time_ele_) : T!ExpireBy(k, e.expire) /\ time_ele_' = T!InsertAt(time_ele_, k + 1, e)
    BY <2>1 DEF T!Insert
  <2>4. ~InFrom(time_ele_, 1, e.id) /\ ~Taken(e.id) /\ ~Fired(e.id) /\ ~Deleted(e.id)
    <3>1. global_element_id_ \in Nat /\ global_element_id_ \notin 1 .. global_element_id_ - 1
      BY <1>0 DEF TimerTypeOK
    <3> QED
      BY <1>0, <2>2, <3>1 DEF ElementsApart, Waits
  <2>5. time_ele_ \in Seq(TimerElement)
    BY <1>0 DEF TimerTypeOK
  <2>6. /\ time_ele_' \in Seq(TimerElement)
        /\ \A x : InFrom(time_ele_', 1, x) <=> InFrom(time_ele_, 1, x) \/ x = e.id
        /\ DifferentFrom(time_ele_', 1)
        /\ \A x \in Nat : AfterFrom(time_ele_, 1, x) /\ x <= e.expire => AfterFrom(time_ele_', 1, x)
    BY <1>0, <2>2, <2>3, <2>4, <2>5, Inserted DEF ElementsApart
  <2>7. OrderedFrom(time_ele_', 1)
    BY <1>0, <2>2, <2>3, <2>5, Inserted DEF TimesInOrder, T!ExpireBy
  <2>8. TimerTypeOK'
    BY <1>0, <2>1, <2>6 DEF TimerTypeOK
  <2>9. ElementsApart'
    <3>1. \A x : /\ Waits(x)' <=> Waits(x) \/ x = e.id
                 /\ Taken(x)' = Taken(x) /\ Fired(x)' = Fired(x) /\ Deleted(x)' = Deleted(x)
      BY <2>1, <2>6 DEF Waits, Taken, Fired, Deleted
    <3>2. ASSUME NEW x \in Nat
          PROVE  IF x \in 1 .. global_element_id_' - 1
                 THEN OneOf(Waits(x)', Taken(x)', Fired(x)', Deleted(x)')
                 ELSE ~(Waits(x)' \/ Taken(x)' \/ Fired(x)' \/ Deleted(x)')
      <4>1. CASE x = e.id
        BY <1>0, <2>1, <2>2, <2>4, <3>1, <4>1 DEF OneOf, TimerTypeOK, Waits
      <4>2. CASE x # e.id
        <5>1. x \in 1 .. global_element_id_' - 1 <=> x \in 1 .. global_element_id_ - 1
          BY <1>0, <2>1, <2>2, <4>2 DEF TimerTypeOK
        <5> QED
          BY <1>0, <3>1, <4>2, <5>1, Zenon DEF ElementsApart, OneOf
      <4> QED
        BY <4>1, <4>2
    <3> QED
      BY <1>0, <2>1, <2>6, <3>2 DEF ElementsApart
  <2>10. TimesInOrder'
    <3>1. \A x \in Nat : x <= current_time => x <= e.expire
      BY <1>0, <2>2 DEF TimerTypeOK, TimerElement
    <3>2. \A x \in Nat : x <= current_time /\ AfterFrom(time_ele_, 1, x) => AfterFrom(time_ele_', 1, x)
      BY <2>6, <3>1
    <3> QED
      BY <1>0, <2>1, <2>7, <3>2, ExpireIsTime DEF TimesInOrder
  <2> QED
    BY <2>8, <2>9, <2>10 DEF TimerInv
<1>7. ASSUME NEW id \in 1 .. MaxTimers, T!DelTimer(id) PROVE TimerInv'
  <2>1. PICK m \in 1 .. Len(time_ele_) : time_ele_[m].id = id /\ time_ele_' = T!RemoveAt(time_ele_, m)
    BY <1>7 DEF T!DelTimer
  <2>2. deleted' = deleted \cup {id}
        /\ UNCHANGED <<now, current_time, loop, exeute_list_, executed, fired, global_element_id_>>
    BY <1>7 DEF T!DelTimer, T!loopVars
  <2>3. time_ele_ \in Seq(TimerElement)
    BY <1>0 DEF TimerTypeOK
  <2>4. /\ time_ele_' \in Seq(TimerElement) /\ DifferentFrom(time_ele_', 1) /\ OrderedFrom(time_ele_', 1)
        /\ \A x : InFrom(time_ele_', 1, x) <=> InFrom(time_ele_, 1, x) /\ x # id
        /\ \A x : AfterFrom(time_ele_, 1, x) => AfterFrom(time_ele_', 1, x)
    BY <1>0, <2>1, <2>3, Removed DEF ElementsApart, TimesInOrder
  <2>5. TimerTypeOK'
    BY <1>0, <2>2, <2>4 DEF TimerTypeOK
  <2>6. Waits(id) /\ id \in Nat
    BY <2>1, ExpireIsTime DEF Waits, InFrom
  <2>7. ElementsApart'
    <3>1. \A x : /\ Waits(x)' <=> Waits(x) /\ x # id
                 /\ Taken(x)' = Taken(x) /\ Fired(x)' = Fired(x)
                 /\ Deleted(x)' <=> Deleted(x) \/ x = id
      BY <2>2, <2>4 DEF Waits, Taken, Fired, Deleted
    <3>2. ASSUME NEW x \in Nat
          PROVE  IF x \in 1 .. global_element_id_ - 1
                 THEN OneOf(Waits(x)', Taken(x)', Fired(x)', Deleted(x)')
                 ELSE ~(Waits(x)' \/ Taken(x)' \/ Fired(x)' \/ Deleted(x)')
      <4>1. CASE x = id
        BY <1>0, <2>6, <3>1, <4>1, Zenon DEF OneOf, ElementsApart
      <4>2. CASE x # id
        BY <1>0, <3>1, <4>2, Zenon DEF OneOf, ElementsApart
      <4> QED
        BY <4>1, <4>2
    <3> QED
      BY <1>0, <2>2, <2>4, <3>2 DEF ElementsApart
  <2>8. TimesInOrder'
    BY <1>0, <2>2, <2>4 DEF TimesInOrder
  <2> QED
    BY <2>5, <2>7, <2>8 DEF TimerInv
<1>8. CASE T!TimerOnTimer
  <2>0. /\ loop = "notify" /\ exeute_list_ = <<>> /\ executed = 0
        /\ UNCHANGED <<now, current_time, executed, global_element_id_, fired, deleted>>
    BY <1>0, <1>8 DEF T!TimerOnTimer, TimerTypeOK
  <2>1. CASE loop' = "top"
    BY <1>0, <1>1, <1>8, <2>0, <2>1 DEF T!TimerOnTimer, TimerTypeOK
  <2>2. CASE loop' = "execute" /\ T!CheckExpire(current_time)
    <3>1. PICK k \in 0 .. Len(time_ele_) :
              /\ T!ExpireBy(k, current_time)
              /\ exeute_list_' = exeute_list_ \o SubSeq(time_ele_, 1, k)
              /\ time_ele_' = SubSeq(time_ele_, k + 1, Len(time_ele_))
      BY <2>2 DEF T!CheckExpire
    <3>2. time_ele_ \in Seq(TimerElement)
      BY <1>0 DEF TimerTypeOK
    <3>3. exeute_list_' = SubSeq(time_ele_, 1, k)
      <4>1. SubSeq(time_ele_, 1, k) \in Seq(TimerElement)
        BY <3>2, Split DEF IsSplit
      <4> QED
        BY <2>0, <3>1, <4>1, ConcatEmptySeq
    <3>4. /\ exeute_list_' \in Seq(TimerElement) /\ time_ele_' \in Seq(TimerElement)
          /\ DifferentFrom(exeute_list_', 1) /\ DifferentFrom(time_ele_', 1)
          /\ \A x : /\ InFrom(time_ele_, 1, x) <=> InFrom(exeute_list_', 1, x) \/ InFrom(time_ele_', 1, x)
                    /\ ~(InFrom(exeute_list_', 1, x) /\ InFrom(time_ele_', 1, x))
          /\ OrderedFrom(exeute_list_', 1) /\ OrderedFrom(time_ele_', 1)
          /\ \A i \in 1 .. Len(exeute_list_') : AfterFrom(time_ele_', 1, exeute_list_'[i].expire)
          /\ \A x : AfterFrom(time_ele_, 1, x) => AfterFrom(exeute_list_', 1, x) /\ AfterFrom(time_ele_', 1, x)
          /\ Len(exeute_list_') = k /\ \A i \in 1 .. k : exeute_list_'[i] = time_ele_[i]
      <4>1. DifferentFrom(time_ele_, 1) /\ OrderedFrom(time_ele_, 1)
        BY <1>0 DEF ElementsApart, TimesInOrder
      <4>2. IsSplit(time_ele_, k, exeute_list_', time_ele_')
        BY <3>1, <3>2, <3>3, Split
      <4> QED
        BY <4>1, <4>2 DEF IsSplit
    <3>5. TimerTypeOK'
      BY <1>0, <2>0, <2>2, <3>4 DEF TimerTypeOK
    <3>6. ElementsApart'
      <4>1. \A x : ~Taken(x)
        BY <2>0 DEF Taken, InFrom
      <4>2. \A x : /\ Waits(x) <=> Taken(x)' \/ Waits(x)'
                   /\ ~(Taken(x)' /\ Waits(x)')
                   /\ Fired(x)' = Fired(x) /\ Deleted(x)' = Deleted(x)
        BY <2>0, <3>4 DEF Waits, Taken, Fired, Deleted
      <4>3. ASSUME NEW x \in Nat
            PROVE  IF x \in 1 .. global_element_id_ - 1
                   THEN OneOf(Waits(x)', Taken(x)', Fired(x)', Deleted(x)')
                   ELSE ~(Waits(x)' \/ Taken(x)' \/ Fired(x)' \/ Deleted(x)')
        BY <1>0, <4>1, <4>2, Zenon DEF OneOf, ElementsApart
      <4> QED
        BY <1>0, <2>0, <3>4, <4>3 DEF ElementsApart
    <3>7. TimesInOrder'
      <4>1. \A i \in 1 .. Len(exeute_list_') : exeute_list_'[i].expire <= current_time
        BY <3>1, <3>4 DEF T!ExpireBy
      <4> QED
        BY <1>0, <2>0, <3>4, <4>1 DEF TimesInOrder
    <3> QED
      BY <3>5, <3>6, <3>7 DEF TimerInv
  <2> QED
    BY <1>8, <2>1, <2>2 DEF T!TimerOnTimer, T!TimerDue
<1>9. CASE T!Excute
  <2> DEFINE e == exeute_list_[executed + 1]
  <2>1. /\ executed < Len(exeute_list_) /\ executed' = executed + 1
        /\ fired' = Append(fired, [id |-> e.id, expire |-> e.expire, at |-> now])
        /\ loop = "execute"
        /\ UNCHANGED <<now, current_time, loop, time_ele_, exeute_list_, global_element_id_, deleted>>
    BY <1>9 DEF T!Excute, T!loopVars
  <2>2. executed \in 0 .. Len(exeute_list_) /\ executed + 1 \in executed + 1 .. Len(exeute_list_)
        /\ executed' + 1 = executed + 2
    BY <1>0, <2>1 DEF TimerTypeOK
  <2>3. e \in TimerElement
    BY <2>2, ExpireIsTime
  <2>4. PICK c \in Callback : /\ c.id = e.id /\ c.expire = e.expire /\ c.at = now /\ c.id \in Nat /\ c.expire \in Nat
                              /\ fired' = Append(fired, c)
    <3> HIDE DEF e
    <3> QED
      BY <1>0, <2>1, <2>3 DEF TimerTypeOK, TimerElement, Callback
  <2>5. c.expire <= current_time /\ AfterFrom(time_ele_, 1, c.expire) /\ Taken(c.id)
    BY <1>0, <2>2, <2>4 DEF TimesInOrder, Taken, InFrom
  <2>6. ~InFrom(fired, 1, c.id)
    BY <1>0, <2>4, <2>5, Zenon DEF ElementsApart, OneOf, Fired
  <2>7. \A i \in 1 .. Len(fired) : fired[i].expire <= c.expire
    BY <1>0, <2>2, <2>4 DEF TimesInOrder, AfterFrom
  <2>8. /\ fired' \in Seq(Callback)
        /\ \A x : InFrom(fired', 1, x) <=> InFrom(fired, 1, x) \/ x = c.id
        /\ \A x : InFrom(exeute_list_, executed + 1, x) <=> InFrom(exeute_list_, executed + 2, x) \/ x = c.id
        /\ DifferentFrom(exeute_list_, executed + 2) /\ ~InFrom(exeute_list_, executed + 2, c.id)
        /\ DifferentFrom(fired', 1)
        /\ OrderedFrom(exeute_list_, executed + 2) /\ AfterFrom(exeute_list_, executed + 2, c.expire)
        /\ OrderedFrom(fired', 1)
        /\ \A x : AfterFrom(exeute_list_, executed + 1, x) => AfterFrom(exeute_list_, executed + 2, x)
    <3>1. /\ exeute_list_ \in Seq(TimerElement) /\ fired \in Seq(Callback)
          /\ DifferentFrom(exeute_list_, executed + 1) /\ DifferentFrom(fired, 1)
          /\ OrderedFrom(exeute_list_, executed + 1) /\ OrderedFrom(fired, 1)
      BY <1>0 DEF ElementsApart, TimesInOrder, TimerTypeOK
    <3>2. IsMade(exeute_list_, executed, fired, fired', c)
      BY <2>1, <2>2, <2>4, <3>1, CallbackMade
    <3> QED
      BY <2>6, <2>7, <3>1, <3>2 DEF IsMade
  <2>9. TimerTypeOK'
    BY <1>0, <2>1, <2>2, <2>8 DEF TimerTypeOK
  <2>10. ElementsApart'
    <3>1. \A x : /\ Waits(x)' = Waits(x) /\ Deleted(x)' = Deleted(x)
                 /\ Taken(x) <=> Taken(x)' \/ x = c.id
                 /\ Fired(x)' <=> Fired(x) \/ x = c.id
      BY <2>1, <2>2, <2>8 DEF Waits, Taken, Fired, Deleted
    <3>2. ~Taken(c.id)'
      <4>1. \A x : Taken(x)' <=> InFrom(exeute_list_, executed + 2, x)
        BY <2>1, <2>2 DEF Taken
      <4> QED
        BY <2>8, <4>1
    <3>3. ASSUME NEW x \in Nat
          PROVE  IF x \in 1 .. global_element_id_ - 1
                 THEN OneOf(Waits(x)', Taken(x)', Fired(x)', Deleted(x)')
                 ELSE ~(Waits(x)' \/ Taken(x)' \/ Fired(x)' \/ Deleted(x)')
      <4>1. CASE x = c.id
        BY <1>0, <2>5, <3>1, <3>2, <4>1, Zenon DEF OneOf, ElementsApart
      <4>2. CASE x # c.id
        BY <1>0, <3>1, <4>2, Zenon DEF OneOf, ElementsApart
      <4> QED
        BY <4>1, <4>2
    <3> QED
      BY <1>0, <2>1, <2>2, <2>8, <3>3 DEF ElementsApart
  <2>11. TimesInOrder'
    <3>1. \A i \in executed' + 1 .. Len(exeute_list_') : i \in executed + 1 .. Len(exeute_list_)
      BY <1>0, <2>1, <2>2
    <3>2. ASSUME NEW i \in 1 .. Len(fired')
          PROVE  fired'[i] = c \/ (i \in 1 .. Len(fired) /\ fired'[i] = fired[i])
      <4> HIDE DEF e
      <4>1. fired \in Seq(Callback) /\ fired' = Append(fired, c)
        BY <1>0, <2>4 DEF TimerTypeOK
      <4> QED
        BY <4>1
    <3>3. c.expire <= c.at
      <4> HIDE DEF e
      <4>1. c.expire \in Nat /\ c.at = now /\ c.expire <= current_time /\ current_time \in 0 .. now /\ now \in Nat
        BY <1>0, <2>4, <2>5 DEF TimerTypeOK
      <4> QED
        BY <4>1
    <3>4. ASSUME NEW i \in 1 .. Len(fired')
          PROVE  /\ fired'[i].expire <= current_time /\ fired'[i].expire <= fired'[i].at
                 /\ AfterFrom(time_ele_, 1, fired'[i].expire)
                 /\ AfterFrom(exeute_list_, executed + 2, fired'[i].expire)
      BY <1>0, <2>5, <2>8, <3>2, <3>3 DEF TimesInOrder
    <3> QED
      BY <1>0, <2>1, <2>2, <2>8, <3>1, <3>4 DEF TimesInOrder
  <2> QED
    BY <2>9, <2>10, <2>11 DEF TimerInv
<1>10. CASE T!OnTimerDone
  <2>1. /\ executed = Len(exeute_list_) /\ exeute_list_' = <<>> /\ executed' = 0 /\ loop' = "top"
        /\ UNCHANGED <<now, current_time, time_ele_, global_element_id_, fired, deleted>>
    BY <1>10 DEF T!OnTimerDone
  <2>2. TimerTypeOK'
    BY <1>0, <2>1 DEF TimerTypeOK
  <2>3. executed + 1 .. Len(exeute_list_) = {} /\ executed' + 1 .. Len(exeute_list_') = {}
    BY <1>0, <2>1
  <2>4. ElementsApart'
    <3>1. \A x : /\ Waits(x)' = Waits(x) /\ Deleted(x)' = Deleted(x) /\ Fired(x)' = Fired(x)
                 /\ ~Taken(x) /\ ~Taken(x)'
      BY <2>1, <2>3 DEF Waits, Taken, Fired, Deleted, InFrom
    <3>2. DifferentFrom(exeute_list_, executed + 1)'
      BY <2>3 DEF DifferentFrom
    <3> QED
      BY <1>0, <2>1, <3>1, <3>2 DEF ElementsApart, OneOf
  <2>5. TimesInOrder'
    BY <1>0, <2>1, <2>3 DEF TimesInOrder, OrderedFrom, AfterFrom
  <2> QED
    BY <2>2, <2>4, <2>5 DEF TimerInv
<1> QED
  BY <1>2, <1>3, <1>4, <1>5, <1>6, <1>7, <1>8, <1>9, <1>10 DEF T!Next, T!RunLoop, T!Users

LEMMA TimerSafe == T!Spec => []TimerInv
BY InitTimer, NextTimer, PTL DEF T!Spec

\* Where ids are different, an id is at one position or at none.
LEMMA Positions ==
    ASSUME NEW q, NEW a, NEW id, DifferentFrom(q, a)
    PROVE  T!Cardinality({i \in a .. Len(q) : q[i].id = id}) = IF InFrom(q, a, id) THEN 1 ELSE 0
<1> DEFINE S == {i \in a .. Len(q) : q[i].id = id}
<1>0. \A X : T!Cardinality(X) = Cardinality(X)
  BY DEF Cardinality, T!Cardinality
<1>1. CASE InFrom(q, a, id)
  <2>1. PICK i \in a .. Len(q) : q[i].id = id
    BY <1>1 DEF InFrom
  <2>2. S = {i}
    BY <2>1 DEF DifferentFrom
  <2> QED
    BY <1>0, <1>1, <2>2, FS_Singleton, Zenon
<1>2. CASE ~InFrom(q, a, id)
  <2>1. S = {}
    BY <1>2 DEF InFrom
  <2> QED
    BY <1>0, <1>2, <2>1, FS_EmptySet, Zenon
<1> QED
  BY <1>1, <1>2

\* A timer is in one place and its callback is made once at most, not before its time and
\* behind those of all earlier times, for any delays, intervals and number of timers, and
\* whatever is added and deleted between two callbacks.
THEOREM TimersSound == T!Spec => []TimersOnceInOrder
<1>1. ASSUME TimerInv PROVE T!OnePlace
  <2>1. ElementsApart /\ global_element_id_ \in Nat
    BY <1>1 DEF TimerInv, TimerTypeOK
  <2>2. ASSUME NEW id \in 1 .. global_element_id_ - 1
        PROVE  T!Cardinality({i \in 1 .. Len(time_ele_) : time_ele_[i].id = id})
                 + T!Cardinality({i \in executed + 1 .. Len(exeute_list_) : exeute_list_[i].id = id})
                 + T!Cardinality({i \in 1 .. Len(fired) : fired[i].id = id})
                 + (IF id \in deleted THEN 1 ELSE 0) = 1
    <3>1. /\ T!Cardinality({i \in 1 .. Len(time_ele_) : time_ele_[i].id = id}) = IF Waits(id) THEN 1 ELSE 0
          /\ T!Cardinality({i \in executed + 1 .. Len(exeute_list_) : exeute_list_[i].id = id})
               = IF Taken(id) THEN 1 ELSE 0
          /\ T!Cardinality({i \in 1 .. Len(fired) : fired[i].id = id}) = IF Fired(id) THEN 1 ELSE 0
      <4>1. DifferentFrom(time_ele_, 1) /\ DifferentFrom(exeute_list_, executed + 1) /\ DifferentFrom(fired, 1)
        BY <2>1 DEF ElementsApart
      <4>2. T!Cardinality({i \in 1 .. Len(time_ele_) : time_ele_[i].id = id}) = IF Waits(id) THEN 1 ELSE 0
        BY <4>1, Positions DEF Waits
      <4>3. T!Cardinality({i \in executed + 1 .. Len(exeute_list_) : exeute_list_[i].id = id})
              = IF Taken(id) THEN 1 ELSE 0
        BY <4>1, Positions DEF Taken
      <4>4. T!Cardinality({i \in 1 .. Len(fired) : fired[i].id = id}) = IF Fired(id) THEN 1 ELSE 0
        BY <4>1, Positions DEF Fired
      <4> QED
        BY <4>2, <4>3, <4>4
    <3>2. OneOf(Waits(id), Taken(id), Fired(id), id \in deleted)
      <4>1. id \in Nat
        BY <2>1
      <4> QED
        BY <2>1, <4>1, Zenon DEF ElementsApart, Deleted
    <3> DEFINE w == T!Cardinality({i \in 1 .. Len(time_ele_) : time_ele_[i].id = id})
               t == T!Cardinality({i \in executed + 1 .. Len(exeute_list_) : exeute_list_[i].id = id})
               f == T!Cardinality({i \in 1 .. Len(fired) : fired[i].id = id})
    <3> SUFFICES w + t + f + (IF id \in deleted THEN 1 ELSE 0) = 1
      OBVIOUS
    <3>3. /\ w = IF Waits(id) THEN 1 ELSE 0
          /\ t = IF Taken(id) THEN 1 ELSE 0
          /\ f = IF Fired(id) THEN 1 ELSE 0
      BY <3>1
    <3> HIDE DEF w, t, f
    <3> QED
      BY <3>2, <3>3 DEF OneOf
  <2> QED
    BY <2>2 DEF T!OnePlace
<1>2. ASSUME TimerInv PROVE T!NotEarly /\ T!InOrder
  BY <1>2, ExpireIsTime DEF TimerInv, TimesInOrder, OrderedFrom, T!NotEarly, T!InOrder
<1>3. TimerInv => TimersOnceInOrder
  BY <1>1, <1>2 DEF TimersOnceInOrder
<1> QED
  BY <1>3, TimerSafe, PTL

-----------------------------------------------------------------------------
(* The web server and its clients.                                         *)

\* The runs on a client's stack: each but the first is of a link that was lost or refused.
DepthOK(l) ==
    /\ depth[l] <= lost[l] + 1
    /\ ws_pc[l] \in {"none", "connect", "sleep"} \/ link[l] = "closed" => depth[l] <= lost[l]

\* A client that is to connect has seen the end of its last link.
Unconnected(l) ==
    /\ ws_pc[l] \in {"none", "connect", "sleep"} => ~connected_[l]
    /\ connected_[l] => link[l] \in {"open", "closed", "half"}

\* main starts each client once.
StartedOnce(l) == main = "start" => ws_pc[l] = "none"

ClientsInv == WebTypeOK /\ \A l \in Layer : DepthOK(l) /\ Unconnected(l) /\ StartedOnce(l)

\* The thread of client l is not running.
Joined(l) == ws_pc[l] \in {"none", "ended"}

\* main deletes the HandleManager last, after both clients are joined.
ExitInv ==
    /\ manager <=> main \notin {"exited", "aborted"}
    /\ main \in {"join2", "shutdown", "instances", "exited"} => Joined(L1)
    /\ main \in {"shutdown", "instances", "exited"} => Joined(L2)

LEMMA InitClients ==
    ASSUME WebInit
    PROVE  ClientsInv
BY LayersAssumption DEF WebInit, WsInit, ClientsInv, WebTypeOK, WsTypeOK, PcStates, DepthOK, Unconnected, StartedOnce

\* Each step of the thread of client l, and each fault of its link.
LEMMA ClientStep ==
    ASSUME ClientsInv, NEW l \in Layer, Client(l) \/ ClientFaults(l) \/ OnMessage(l), UNCHANGED webRest
    PROVE  ClientsInv'
<1>1. /\ WebTypeOK /\ WsTypeOK /\ DepthOK(l) /\ Unconnected(l) /\ MaxLost \in Nat
      /\ \A k \in Layer : DepthOK(k) /\ Unconnected(k) /\ StartedOnce(k)
  BY LayersAssumption DEF ClientsInv, WebTypeOK
<1>2. depth[l] \in Nat /\ lost[l] \in Nat /\ lost[l] <= MaxLost
  BY <1>1 DEF WsTypeOK
\* What a step does to its own client is enough.
<1>3. ASSUME WsTypeOK', DepthOK(l)', Unconnected(l)',
             \A k \in Layer \ {l} : /\ connected_'[k] = connected_[k] /\ link'[k] = link[k]
                                    /\ ws_pc'[k] = ws_pc[k] /\ depth'[k] = depth[k] /\ lost'[k] = lost[k],
             ws_pc'[l] = ws_pc[l] \/ ws_pc[l] # "none"
      PROVE  ClientsInv'
  <2>1. \A k \in Layer \ {l} : DepthOK(k)' /\ Unconnected(k)' /\ StartedOnce(k)'
    BY <1>1, <1>3 DEF DepthOK, Unconnected, StartedOnce, webRest
  <2>2. StartedOnce(l)'
    BY <1>1, <1>3 DEF StartedOnce, webRest
  <2> QED
    BY <1>1, <1>3, <2>1, <2>2 DEF ClientsInv, WebTypeOK, webRest
<1> USE <1>1, <1>2 DEF WsTypeOK, PcStates, DepthOK, Unconnected, Running
<1>4. CASE Connect(l)
  BY <1>3, <1>4 DEF Connect
<1>5. CASE ConnectError(l)
  BY <1>3, <1>5 DEF ConnectError
<1>6. CASE OnOpen(l)
  BY <1>3, <1>6 DEF OnOpen
<1>7. CASE Subscribe(l)
  BY <1>3, <1>7 DEF Subscribe
<1>8. ASSUME NEW state \in {"closed", "half"}, LinkLost(l, state) PROVE ClientsInv'
  BY <1>3, <1>8 DEF LinkLost
<1>9. CASE OnClose(l)
  BY <1>3, <1>9 DEF OnClose
<1>10. CASE OnFail(l)
  BY <1>3, <1>10 DEF OnFail
<1>11. CASE Reconnect(l)
  BY <1>3, <1>11 DEF Reconnect
<1>12. CASE OnMessage(l)
  BY <1>3, <1>12 DEF OnMessage
<1>13. CASE OnMessageDone(l)
  BY <1>3, <1>13 DEF OnMessageDone
<1>14. CASE Unwind(l)
  BY <1>3, <1>14 DEF Unwind
<1> QED
  BY <1>4, <1>5, <1>6, <1>7, <1>8, <1>9, <1>10, <1>11, <1>12, <1>13, <1>14 DEF Client, ClientFaults

LEMMA NextClients ==
    ASSUME ClientsInv, [WebNext]_webVars
    PROVE  ClientsInv'
<1>1. /\ WebTypeOK /\ WsTypeOK /\ L1 \in Layer /\ L2 \in Layer
      /\ \A k \in Layer : DepthOK(k) /\ Unconnected(k) /\ StartedOnce(k)
  BY LayersAssumption DEF ClientsInv, WebTypeOK
<1>2. ASSUME UNCHANGED <<connected_, link, subscribed, ws_pc, depth, lost>>, stopped' \in [Layer -> BOOLEAN],
             (WebTypeOK /\ WsTypeOK') => WebTypeOK', main' = "start" => main = "start"
      PROVE  ClientsInv'
  BY <1>1, <1>2 DEF ClientsInv, WebTypeOK, WsTypeOK, DepthOK, Unconnected, StartedOnce
<1>3. CASE Main \/ EndpointFails
  <2>1. CASE StartClients
    BY <1>1, <2>1 DEF StartClients, StartThreads, ClientsInv, WebTypeOK, WsTypeOK, PcStates, DepthOK,
                      Unconnected, StartedOnce
  <2>2. CASE CloseL1 \/ CloseL2
    BY <1>1, <1>2, <2>2 DEF CloseL1, CloseL2, CloseClient, WebTypeOK, WsTypeOK
  <2>3. CASE StartEndpoint \/ JoinL2 \/ Shutdown \/ ExitInstance \/ EndpointFails
    BY <1>1, <1>2, <2>3 DEF StartEndpoint, JoinL2, Shutdown, ExitInstance, EndpointFails, WebTypeOK, WsTypeOK, wsVars
  <2> QED
    BY <1>3, <2>1, <2>2, <2>3 DEF Main
<1>4. CASE Http
  BY <1>1, <1>2, <1>4 DEF Http, SubmitChecks, SubmitChecksL2, Submitted, WebTypeOK, WsTypeOK, wsVars
<1>5. CASE UNCHANGED webVars
  BY <1>1, <1>2, <1>5 DEF webVars, wsVars, WebTypeOK, WsTypeOK
<1> QED
  BY <1>3, <1>4, <1>5, ClientStep DEF WebNext, ClientGoesOn

\* The thread of a client that is not running stays so once main has started both.
LEMMA JoinedStays ==
    ASSUME ClientsInv, [WebNext]_webVars, ~StartClients, NEW k \in Layer, Joined(k)
    PROVE  Joined(k)'
<1>1. ws_pc \in [Layer -> PcStates]
  BY DEF ClientsInv, WebTypeOK, WsTypeOK
<1>2. ASSUME NEW l \in Layer, Client(l) \/ ClientFaults(l) \/ OnMessage(l) PROVE Joined(k)'
  BY <1>1, <1>2 DEF Joined, Client, ClientFaults, OnMessage, Running, Connect, ConnectError, OnOpen,
     Subscribe, LinkLost, OnClose, OnFail, Reconnect, OnMessageDone, Unwind
<1>3. CASE Main \/ EndpointFails \/ Http \/ UNCHANGED webVars
  BY <1>3 DEF Joined, Main, StartEndpoint, CloseL1, CloseL2, CloseClient, JoinL2, Shutdown, ExitInstance,
     EndpointFails, Http, SubmitChecks, SubmitChecksL2, Submitted, webVars, wsVars
<1> QED
  BY <1>2, <1>3 DEF WebNext, ClientGoesOn

\* A main whose endpoint failed leaves without WebServer::Exit, and is told apart.
LEMMA NextExit ==
    ASSUME ClientsInv, ExitInv, [WebNext]_webVars
    PROVE  ExitInv'
<1>1. L1 \in Layer /\ L2 \in Layer
  BY LayersAssumption
<1>2. CASE UNCHANGED <<main, manager>>
  <2>1. ~StartClients
    BY <1>2 DEF StartClients
  <2> QED
    BY <1>1, <1>2, <2>1, JoinedStays DEF ExitInv
<1>3. CASE Main \/ EndpointFails
  <2>1. CASE StartClients \/ StartEndpoint \/ CloseL1
    BY <2>1 DEF ExitInv, StartClients, StartEndpoint, CloseL1
  <2>2. CASE CloseL2 \/ JoinL2 \/ Shutdown \/ ExitInstance
    <3>1. ws_pc' = ws_pc
      BY <2>2 DEF CloseL2, CloseClient, JoinL2, Shutdown, ExitInstance, wsVars
    <3> QED
      BY <2>2, <3>1 DEF ExitInv, Joined, CloseL2, JoinL2, Shutdown, ExitInstance
  <2>3. CASE EndpointFails
    BY <2>3 DEF ExitInv, EndpointFails
  <2> QED
    BY <1>3, <2>1, <2>2, <2>3 DEF Main
<1>4. Main \/ EndpointFails \/ UNCHANGED <<main, manager>>
  BY DEF WebNext, Http, SubmitChecks, SubmitChecksL2, Submitted, ClientGoesOn, webRest, webVars
<1> QED
  BY <1>2, <1>3, <1>4

\* connected_ of a client, which decides whether a request is refused, is never left over from
\* a link whose end the client has handled, whatever the number of links lost and of event
\* loops on its stack; and once the endpoint has started, the HandleManager exists whenever a
\* client hands it an event: WebServer::Exit has joined both threads before main deletes it.
THEOREM Events == WebSpec => []EventHasManager
<1>1. WebInit => ClientsInv /\ ExitInv
  BY InitClients DEF WebInit, ExitInv
<1>2. ClientsInv /\ ExitInv /\ [WebNext]_webVars => (ClientsInv /\ ExitInv)'
  BY NextClients, NextExit
<1>3. ClientsInv => WebTypeOK /\ ConnectedHasLink
  BY DEF ClientsInv, Unconnected, ConnectedHasLink
<1>4. ClientsInv /\ ExitInv => ManagerOutlivesEvents
  BY LayersAssumption DEF ExitInv, Joined, ManagerOutlivesEvents, ClientsInv, WebTypeOK
<1>5. ClientsInv /\ ExitInv => EventHasManager
  BY <1>3, <1>4 DEF EventHasManager
<1> QED
  BY <1>1, <1>2, <1>5, PTL DEF WebSpec

=============================================================================
