--------------------------- MODULE ThreadNewPool ---------------------------
(***************************************************************************)
(* utils::ThreadNewPool (utils/thread_pool.cpp): a pool on two condition   *)
(* variables.  What is done under m_mutex is one step; a thread in a       *)
(* condition variable's wait is in its set, and goes back to the lock when *)
(* it is notified or for no reason.  Wait is called by one thread, AddTask *)
(* by any number, Stop by one (std::call_once).                            *)
(***************************************************************************)
EXTENDS Integers, Sequences, FiniteSets

CONSTANTS Worker, Task, NoTask

ASSUME PoolAssumption == IsFiniteSet(Worker) /\ NoTask \notin Task

VARIABLES
    m_taskQueue, m_taskSize, m_isStop,
    worker,             \* worker -> lock, wait, task, dec, check, notify, ended
    holds,              \* worker -> the task it took
    notes,              \* calls of AddTask that have m_taskGet.notify_one to do
    waiter,             \* the thread that calls Wait: idle, lock, wait
    stopper,            \* terminate: idle, join, zero, clean, stopped
    added, done,        \* tasks added, and run
    dropped             \* tasks that were queued when the pool stopped, or came later

newPoolVars == <<m_taskQueue, m_taskSize, m_isStop, worker, holds, notes, waiter, stopper,
          added, done, dropped>>

InFlight == {w \in Worker : worker[w] \in {"task", "dec"}}

WorkerGoto(w, pc) == worker' = [worker EXCEPT ![w] = pc]

\* The threads exist and have yet to be scheduled.
InitThreadNum == worker = [w \in Worker |-> "lock"]

AddTask(t) ==
    /\ t \notin added
    /\ m_taskQueue' = Append(m_taskQueue, t)
    /\ m_taskSize' = m_taskSize + 1
    /\ notes' = notes + 1
    /\ added' = added \cup {t}
    /\ dropped' = IF m_isStop THEN dropped \cup {t} ELSE dropped
    /\ UNCHANGED <<m_isStop, worker, holds, waiter, stopper, done>>

\* Mutant: the new task is announced only when it is alone in the queue.
NotifyOneIfAlone ==
    /\ notes > 0
    /\ notes' = notes - 1
    /\ IF Len(m_taskQueue) # 1 \/ {w \in Worker : worker[w] = "wait"} = {}
       THEN UNCHANGED worker
       ELSE \E w \in Worker : worker[w] = "wait" /\ WorkerGoto(w, "lock")
    /\ UNCHANGED <<m_taskQueue, m_taskSize, m_isStop, holds, waiter, stopper,
                   added, done, dropped>>

\* m_taskGet.notify_one, after the lock was released.
NotifyOne ==
    /\ notes > 0
    /\ notes' = notes - 1
    /\ IF {w \in Worker : worker[w] = "wait"} = {}
       THEN UNCHANGED worker
       ELSE \E w \in Worker : worker[w] = "wait" /\ WorkerGoto(w, "lock")
    /\ UNCHANGED <<m_taskQueue, m_taskSize, m_isStop, holds, waiter, stopper,
                   added, done, dropped>>

(***************************************************************************)
(* runTask.                                                                *)
(***************************************************************************)
\* One pass under the lock: leave, wait, or take the front.
Lock(w) ==
    /\ worker[w] = "lock"
    /\ IF m_isStop THEN WorkerGoto(w, "ended") /\ UNCHANGED <<m_taskQueue, holds>>
       ELSE IF m_taskQueue = <<>> THEN WorkerGoto(w, "wait") /\ UNCHANGED <<m_taskQueue, holds>>
       ELSE /\ WorkerGoto(w, "task")
            /\ holds' = [holds EXCEPT ![w] = Head(m_taskQueue)]
            /\ m_taskQueue' = Tail(m_taskQueue)
    /\ UNCHANGED <<m_taskSize, m_isStop, notes, waiter, stopper, added, done, dropped>>

SpuriousWakeup(w) ==
    /\ worker[w] = "wait"
    /\ WorkerGoto(w, "lock")
    /\ UNCHANGED <<m_taskQueue, m_taskSize, m_isStop, holds, notes, waiter, stopper,
                   added, done, dropped>>

RunTask(w) ==
    /\ worker[w] = "task"
    /\ WorkerGoto(w, "dec")
    /\ done' = done \cup {holds[w]}
    /\ UNCHANGED <<m_taskQueue, m_taskSize, m_isStop, holds, notes, waiter, stopper,
                   added, dropped>>

Decrement(w) ==
    /\ worker[w] = "dec"
    /\ WorkerGoto(w, "check")
    /\ m_taskSize' = m_taskSize - 1
    /\ holds' = [holds EXCEPT ![w] = NoTask]
    /\ UNCHANGED <<m_taskQueue, m_isStop, notes, waiter, stopper, added, done, dropped>>

\* m_taskSize is read again, without the lock.
CheckEmpty(w) ==
    /\ worker[w] = "check"
    /\ WorkerGoto(w, IF m_taskSize = 0 THEN "notify" ELSE "lock")
    /\ UNCHANGED <<m_taskQueue, m_taskSize, m_isStop, holds, notes, waiter, stopper,
                   added, done, dropped>>

WakeWaiter == waiter' = IF waiter = "wait" THEN "lock" ELSE waiter

NotifyEmpty(w) ==
    /\ worker[w] = "notify"
    /\ WorkerGoto(w, "lock")
    /\ WakeWaiter
    /\ UNCHANGED <<m_taskQueue, m_taskSize, m_isStop, holds, notes, stopper,
                   added, done, dropped>>

(***************************************************************************)
(* Wait and Stop.                                                          *)
(***************************************************************************)
WaitCalled ==
    /\ waiter = "idle"
    /\ waiter' = "lock"
    /\ UNCHANGED <<m_taskQueue, m_taskSize, m_isStop, worker, holds, notes, stopper,
                   added, done, dropped>>

\* Mutant: Wait looks at the queue, not at the tasks that are running.
WaitEmptyQueue == m_taskQueue = <<>>

WaitOver == m_taskSize = 0

\* The first look or the predicate of the wait, under the lock.
WaitLooks ==
    /\ waiter = "lock"
    /\ waiter' = IF WaitOver THEN "idle" ELSE "wait"
    /\ UNCHANGED <<m_taskQueue, m_taskSize, m_isStop, worker, holds, notes, stopper,
                   added, done, dropped>>

\* terminate, under the lock: everybody is woken.
Stop ==
    /\ stopper = "idle" /\ stopper' = "join"
    /\ m_isStop' = TRUE
    /\ worker' = [w \in Worker |-> IF worker[w] = "wait" THEN "lock" ELSE worker[w]]
    /\ WakeWaiter
    /\ dropped' = {m_taskQueue[i] : i \in 1 .. Len(m_taskQueue)}
    /\ UNCHANGED <<m_taskQueue, m_taskSize, holds, notes, added, done>>

JoinAll ==
    /\ stopper = "join" /\ stopper' = "zero"
    /\ \A w \in Worker : worker[w] = "ended"
    /\ UNCHANGED <<m_taskQueue, m_taskSize, m_isStop, worker, holds, notes, waiter,
                   added, done, dropped>>

\* m_taskSize = 0 and cleanTaskQueue, both without the lock and without a word to Wait.
ZeroSize ==
    /\ stopper = "zero" /\ stopper' = "clean"
    /\ m_taskSize' = 0
    /\ UNCHANGED <<m_taskQueue, m_isStop, worker, holds, notes, waiter, added, done, dropped>>

CleanTaskQueue ==
    /\ stopper = "clean" /\ stopper' = "stopped"
    /\ m_taskQueue' = <<>>
    /\ UNCHANGED <<m_taskSize, m_isStop, worker, holds, notes, waiter, added, done, dropped>>

(***************************************************************************)
(* Specification.                                                          *)
(***************************************************************************)
NewPoolInit ==
    /\ m_taskQueue = <<>> /\ m_taskSize = 0 /\ m_isStop = FALSE
    /\ InitThreadNum /\ holds = [w \in Worker |-> NoTask]
    /\ notes = 0 /\ waiter = "idle" /\ stopper = "idle"
    /\ added = {} /\ done = {} /\ dropped = {}

RunTaskLoop(w) ==
    \/ Lock(w) \/ RunTask(w) \/ Decrement(w) \/ CheckEmpty(w) \/ NotifyEmpty(w)

Terminate == JoinAll \/ ZeroSize \/ CleanTaskQueue

NewPoolNext ==
    \/ \E t \in Task : AddTask(t)
    \/ NotifyOne
    \/ \E w \in Worker : RunTaskLoop(w) \/ SpuriousWakeup(w)
    \/ WaitCalled \/ WaitLooks
    \/ Stop \/ Terminate

NewPoolSpec == NewPoolInit /\ [][NewPoolNext]_newPoolVars

\* The scheduler runs every thread that can run; nobody has to call anything.
NewPoolFairSpec ==
    /\ NewPoolSpec
    /\ WF_newPoolVars(NotifyOne) /\ WF_newPoolVars(WaitLooks) /\ WF_newPoolVars(Terminate)
    /\ \A w \in Worker : WF_newPoolVars(RunTaskLoop(w))

(***************************************************************************)
(* Properties.                                                             *)
(***************************************************************************)
\* m_taskSize counts the tasks queued and running, from the first task until
\* terminate resets it.
SizeCounts ==
    stopper \in {"idle", "join", "zero"} =>
        m_taskSize = Len(m_taskQueue) + Cardinality(InFlight)

\* Wait returns only when every task added before has been run, or the pool was
\* stopped.
WaitSound == [][waiter = "lock" /\ waiter' = "idle" => added \subseteq done \/ m_isStop]_newPoolVars

\* A task that was added is run, unless the pool is stopped: no notification is
\* lost between AddTask, which notifies without the lock, and runTask.
EachTaskRuns == \A t \in Task : []<>(t \in added => t \in done \cup dropped)

\* Wait returns, unless the pool was stopped with tasks in its queue: terminate
\* wakes Wait before it resets m_taskSize, and never again.
WaitReturns == []<>(waiter = "idle" \/ dropped # {})

\* Stop returns: no worker sleeps through it.
StopReturns == []<>(stopper \in {"idle", "stopped"})
=============================================================================
