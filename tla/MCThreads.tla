----------------------------- MODULE MCThreads -----------------------------
(***************************************************************************)
(* The parts of the agent and of its libraries that are threads of one     *)
(* process, or processes of one host, side by side for TLC.  They share no *)
(* state, so that a behaviour of the whole is one behaviour of each part:  *)
(* "part" says which part this behaviour runs, and the others stay at      *)
(* their initial state.  A part's properties are stated without regard to  *)
(* "part", except where a comment says so.                                 *)
(*                                                                         *)
(* Bounds.  Three threads are the fewest with a writer in its loop, a      *)
(* reader it waits for and one more that asks for the mutex; with two keys *)
(* a lookup may succeed or fail meanwhile.  Two workers and two tasks make *)
(* every race for the queue.  Of the two modules RunLoop drives the first  *)
(* (the Daemon's) has no interval; the timers are due at once, within an   *)
(* interval of Timer or after it.                                          *)
(***************************************************************************)
EXTENDS ReadWriteLock, ThreadNewPool, WebServer

CONSTANTS
    MaxTerminate,                                       \* of ThreadPool
    Delays, CheckInterval, Interval, MaxTimers, MaxTime,\* of Timer
    MaxFaults                                           \* of Daemon

VARIABLES
    part,           \* the part that runs
    thr_enabled_, running_, handle_, proc, enabled_, threads_, tasks_, at, pool_holds,
    cancel, terminates, owner, pool_added, ran,
    now, g_enable_, loop, current_time, item, last_check, time_ele_, exeute_list_,
    executed, global_element_id_, last_check_time_, fired, deleted,
    shm_key, segments, written, agent, shared, agentd, shm, differs, wrote, alarm,
    faults, agentds

poolVars == <<thr_enabled_, running_, handle_, proc, enabled_, threads_, tasks_, at,
              pool_holds, cancel, terminates, owner, pool_added, ran>>
timerVars == <<now, g_enable_, loop, current_time, item, last_check, time_ele_,
               exeute_list_, executed, global_element_id_, last_check_time_, fired,
               deleted>>
daemonVars == <<shm_key, segments, written, agent, shared, agentd, shm, differs, wrote,
                alarm, faults, agentds>>
mcVars == <<part, vars, newPoolVars, poolVars, timerVars, daemonVars, webVars>>

P == INSTANCE ThreadPool WITH
         Thr <- Worker, holds <- pool_holds, added <- pool_added

T == INSTANCE Timer WITH done <- executed

D == INSTANCE Daemon WITH key <- shm_key, MaxAgentd <- 1

\* The modules that RunLoop drives: the Daemon, without an interval, and another.
TwoModules == <<0, 2>>

ASSUME TimerAssumption == T!TimesOK
ASSUME ThreadPoolAssumption == MaxTerminate \in Nat

Parts == {"lock", "newPool", "pool", "timer", "daemon", "web"}

MCInit ==
    /\ part \in Parts
    /\ Init /\ NewPoolInit /\ P!Init /\ T!Init /\ D!Init /\ WebInit
    /\ part = "lock" \/ key = [t \in Thread |-> CHOOSE k \in Key : TRUE]

\* A step A of one part.
Lock_(A) == /\ part = "lock" /\ A
            /\ UNCHANGED <<part, newPoolVars, poolVars, timerVars, daemonVars, webVars>>
NewPool_(A) == /\ part = "newPool" /\ A
               /\ UNCHANGED <<part, vars, poolVars, timerVars, daemonVars, webVars>>
Pool_(A) == /\ part = "pool" /\ A
            /\ UNCHANGED <<part, vars, newPoolVars, timerVars, daemonVars, webVars>>
Timer_(A) == /\ part = "timer" /\ A
             /\ UNCHANGED <<part, vars, newPoolVars, poolVars, daemonVars, webVars>>
Daemon_(A) == /\ part = "daemon" /\ A
              /\ UNCHANGED <<part, vars, newPoolVars, poolVars, timerVars, webVars>>
Web_(A) == /\ part = "web" /\ A
           /\ UNCHANGED <<part, vars, newPoolVars, poolVars, timerVars, daemonVars>>

MCNext ==
    \/ Lock_(Next) \/ NewPool_(NewPoolNext) \/ Pool_(P!Next) \/ Timer_(T!Next)
    \/ Daemon_(D!Next) \/ Web_(WebNext)

\* Each part's own fairness.  As one part runs in a behaviour, the conditions of
\* different parts can be joined: fairness to "A of one part or B of another" is
\* fairness to A when the one part runs and to B when the other does.
MCSpec ==
    /\ MCInit /\ [][MCNext]_mcVars
    /\ \A t \in Thread : WF_mcVars(Lock_(Step(t)))
    /\ \A w \in Worker : WF_mcVars(NewPool_(RunTaskLoop(w)) \/ Pool_(P!WorkerStep(w)))
    /\ \A l \in Layer : WF_mcVars(Web_(ClientGoesOn(l)))
    /\ WF_mcVars(\/ NewPool_(NotifyOne) \/ Pool_(P!OwnerWaits) \/ Timer_(T!RunLoop)
                 \/ Daemon_(D!Look) \/ Web_(MainGoesOn))
    /\ WF_mcVars(NewPool_(WaitLooks) \/ Timer_(T!Tick) \/ Web_(RequestGoesOn))
    /\ WF_mcVars(NewPool_(Terminate))

-----------------------------------------------------------------------------
\* Both pools account for every task.  A task put into the queue of ThreadPool is in exactly
\* one place (waiting, held by the worker that runs it, or run, and run once), and when
\* WaitAndJoin has returned every task was run to its end, though it looks at the queue only
\* and workers still hold tasks when that is empty.  m_taskSize of ThreadNewPool counts the
\* tasks that are queued or running.
TasksAccountedFor == P!TypeOK /\ P!EachTaskOnce /\ P!WaitAndJoinRanAll /\ SizeCounts

\* No call on a pool waits for ever, and no notification is lost: a task of ThreadNewPool is
\* run unless the pool is stopped, its Wait and Stop return, and so do Exit, JoinwWithStop
\* and WaitAndJoin of ThreadPool, unless a worker was cancelled.
PoolCallsReturn == P!JoinEnds /\ EachTaskRuns /\ WaitReturns /\ StopReturns

\* Every timer ever added is in one place (waiting, taken for execution, fired once, or
\* deleted), no callback is made before its time, though RunLoop hands OnTimer a time that is
\* older than the clock, and callbacks are made in the order of their times, from one pass
\* to the next too.
TimersOnceInOrder == T!OnePlace /\ T!NotEarly /\ T!InOrder

\* A timer fires, or is deleted, or the process is told to stop; and then RunLoop ends.
TimersFire == T!TimerFires /\ T!LoopEnds

\* agentd runs the start script only if the agent did not write since its last look.
AlarmOnlyIfSilent == [][D!Look => ~(wrote /\ alarm')]_daemonVars

\* An agent that is down is started again while agentd runs.
AgentRestarted == D!AgentRestarted

\* A client is connected again and again: whatever ended a link or refused one, it tries until
\* it has the next, unless it is stopped or connect itself gave up.  And WebServer::Exit ends:
\* a client that sleeps before it connects again finds its event loop stopped.
ReconnectsUntilExit == Reconnects /\ ExitEnds
=============================================================================
