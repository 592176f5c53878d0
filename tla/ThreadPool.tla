----------------------------- MODULE ThreadPool -----------------------------
(***************************************************************************)
(* utils::ThreadPool over ThreadTaskQueue (utils/thread.cpp): workers poll *)
(* a locked list of tasks while the pool is enabled, and one owner adds    *)
(* tasks, waits, joins, terminates and starts again.  Joining is a loop    *)
(* over threads_, one JoinWithStop after the other.                        *)
(***************************************************************************)
EXTENDS Thread, Sequences, FiniteSets, SequencesExt

CONSTANTS
    Task, NoTask,
    MaxTerminate                \* bound on the calls of Terminate

VARIABLES
    enabled_,                   \* of the pool
    threads_,
    tasks_,                     \* the queue; tasks_size_ is its length
    at,                         \* worker -> check, get, task or sleep
    holds,                      \* worker -> the task it runs
    cancel,                     \* threads with a pending cancellation
    terminates,                 \* calls of Terminate so far
    owner,                      \* the owner's call: [op, at, i]
    added, ran                  \* tasks put, and how often each was run

poolVars == <<enabled_, threads_, tasks_>>
workerVars == <<at, holds, ran>>
vars == <<threadVars, poolVars, workerVars, cancel, terminates, owner, added>>

Idle == [op |-> "none", at |-> "idle", i |-> 0]
Joins == {"Exit", "JoinwWithStop", "WaitAndJoin"}

(***************************************************************************)
(* The owner.                                                              *)
(***************************************************************************)
OwnerIdle == owner = Idle

\* AddWorker stops at the first thread that cannot start, already in threads_.
AddWorker(ok, bad, noattr) ==
    /\ StartAll(ok, noattr)
    /\ threads_' = threads_ \o SetToSeq(ok) \o SetToSeq(bad)
    /\ at' = [w \in Thr |-> IF w \in ok THEN "check" ELSE at[w]]

PoolInit ==
    /\ OwnerIdle
    /\ enabled_' = TRUE
    /\ LET new == {w \in Thr : proc[w] = "none" /\ w \notin ToSet(threads_)}
       IN  \E ok \in SUBSET new :
             \/ ok # {} /\ AddWorker(ok, {}, {})
             \/ \E bad \in new \ ok : \E noattr \in SUBSET {bad} :
                    AddWorker(ok, {bad}, noattr)
    /\ UNCHANGED <<tasks_, holds, ran, cancel, terminates, owner, added>>

AddTask(t) ==
    /\ OwnerIdle
    /\ t \notin added
    /\ tasks_' = Append(tasks_, t)
    /\ added' = added \cup {t}
    /\ UNCHANGED <<threadVars, enabled_, threads_, workerVars, cancel, terminates, owner>>

Call(op) ==
    /\ OwnerIdle
    /\ owner' = [op |-> op, at |-> IF op \in {"Exit", "JoinwWithStop"} THEN "disable" ELSE "wait",
                 i |-> 1]
    /\ UNCHANGED <<threadVars, poolVars, workerVars, cancel, terminates, added>>

WaitEnds ==
    /\ owner.at = "wait"
    /\ Len(tasks_) = 0
    /\ owner' = IF owner.op = "WaitAndJoin" THEN [owner EXCEPT !.at = "disable"] ELSE Idle
    /\ UNCHANGED <<threadVars, poolVars, workerVars, cancel, terminates, added>>

Disable ==
    /\ owner.at = "disable"
    /\ enabled_' = FALSE
    /\ owner' = [owner EXCEPT !.at = "next"]
    /\ UNCHANGED <<threadVars, threads_, tasks_, workerVars, cancel, terminates, added>>

JoinNext ==
    /\ owner.at = "next" /\ owner.i <= Len(threads_)
    /\ IF JoinSkips(threads_[owner.i])
       THEN owner' = [owner EXCEPT !.i = @ + 1] /\ UNCHANGED threadVars
       ELSE owner' = [owner EXCEPT !.at = "poll"] /\ AskToStop(threads_[owner.i])
    /\ UNCHANGED <<poolVars, workerVars, cancel, terminates, added>>

JoinPoll ==
    /\ owner.at = "poll"
    /\ JoinLoopEnds(threads_[owner.i])
    /\ owner' = [owner EXCEPT !.at = "next", !.i = @ + 1]
    /\ UNCHANGED <<threadVars, poolVars, workerVars, cancel, terminates, added>>

\* Only JoinwWithStop clears threads_ (and loses the objects).
JoinReturns ==
    /\ owner.at = "next" /\ owner.i > Len(threads_)
    /\ threads_' = IF owner.op = "JoinwWithStop" THEN <<>> ELSE threads_
    /\ owner' = [owner EXCEPT !.at = "joined"]
    /\ UNCHANGED <<threadVars, enabled_, tasks_, workerVars, cancel, terminates, added>>

OwnerGoesOn ==
    /\ owner.at = "joined"
    /\ owner' = Idle
    /\ UNCHANGED <<threadVars, poolVars, workerVars, cancel, terminates, added>>

Terminate ==
    /\ OwnerIdle
    /\ terminates < MaxTerminate
    /\ terminates' = terminates + 1
    /\ Terminated(ToSet(threads_))
    /\ cancel' = cancel \cup {w \in ToSet(threads_) : handle_[w] /\ proc[w] = "run"}
    /\ UNCHANGED <<poolVars, workerVars, owner, added>>

(***************************************************************************)
(* The workers: ThreadPool::Run.                                           *)
(***************************************************************************)
Rest == <<poolVars, terminates, owner, added>>

WorkerCheck(w) ==
    /\ proc[w] = "run" /\ at[w] = "check"
    /\ IF enabled_
       THEN at' = [at EXCEPT ![w] = "get"] /\ UNCHANGED threadVars
       ELSE at' = [at EXCEPT ![w] = "done"] /\ RunReturns(w)
    /\ UNCHANGED <<holds, ran, cancel, Rest>>

\* ThreadTaskQueue::Get, one critical section.
Get(w) ==
    /\ proc[w] = "run" /\ at[w] = "get"
    /\ IF Len(tasks_) > 0
       THEN /\ holds' = [holds EXCEPT ![w] = Head(tasks_)]
            /\ tasks_' = Tail(tasks_)
            /\ at' = [at EXCEPT ![w] = "task"]
       ELSE at' = [at EXCEPT ![w] = "sleep"] /\ UNCHANGED <<holds, tasks_>>
    /\ UNCHANGED <<threadVars, enabled_, threads_, ran, cancel, terminates, owner, added>>

RunTask(w) ==
    /\ proc[w] = "run" /\ at[w] = "task"
    /\ ran' = [ran EXCEPT ![holds[w]] = IF @ < 2 THEN @ + 1 ELSE 2]
    /\ holds' = [holds EXCEPT ![w] = NoTask]
    /\ at' = [at EXCEPT ![w] = "check"]
    /\ UNCHANGED <<threadVars, cancel, Rest>>

WorkerSleep(w) ==
    /\ proc[w] = "run" /\ at[w] = "sleep" /\ w \notin cancel
    /\ at' = [at EXCEPT ![w] = "check"]
    /\ UNCHANGED <<threadVars, holds, ran, cancel, Rest>>

\* The tasks may have cancellation points too.
CancelledInRun(w) ==
    /\ proc[w] = "run" /\ at[w] \in {"sleep", "task"} /\ w \in cancel
    /\ Cancelled(w)
    /\ UNCHANGED <<workerVars, cancel, Rest>>

ProcEnds(w) == (ClearHandle(w) \/ ClearRunning(w)) /\ UNCHANGED <<workerVars, cancel, Rest>>

(***************************************************************************)
(* Specification.                                                          *)
(***************************************************************************)
Init ==
    /\ ThreadInit
    /\ enabled_ = FALSE /\ threads_ = <<>> /\ tasks_ = <<>>
    /\ at = [w \in Thr |-> "none"] /\ holds = [w \in Thr |-> NoTask]
    /\ cancel = {} /\ terminates = 0
    /\ owner = Idle
    /\ added = {} /\ ran = [t \in Task |-> 0]

Ops == Joins \cup {"WaitTaskComplete"}

Owner ==
    \/ PoolInit
    \/ \E t \in Task : AddTask(t)
    \/ \E op \in Ops : Call(op)
    \/ WaitEnds \/ Disable \/ JoinNext \/ JoinPoll \/ JoinReturns
    \/ OwnerGoesOn
    \/ Terminate

WorkerStep(w) ==
    \/ WorkerCheck(w) \/ Get(w) \/ RunTask(w) \/ WorkerSleep(w) \/ CancelledInRun(w)
    \/ ProcEnds(w)

Next == Owner \/ \E w \in Thr : WorkerStep(w)

Spec == Init /\ [][Next]_vars

\* Workers are scheduled, and a call the owner made goes on as soon as it can.
OwnerWaits == WaitEnds \/ Disable \/ JoinNext \/ JoinPoll \/ JoinReturns

Fairness ==
    /\ WF_vars(OwnerWaits)
    /\ \A w \in Thr : WF_vars(WorkerStep(w))

FairSpec == Spec /\ Fairness

(***************************************************************************)
(* Properties.                                                             *)
(***************************************************************************)
TypeOK ==
    /\ ThreadTypeOK
    /\ enabled_ \in BOOLEAN
    /\ threads_ \in Seq(Thr) /\ tasks_ \in Seq(Task)
    /\ at \in [Thr -> {"none", "check", "get", "task", "sleep", "done"}]
    /\ holds \in [Thr -> Task \cup {NoTask}]
    /\ cancel \in SUBSET Thr /\ terminates \in 0 .. MaxTerminate
    /\ owner.op \in Ops \cup {"none"}
    /\ added \in SUBSET Task /\ ran \in [Task -> 0 .. 2]

\* A task put into the queue is in exactly one place: waiting, held by one worker
\* that runs it, or run, and run once (ThreadTaskQueue::Get under its lock).
EachTaskOnce ==
    \A t \in added :
        Cardinality({i \in 1 .. Len(tasks_) : tasks_[i] = t})
          + Cardinality({w \in Thr : holds[w] = t}) + ran[t] = 1

\* When WaitAndJoin has returned, every task was run to its end: the queue was
\* empty before the workers were told to stop, and a worker that held a task was
\* joined (or had left Run) after it.
WaitAndJoinRanAll ==
    (owner.op = "WaitAndJoin" /\ owner.at = "joined") => \A t \in added : ran[t] = 1

\* Exit, JoinwWithStop and WaitAndJoin's join return, unless a worker was
\* cancelled: threadProc then never clears running_, and JoinWithStop polls it
\* for ever.
JoinEnds ==
    []<>(owner.at \notin {"disable", "next", "poll"} \/ \E w \in Thr : proc[w] = "cancelled")
=============================================================================
