------------------------------- MODULE Daemon -------------------------------
(***************************************************************************)
(* The watchdog: utils::Daemon of the agent (common/daemon.cpp) writes the *)
(* time into a shared memory segment, agentd (daemon/src/main.cpp) looks   *)
(* every 100 s whether it changed and runs the start script if it did not. *)
(* The script starts the agent only when none runs (fpm/module/scripts).   *)
(*                                                                         *)
(* Of the time in a segment two facts matter: whether it was ever written  *)
(* (a new segment holds 0), and whether it differs from agentd's last.  A  *)
(* handler that holds up the agent's timer loop is an agent that does not  *)
(* write for a while.                                                      *)
(***************************************************************************)
EXTENDS Naturals

CONSTANTS MaxFaults, MaxAgentd      \* bounds: faults of the agent, starts of agentd

VARIABLES
    key,            \* the segment of key 1234, 0 if there is none
    segments,       \* segments made so far: 1 .. segments
    written,        \* those the agent has written
    agent,          \* down or up
    shared,         \* the segment the agent is attached to, 0 for NULL
    agentd,         \* down or up
    shm,            \* the segment agentd is attached to
    differs,        \* does *shm differ from last?
    wrote,          \* has the agent written since agentd's last look?
    alarm,          \* did the last look run the script?
    faults, agentds \* counters

vars == <<key, segments, written, agent, shared, agentd, shm, differs, wrote, alarm,
          faults, agentds>>

Init ==
    /\ key = 0 /\ segments = 0 /\ written = {}
    /\ agent = "down" /\ shared = 0
    /\ agentd = "down" /\ shm = 0 /\ differs = FALSE
    /\ wrote = FALSE /\ alarm = FALSE
    /\ faults = 0 /\ agentds = 0

\* shmget of the key with IPC_CREAT.
Segment == IF key = 0 THEN segments + 1 ELSE key

\* Mutant: each start of the agent makes a segment of its own.
AgentShmgetPrivate(ok) ==
    /\ shared' = IF ok THEN segments + 1 ELSE 0
    /\ segments' = IF ok THEN segments + 1 ELSE segments
    /\ UNCHANGED key

\* Daemon::Initialize: without a segment the agent runs on, and writes nothing.
AgentShmget(ok) ==
    /\ shared' = IF ok THEN Segment ELSE 0
    /\ key' = IF ok THEN Segment ELSE key
    /\ segments' = IF ok /\ key = 0 THEN segments + 1 ELSE segments

AgentStarts ==
    /\ agent' = "up"
    /\ \/ AgentShmget(TRUE) /\ UNCHANGED faults
       \/ faults < MaxFaults /\ AgentShmget(FALSE) /\ faults' = faults + 1

StartAgent ==
    /\ agent = "down"
    /\ AgentStarts
    /\ UNCHANGED <<written, agentd, shm, differs, wrote, alarm, agentds>>

\* OnTimer of the Daemon, in the agent's timer loop.
OnTimer ==
    /\ agent = "up" /\ shared # 0
    /\ written' = written \cup {shared}
    /\ differs' = (differs \/ (agentd = "up" /\ shared = shm))
    /\ wrote' = (agentd = "up")
    /\ UNCHANGED <<key, segments, agent, shared, agentd, shm, alarm, faults, agentds>>

\* A crash, or Exit: the segment stays, with the last time in it.
AgentStops ==
    /\ agent = "up" /\ faults < MaxFaults
    /\ faults' = faults + 1
    /\ agent' = "down" /\ shared' = 0
    /\ UNCHANGED <<key, segments, written, agentd, shm, differs, wrote, alarm, agentds>>

(***************************************************************************)
(* agentd.                                                                 *)
(***************************************************************************)
StartAgentd ==
    /\ agentd = "down" /\ agentds < MaxAgentd
    /\ agentds' = agentds + 1
    /\ agentd' = "up"
    /\ shm' = Segment /\ key' = Segment
    /\ segments' = IF key = 0 THEN segments + 1 ELSE segments
    /\ differs' = (Segment \in written)
    /\ UNCHANGED <<written, agent, shared, wrote, alarm, faults>>

\* system(str_exec): the script.
Exec ==
    IF agent = "down" THEN AgentStarts ELSE UNCHANGED <<agent, shared, key, segments, faults>>

\* Mutant: last is not brought up to date.
LookKeepsLast ==
    /\ alarm' = ~differs
    /\ IF differs THEN UNCHANGED <<agent, shared, key, segments, faults>> ELSE Exec
    /\ wrote' = FALSE
    /\ UNCHANGED <<differs, written>>

\* One pass of the loop: compare, act, remember.
LookAtShared ==
    /\ alarm' = ~differs
    /\ IF differs THEN UNCHANGED <<agent, shared, key, segments, faults>> ELSE Exec
    /\ differs' = FALSE /\ wrote' = FALSE
    /\ UNCHANGED written

Look ==
    /\ agentd = "up"
    /\ LookAtShared
    /\ UNCHANGED <<agentd, shm, agentds>>

\* A signal ends agentd after one more look: it removes the key, and the segment
\* lives on for an agent that is attached to it.  (That look is a Look.)
StopAgentd ==
    /\ agentd = "up"
    /\ key' = 0
    /\ agentd' = "down" /\ shm' = 0 /\ differs' = FALSE /\ wrote' = FALSE
    /\ UNCHANGED <<segments, written, agent, shared, alarm, faults, agentds>>

KillAgentd ==
    /\ agentd = "up"
    /\ agentd' = "down" /\ shm' = 0 /\ differs' = FALSE /\ wrote' = FALSE
    /\ UNCHANGED <<key, segments, written, agent, shared, alarm, faults, agentds>>

(***************************************************************************)
(* Specification.                                                          *)
(***************************************************************************)
Next ==
    \/ StartAgent \/ OnTimer \/ AgentStops
    \/ StartAgentd \/ Look \/ StopAgentd \/ KillAgentd

Spec == Init /\ [][Next]_vars

\* agentd's sleep ends, and its loop goes on.
Fairness == WF_vars(Look)

FairSpec == Spec /\ Fairness

(***************************************************************************)
(* Properties.                                                             *)
(***************************************************************************)
\* agentd runs the script only if the agent did not write since its last look:
\* both use the same segment, whoever was started first or restarted.
AlarmOnlyIfSilent == [][Look => ~(wrote /\ alarm')]_vars

\* An agent that is down is started again while agentd runs.
AgentRestarted == []<>(agent = "up" \/ agentd = "down")
=============================================================================
