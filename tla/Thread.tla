------------------------------- MODULE Thread -------------------------------
(***************************************************************************)
(* utils::Thread of utils/thread.cpp: a detached pthread and the three     *)
(* fields its owner and threadProc share without a lock.  proc is where    *)
(* threadProc stands; the module of the Runnable says what Run does.       *)
(***************************************************************************)
EXTENDS Naturals

CONSTANT Thr                    \* Thread objects

VARIABLES
    thr_enabled_, running_,
    handle_,                    \* handle_ # INVALID_HANDLE, i.e. IsObjectValid()
    proc                        \* thread -> where its threadProc stands

threadVars == <<thr_enabled_, running_, handle_, proc>>

ProcStates == {"none", "run", "clear_handle", "clear_running", "ended", "cancelled"}

ThreadTypeOK ==
    /\ thr_enabled_ \in [Thr -> BOOLEAN] /\ running_ \in [Thr -> BOOLEAN]
    /\ handle_ \in [Thr -> BOOLEAN]
    /\ proc \in [Thr -> ProcStates]

ThreadInit ==
    /\ thr_enabled_ = [t \in Thr |-> FALSE] /\ running_ = [t \in Thr |-> FALSE]
    /\ handle_ = [t \in Thr |-> FALSE]
    /\ proc = [t \in Thr |-> "none"]

(***************************************************************************)
(* The outcomes of Start for threads that are not running: those in ok are *)
(* created; for those in noattr the stack size could not be set, which     *)
(* leaves the object marked as running; pthread_create failed for the      *)
(* others, and their fields are restored.                                  *)
(***************************************************************************)
StartAll(ok, noattr) ==
    /\ thr_enabled_' = [t \in Thr |-> thr_enabled_[t] \/ t \in ok \cup noattr]
    /\ running_' = [t \in Thr |-> running_[t] \/ t \in ok \cup noattr]
    /\ handle_' = [t \in Thr |-> handle_[t] \/ t \in ok]
    /\ proc' = [t \in Thr |-> IF t \in ok THEN "run" ELSE proc[t]]

\* Run has returned.
RunReturns(t) ==
    /\ proc' = [proc EXCEPT ![t] = "clear_handle"]
    /\ UNCHANGED <<thr_enabled_, running_, handle_>>

ClearHandle(t) ==
    /\ proc[t] = "clear_handle"
    /\ handle_' = [handle_ EXCEPT ![t] = FALSE]
    /\ proc' = [proc EXCEPT ![t] = "clear_running"]
    /\ UNCHANGED <<thr_enabled_, running_>>

ClearRunning(t) ==
    /\ proc[t] = "clear_running"
    /\ running_' = [running_ EXCEPT ![t] = FALSE]
    /\ proc' = [proc EXCEPT ![t] = "ended"]
    /\ UNCHANGED <<thr_enabled_, handle_>>

\* pthread_cancel takes effect where the thread sleeps: threadProc never goes on.
Cancelled(t) ==
    /\ proc' = [proc EXCEPT ![t] = "cancelled"]
    /\ UNCHANGED <<thr_enabled_, running_, handle_>>

\* Terminate of the threads in T; its cancellation requests are the caller's to keep.
Terminated(T) ==
    /\ thr_enabled_' = [t \in Thr |-> thr_enabled_[t] /\ ~(t \in T /\ handle_[t])]
    /\ UNCHANGED <<running_, handle_, proc>>

\* JoinWithStop: what it asks, and when its loop ends.
AskToStop(t) ==
    /\ thr_enabled_' = [thr_enabled_ EXCEPT ![t] = FALSE]
    /\ UNCHANGED <<running_, handle_, proc>>

JoinSkips(t) == ~handle_[t]

\* Mutant: the loop waits for the wrong flag.
JoinLoopEndsByEnabled(t) == ~thr_enabled_[t]

JoinLoopEnds(t) == ~running_[t]
=============================================================================
