------------------------------- MODULE Timer -------------------------------
(***************************************************************************)
(* RunLoop of main/main.cpp with what it drives: the modules of            *)
(* TimerNotify::notifys_ (common/general.h) and utils::Timer               *)
(* (utils/timer.cpp).  Any thread may call AddTimer and DelTimer, the      *)
(* callbacks too (lock_ is not held while they run); a signal ends the     *)
(* loop.  Time passes at any point, up to MaxTime.                         *)
(***************************************************************************)
EXTENDS Integers, Sequences, FiniteSets, SequencesExt

CONSTANTS
    Delays,             \* the delays AddTimer is called with
    CheckInterval,      \* Timer::check_interval_
    Interval,           \* sequence: check_interval_ of the modules in notifys_
    MaxTimers, MaxTime  \* bounds

\* The times are natural numbers.
TimesOK ==
    /\ Delays \subseteq Nat /\ CheckInterval \in Nat /\ MaxTime \in Nat
    /\ \A i \in 1 .. Len(Interval) : Interval[i] \in Nat

VARIABLES
    now,                \* Timestamp::HighResolution()
    g_enable_,
    loop,               \* top, notify, running, timer, execute, ended
    current_time,       \* RunLoop's, read at the top
    item,               \* the module of notifys_ in turn
    last_check,         \* last_check_time_ of the modules
    time_ele_,          \* sequence of [id, expire]: the multimap in its order
    exeute_list_,
    done,               \* elements of exeute_list_ executed so far
    global_element_id_,
    last_check_time_,   \* of the Timer
    fired,              \* the callbacks made: [id, expire, at]
    deleted             \* ids DelTimer answered true for

timerVars == <<time_ele_, exeute_list_, done, global_element_id_, last_check_time_,
               fired, deleted>>
loopVars == <<g_enable_, loop, current_time, item, last_check>>
vars == <<now, loopVars, timerVars>>

Module == 1 .. Len(Interval)

(***************************************************************************)
(* Timer.                                                                  *)
(***************************************************************************)
\* The first k elements of time_ele_ expire by time, and the next one does not.
ExpireBy(k, time) ==
    /\ \A i \in 1 .. k : time_ele_[i].expire <= time
    /\ k < Len(time_ele_) => time_ele_[k + 1].expire > time

\* Mutant: the element goes to the end whatever its time.
AppendElement(e) == time_ele_' = Append(time_ele_, e)

\* multimap::insert: after the elements that do not expire later.
Insert(e) ==
    \E k \in 0 .. Len(time_ele_) :
        ExpireBy(k, e.expire) /\ time_ele_' = InsertAt(time_ele_, k + 1, e)

AddTimer(delay) ==
    /\ global_element_id_ <= MaxTimers
    /\ Insert([id |-> global_element_id_, expire |-> now + delay])
    /\ global_element_id_' = global_element_id_ + 1
    /\ UNCHANGED <<now, loopVars, exeute_list_, done, last_check_time_, fired, deleted>>

\* Deleting what is not in time_ele_ answers false and changes nothing.
DelTimer(id) ==
    /\ \E i \in 1 .. Len(time_ele_) :
           /\ time_ele_[i].id = id
           /\ time_ele_' = RemoveAt(time_ele_, i)
    /\ deleted' = deleted \cup {id}
    /\ UNCHANGED <<now, loopVars, exeute_list_, done, global_element_id_, last_check_time_, fired>>

\* From the first element on, until one expires later.
CheckExpire(cur) ==
    \E k \in 0 .. Len(time_ele_) :
        /\ ExpireBy(k, cur)
        /\ exeute_list_' = exeute_list_ \o SubSeq(time_ele_, 1, k)
        /\ time_ele_' = SubSeq(time_ele_, k + 1, Len(time_ele_))

\* Mutant: the time of the last check is used.
TimerDueStale == last_check_time_

TimerDue == current_time

(***************************************************************************)
(* RunLoop.                                                                *)
(***************************************************************************)
LoopGoesOn == g_enable_

LoopTop ==
    /\ loop = "top"
    /\ IF LoopGoesOn
       THEN loop' = "notify" /\ current_time' = now /\ item' = 1
       ELSE loop' = "ended" /\ UNCHANGED <<current_time, item>>
    /\ UNCHANGED <<now, g_enable_, last_check, timerVars>>

\* TimerWrapper with a fresh time: OnTimer of the module starts, or is not due.
TimerWrapper ==
    /\ loop = "notify" /\ item \in Module
    /\ IF now > last_check[item] + Interval[item]
       THEN /\ last_check' = [last_check EXCEPT ![item] = now]
            /\ loop' = "running" /\ UNCHANGED item
       ELSE item' = item + 1 /\ UNCHANGED <<last_check, loop>>
    /\ UNCHANGED <<now, g_enable_, current_time, timerVars>>

\* OnTimer of the module returns, after any time.
OnTimerReturns ==
    /\ loop = "running"
    /\ loop' = "notify" /\ item' = item + 1
    /\ UNCHANGED <<now, g_enable_, current_time, last_check, timerVars>>

\* Timer::OnTimer with the time read at the top: CheckExpire under the lock.
TimerOnTimer ==
    /\ loop = "notify" /\ item \notin Module
    /\ IF current_time > last_check_time_ + CheckInterval
       THEN loop' = "execute" /\ CheckExpire(TimerDue)
       ELSE loop' = "top" /\ UNCHANGED <<time_ele_, exeute_list_>>
    /\ UNCHANGED <<now, g_enable_, current_time, item, last_check, done,
                   global_element_id_, last_check_time_, fired, deleted>>

Excute ==
    /\ loop = "execute" /\ done < Len(exeute_list_)
    /\ done' = done + 1
    /\ fired' = LET e == exeute_list_[done + 1]
                IN  Append(fired, [id |-> e.id, expire |-> e.expire, at |-> now])
    /\ UNCHANGED <<now, loopVars, time_ele_, exeute_list_, global_element_id_,
                   last_check_time_, deleted>>

OnTimerDone ==
    /\ loop = "execute" /\ done = Len(exeute_list_)
    /\ loop' = "top"
    /\ exeute_list_' = <<>> /\ done' = 0
    /\ last_check_time_' = current_time
    /\ UNCHANGED <<now, g_enable_, current_time, item, last_check, time_ele_,
                   global_element_id_, fired, deleted>>

\* SignalFunc.
Signal ==
    /\ g_enable_
    /\ g_enable_' = FALSE
    /\ UNCHANGED <<now, loop, current_time, item, last_check, timerVars>>

Tick ==
    /\ now < MaxTime
    /\ now' = now + 1
    /\ UNCHANGED <<loopVars, timerVars>>

(***************************************************************************)
(* Specification.                                                          *)
(***************************************************************************)
Init ==
    /\ now = 1 /\ g_enable_ = TRUE
    /\ loop = "top" /\ current_time = 0 /\ item = 1
    /\ last_check = [i \in Module |-> 0]
    /\ time_ele_ = <<>> /\ exeute_list_ = <<>> /\ done = 0
    /\ global_element_id_ = 1 /\ last_check_time_ = 0
    /\ fired = <<>> /\ deleted = {}

RunLoop == LoopTop \/ TimerWrapper \/ OnTimerReturns \/ TimerOnTimer \/ Excute \/ OnTimerDone

Users ==
    \/ \E d \in Delays : AddTimer(d)
    \/ \E id \in 1 .. MaxTimers : DelTimer(id)
    \/ Signal

Next == RunLoop \/ Users \/ Tick

Spec == Init /\ [][Next]_vars

\* The loop's thread is scheduled, the handlers return, and time goes on.
FairSpec == Spec /\ WF_vars(RunLoop) /\ WF_vars(Tick)

(***************************************************************************)
(* Properties.                                                             *)
(***************************************************************************)
Ids(q) == {q[i].id : i \in 1 .. Len(q)}

\* Every timer ever added is in one place: waiting, taken for execution, fired
\* (once), or deleted.  So a timer DelTimer answered true for never fires, and no
\* timer fires twice, whatever AddTimer, DelTimer and OnTimer interleave.
OnePlace ==
    \A id \in 1 .. global_element_id_ - 1 :
        Cardinality({i \in 1 .. Len(time_ele_) : time_ele_[i].id = id})
          + Cardinality({i \in done + 1 .. Len(exeute_list_) : exeute_list_[i].id = id})
          + Cardinality({i \in 1 .. Len(fired) : fired[i].id = id})
          + (IF id \in deleted THEN 1 ELSE 0) = 1

\* No callback is made before its time, though current_time is older than the
\* clock by the time the modules took.
NotEarly == \A i \in 1 .. Len(fired) : fired[i].at >= fired[i].expire

\* Callbacks are made in the order of their times, from one pass to the next too.
InOrder == \A i, j \in 1 .. Len(fired) : i < j => fired[i].expire <= fired[j].expire

\* No timer waits for ever: it fires, or is deleted, or the process is told to stop.
\* (Time is bounded: the last check may come CheckInterval before its end.)
TimerFires ==
    \A id \in 1 .. MaxTimers :
        []<>(\/ id >= global_element_id_
             \/ \E i \in 1 .. Len(time_ele_) :
                    time_ele_[i].id = id /\ time_ele_[i].expire >= MaxTime - CheckInterval
             \/ id \in Ids(fired) \cup deleted
             \/ ~g_enable_)

\* After a signal the loop ends.
LoopEnds == []<>(g_enable_ \/ loop = "ended")
=============================================================================
