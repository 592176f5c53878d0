---------------------------- MODULE ReadWriteLock ----------------------------
(***************************************************************************)
(* utils::ReadWriteLock, as the threads that encode addresses use it:      *)
(* PublicKeyV4::GetEncAddress looks the key up in a map shared by all      *)
(* threads under the read lock and, when it is not there, inserts it under *)
(* the write lock, taken after the read lock was given back.               *)
(*                                                                         *)
(* The lock is a mutex, _enterLock, and a counter of readers, _reads.  A   *)
(* reader holds the mutex only to count itself; a writer keeps it and      *)
(* spins until the counter is 0.                                           *)
(***************************************************************************)
EXTENDS Integers, FiniteSets

CONSTANTS
    Thread,   \* threads that call GetEncAddress
    Key,      \* public keys
    NoThread  \* nobody holds _enterLock

ASSUME ThreadAssumption == IsFiniteSet(Thread) /\ NoThread \notin Thread

VARIABLES
    enterLock, \* the holder of _enterLock
    reads,     \* _reads
    cache,     \* the keys in g_pub_to_address
    pc,        \* where each thread is
    key,       \* its key
    need_write \* its need_write

vars == <<enterLock, reads, cache, pc, key, need_write>>

\* Counted threads are between AtomicInc and AtomicDec of _reads, holders
\* have _enterLock, writers are in the section that the write lock guards.
Counted == {"unlockEnter", "find", "readUnlock"}
Holders == {"inc", "unlockEnter", "spin", "insert", "inserted"}
Writers == {"insert", "inserted"}
Places == Counted \cup Holders \cup {"idle", "readLock", "writeLock"}

Init ==
    /\ enterLock = NoThread
    /\ reads = 0
    /\ cache = {}
    /\ pc = [t \in Thread |-> "idle"]
    /\ key \in [Thread -> Key]
    /\ need_write = [t \in Thread |-> FALSE]

Goto(t, p) == pc' = [pc EXCEPT ![t] = p]

GetEncAddress(t, k) ==
    /\ pc[t] = "idle"
    /\ key' = [key EXCEPT ![t] = k]
    /\ need_write' = [need_write EXCEPT ![t] = FALSE]
    /\ Goto(t, "readLock")
    /\ UNCHANGED <<enterLock, reads, cache>>

-----------------------------------------------------------------------------
(* ReadLock: _enterLock.Lock(); AtomicInc(&_reads); _enterLock.Unlock().   *)

ReadLockEnter(t) ==
    /\ pc[t] = "readLock" /\ enterLock = NoThread
    /\ enterLock' = t
    /\ Goto(t, "inc")
    /\ UNCHANGED <<reads, cache, key, need_write>>

ReadLockInc(t) ==
    /\ pc[t] = "inc"
    /\ reads' = reads + 1
    /\ Goto(t, "unlockEnter")
    /\ UNCHANGED <<enterLock, cache, key, need_write>>

ReadLockLeave(t) ==
    /\ pc[t] = "unlockEnter"
    /\ enterLock' = NoThread
    /\ Goto(t, "find")
    /\ UNCHANGED <<reads, cache, key, need_write>>

ReadLock(t) == ReadLockEnter(t) \/ ReadLockInc(t) \/ ReadLockLeave(t)

Find(t) ==
    /\ pc[t] = "find"
    /\ need_write' = [need_write EXCEPT ![t] = key[t] \notin cache]
    /\ Goto(t, "readUnlock")
    /\ UNCHANGED <<enterLock, reads, cache, key>>

\* Mutant: a reader that has to write stays counted.
ReadUnlockKept(t) ==
    /\ pc[t] = "readUnlock"
    /\ reads' = IF need_write[t] THEN reads ELSE reads - 1
    /\ Goto(t, IF need_write[t] THEN "writeLock" ELSE "idle")
    /\ UNCHANGED <<enterLock, cache, key, need_write>>

ReadUnlock(t) ==
    /\ pc[t] = "readUnlock"
    /\ reads' = reads - 1
    /\ Goto(t, IF need_write[t] THEN "writeLock" ELSE "idle")
    /\ UNCHANGED <<enterLock, cache, key, need_write>>

-----------------------------------------------------------------------------
(* WriteLock: _enterLock.Lock(), then wait until _reads is 0.  The mutex   *)
(* is given back by WriteUnlock.                                           *)

WriteLockEnter(t) ==
    /\ pc[t] = "writeLock" /\ enterLock = NoThread
    /\ enterLock' = t
    /\ Goto(t, "spin")
    /\ UNCHANGED <<reads, cache, key, need_write>>

\* Mutant: the writer does not wait for the readers.
WriteLockNoSpin(t) ==
    /\ pc[t] = "spin"
    /\ Goto(t, "insert")
    /\ UNCHANGED <<enterLock, reads, cache, key, need_write>>

WriteLockSpin(t) ==
    /\ pc[t] = "spin" /\ reads <= 0
    /\ Goto(t, "insert")
    /\ UNCHANGED <<enterLock, reads, cache, key, need_write>>

WriteLock(t) == WriteLockEnter(t) \/ WriteLockSpin(t)

\* The map is not readable while a node is being linked in: from "insert"
\* to "inserted" another access to it is a data race.
Insert(t) ==
    /\ pc[t] = "insert"
    /\ cache' = cache \cup {key[t]}
    /\ Goto(t, "inserted")
    /\ UNCHANGED <<enterLock, reads, key, need_write>>

WriteUnlock(t) ==
    /\ pc[t] = "inserted"
    /\ enterLock' = NoThread
    /\ Goto(t, "idle")
    /\ UNCHANGED <<reads, cache, key, need_write>>

-----------------------------------------------------------------------------
Step(t) == \/ ReadLock(t) \/ Find(t) \/ ReadUnlock(t)
           \/ WriteLock(t) \/ Insert(t) \/ WriteUnlock(t)

Next == \E t \in Thread : Step(t) \/ \E k \in Key : GetEncAddress(t, k)

Spec == Init /\ [][Next]_vars

\* Every thread that can run does.  Nothing is assumed of the order in which
\* a mutex is granted: a thread that waits for it may be passed over.
Fairness == \A t \in Thread : WF_vars(Step(t))

FairSpec == Spec /\ Fairness

-----------------------------------------------------------------------------
\* Each variable has its type; part of the inductive invariant below.
TypeOK ==
    /\ enterLock \in Thread \cup {NoThread}
    /\ reads \in Int
    /\ cache \in SUBSET Key
    /\ pc \in [Thread -> Places]
    /\ key \in [Thread -> Key]
    /\ need_write \in [Thread -> BOOLEAN]

\* While a thread changes the map under the write lock no other thread
\* changes it or reads it under the read lock.
MutualExclusion ==
    \A t, u \in Thread :
        pc[t] \in Writers /\ u # t => pc[u] \notin Writers \cup {"find"}

Readers == {t \in Thread : pc[t] \in Counted}

\* _reads is the number of threads inside the read lock at every moment, not
\* only when the lock is free; _enterLock is held exactly by the threads whose
\* place says so, across the return of WriteLock; and once a writer's loop saw
\* _reads at 0 it stays 0 until WriteUnlock, because to count itself a reader
\* needs the mutex.  This is the inductive invariant behind MutualExclusion.
LockInv ==
    /\ TypeOK
    /\ reads = Cardinality(Readers)
    /\ \A t \in Thread : pc[t] \in Holders <=> enterLock = t
    /\ \A t \in Thread : pc[t] \in Writers => reads = 0

\* No writer waits in the loop of WriteLock for ever: the readers it waits for
\* leave without the mutex it holds, and new ones cannot starve it.
WriterEnters == \A t \in Thread : []<>(pc[t] # "spin")
=============================================================================
