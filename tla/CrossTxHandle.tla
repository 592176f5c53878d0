---------------------------- MODULE CrossTxHandle ----------------------------
(***************************************************************************)
(* What the two handles, Layer1ToLayer2Handle and Layer2ToLayer1Handle,    *)
(* share: the maps of transfers in progress with their copy in the         *)
(* database, the threads that run the handlers, and the steps a handler is *)
(* made of.                                                                *)
(*                                                                         *)
(* A handler runs on the thread of the web socket that delivered its event *)
(* or on the timer thread.  Between two of its HTTP calls, database writes *)
(* and map updates the other threads and the chains take steps, so a       *)
(* handler is a sequence of actions of its thread:                         *)
(*                                                                         *)
(*   submit   POST a transaction and read the answer                       *)
(*   put      write the entry to the database                              *)
(*   emplace  insert it in the map, under the map's lock                   *)
(*   delete   delete another entry from the database                       *)
(*   erase    erase it from the map, under the map's lock                  *)
(*                                                                         *)
(* A loop over a map (a timer sweep, HandleConfirmSeqEvent) keeps the lock *)
(* of the map until its last item is done.  The locks are recursive.       *)
(***************************************************************************)
EXTENDS CrossChainBridge

CONSTANT NoHash   \* the hash of a transaction that was not submitted

ASSUME NoHashAssumption == NoHash \notin Hash

VARIABLES
    up,   \* is the agent running
    mem,  \* the maps start_tx_info_map_, send_tx_info_map_, send_ack_info_map_, reply_ack_info_map_
    db,   \* their copies in the database
    th    \* what each thread is doing

agentVars == <<up, mem, db, th>>
vars == <<chainVars, agentVars>>

Maps == {"StartTx", "SendTx", "SendAck", "ReplyAck"}

\* A web socket thread has the name of its layer.
Threads == Layers \cup {"timer"}

\* What the agent knows of a transfer (protocol::CrossTxInfo): the status and
\* the execution time it will report, the timeout, the layer-2 sequence to
\* wait for, and the hash of the transaction last submitted for this map.
CrossTx == [status : TxStatusEnum, time : Nat, timeout : Nat, confirmSeq : Nat,
            hash : Hash \cup {NoHash}]
NoCrossTx == [status |-> INIT, time |-> 0, timeout |-> 0, confirmSeq |-> 0, hash |-> NoHash]

Entry == [saved : BOOLEAN, cross : CrossTx]
NoEntry == [saved |-> FALSE, cross |-> NoCrossTx]

\* op is the map the job saves to, which also names the transaction it
\* submits; clr is the map it clears once that is saved; loop is the map of
\* the handle of transfers from obj whose lock the thread holds, todo the
\* items left.
Job == [pc : {"idle", "submit", "put", "emplace", "delete", "erase"},
        op : Maps, tx : Tx, cross : CrossTx, clr : Maps \cup {"none"},
        loop : Maps \cup {"none"}, obj : Layers, todo : SUBSET Tx]

Idle == [pc |-> "idle", op |-> "SendTx", tx |-> CHOOSE t \in Tx : TRUE, cross |-> NoCrossTx,
         clr |-> "none", loop |-> "none", obj |-> "L1", todo |-> {}]

-----------------------------------------------------------------------------
(* Reading the chains (HttpClient).                                        *)

\* Mutant: the contract's record is kept as it was read.
MakeCrossTxRaw(l, t) == crossTxInfo[l][t]

\* GetLayer1CrossTxInfo, GetLayer2CrossTxInfo and makeCrossTxInfo
MakeCrossTx(l, t) ==
    LET info == crossTxInfo[l][t]
    IN  [NoCrossTx EXCEPT !.status = info.status, !.time = info.executeTimestamp,
                          !.timeout = info.timeout]

QueryFails == "query" \in Faults

\* the answers GetTxResult may give
GetTxResult(l, h) ==
    {h # NoHash /\ pool[l][h].st = "ok"} \cup (IF QueryFails THEN {FALSE} ELSE {})

\* GetCrossTxStatus asks for the contract address of layer 2 whatever the
\* endpoint; layer 1 has no such contract, and a failed call returns 0 (INIT)
GetCrossTxStatus(l, t) ==
    (IF l = "L2" THEN {crossTxInfo["L2"][t].status} ELSE {INIT})
        \cup (IF QueryFails THEN {INIT} ELSE {})

-----------------------------------------------------------------------------
(* Threads and locks.                                                      *)

Ready(p) == up /\ th[p].pc = "idle" /\ th[p].loop = "none"

Holds(q, o, m) == th[q].loop = m /\ th[q].obj = o

\* thread p may take the lock of map m of the handle of transfers from o
LockFree(p, o, m) == \A q \in Threads \ {p} : ~Holds(q, o, m)

\* what a thread does when its job, or one item of its loop, is done
Resting(j, todo) ==
    IF todo = {} THEN Idle
    ELSE [Idle EXCEPT !.loop = j.loop, !.obj = j.obj, !.todo = todo]

Done(p, todo) == th' = [th EXCEPT ![p] = Resting(th[p], todo)]

\* Thread p goes on at pc with a transaction of kind op for transfer t,
\* clearing map clr at the end.
Run(p, pc, op, t, cross, clr, todo) ==
    th' = [th EXCEPT ![p] = [pc |-> pc, op |-> op, tx |-> t, cross |-> cross, clr |-> clr,
                             loop |-> th[p].loop, obj |-> th[p].obj, todo |-> todo]]

EnterLoop(p, o, m, items) ==
    /\ LockFree(p, o, m)
    /\ items # {}
    /\ th' = [th EXCEPT ![p] = [Idle EXCEPT !.loop = m, !.obj = o, !.todo = items]]
    /\ UNCHANGED <<chainVars, up, mem, db>>

\* the thread is about to treat item t of its loop over map m of handle o
Item(p, o, m, t) == th[p].pc = "idle" /\ Holds(p, o, m) /\ t \in th[p].todo

Rest(p, t) == th[p].todo \ {t}

-----------------------------------------------------------------------------
(* Submitting a transaction.                                               *)

\* the layer the transaction saved in map m goes to
Target(m, t) == IF m = "SendAck" THEN Src(t) ELSE Dst(t)

\* A hash names one transaction: a new one gets a hash that no pending
\* transaction has and that the agent has not kept.
Kept(l, h) ==
    \/ \E m \in Maps, t \in Tx : /\ Target(m, t) = l
                                 /\ h \in {mem[m][t].cross.hash, db[m][t].cross.hash}
    \/ \E p \in Threads : Target(th[p].op, th[p].tx) = l /\ th[p].cross.hash = h
FreeHash(l) == {h \in Hash : pool[l][h].st # "pending" /\ ~Kept(l, h)}
NewHash(l) == CHOOSE h \in FreeHash(l) : TRUE

CallOf(j) ==
    [st |-> "pending", fn |-> IF j.op = "SendTx" THEN "SendTx" ELSE "SendAckedTx",
     tx |-> j.tx, result |-> j.cross.status,
     time |-> IF j.op = "SendTx" THEN j.cross.timeout ELSE j.cross.time]

\* sendTransactionToLayer1, sendTransactionToLayer2: the node has the
\* transaction and its hash reaches the agent
Accepted(p, l) ==
    LET h == NewHash(l)
    IN  /\ FreeHash(l) # {}
        /\ pool' = [pool EXCEPT ![l][h] = CallOf(th[p])]
        /\ th' = [th EXCEPT ![p] = [th[p] EXCEPT !.pc = "put", !.cross.hash = h]]

\* the agent sees a failure: the node refused the transaction, or took it and
\* the answer was lost
Failed(p, l) ==
    \/ /\ "submit" \in Faults \/ FreeHash(l) = {}
       /\ UNCHANGED pool
    \/ /\ "submit" \in Faults
       /\ FreeHash(l) # {}
       /\ pool' = [pool EXCEPT ![l][NewHash(l)] = CallOf(th[p])]

\* An entry of an ack map is due 60 s after it was saved or sent again.  That
\* is less than a tick, so an entry may be due at once, or not yet; but
\* unless the chains are slow its transaction has left the pool by then.
InFlight(m, t) ==
    \E h \in Hash : LET c == pool[Target(m, t)][h]
                    IN  c.st = "pending" /\ c.fn = "SendAckedTx" /\ c.tx = t
AckDue(m, t) == mem[m][t].saved /\ ("slow" \in Faults \/ ~InFlight(m, t))

Submitting(p, o, op) == th[p].pc = "submit" /\ Src(th[p].tx) = o /\ th[p].op = op

chainButPool == <<now, crossTxInfo, paidIn, paidOut, tlogs, subscribed, confirmed, submits>>

-----------------------------------------------------------------------------
(* Saving and clearing entries.                                            *)

\* a write of the database that fails is logged, and the handler goes on
WriteFails == "database" \in Faults /\ UNCHANGED db

\* Mutant: an entry that could not be written is not kept in the map either.
DBPutOrNothing(p) ==
    LET j == th[p]
    IN  /\ j.pc = "put"
        /\ \/ /\ db' = [db EXCEPT ![j.op][j.tx] = [saved |-> TRUE, cross |-> j.cross]]
              /\ th' = [th EXCEPT ![p] = [@ EXCEPT !.pc = "emplace"]]
           \/ WriteFails /\ Done(p, j.todo)
        /\ UNCHANGED <<chainVars, up, mem>>

DBPut(p) ==
    LET j == th[p]
    IN  /\ j.pc = "put"
        /\ \/ db' = [db EXCEPT ![j.op][j.tx] = [saved |-> TRUE, cross |-> j.cross]]
           \/ WriteFails
        /\ th' = [th EXCEPT ![p] = [@ EXCEPT !.pc = "emplace"]]
        /\ UNCHANGED <<chainVars, up, mem>>

\* std::map::emplace leaves an entry that is already there as it is
Emplace(p) ==
    LET j == th[p]
    IN  /\ j.pc = "emplace"
        /\ LockFree(p, Src(j.tx), j.op)
        /\ mem' = IF mem[j.op][j.tx].saved THEN mem
                  ELSE [mem EXCEPT ![j.op][j.tx] = [saved |-> TRUE, cross |-> j.cross]]
        /\ IF j.clr = "none" THEN Done(p, j.todo) ELSE th' = [th EXCEPT ![p] = [@ EXCEPT !.pc = "delete"]]
        /\ UNCHANGED <<chainVars, up, db>>

DBDelete(p) ==
    LET j == th[p]
    IN  /\ j.pc = "delete"
        /\ db' = [db EXCEPT ![j.clr][j.tx] = NoEntry] \/ WriteFails
        /\ th' = [th EXCEPT ![p] = [@ EXCEPT !.pc = "erase"]]
        /\ UNCHANGED <<chainVars, up, mem>>

\* Erasing the current item of the thread's own loop makes the loop's iterator
\* invalid: it goes on, ends, or (Crash) takes the process down.
Erase(p) ==
    LET j == th[p]
    IN  /\ j.pc = "erase"
        /\ LockFree(p, Src(j.tx), j.clr)
        /\ mem' = [mem EXCEPT ![j.clr][j.tx] = NoEntry]
        /\ \/ Done(p, j.todo)
           \/ j.loop = j.clr /\ Done(p, {})
        /\ UNCHANGED <<chainVars, up, db>>
=============================================================================
