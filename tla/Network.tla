------------------------------ MODULE Network ------------------------------
(***************************************************************************)
(* agent::Network of common/network.cpp: the connections of a node of the  *)
(* overlay, their pings and their expiry.  Three kinds of threads act: the *)
(* io threads run websocketpp's callbacks (those of one connection one at  *)
(* a time), the thread of Start runs the loop, and users call Connect and  *)
(* Stop.  Everything done under conns_list_lock_ is one step; cb[h] is     *)
(* where the callback of h stands between two of its critical sections, or *)
(* between the two look-ups that OnPong makes without the lock.            *)
(*                                                                         *)
(* Real time: a tick is longer than the second between two checks of the   *)
(* loop and than a callback takes (MayTick).                               *)
(***************************************************************************)
EXTENDS NetworkAdapter

CONSTANTS
    ConnectTimeOut,     \* connect_time_out_, in ticks
    PeerLatency         \* ticks a living peer takes to answer a ping, at most

\* What the constants have to satisfy.
TimeOutOK ==
    /\ DelaysOK
    /\ ConnectTimeOut \in Nat
    /\ PeerLatency \in Nat
    /\ ConnectTimeOut \div 4 + PeerLatency + 1 <= ConnectTimeOut

VARIABLES
    ip,                 \* is there an address to listen at?
    loop,               \* where Network::Start stands
    enabled_, thread_inited_,
    io,                 \* the four IoThreads: none, up or down
    checked,            \* did the loop check since the last tick?
    next_id_,
    connections_,       \* id -> Connection
    connection_handles_,\* handle -> id
    connections_delete_,\* id -> age
    cb,                 \* callback in progress, per connection
    silent,             \* peers that stopped answering (half-open links)
    ping_age,           \* handle -> ticks since a ping it has not answered
    disconnects,        \* calls of OnDisconnect, per connection
    refused             \* connections OnConnectOpen refused

adapterVars == <<ws, closing_age, server_conns_, client_conns_, hdl_to_ids_,
                 delay_delete_conns_, freed>>
startVars == <<ip, loop, enabled_, thread_inited_, io>>
connVars == <<next_id_, connections_, connection_handles_, connections_delete_>>
peerVars == <<silent, ping_age>>
hookVars == <<disconnects, refused>>
vars == <<adapterVars, startVars, checked, connVars, cb, peerVars, hookVars>>

Idle == [at |-> "idle"]
Old == ConnectTimeOut + 1   \* the age of a time still 0, and of all older ones
Aged(a) == IF a < Old THEN a + 1 ELSE Old

Without(f, S) == [x \in DOMAIN f \ S |-> f[x]]
With(f, x, v) == [y \in DOMAIN f \cup {x} |-> IF y = x THEN v ELSE f[y]]

(***************************************************************************)
(* Connection: connected is connect_end_time_ > 0, received and sent are   *)
(* the ages of last_receive_time_ and last_send_time_.                     *)
(***************************************************************************)
Connection(h) ==
    [handle |-> h, connected |-> h \in InHdl, received |-> 0, sent |-> Old]

Touched(c) == [c EXCEPT !.received = 0]

\* Mutant: the timeout is taken for the interval of the pings.
NeedPingLate(c, interval) == c.connected /\ c.sent > ConnectTimeOut

NeedPing(c, interval) == c.connected /\ c.sent > interval

\* Mutant: only connections that peers opened expire.
IsDataExpiredInBound(c, timeout) == c.handle \in InHdl /\ c.received > timeout

IsDataExpired(c, timeout) == c.connected /\ c.received > timeout

SetConnectTime(c) == [c EXCEPT !.connected = TRUE, !.received = 0]

Known(h) == h \in DOMAIN connection_handles_ /\ connection_handles_[h] \in DOMAIN connections_

IdOf(h) == connection_handles_[h]

HandlesOf(ids) == {connections_[i].handle : i \in ids}

AddConnection(h) ==
    /\ next_id_' = next_id_ + 1
    /\ connections_' = With(connections_, next_id_, Connection(h))
    /\ connection_handles_' = With(connection_handles_, h, next_id_)

(***************************************************************************)
(* RemoveConnection of the connections with these ids, conns and deleted   *)
(* being the maps as the caller leaves them; OnDisconnect was called for   *)
(* those in told.                                                          *)
(***************************************************************************)
RemoveConnections(conns, deleted, ids, told) ==
    LET hdls == {conns[i].handle : i \in ids}
    IN  /\ Close(hdls)
        /\ connections_' = Without(conns, ids)
        /\ connection_handles_' = Without(connection_handles_, hdls)
        /\ connections_delete_' =
               [i \in DOMAIN deleted \cup ids |-> IF i \in ids THEN 0 ELSE deleted[i]]
        /\ disconnects' = [h \in Hdl |-> disconnects[h] + IF h \in told THEN 1 ELSE 0]
        /\ UNCHANGED next_id_

Remove(ids, told) == RemoveConnections(connections_, connections_delete_, ids, told)

CallbackEnds(h) == cb' = [cb EXCEPT ![h] = Idle]
CallbackAt(h, r) == cb' = [cb EXCEPT ![h] = r]
-----------------------------------------------------------------------------
(***************************************************************************)
(* websocketpp calls a handler: adapter's part of a callback.              *)
(***************************************************************************)
Callable(h) == io = "up" /\ cb[h] = Idle

AcceptOpen(h) ==
    /\ Callable(h) /\ ip = "given" /\ h \in InHdl /\ ws[h] = "none"
    /\ \/ ServerOnOpen(h) /\ CallbackAt(h, [at |-> "open"])
       \/ ServerOnOpenGone(h) /\ UNCHANGED cb
    /\ UNCHANGED <<startVars, checked, connVars, peerVars, hookVars>>

ConnectOpens(h) ==
    /\ Callable(h) /\ ws[h] = "connecting"
    /\ WsBecomes(h, "open")
    /\ CallbackAt(h, [at |-> "clientopen"])
    /\ UNCHANGED <<startVars, checked, connVars, peerVars, hookVars>>

ConnectFails(h) ==
    /\ Callable(h) /\ ws[h] = "connecting"
    /\ WsBecomes(h, "closed")
    /\ CallbackAt(h, [at |-> "fail"])
    /\ UNCHANGED <<startVars, checked, connVars, peerVars, hookVars>>

PeerCloses(h) ==
    /\ Callable(h) /\ ws[h] \in {"open", "closing"}
    /\ WsBecomes(h, "closed")
    /\ IF Reaches(h) THEN CallbackAt(h, [at |-> "close"]) ELSE UNCHANGED cb
    /\ ping_age' = Without(ping_age, {h})
    /\ UNCHANGED <<startVars, checked, connVars, silent, hookVars>>

\* A message: a ping, the answer to ours, an unknown type or one whose data
\* does not parse.
Receive(h, kind) ==
    /\ Callable(h) /\ ws[h] = "open" /\ h \notin silent /\ Reaches(h)
    /\ kind = "pong" => h \in DOMAIN ping_age
    /\ CallbackAt(h, [at |-> "touch", kind |-> kind])
    /\ ping_age' = IF kind = "pong" THEN Without(ping_age, {h}) ELSE ping_age
    /\ UNCHANGED <<adapterVars, startVars, checked, connVars, silent, hookVars>>

PeerFallsSilent(h) ==
    /\ ws[h] = "open" /\ h \notin silent
    /\ silent' = silent \cup {h}
    /\ UNCHANGED <<adapterVars, startVars, checked, connVars, cb, ping_age, hookVars>>
-----------------------------------------------------------------------------
(***************************************************************************)
(* The Network's part of the callbacks.                                    *)
(***************************************************************************)
OnOpen(h) ==
    /\ cb[h].at = "open"
    /\ CallbackEnds(h)
    /\ \/ /\ AddConnection(h)                      \* OnConnectOpen accepts it
          /\ UNCHANGED <<adapterVars, connections_delete_, hookVars>>
       \/ /\ Close({h})                            \* and refuses it
          /\ next_id_' = next_id_ + 1
          /\ connections_delete_' = With(connections_delete_, next_id_, 0)
          /\ refused' = refused \cup {h}
          /\ UNCHANGED <<connections_, connection_handles_, disconnects>>
    /\ UNCHANGED <<startVars, checked, peerVars>>

OnClientOpen(h) ==
    /\ cb[h].at = "clientopen"
    /\ CallbackEnds(h)
    /\ IF Known(h)
       THEN \/ /\ connections_' = [connections_ EXCEPT ![IdOf(h)] = SetConnectTime(@)]
               /\ UNCHANGED <<adapterVars, next_id_, connection_handles_,
                              connections_delete_, hookVars>>
            \/ Remove({IdOf(h)}, {}) /\ refused' = refused \cup {h}
       ELSE UNCHANGED <<adapterVars, connVars, hookVars>>
    /\ UNCHANGED <<startVars, checked, peerVars>>

\* OnClose and OnFailed differ in what they log: GetErrorCode, which would
\* follow a null pointer if the handle were unknown to the adapter.
OnClose(h) ==
    /\ cb[h].at \in {"close", "fail"}
    /\ CallbackEnds(h)
    /\ IF Known(h)
       THEN Remove({IdOf(h)}, {h}) /\ UNCHANGED refused
       ELSE UNCHANGED <<adapterVars, connVars, hookVars>>
    /\ UNCHANGED <<startVars, checked, peerVars>>

\* The websocket's own pong reads the two maps, one after the other, without the lock: the
\* connection found by its handle may be removed before it is looked up by its id.  (What a
\* map returns that changes during the look-up is undefined; here it is the old or the new.)
OnPong(h) ==
    /\ Callable(h) /\ ws[h] = "open" /\ h \notin silent
    /\ Known(h)
    /\ CallbackAt(h, [at |-> "pong", id |-> IdOf(h)])
    /\ UNCHANGED <<adapterVars, startVars, checked, connVars, peerVars, hookVars>>

\* Only a connection that is still there is touched.
TouchId(id) ==
    connections_' = [i \in DOMAIN connections_ |->
                         IF i = id THEN Touched(connections_[i]) ELSE connections_[i]]

OnPongTouch(h) ==
    /\ cb[h].at = "pong"
    /\ CallbackEnds(h)
    /\ TouchId(cb[h].id)
    /\ UNCHANGED <<adapterVars, startVars, checked, next_id_, connection_handles_,
                   connections_delete_, peerVars, hookVars>>

(***************************************************************************)
(* OnMessage: four critical sections.                                      *)
(***************************************************************************)
OnMessageTouch(h) ==
    /\ cb[h].at = "touch"
    /\ IF Known(h)
       THEN /\ connections_' = [connections_ EXCEPT ![IdOf(h)] = Touched(@)]
            /\ CallbackAt(h, [at |-> "proc", kind |-> cb[h].kind, id |-> IdOf(h)])
       ELSE CallbackEnds(h) /\ UNCHANGED connections_
    /\ UNCHANGED <<adapterVars, startVars, checked, next_id_, connection_handles_,
                   connections_delete_, peerVars, hookVars>>

\* What proc returns; a type without a method does no harm.
OnRequestPing(id) == id \in DOMAIN connections_ /\ SendSucceeds(connections_[id].handle)

OnResponsePing(id) == TouchId(id)

ProcSucceeds(kind, id) ==
    \/ kind \in {"pong", "other"}
    \/ kind = "ping" /\ OnRequestPing(id)

OnMessageProc(h) ==
    /\ cb[h].at = "proc"
    /\ IF ProcSucceeds(cb[h].kind, cb[h].id)
       THEN CallbackEnds(h)
       ELSE CallbackAt(h, [at |-> "disconnect", id |-> cb[h].id])
    /\ IF cb[h].kind = "pong" THEN OnResponsePing(cb[h].id) ELSE UNCHANGED connections_
    /\ UNCHANGED <<adapterVars, startVars, checked, next_id_, connection_handles_,
                   connections_delete_, peerVars, hookVars>>

OnMessageDisconnect(h) ==
    /\ cb[h].at = "disconnect"
    /\ CallbackAt(h, [at |-> "remove", id |-> cb[h].id])
    /\ disconnects' = [disconnects EXCEPT ![h] = IF Known(h) THEN @ + 1 ELSE @]
    /\ UNCHANGED <<adapterVars, startVars, checked, connVars, peerVars, refused>>

OnMessageRemove(h) ==
    /\ cb[h].at = "remove"
    /\ CallbackEnds(h)
    /\ IF cb[h].id \in DOMAIN connections_
       THEN Remove({cb[h].id}, {})
       ELSE UNCHANGED <<adapterVars, connVars, disconnects>>
    /\ UNCHANGED <<startVars, checked, peerVars, refused>>
-----------------------------------------------------------------------------
(***************************************************************************)
(* Users.                                                                  *)
(***************************************************************************)
ConnectGet(h) ==
    /\ h \in OutHdl /\ ws[h] = "none" /\ h \notin client_conns_
    /\ loop \notin {"ended", "destroyed"}
    /\ GetConnect(h)
    /\ UNCHANGED <<startVars, checked, connVars, cb, peerVars, hookVars>>

ConnectAdd(h) ==
    /\ h \in client_conns_ /\ ws[h] = "none"
    /\ AddConnection(h)
    /\ ClientConnect(h)
    /\ UNCHANGED <<startVars, checked, connections_delete_, cb, peerVars, hookVars>>

\* Without effect before Start has enabled the loop.
Stop ==
    /\ enabled_
    /\ enabled_' = FALSE
    /\ UNCHANGED <<adapterVars, ip, loop, thread_inited_, io, checked, connVars, cb,
                   peerVars, hookVars>>

(***************************************************************************)
(* Start.  SocketIo::Create starts the io threads before it gives the      *)
(* io_service its work: without a listening socket, or a connection being  *)
(* opened, they may find nothing to do and end.                            *)
(***************************************************************************)
HasWork == ip = "given" \/ \E h \in OutHdl : ws[h] = "connecting"

Start ==
    /\ loop = "init"
    /\ thread_inited_' = TRUE
    /\ \/ /\ ip = "given"                     \* Listen or StartAccept fails
          /\ loop' = "ended"
          /\ UNCHANGED <<enabled_, io>>
       \/ /\ loop' = "run"
          /\ enabled_' = TRUE
          /\ \/ io' = "up"
             \/ ~HasWork /\ io' = "down"
    /\ UNCHANGED <<adapterVars, ip, checked, connVars, cb, peerVars, hookVars>>

(***************************************************************************)
(* One check of the loop: ping who was not pinged for a quarter of the     *)
(* timeout, remove who sent nothing for all of it.                         *)
(***************************************************************************)
Pinged == {i \in DOMAIN connections_ : NeedPing(connections_[i], ConnectTimeOut \div 4)}

ExpiredIds == {i \in DOMAIN connections_ : IsDataExpired(connections_[i], ConnectTimeOut)}

PingCustom ==
    LET delivered == {h \in HandlesOf(Pinged \ ExpiredIds) : ws[h] = "open"}
    IN  ping_age' = [h \in DOMAIN ping_age \cup delivered |->
                         IF h \in DOMAIN ping_age THEN ping_age[h] ELSE 0]

DropDeleted == {i \in DOMAIN connections_delete_ : connections_delete_[i] > 0}

Check ==
    /\ loop = "run" /\ enabled_
    /\ PingCustom
    /\ LET conns == [i \in DOMAIN connections_ |->
                         IF i \in Pinged THEN [connections_[i] EXCEPT !.sent = 0]
                                         ELSE connections_[i]]
           deleted == Without(connections_delete_, DropDeleted)
       IN  RemoveConnections(conns, deleted, ExpiredIds, HandlesOf(ExpiredIds))
    /\ checked' = TRUE
    /\ UNCHANGED <<startVars, cb, silent, refused>>

\* The loop ends: the io threads are stopped and joined, callbacks done.
LoopEnds ==
    /\ loop = "run" /\ ~enabled_
    /\ \A h \in Hdl : cb[h] = Idle
    /\ loop' = "ended"
    /\ io' = "down"
    /\ UNCHANGED <<adapterVars, ip, enabled_, thread_inited_, checked, connVars, cb,
                   peerVars, hookVars>>

\* ~Network and the destructors of the two classes, once Start returned.  TimerNotify keeps
\* its pointers to both, and has no way to remove one: who deletes a Network (nobody in the
\* repository does) must have ended RunLoop before.  So OnTimer is not called any more.
Destroy ==
    /\ loop = "ended" /\ io = "down"
    /\ loop' = "destroyed"
    /\ AdapterDestroy
    /\ connections_' = Without(connections_, DOMAIN connections_)
    /\ connection_handles_' = Without(connection_handles_, Hdl)
    /\ connections_delete_' = Without(connections_delete_, DOMAIN connections_delete_)
    /\ UNCHANGED <<ip, enabled_, thread_inited_, io, checked, next_id_, cb, peerVars, hookVars>>

OnTimer ==
    /\ loop # "destroyed"
    /\ AdapterOnTimer
    /\ UNCHANGED <<startVars, checked, connVars, cb, peerVars, hookVars>>

(***************************************************************************)
(* Time passes: the loop checked, the callbacks in progress are done, and  *)
(* a living peer's answer is not late.  Once the io threads ended nothing  *)
(* calls back, and time is of no interest.                                 *)
(***************************************************************************)
MayTick ==
    /\ AdapterMayTick
    /\ loop = "run" => checked
    /\ \A h \in Hdl : cb[h] = Idle
    /\ \A h \in DOMAIN ping_age :
           ws[h] = "open" /\ h \notin silent => ping_age[h] < PeerLatency

Tick ==
    /\ io # "down" /\ MayTick
    /\ AdapterTick
    /\ checked' = FALSE
    /\ connections_' =
           [i \in DOMAIN connections_ |->
                [connections_[i] EXCEPT !.received = Aged(@), !.sent = Aged(@)]]
    /\ connections_delete_' = [i \in DOMAIN connections_delete_ |-> 1]
    /\ ping_age' = [h \in DOMAIN ping_age |-> Aged(ping_age[h])]
    /\ UNCHANGED <<startVars, next_id_, connection_handles_, cb, silent, hookVars>>

Init ==
    /\ AdapterInit
    /\ ip \in {"given", "none"}
    /\ loop = "init" /\ io = "none"
    /\ enabled_ = FALSE /\ thread_inited_ = FALSE
    /\ checked = FALSE
    /\ next_id_ = 0
    /\ connections_ = [i \in {} |-> 0]
    /\ connection_handles_ = [h \in {} |-> 0]
    /\ connections_delete_ = [i \in {} |-> 0]
    /\ cb = [h \in Hdl |-> Idle]
    /\ silent = {}
    /\ ping_age = [h \in {} |-> 0]
    /\ disconnects = [h \in Hdl |-> 0]
    /\ refused = {}

Callback(h) ==
    \/ OnOpen(h) \/ OnClientOpen(h) \/ OnClose(h)
    \/ OnPongTouch(h) \/ OnMessageTouch(h) \/ OnMessageProc(h)
    \/ OnMessageDisconnect(h) \/ OnMessageRemove(h)

Kinds == {"ping", "pong", "other", "bad"}

Next ==
    \/ \E h \in Hdl :
           \/ AcceptOpen(h) \/ ConnectOpens(h) \/ ConnectFails(h)
           \/ PeerCloses(h) \/ PeerFallsSilent(h) \/ OnPong(h)
           \/ \E kind \in Kinds : Receive(h, kind)
           \/ Callback(h)
           \/ ConnectGet(h) \/ ConnectAdd(h)
    \/ Start \/ Stop \/ Check \/ LoopEnds \/ Destroy \/ OnTimer \/ Tick

Spec == Init /\ [][Next]_vars

(***************************************************************************)
(* The loop, the timer and the io threads run; websocketpp ends a closing  *)
(* handshake; a living peer's answer arrives among its other messages; and *)
(* only finitely many of all these happen in a tick (strong fairness).     *)
(***************************************************************************)
FairSpec ==
    /\ Spec
    /\ SF_vars(Tick) /\ WF_vars(Check) /\ WF_vars(OnTimer) /\ WF_vars(LoopEnds)
    /\ \A h \in Hdl :
           /\ WF_vars(Callback(h))
           /\ WF_vars(ws[h] = "closing" /\ PeerCloses(h))
           /\ SF_vars(Receive(h, "pong"))
-----------------------------------------------------------------------------
(***************************************************************************)
(* Properties.                                                             *)
(***************************************************************************)

\* Every variable has the type the code declares.
TypeOK ==
    /\ ws \in [Hdl -> WsStates]
    /\ server_conns_ \subseteq InHdl /\ client_conns_ \subseteq OutHdl
    /\ hdl_to_ids_ \subseteq InHdl /\ freed \subseteq Hdl
    /\ DOMAIN delay_delete_conns_ \subseteq Hdl
    /\ loop \in {"init", "run", "ended", "destroyed"} /\ io \in {"none", "up", "down"}
    /\ DOMAIN connections_ \subseteq 0 .. next_id_ - 1
    /\ \A i \in DOMAIN connections_ :
           connections_[i] \in [handle : Hdl, connected : BOOLEAN,
                                received : 0 .. Old, sent : 0 .. Old]
    /\ DOMAIN connection_handles_ \subseteq Hdl
    /\ DOMAIN ping_age \subseteq Hdl
    /\ silent \subseteq Hdl /\ refused \subseteq Hdl

\* Whenever conns_list_lock_ is free, the two maps of the Network are each
\* other's inverse and the adapter still finds every handle in them: the
\* pointer GetErrorCode follows when it finds none is never null, and Send to
\* a registered connection never succeeds by finding nothing.
MapsAgree ==
    /\ \A h \in DOMAIN connection_handles_ :
           /\ connection_handles_[h] \in DOMAIN connections_
           /\ connections_[connection_handles_[h]].handle = h
    /\ \A i \in DOMAIN connections_ :
           LET h == connections_[i].handle
           IN  /\ h \in DOMAIN connection_handles_ /\ connection_handles_[h] = i
               /\ GetConnectFromHandle(h)

\* A deleted WssConnection is no longer found, and websocketpp, whose client
\* handlers are bound to the object, has made its last call of them: the
\* connection is closed or the io threads have ended.
NoUseAfterFree ==
    \A h \in freed :
        /\ h \notin server_conns_ \cup client_conns_
        /\ h \in OutHdl => cb[h] = Idle /\ (ws[h] = "closed" \/ io = "down")

\* A connection that went away without being refused was reported to
\* OnDisconnect once, whether the peer closed it, a handler failed on one of
\* its messages, or the loop found it expired meanwhile.
DisconnectedOnce ==
    \A h \in Hdl :
        /\ disconnects[h] <= 1
        /\ h \in DOMAIN delay_delete_conns_ =>
               (disconnects[h] = 1 <=> h \notin refused)
        /\ Known(h) /\ cb[h].at # "remove" => disconnects[h] = 0

\* A peer that answers its pings is never found expired.
LivePeerKept ==
    \A i \in DOMAIN connections_ :
        LET h == connections_[i].handle
        IN  ws[h] = "open" /\ h \notin silent => ~IsDataExpired(connections_[i], ConnectTimeOut)

\* A half-open link is found out: no connection whose peer fell silent stays
\* registered for ever, as long as the loop runs.
SilentPeerRemoved ==
    \A h \in Hdl : []<>(~(h \in silent /\ Known(h) /\ io = "up") \/ ~enabled_)
=============================================================================
