---------------------------- MODULE OverlayProof ----------------------------
(***************************************************************************)
(* The overlay network, for any number of connections, any delays and any  *)
(* interleaving of the io threads, the loop, the timer and the users.      *)
(*                                                                         *)
(* The invariant follows a connection through its life: nothing happened   *)
(* to a new one; a registered one is in both maps of the Network and was   *)
(* not told to OnDisconnect, or will be removed next; a closed one waits   *)
(* for OnTimer at least as long as its closing handshake may take, so that *)
(* websocketpp is done with it.  A callback past its first critical        *)
(* section has just touched its connection, which the loop therefore does  *)
(* not find expired at the same time.  The ages of what a living peer sent *)
(* and of the ping it has not answered bound each other (AnswersOK).       *)
(***************************************************************************)
EXTENDS MCOverlay, TLAPS

\* h is registered with the Network.
Registered(h) == h \in DOMAIN connection_handles_

Conns == server_conns_ \cup client_conns_

\* What N!TypeOK leaves out.
OverlayTypes ==
    /\ N!TypeOK
    /\ net_next_id_ \in Nat
    /\ connection_handles_ = [h \in DOMAIN connection_handles_ |-> connection_handles_[h]]
    /\ connections_ = [i \in DOMAIN connections_ |-> connections_[i]]
    /\ cb = [h \in N!Hdl |-> cb[h]]
    /\ closing_age \in [N!Hdl -> Nat]
    /\ disconnects \in [N!Hdl -> Nat]
    /\ delay_delete_conns_ \in [DOMAIN delay_delete_conns_ -> Nat]
    /\ ping_age \in [DOMAIN ping_age -> 0 .. N!Old]

\* The io threads run with the loop, and callbacks are made while they run.
ThreadsOK ==
    /\ net_io = "up" => loop = "run"
    /\ net_io # "up" => \A h \in N!Hdl : cb[h] = N!Idle
    /\ net_io = "none" => \A h \in N!Hdl : ws[h] \in {"none", "connecting"}
    /\ loop = "init" => net_io = "none"

Ended == loop \in {"ended", "destroyed"}

\* A handle that the Network has not registered yet: nothing has happened to it.
NewOK(h) ==
    ws[h] = "none" \/ cb[h].at = "open" =>
        /\ ~Registered(h) /\ h \notin refused /\ h \notin DOMAIN delay_delete_conns_
        /\ disconnects[h] = 0
        /\ ws[h] = "none" => cb[h] = N!Idle /\ h \notin server_conns_
        /\ h \in freed => Ended
        /\ cb[h].at = "open" => h \in server_conns_ /\ ws[h] = "open"

\* A registered handle: it was not closed, and told to OnDisconnect at the end only.
RegisteredOK(h) ==
    Registered(h) =>
        /\ ws[h] \in {"connecting", "open", "closed"}
        /\ h \notin refused /\ h \notin DOMAIN delay_delete_conns_
        /\ disconnects[h] = IF cb[h].at = "remove" THEN 1 ELSE 0
        /\ ws[h] = "connecting" => ~connections_[connection_handles_[h]].connected

\* A closed handle waits for OnTimer, which finds it only after websocketpp is done with it.
DelayedOK(h) ==
    /\ h \in DOMAIN delay_delete_conns_ =>
          /\ ws[h] \in {"closing", "closed"} /\ h \notin Conns
          /\ disconnects[h] = 1 <=> h \notin refused
          /\ ws[h] = "closing" => delay_delete_conns_[h] <= closing_age[h]
          /\ cb[h] # N!Idle => delay_delete_conns_[h] <= CloseTimeout
    /\ ws[h] = "closing" => closing_age[h] <= CloseTimeout
    /\ disconnects[h] <= 1

\* A callback past its first critical section is about a connection that was just touched,
\* which the loop does not find expired.
CallbackOK(h) ==
    /\ cb[h] # N!Idle => ws[h] \notin {"none", "connecting"}
    /\ cb[h].at \in {"proc", "disconnect", "remove"} =>
          /\ cb[h].id \in DOMAIN connections_
          /\ connections_[cb[h].id].handle = h
          /\ connections_[cb[h].id].received = 0

HandlesOK == \A h \in N!Hdl : NewOK(h) /\ RegisteredOK(h) /\ DelayedOK(h) /\ CallbackOK(h)

\* The age of what a living peer sent last: a quarter of the timeout until it is pinged, and
\* what it takes to answer.
Quarter == ConnectTimeOut \div 4

LiveConn(i) ==
    LET h == connections_[i].handle
    IN  ws[h] = "open" /\ h \notin silent /\ connections_[i].connected

AnswersOK(i) ==
    LET c == connections_[i]
        h == c.handle
    IN  /\ c.received <= Quarter + 1 + PeerLatency
        /\ cb[h].at # "touch" =>
              IF h \in DOMAIN ping_age THEN c.received <= Quarter + 1 + ping_age[h]
              ELSE /\ c.received <= Quarter + 1 /\ c.received <= c.sent
                   /\ checked => c.sent <= Quarter \/ c.received = 0

LiveOK ==
    /\ \A i \in DOMAIN connections_ : LiveConn(i) => AnswersOK(i)
    /\ \A h \in DOMAIN ping_age :
          /\ ws[h] \notin {"none", "connecting"}
          /\ ws[h] = "open" /\ h \notin silent => ping_age[h] <= PeerLatency

OverlayInv ==
    OverlayTypes /\ ThreadsOK /\ N!MapsAgree /\ N!NoUseAfterFree /\ HandlesOK /\ LiveOK

-----------------------------------------------------------------------------
(* What a step leaves as it is.                                            *)

\* The step touches no state of h, but may touch its connection (Touched) and free it.
HandleKept(h) ==
    /\ ws'[h] = ws[h] /\ cb'[h] = cb[h] /\ closing_age'[h] = closing_age[h]
    /\ disconnects'[h] = disconnects[h]
    /\ h \in refused' <=> h \in refused
    /\ h \in server_conns_' <=> h \in server_conns_
    /\ h \in client_conns_' => h \in client_conns_ \/ ws[h] = "none"
    /\ h \in DOMAIN delay_delete_conns_' =>
          h \in DOMAIN delay_delete_conns_ /\ delay_delete_conns_'[h] = delay_delete_conns_[h]
    /\ h \in freed' => h \in freed \/ h \in DOMAIN delay_delete_conns_
    /\ Ended => Ended'
    /\ Registered(h)' <=> Registered(h)
    /\ Registered(h) => connection_handles_'[h] = connection_handles_[h]
    /\ \A i \in DOMAIN connections_ :
          connections_[i].handle = h =>
             /\ i \in DOMAIN connections_' /\ connections_'[i].handle = h
             /\ connections_'[i].connected = connections_[i].connected
             /\ connections_[i].received = 0 => connections_'[i].received = 0

HandleOK(h) == NewOK(h) /\ RegisteredOK(h) /\ DelayedOK(h) /\ CallbackOK(h)

LEMMA HandleFrame ==
    ASSUME N!MapsAgree, NEW h \in N!Hdl, HandleOK(h), HandleKept(h)
    PROVE  HandleOK(h)'
<1>1. NewOK(h)'
    BY DEF HandleOK, HandleKept, NewOK, Registered
<1>2. RegisteredOK(h)'
  <2>1. Registered(h) => /\ connection_handles_[h] \in DOMAIN connections_
                         /\ connections_[connection_handles_[h]].handle = h
      BY DEF N!MapsAgree, Registered
  <2> QED
      BY <2>1 DEF HandleOK, HandleKept, RegisteredOK, Registered
<1>3. DelayedOK(h)'
    BY DEF HandleOK, HandleKept, DelayedOK, Conns
<1>4. CallbackOK(h)'
    BY DEF HandleOK, HandleKept, CallbackOK
<1> QED
    BY <1>1, <1>2, <1>3, <1>4 DEF HandleOK

LEMMA HandlesAreOK == /\ HandlesOK <=> \A h \in N!Hdl : HandleOK(h)
                      /\ HandlesOK' <=> \A h \in N!Hdl : HandleOK(h)'
BY DEF HandlesOK, HandleOK

\* If all handles are kept.
LEMMA AllHandlesKept ==
    ASSUME N!MapsAgree, HandlesOK, \A h \in N!Hdl : HandleKept(h)
    PROVE  HandlesOK'
BY HandleFrame, HandlesAreOK

\* The maps stay as they are, and the adapter finds what it found.
LEMMA MapsFrame ==
    ASSUME N!MapsAgree, connection_handles_' = connection_handles_,
           DOMAIN connections_' = DOMAIN connections_,
           \A i \in DOMAIN connections_ : connections_'[i].handle = connections_[i].handle,
           server_conns_ \subseteq server_conns_', client_conns_ \subseteq client_conns_'
    PROVE  N!MapsAgree'
BY DEF N!MapsAgree, N!GetConnectFromHandle

LEMMA FreedFrame ==
    ASSUME N!NoUseAfterFree, freed' = freed, N!TypeOK,
           \A h \in freed :
              /\ h \in server_conns_' => h \in server_conns_
              /\ h \in client_conns_' => h \in client_conns_
              /\ h \in OutHdl => cb'[h] = cb[h] /\ (ws[h] = "closed" => ws'[h] = "closed"),
           net_io = "down" => net_io' = "down"
    PROVE  N!NoUseAfterFree'
BY DEF N!NoUseAfterFree

\* The delays of the overlay.
LEMMA Delays ==
    /\ ConnectTimeOut \in Nat /\ PeerLatency \in Nat /\ CloseTimeout \in Nat
    /\ ServerDeleteDelay \in Nat /\ ClientDeleteDelay \in Nat
    /\ CloseTimeout < ClientDeleteDelay /\ InHdl \cap OutHdl = {}
    /\ Quarter \in Nat /\ Quarter + PeerLatency + 1 <= ConnectTimeOut
BY OverlayAssumption DEF N!TimeOutOK, N!DelaysOK, Quarter

\* A connection that has just received something.
LEMMA FreshAnswers ==
    ASSUME NEW i \in DOMAIN connections_', connections_'[i].received = 0,
           connections_'[i].sent \in Nat,
           connections_'[i].handle \in DOMAIN ping_age' => ping_age'[connections_'[i].handle] \in Nat
    PROVE  AnswersOK(i)'
BY Delays DEF AnswersOK, Quarter

\* The step leaves a connection and the pings of its peer as they are.
ConnKept(i) ==
    LET h == connections_[i].handle
    IN  /\ i \in DOMAIN connections_ /\ connections_'[i] = connections_[i]
        /\ ws'[h] = "open" => ws[h] = "open"
        /\ h \in DOMAIN ping_age' <=> h \in DOMAIN ping_age
        /\ h \in DOMAIN ping_age => ping_age'[h] = ping_age[h]
        /\ cb[h].at = "touch" => cb'[h].at = "touch"

LEMMA LiveFrame ==
    ASSUME LiveOK, silent \subseteq silent', checked' = checked,
           DOMAIN ping_age' \subseteq DOMAIN ping_age,
           \A h \in DOMAIN ping_age' :
              /\ ping_age'[h] = ping_age[h]
              /\ ws'[h] = ws[h] \/ ws'[h] \in {"closing", "closed"},
           \A i \in DOMAIN connections_' : LiveConn(i)' => ConnKept(i) \/ AnswersOK(i)'
    PROVE  LiveOK'
<1>1. ASSUME NEW i \in DOMAIN connections_', LiveConn(i)'
      PROVE  AnswersOK(i)'
  <2> SUFFICES ASSUME ConnKept(i)
               PROVE  AnswersOK(i)'
      BY <1>1
  <2>1. LiveConn(i) /\ i \in DOMAIN connections_
      BY <1>1 DEF ConnKept, LiveConn
  <2>2. AnswersOK(i)
      BY <2>1 DEF LiveOK
  <2> QED
      BY <2>1, <2>2 DEF ConnKept, AnswersOK, Quarter
<1>2. ASSUME NEW h \in DOMAIN ping_age'
      PROVE  /\ ws'[h] \notin {"none", "connecting"}
             /\ ws'[h] = "open" /\ h \notin silent' => ping_age'[h] <= PeerLatency
    BY <1>2 DEF LiveOK
<1> QED
    BY <1>1, <1>2 DEF LiveOK

-----------------------------------------------------------------------------
(* The threads of the Network, and its users.                              *)

\* Start, Stop and the end of the loop touch no connection.
LEMMA LoopSteps ==
    ASSUME OverlayInv, N!Stop \/ N!Start \/ N!LoopEnds
    PROVE  OverlayInv'
<1>1. /\ ws' = ws /\ closing_age' = closing_age /\ server_conns_' = server_conns_
      /\ client_conns_' = client_conns_ /\ hdl_to_ids_' = hdl_to_ids_
      /\ delay_delete_conns_' = delay_delete_conns_ /\ freed' = freed
      /\ checked' = checked /\ net_next_id_' = net_next_id_ /\ connections_' = connections_
      /\ connection_handles_' = connection_handles_
      /\ cb' = cb /\ silent' = silent /\ ping_age' = ping_age
      /\ disconnects' = disconnects /\ refused' = refused
    BY DEF N!Stop, N!Start, N!LoopEnds, N!adapterVars, N!connVars, N!peerVars, N!hookVars
<1>2. /\ loop' \in {"init", "run", "ended", "destroyed"} /\ net_io' \in {"none", "up", "down"}
      /\ Ended => Ended'
      /\ net_io = "down" => net_io' = "down"
    BY DEF N!Stop, N!Start, N!LoopEnds, OverlayInv, ThreadsOK, OverlayTypes, N!TypeOK, Ended
<1>3. OverlayTypes'
    BY <1>1, <1>2 DEF OverlayInv, OverlayTypes, N!TypeOK
<1>4. ThreadsOK'
  <2>1. CASE N!Stop
      BY <1>1, <2>1 DEF N!Stop, OverlayInv, ThreadsOK
  <2>2. CASE N!Start
      BY <1>1, <2>2 DEF N!Start, OverlayInv, ThreadsOK
  <2>3. CASE N!LoopEnds
      BY <1>1, <2>3 DEF N!LoopEnds, OverlayInv, ThreadsOK
  <2> QED
      BY <2>1, <2>2, <2>3
<1>5. N!MapsAgree'
    BY <1>1, MapsFrame DEF OverlayInv
<1>6. N!NoUseAfterFree'
    BY <1>1, <1>2, FreedFrame DEF OverlayInv, OverlayTypes
<1>7. HandlesOK'
  <2>1. \A h \in N!Hdl : HandleKept(h)
      BY <1>1, <1>2 DEF HandleKept, Registered, Ended
  <2> QED
      BY <2>1, AllHandlesKept DEF OverlayInv
<1>8. LiveOK'
    BY <1>1 DEF OverlayInv, LiveOK, LiveConn, AnswersOK, Quarter
<1> QED
    BY <1>3, <1>4, <1>5, <1>6, <1>7, <1>8 DEF OverlayInv

\* A connection is half-open from now on.
LEMMA SilentStep ==
    ASSUME OverlayInv, NEW h \in N!Hdl, N!PeerFallsSilent(h)
    PROVE  OverlayInv'
<1>1. /\ ws' = ws /\ closing_age' = closing_age /\ server_conns_' = server_conns_
      /\ client_conns_' = client_conns_ /\ hdl_to_ids_' = hdl_to_ids_
      /\ delay_delete_conns_' = delay_delete_conns_ /\ freed' = freed
      /\ loop' = loop /\ net_io' = net_io
      /\ checked' = checked /\ net_next_id_' = net_next_id_ /\ connections_' = connections_
      /\ connection_handles_' = connection_handles_
      /\ cb' = cb /\ silent' = silent \cup {h} /\ ping_age' = ping_age
      /\ disconnects' = disconnects /\ refused' = refused
    BY DEF N!PeerFallsSilent, N!adapterVars, N!startVars, N!connVars, N!hookVars
<1>2. OverlayTypes'
    BY <1>1 DEF OverlayInv, OverlayTypes, N!TypeOK
<1>3. ThreadsOK'
    BY <1>1 DEF OverlayInv, ThreadsOK
<1>4. N!MapsAgree'
    BY <1>1, MapsFrame DEF OverlayInv
<1>5. N!NoUseAfterFree'
    BY <1>1, FreedFrame DEF OverlayInv, OverlayTypes
<1>6. HandlesOK'
  <2>1. \A g \in N!Hdl : HandleKept(g)
      BY <1>1 DEF HandleKept, Registered, Ended
  <2> QED
      BY <2>1, AllHandlesKept DEF OverlayInv
<1>7. LiveOK'
    BY <1>1 DEF OverlayInv, LiveOK, LiveConn, AnswersOK, Quarter
<1> QED
    BY <1>2, <1>3, <1>4, <1>5, <1>6, <1>7 DEF OverlayInv

\* WssSocketClient::GetConnect: the handle is found, and not yet registered.
LEMMA ConnectGetStep ==
    ASSUME OverlayInv, NEW h \in N!Hdl, N!ConnectGet(h)
    PROVE  OverlayInv'
<1>1. /\ ws' = ws /\ closing_age' = closing_age /\ server_conns_' = server_conns_
      /\ client_conns_' = client_conns_ \cup {h} /\ hdl_to_ids_' = hdl_to_ids_
      /\ delay_delete_conns_' = delay_delete_conns_ /\ freed' = freed
      /\ loop' = loop /\ net_io' = net_io
      /\ checked' = checked /\ net_next_id_' = net_next_id_ /\ connections_' = connections_
      /\ connection_handles_' = connection_handles_
      /\ cb' = cb /\ silent' = silent /\ ping_age' = ping_age
      /\ disconnects' = disconnects /\ refused' = refused
      /\ h \in OutHdl /\ ws[h] = "none" /\ ~Ended
    BY DEF N!ConnectGet, N!GetConnect, N!startVars, N!connVars, N!peerVars, N!hookVars, Ended
<1>2. OverlayTypes'
    BY <1>1 DEF OverlayInv, OverlayTypes, N!TypeOK
<1>3. ThreadsOK'
    BY <1>1 DEF OverlayInv, ThreadsOK
<1>4. N!MapsAgree'
    BY <1>1, MapsFrame DEF OverlayInv
<1>5. N!NoUseAfterFree'
  <2>1. h \notin freed
      BY <1>1, HandlesAreOK DEF OverlayInv, HandleOK, NewOK
  <2> QED
      BY <1>1, <2>1, FreedFrame DEF OverlayInv, OverlayTypes
<1>6. HandlesOK'
  <2>1. \A g \in N!Hdl : HandleKept(g)
      BY <1>1 DEF HandleKept, Registered, Ended
  <2> QED
      BY <2>1, AllHandlesKept DEF OverlayInv
<1>7. LiveOK'
    BY <1>1 DEF OverlayInv, LiveOK, LiveConn, AnswersOK, Quarter
<1> QED
    BY <1>2, <1>3, <1>4, <1>5, <1>6, <1>7 DEF OverlayInv

\* OnTimer frees what has waited longer than any closing handshake takes.
LEMMA TimerStep ==
    ASSUME OverlayInv, N!OnTimer
    PROVE  OverlayInv'
<1> DEFINE expired == N!ServerExpired \cup N!ClientExpired
<1>1. /\ ws' = ws /\ closing_age' = closing_age /\ server_conns_' = server_conns_
      /\ client_conns_' = client_conns_ /\ hdl_to_ids_' = hdl_to_ids_
      /\ delay_delete_conns_' =
             [h \in DOMAIN delay_delete_conns_ \ expired |-> delay_delete_conns_[h]]
      /\ freed' = freed \cup expired
      /\ loop' = loop /\ net_io' = net_io
      /\ checked' = checked /\ net_next_id_' = net_next_id_ /\ connections_' = connections_
      /\ connection_handles_' = connection_handles_
      /\ cb' = cb /\ silent' = silent /\ ping_age' = ping_age
      /\ disconnects' = disconnects /\ refused' = refused
    BY DEF N!OnTimer, N!AdapterOnTimer, N!startVars, N!connVars, N!peerVars, N!hookVars
<1>2. /\ expired \subseteq DOMAIN delay_delete_conns_
      /\ \A h \in expired : h \in OutHdl => delay_delete_conns_[h] > ClientDeleteDelay
    BY Delays DEF N!ServerExpired, N!ClientExpired
<1> HIDE DEF expired
<1>3. OverlayTypes'
    BY <1>1, <1>2 DEF OverlayInv, OverlayTypes, N!TypeOK
<1>4. ThreadsOK'
    BY <1>1 DEF OverlayInv, ThreadsOK
<1>5. N!MapsAgree'
    BY <1>1, MapsFrame DEF OverlayInv
<1>6. N!NoUseAfterFree'
  <2>1. ASSUME NEW h \in expired
        PROVE  h \notin Conns /\ (h \in OutHdl => cb[h] = N!Idle /\ ws[h] = "closed")
    <3>1. h \in N!Hdl /\ h \in DOMAIN delay_delete_conns_ /\ delay_delete_conns_[h] \in Nat
          /\ closing_age[h] \in Nat
        BY <1>2 DEF OverlayInv, OverlayTypes, N!TypeOK
    <3>2. DelayedOK(h)
        BY <3>1, HandlesAreOK DEF OverlayInv, HandleOK
    <3>3. h \notin Conns
        BY <3>1, <3>2 DEF DelayedOK
    <3>4. ASSUME h \in OutHdl
          PROVE  ~(delay_delete_conns_[h] <= CloseTimeout)
        BY <1>2, <3>1, <3>4, Delays
    <3>5. h \in OutHdl => ws[h] # "closing"
        BY <3>1, <3>2, <3>4, Delays DEF DelayedOK
    <3> QED
        BY <3>1, <3>2, <3>3, <3>4, <3>5 DEF DelayedOK
  <2> QED
      BY <1>1, <2>1 DEF OverlayInv, N!NoUseAfterFree, Conns
<1>7. HandlesOK'
  <2>1. \A g \in N!Hdl : HandleKept(g)
      BY <1>1, <1>2 DEF HandleKept, Registered, Ended
  <2> QED
      BY <2>1, AllHandlesKept DEF OverlayInv
<1>8. LiveOK'
    BY <1>1 DEF OverlayInv, LiveOK, LiveConn, AnswersOK, Quarter
<1> QED
    BY <1>3, <1>4, <1>5, <1>6, <1>7, <1>8 DEF OverlayInv

\* The destructors: the io threads have ended, and no handle is registered any more.
LEMMA DestroyStep ==
    ASSUME OverlayInv, N!Destroy
    PROVE  OverlayInv'
<1>1. /\ ws' = ws /\ closing_age' = closing_age /\ server_conns_' = {}
      /\ client_conns_' = {} /\ hdl_to_ids_' = hdl_to_ids_
      /\ delay_delete_conns_' = [h \in {} |-> 0]
      /\ freed' = freed \cup server_conns_ \cup client_conns_ \cup DOMAIN delay_delete_conns_
      /\ loop' = "destroyed" /\ net_io' = net_io
      /\ checked' = checked /\ net_next_id_' = net_next_id_
      /\ connections_' = N!Without(connections_, DOMAIN connections_)
      /\ connection_handles_' = N!Without(connection_handles_, N!Hdl)
      /\ cb' = cb /\ silent' = silent /\ ping_age' = ping_age
      /\ disconnects' = disconnects /\ refused' = refused
      /\ loop = "ended" /\ net_io = "down"
    BY DEF N!Destroy, N!AdapterDestroy, N!startVars, N!peerVars, N!hookVars
<1>2. /\ DOMAIN connections_' = {} /\ DOMAIN connection_handles_' = {}
      /\ connections_' = [i \in DOMAIN connections_' |-> connections_'[i]]
      /\ connection_handles_' = [h \in DOMAIN connection_handles_' |-> connection_handles_'[h]]
    BY <1>1 DEF N!Without, OverlayInv, OverlayTypes, N!TypeOK
<1>3. \A h \in N!Hdl : cb[h] = N!Idle
    BY <1>1 DEF OverlayInv, ThreadsOK
<1>4. OverlayTypes'
    BY <1>1, <1>2 DEF OverlayInv, OverlayTypes, N!TypeOK, N!Hdl
<1>5. ThreadsOK'
    BY <1>1 DEF OverlayInv, ThreadsOK
<1>6. N!MapsAgree'
    BY <1>2 DEF N!MapsAgree
<1>7. N!NoUseAfterFree'
  <2>1. freed' \subseteq N!Hdl
      BY <1>4 DEF OverlayTypes, N!TypeOK
  <2> QED
      BY <1>1, <1>3, <2>1 DEF N!NoUseAfterFree
<1>8. HandlesOK'
  <2>1. ASSUME NEW h \in N!Hdl
        PROVE  HandleOK(h)'
    <3>1. HandleOK(h) /\ cb[h] = N!Idle /\ cb[h].at = "idle"
        BY <1>3, HandlesAreOK DEF OverlayInv, N!Idle
    <3> QED
        BY <1>1, <1>2, <3>1
           DEF HandleOK, NewOK, RegisteredOK, DelayedOK, CallbackOK, Registered, Conns, Ended
  <2> QED
      BY <2>1, HandlesAreOK
<1>9. LiveOK'
    BY <1>1, <1>2 DEF OverlayInv, LiveOK
<1> QED
    BY <1>4, <1>5, <1>6, <1>7, <1>8, <1>9 DEF OverlayInv

-----------------------------------------------------------------------------
(* websocketpp calls a handler.                                            *)

\* What is registered has a connection, and no connection is of a handle that is not.
LEMMA Unregistered ==
    ASSUME N!MapsAgree, NEW h, ~Registered(h), NEW i \in DOMAIN connections_
    PROVE  connections_[i].handle # h
BY DEF N!MapsAgree, Registered

LEMMA AcceptOpenStep ==
    ASSUME OverlayInv, NEW h \in N!Hdl, N!AcceptOpen(h)
    PROVE  OverlayInv'
<1>1. /\ ws[h] = "none" /\ h \in InHdl /\ net_io = "up" /\ cb[h] = N!Idle
      /\ \/ /\ ws' = [ws EXCEPT ![h] = "open"] /\ cb' = [cb EXCEPT ![h] = [at |-> "open"]]
            /\ server_conns_' = server_conns_ \cup {h} /\ hdl_to_ids_' = hdl_to_ids_ \cup {h}
         \/ /\ ws' = [ws EXCEPT ![h] = "closed"] /\ cb' = cb
            /\ server_conns_' = server_conns_ /\ hdl_to_ids_' = hdl_to_ids_
      /\ closing_age' = closing_age /\ client_conns_' = client_conns_
      /\ delay_delete_conns_' = delay_delete_conns_ /\ freed' = freed
      /\ loop' = loop /\ net_io' = net_io
      /\ checked' = checked /\ net_next_id_' = net_next_id_ /\ connections_' = connections_
      /\ connection_handles_' = connection_handles_
      /\ silent' = silent /\ ping_age' = ping_age
      /\ disconnects' = disconnects /\ refused' = refused
    BY DEF N!AcceptOpen, N!Callable, N!ServerOnOpen, N!ServerOnOpenGone, N!CallbackAt,
           N!startVars, N!connVars, N!peerVars, N!hookVars
<1>2. /\ HandleOK(h) /\ ~Registered(h) /\ h \notin freed
      /\ cb = [g \in N!Hdl |-> cb[g]] /\ ws \in [N!Hdl -> N!WsStates]
      /\ loop = "run"
    BY <1>1, HandlesAreOK DEF OverlayInv, HandleOK, NewOK, OverlayTypes, N!TypeOK, ThreadsOK, Ended
<1>3. OverlayTypes'
    BY <1>1 DEF OverlayInv, OverlayTypes, N!TypeOK, N!WsStates
<1>4. ThreadsOK'
    BY <1>1 DEF OverlayInv, ThreadsOK
<1>5. N!MapsAgree'
    BY <1>1, MapsFrame DEF OverlayInv
<1>6. N!NoUseAfterFree'
  <2>1. \A g \in freed : g \in N!Hdl \ {h}
      BY <1>2 DEF OverlayInv, OverlayTypes, N!TypeOK
  <2>2. \A g \in freed : cb'[g] = cb[g] /\ ws'[g] = ws[g]
      BY <1>1, <1>2, <2>1
  <2> QED
      BY <1>1, <2>1, <2>2, FreedFrame DEF OverlayInv, OverlayTypes
<1>7. HandlesOK'
  <2>1. ASSUME NEW g \in N!Hdl, g # h
        PROVE  HandleOK(g)'
    <3>1. HandleKept(g)
        BY <1>1, <1>2, <2>1 DEF HandleKept, Registered, Ended
    <3> QED
        BY <3>1, HandleFrame, HandlesAreOK DEF OverlayInv
  <2>2. HandleOK(h)'
      BY <1>1, <1>2 DEF HandleOK, NewOK, RegisteredOK, DelayedOK, CallbackOK, Registered, N!Idle
  <2> QED
      BY <2>1, <2>2, HandlesAreOK
<1>8. LiveOK'
  <2>1. ASSUME NEW i \in DOMAIN connections_'
        PROVE  ConnKept(i)
    <3>1. i \in DOMAIN connections_ /\ connections_[i].handle \in N!Hdl \ {h}
        BY <1>1, <1>2, <2>1, Unregistered DEF OverlayInv, OverlayTypes, N!TypeOK
    <3> QED
        BY <1>1, <1>2, <3>1 DEF ConnKept
  <2>2. \A g \in DOMAIN ping_age : g # h /\ g \in N!Hdl
      BY <1>1 DEF OverlayInv, LiveOK, OverlayTypes, N!TypeOK
  <2> QED
      BY <1>1, <1>2, <2>1, <2>2, LiveFrame DEF OverlayInv
<1> QED
    BY <1>3, <1>4, <1>5, <1>6, <1>7, <1>8 DEF OverlayInv

\* The end of an attempt to connect, and the end of a connection.
LEMMA LinkSteps ==
    ASSUME OverlayInv, NEW h \in N!Hdl, N!ConnectOpens(h) \/ N!ConnectFails(h) \/ N!PeerCloses(h)
    PROVE  OverlayInv'
<1>1. /\ net_io = "up" /\ cb[h] = N!Idle
      /\ \E w \in {"open", "closed"} :
            /\ ws' = [ws EXCEPT ![h] = w]
            /\ ws[h] = "connecting" \/ (ws[h] \in {"open", "closing"} /\ w = "closed")
      /\ cb' = cb \/ \E a \in {"clientopen", "fail", "close"} : cb' = [cb EXCEPT ![h] = [at |-> a]]
      /\ ping_age' = ping_age \/ ping_age' = N!Without(ping_age, {h})
      /\ closing_age' = closing_age /\ client_conns_' = client_conns_
      /\ server_conns_' = server_conns_ /\ hdl_to_ids_' = hdl_to_ids_
      /\ delay_delete_conns_' = delay_delete_conns_ /\ freed' = freed
      /\ loop' = loop /\ net_io' = net_io
      /\ checked' = checked /\ net_next_id_' = net_next_id_ /\ connections_' = connections_
      /\ connection_handles_' = connection_handles_
      /\ silent' = silent
      /\ disconnects' = disconnects /\ refused' = refused
  <2>1. CASE N!ConnectOpens(h)
      BY <2>1 DEF N!ConnectOpens, N!Callable, N!WsBecomes, N!CallbackAt, N!startVars, N!connVars,
                  N!peerVars, N!hookVars
  <2>2. CASE N!ConnectFails(h)
      BY <2>2 DEF N!ConnectFails, N!Callable, N!WsBecomes, N!CallbackAt, N!startVars, N!connVars,
                  N!peerVars, N!hookVars
  <2>3. CASE N!PeerCloses(h)
      BY <2>3 DEF N!PeerCloses, N!Callable, N!WsBecomes, N!CallbackAt, N!startVars, N!connVars,
                  N!hookVars
  <2> QED
      BY <2>1, <2>2, <2>3
<1>2. /\ HandleOK(h)
      /\ cb = [g \in N!Hdl |-> cb[g]] /\ ws \in [N!Hdl -> N!WsStates]
    BY HandlesAreOK DEF OverlayInv, OverlayTypes, N!TypeOK
<1>3. /\ DOMAIN ping_age' \subseteq DOMAIN ping_age
      /\ \A g \in DOMAIN ping_age' : ping_age'[g] = ping_age[g]
      /\ \A g \in N!Hdl \ {h} : g \in DOMAIN ping_age' <=> g \in DOMAIN ping_age
      /\ ping_age' \in [DOMAIN ping_age' -> 0 .. N!Old]
    BY <1>1 DEF N!Without, OverlayInv, OverlayTypes
<1>4. OverlayTypes'
    BY <1>1, <1>3 DEF OverlayInv, OverlayTypes, N!TypeOK, N!WsStates
<1>5. ThreadsOK'
    BY <1>1 DEF OverlayInv, ThreadsOK
<1>6. N!MapsAgree'
    BY <1>1, MapsFrame DEF OverlayInv
<1>7. N!NoUseAfterFree'
  <2>1. h \in freed => h \notin OutHdl
      BY <1>1 DEF OverlayInv, N!NoUseAfterFree
  <2>2. freed \subseteq N!Hdl
      BY DEF OverlayInv, OverlayTypes, N!TypeOK
  <2> QED
      BY <1>1, <1>2, <2>1, <2>2, FreedFrame DEF OverlayInv, OverlayTypes
<1>8. HandlesOK'
  <2>1. ASSUME NEW g \in N!Hdl, g # h
        PROVE  HandleOK(g)'
    <3>1. HandleKept(g)
        BY <1>1, <1>2, <2>1 DEF HandleKept, Registered, Ended
    <3> QED
        BY <3>1, HandleFrame, HandlesAreOK DEF OverlayInv
  <2>2. cb[h].at = "idle" /\ cb'[h].at \in {"idle", "clientopen", "fail", "close"}
      BY <1>1, <1>2 DEF N!Idle
  <2>3. ws'[h] \in {"open", "closed"}
      BY <1>1, <1>2
  <2>4. NewOK(h)' /\ CallbackOK(h)'
      BY <2>2, <2>3 DEF NewOK, CallbackOK
  <2>5. RegisteredOK(h)'
      BY <1>1, <1>2, <2>2, <2>3 DEF HandleOK, RegisteredOK, Registered
  <2>6. DelayedOK(h)'
    <3>1. h \in DOMAIN delay_delete_conns_ => /\ ws'[h] = "closed"
                                              /\ delay_delete_conns_[h] <= closing_age[h]
                                              /\ closing_age[h] <= CloseTimeout
        BY <1>1, <1>2 DEF HandleOK, DelayedOK
    <3>2. h \in DOMAIN delay_delete_conns_ => delay_delete_conns_[h] <= CloseTimeout
      <4>1. closing_age[h] \in Nat /\ (h \in DOMAIN delay_delete_conns_ => delay_delete_conns_[h] \in Nat)
          BY DEF OverlayInv, OverlayTypes
      <4> QED
          BY <3>1, <4>1, Delays
    <3> QED
        BY <1>1, <1>2, <2>3, <3>1, <3>2 DEF HandleOK, DelayedOK, Conns
  <2> QED
      BY <2>1, <2>4, <2>5, <2>6, HandlesAreOK DEF HandleOK
<1>9. LiveOK'
  <2>1. ASSUME NEW i \in DOMAIN connections_', LiveConn(i)'
        PROVE  ConnKept(i)
    <3> DEFINE g == connections_[i].handle
    <3>1. i \in DOMAIN connections_ /\ g \in N!Hdl /\ ws'[g] = "open" /\ connections_[i].connected
        BY <1>1, <2>1 DEF LiveConn, OverlayInv, OverlayTypes, N!TypeOK
    <3>2. g # h
      <4> SUFFICES ASSUME g = h
                   PROVE  FALSE
          OBVIOUS
      <4>1. ws[h] = "connecting"
          BY <1>1, <1>2, <3>1
      <4>2. Registered(h) /\ connection_handles_[h] = i
          BY <3>1 DEF OverlayInv, N!MapsAgree, Registered
      <4> QED
          BY <1>2, <3>1, <4>1, <4>2 DEF HandleOK, RegisteredOK
    <3> QED
        BY <1>1, <1>2, <1>3, <3>1, <3>2 DEF ConnKept
  <2>2. \A g \in DOMAIN ping_age' : g \in N!Hdl /\ (ws'[g] = ws[g] \/ ws'[g] \in {"closing", "closed"})
      BY <1>1, <1>2, <1>3 DEF OverlayInv, LiveOK, OverlayTypes, N!TypeOK
  <2> QED
      BY <1>1, <1>3, <2>1, <2>2, LiveFrame DEF OverlayInv
<1> QED
    BY <1>4, <1>5, <1>6, <1>7, <1>8, <1>9 DEF OverlayInv

\* A message, of a connection that is open.
LEMMA ReceiveStep ==
    ASSUME OverlayInv, NEW h \in N!Hdl, NEW kind, N!Receive(h, kind)
    PROVE  OverlayInv'
<1>1. /\ net_io = "up" /\ cb[h] = N!Idle /\ ws[h] = "open" /\ h \notin silent
      /\ cb' = [cb EXCEPT ![h] = [at |-> "touch", kind |-> kind]]
      /\ ping_age' = ping_age \/ ping_age' = N!Without(ping_age, {h})
      /\ ws' = ws /\ closing_age' = closing_age /\ client_conns_' = client_conns_
      /\ server_conns_' = server_conns_ /\ hdl_to_ids_' = hdl_to_ids_
      /\ delay_delete_conns_' = delay_delete_conns_ /\ freed' = freed
      /\ loop' = loop /\ net_io' = net_io
      /\ checked' = checked /\ net_next_id_' = net_next_id_ /\ connections_' = connections_
      /\ connection_handles_' = connection_handles_
      /\ silent' = silent
      /\ disconnects' = disconnects /\ refused' = refused
    BY DEF N!Receive, N!Callable, N!CallbackAt, N!adapterVars, N!startVars, N!connVars, N!hookVars
<1>2. HandleOK(h) /\ cb = [g \in N!Hdl |-> cb[g]]
    BY HandlesAreOK DEF OverlayInv, OverlayTypes
<1>3. /\ DOMAIN ping_age' \subseteq DOMAIN ping_age
      /\ \A g \in DOMAIN ping_age' : ping_age'[g] = ping_age[g]
      /\ \A g \in N!Hdl \ {h} : g \in DOMAIN ping_age' <=> g \in DOMAIN ping_age
      /\ ping_age' \in [DOMAIN ping_age' -> 0 .. N!Old]
    BY <1>1 DEF N!Without, OverlayInv, OverlayTypes
<1>4. OverlayTypes'
    BY <1>1, <1>3 DEF OverlayInv, OverlayTypes, N!TypeOK
<1>5. ThreadsOK'
    BY <1>1 DEF OverlayInv, ThreadsOK
<1>6. N!MapsAgree'
    BY <1>1, MapsFrame DEF OverlayInv
<1>7. N!NoUseAfterFree'
  <2>1. h \in freed => h \notin OutHdl
      BY <1>1 DEF OverlayInv, N!NoUseAfterFree
  <2>2. freed \subseteq N!Hdl
      BY DEF OverlayInv, OverlayTypes, N!TypeOK
  <2> QED
      BY <1>1, <1>2, <2>1, <2>2, FreedFrame DEF OverlayInv, OverlayTypes
<1>8. HandlesOK'
  <2>1. ASSUME NEW g \in N!Hdl, g # h
        PROVE  HandleOK(g)'
    <3>1. HandleKept(g)
        BY <1>1, <1>2, <2>1 DEF HandleKept, Registered, Ended
    <3> QED
        BY <3>1, HandleFrame, HandlesAreOK DEF OverlayInv
  <2>2. cb[h].at = "idle" /\ cb'[h].at = "touch"
      BY <1>1, <1>2 DEF N!Idle
  <2>3. HandleOK(h)'
      BY <1>1, <1>2, <2>2 DEF HandleOK, NewOK, RegisteredOK, DelayedOK, CallbackOK, Registered, Conns
  <2> QED
      BY <2>1, <2>3, HandlesAreOK
<1>9. LiveOK'
  <2>1. ASSUME NEW i \in DOMAIN connections_', LiveConn(i)'
        PROVE  ConnKept(i) \/ AnswersOK(i)'
    <3> DEFINE g == connections_[i].handle
    <3>1. i \in DOMAIN connections_ /\ g \in N!Hdl /\ LiveConn(i)
        BY <1>1, <2>1 DEF LiveConn, OverlayInv, OverlayTypes, N!TypeOK
    <3>2. CASE g # h
        BY <1>1, <1>2, <1>3, <3>1, <3>2 DEF ConnKept
    <3>3. CASE g = h
        BY <1>1, <1>2, <3>1, <3>3 DEF OverlayInv, LiveOK, AnswersOK, Quarter
    <3> QED
        BY <3>2, <3>3
  <2> QED
      BY <1>1, <1>3, <2>1, LiveFrame DEF OverlayInv
<1> QED
    BY <1>4, <1>5, <1>6, <1>7, <1>8, <1>9 DEF OverlayInv

-----------------------------------------------------------------------------
(* The callbacks that touch no map: they go on, and touch the connection.  *)

LEMMA KnownRegistered ==
    ASSUME N!MapsAgree, NEW h
    PROVE  /\ N!Known(h) <=> Registered(h)
           /\ Registered(h) => /\ connection_handles_[h] \in DOMAIN connections_
                               /\ connections_[connection_handles_[h]].handle = h
           /\ \A i \in DOMAIN connections_ : connections_[i].handle = h =>
                 Registered(h) /\ connection_handles_[h] = i
BY DEF N!Known, N!MapsAgree, Registered

ConnectionRecord ==
    [handle : N!Hdl, connected : BOOLEAN, received : 0 .. N!Old, sent : 0 .. N!Old]

\* The connections stay, those of h with what has just been received.
TouchOf(h) ==
    /\ DOMAIN connections_' = DOMAIN connections_
    /\ connections_' = [i \in DOMAIN connections_ |-> connections_'[i]]
    /\ \A i \in DOMAIN connections_ :
          \/ connections_'[i] = connections_[i]
          \/ /\ connections_[i].handle = h /\ connections_'[i].handle = h
             /\ connections_'[i] \in ConnectionRecord
             /\ connections_'[i].received = 0

LEMMA ConnectionTypes ==
    ASSUME OverlayTypes, NEW i \in DOMAIN connections_
    PROVE  /\ connections_[i] \in ConnectionRecord
           /\ connections_[i].handle \in N!Hdl /\ connections_[i].sent \in Nat
           /\ connections_[i].received \in Nat
<1>1. connections_[i] \in ConnectionRecord
    BY DEF OverlayTypes, N!TypeOK, ConnectionRecord
<1> QED
    BY <1>1 DEF ConnectionRecord

LEMMA CallbackFrame ==
    ASSUME OverlayInv, NEW h \in N!Hdl,
           ws' = ws, closing_age' = closing_age, server_conns_' = server_conns_,
           client_conns_' = client_conns_, hdl_to_ids_' = hdl_to_ids_,
           delay_delete_conns_' = delay_delete_conns_, freed' = freed, loop' = loop,
           net_io' = net_io, checked' = checked, net_next_id_' = net_next_id_,
           connection_handles_' = connection_handles_, silent' = silent,
           ping_age' = ping_age, refused' = refused,
           cb' = cb \/ (cb[h] # N!Idle /\ \E r : cb' = [cb EXCEPT ![h] = r]),
           disconnects' \in [N!Hdl -> Nat],
           \A g \in N!Hdl \ {h} : disconnects'[g] = disconnects[g],
           TouchOf(h),
           cb[h].at = "touch" =>
              \A i \in DOMAIN connections_ :
                 connections_[i].handle = h => connections_'[i].received = 0,
           HandleOK(h)'
    PROVE  OverlayInv'
<1>1. cb = [g \in N!Hdl |-> cb[g]] /\ cb' = [g \in N!Hdl |-> cb'[g]]
      /\ \A g \in N!Hdl \ {h} : cb'[g] = cb[g]
    BY DEF OverlayInv, OverlayTypes
<1>2. \A i \in DOMAIN connections_ : /\ connections_'[i] \in ConnectionRecord
                                     /\ connections_'[i].handle = connections_[i].handle
    BY ConnectionTypes DEF OverlayInv, TouchOf
<1>3. OverlayTypes'
  <2>1. DOMAIN connections_' = DOMAIN connections_
        /\ connections_' = [i \in DOMAIN connections_' |-> connections_'[i]]
      BY DEF TouchOf
  <2> QED
      BY <1>1, <1>2, <2>1 DEF OverlayInv, OverlayTypes, N!TypeOK, ConnectionRecord
<1>4. ThreadsOK'
    BY <1>1 DEF OverlayInv, ThreadsOK
<1>5. N!MapsAgree'
    BY <1>2, MapsFrame DEF OverlayInv, TouchOf
<1>6. N!NoUseAfterFree'
  <2>1. freed \subseteq N!Hdl
      BY DEF OverlayInv, OverlayTypes, N!TypeOK
  <2>2. \A g \in freed : g \in OutHdl => cb'[g] = cb[g]
      BY <1>1, <2>1 DEF OverlayInv, N!NoUseAfterFree
  <2> QED
      BY <2>2, FreedFrame DEF OverlayInv, OverlayTypes
<1>7. HandlesOK'
  <2>1. ASSUME NEW g \in N!Hdl, g # h
        PROVE  HandleOK(g)'
    <3>1. HandleKept(g)
        BY <1>1, <2>1 DEF HandleKept, Registered, TouchOf, Ended
    <3> QED
        BY <3>1, HandleFrame, HandlesAreOK DEF OverlayInv
  <2> QED
      BY <2>1, HandlesAreOK
<1>8. LiveOK'
  <2>1. ASSUME NEW i \in DOMAIN connections_', LiveConn(i)'
        PROVE  ConnKept(i) \/ AnswersOK(i)'
    <3>1. i \in DOMAIN connections_ /\ connections_[i].handle \in N!Hdl
        BY ConnectionTypes DEF TouchOf, OverlayInv
    <3>2. CASE connections_'[i].received = 0
      <4>1. connections_'[i].sent \in Nat /\ \A g \in DOMAIN ping_age' : ping_age'[g] \in Nat
          BY <1>2, <3>1 DEF ConnectionRecord, OverlayInv, OverlayTypes
      <4> QED
          BY <3>2, <4>1, FreshAnswers
    <3>3. CASE connections_'[i].received # 0
      <4>1. connections_'[i] = connections_[i]
            /\ (cb[connections_[i].handle].at = "touch" => cb'[connections_[i].handle].at = "touch")
          BY <1>1, <3>1, <3>3 DEF TouchOf
      <4> QED
          BY <3>1, <4>1 DEF ConnKept
    <3> QED
        BY <3>2, <3>3
  <2>2. \A g \in DOMAIN ping_age' : ping_age'[g] = ping_age[g] /\ ws'[g] = ws[g]
      OBVIOUS
  <2> QED
      BY <2>1, <2>2, LiveFrame DEF OverlayInv
<1> QED
    BY <1>3, <1>4, <1>5, <1>6, <1>7, <1>8 DEF OverlayInv

LEMMA TouchedRecord ==
    ASSUME NEW c \in ConnectionRecord
    PROVE  /\ N!Touched(c) \in ConnectionRecord /\ N!Touched(c).handle = c.handle
           /\ N!Touched(c).received = 0 /\ N!Touched(c).connected = c.connected
           /\ N!SetConnectTime(c) \in ConnectionRecord /\ N!SetConnectTime(c).handle = c.handle
           /\ N!SetConnectTime(c).received = 0
<1>1. 0 \in 0 .. N!Old
    BY Delays DEF N!Old
<1>2. /\ N!Touched(c).handle = c.handle
      /\ N!Touched(c).received = 0 /\ N!Touched(c).connected = c.connected
      /\ N!SetConnectTime(c).handle = c.handle /\ N!SetConnectTime(c).received = 0
    BY DEF N!Touched, N!SetConnectTime, ConnectionRecord
<1>3. ASSUME NEW r \in 0 .. N!Old, NEW b \in BOOLEAN
      PROVE  /\ [c EXCEPT !.received = r] \in ConnectionRecord
             /\ [c EXCEPT !.connected = b, !.received = r] \in ConnectionRecord
    BY DEF ConnectionRecord
<1>4. TRUE \in BOOLEAN
    OBVIOUS
<1>5. N!Touched(c) \in ConnectionRecord /\ N!SetConnectTime(c) \in ConnectionRecord
    BY <1>1, <1>3, <1>4, Zenon DEF N!Touched, N!SetConnectTime
<1> QED
    BY <1>2, <1>5

\* Exactly the connection of h is touched.
LEMMA TouchOne ==
    ASSUME OverlayInv, NEW h \in N!Hdl, Registered(h),
           \/ connections_' = [connections_ EXCEPT ![connection_handles_[h]] = N!Touched(@)]
           \/ connections_' = [connections_ EXCEPT ![connection_handles_[h]] = N!SetConnectTime(@)]
    PROVE  /\ TouchOf(h)
           /\ \A i \in DOMAIN connections_ :
                 connections_[i].handle = h =>
                    connections_'[i].received = 0 /\ connections_'[i].handle = h
<1> DEFINE n == connection_handles_[h]
<1>1. n \in DOMAIN connections_ /\ connections_[n].handle = h
      /\ \A i \in DOMAIN connections_ : connections_[i].handle = h => n = i
    BY KnownRegistered DEF OverlayInv
<1>2. connections_[n] \in ConnectionRecord
    BY <1>1, ConnectionTypes DEF OverlayInv
<1> HIDE DEF n
<1>3. PICK c \in ConnectionRecord : /\ connections_' = [connections_ EXCEPT ![n] = c]
                                    /\ c.handle = h /\ c.received = 0
    BY <1>1, <1>2, TouchedRecord DEF n
<1>4. connections_ = [i \in DOMAIN connections_ |-> connections_[i]]
    BY DEF OverlayInv, OverlayTypes
<1> QED
    BY <1>1, <1>3, <1>4 DEF TouchOf

LEMMA NoTouch ==
    ASSUME OverlayTypes, connections_' = connections_, NEW h
    PROVE  TouchOf(h)
BY DEF TouchOf, OverlayTypes

\* The first look-up of OnPong.
LEMMA PongStep ==
    ASSUME OverlayInv, NEW h \in N!Hdl, N!OnPong(h)
    PROVE  OverlayInv'
<1>1. /\ ws' = ws /\ closing_age' = closing_age /\ server_conns_' = server_conns_
      /\ client_conns_' = client_conns_ /\ hdl_to_ids_' = hdl_to_ids_
      /\ delay_delete_conns_' = delay_delete_conns_ /\ freed' = freed /\ loop' = loop
      /\ net_io' = net_io /\ checked' = checked /\ net_next_id_' = net_next_id_
      /\ connection_handles_' = connection_handles_ /\ silent' = silent
      /\ ping_age' = ping_age /\ refused' = refused /\ disconnects' = disconnects
      /\ connections_' = connections_
      /\ net_io = "up" /\ cb[h] = N!Idle /\ ws[h] = "open"
      /\ cb' = [cb EXCEPT ![h] = [at |-> "pong", id |-> connection_handles_[h]]]
    BY DEF N!OnPong, N!Callable, N!CallbackAt, N!IdOf, N!adapterVars, N!startVars, N!connVars,
           N!peerVars, N!hookVars
<1>2. HandleOK(h) /\ cb = [g \in N!Hdl |-> cb[g]]
    BY HandlesAreOK DEF OverlayInv, OverlayTypes
<1>3. cb[h].at = "idle" /\ cb'[h].at = "pong" /\ \A g \in N!Hdl \ {h} : cb'[g] = cb[g]
    BY <1>1, <1>2 DEF N!Idle
<1>4. OverlayTypes'
    BY <1>1 DEF OverlayInv, OverlayTypes, N!TypeOK
<1>5. ThreadsOK'
    BY <1>1 DEF OverlayInv, ThreadsOK
<1>6. N!MapsAgree'
    BY <1>1, MapsFrame DEF OverlayInv
<1>7. N!NoUseAfterFree'
  <2>1. h \in freed => h \notin OutHdl
      BY <1>1 DEF OverlayInv, N!NoUseAfterFree
  <2>2. freed \subseteq N!Hdl
      BY DEF OverlayInv, OverlayTypes, N!TypeOK
  <2> QED
      BY <1>1, <1>3, <2>1, <2>2, FreedFrame DEF OverlayInv, OverlayTypes
<1>8. HandlesOK'
  <2>1. ASSUME NEW g \in N!Hdl, g # h
        PROVE  HandleOK(g)'
    <3>1. HandleKept(g)
        BY <1>1, <1>3, <2>1 DEF HandleKept, Registered, Ended
    <3> QED
        BY <3>1, HandleFrame, HandlesAreOK DEF OverlayInv
  <2>2. HandleOK(h)'
      BY <1>1, <1>2, <1>3
         DEF HandleOK, NewOK, RegisteredOK, DelayedOK, CallbackOK, Registered, Conns, Ended
  <2> QED
      BY <2>1, <2>2, HandlesAreOK
<1>9. LiveOK'
  <2>1. ASSUME NEW i \in DOMAIN connections_', LiveConn(i)'
        PROVE  ConnKept(i)
    <3>1. i \in DOMAIN connections_ /\ connections_[i].handle \in N!Hdl
        BY <1>1, <2>1, ConnectionTypes DEF OverlayInv
    <3> QED
        BY <1>1, <1>3, <3>1 DEF ConnKept
  <2> QED
      BY <1>1, <2>1, LiveFrame DEF OverlayInv
<1> QED
    BY <1>4, <1>5, <1>6, <1>7, <1>8, <1>9 DEF OverlayInv

\* The second one: whichever connection has the number now is touched at most.
LEMMA PongTouchStep ==
    ASSUME OverlayInv, NEW h \in N!Hdl, N!OnPongTouch(h)
    PROVE  OverlayInv'
<1>1. /\ ws' = ws /\ closing_age' = closing_age /\ server_conns_' = server_conns_
      /\ client_conns_' = client_conns_ /\ hdl_to_ids_' = hdl_to_ids_
      /\ delay_delete_conns_' = delay_delete_conns_ /\ freed' = freed /\ loop' = loop
      /\ net_io' = net_io /\ checked' = checked /\ net_next_id_' = net_next_id_
      /\ connection_handles_' = connection_handles_ /\ silent' = silent
      /\ ping_age' = ping_age /\ refused' = refused /\ disconnects' = disconnects
      /\ cb[h].at = "pong" /\ cb' = [cb EXCEPT ![h] = N!Idle]
      /\ connections_' = [i \in DOMAIN connections_ |->
                             IF i = cb[h].id THEN N!Touched(connections_[i]) ELSE connections_[i]]
    BY DEF N!OnPongTouch, N!TouchId, N!CallbackEnds, N!adapterVars, N!startVars, N!peerVars,
           N!hookVars
<1>2. /\ HandleOK(h) /\ cb = [g \in N!Hdl |-> cb[g]] /\ cb[h] # N!Idle
      /\ cb'[h] = N!Idle /\ cb'[h].at = "idle" /\ \A g \in N!Hdl \ {h} : cb'[g] = cb[g]
      /\ cb' = [g \in N!Hdl |-> cb'[g]]
  <2>1. HandleOK(h) /\ cb = [g \in N!Hdl |-> cb[g]] /\ N!Idle.at = "idle"
      BY HandlesAreOK DEF OverlayInv, OverlayTypes, N!Idle
  <2> QED
      BY <1>1, <2>1
<1>3. ASSUME NEW i \in DOMAIN connections_
      PROVE  /\ connections_'[i] \in ConnectionRecord
             /\ connections_'[i].handle = connections_[i].handle
             /\ connections_'[i].connected = connections_[i].connected
             /\ connections_'[i] = connections_[i] \/ connections_'[i].received = 0
  <2>1. connections_[i] \in ConnectionRecord
      BY ConnectionTypes DEF OverlayInv
  <2>2. connections_'[i] = N!Touched(connections_[i]) \/ connections_'[i] = connections_[i]
      BY <1>1
  <2> QED
      BY <2>1, <2>2, TouchedRecord
<1>4. DOMAIN connections_' = DOMAIN connections_
      /\ connections_' = [i \in DOMAIN connections_' |-> connections_'[i]]
    BY <1>1
<1>5. OverlayTypes'
    BY <1>1, <1>2, <1>3, <1>4 DEF OverlayInv, OverlayTypes, N!TypeOK, ConnectionRecord
<1>6. ThreadsOK'
    BY <1>1, <1>2 DEF OverlayInv, ThreadsOK
<1>7. N!MapsAgree'
    BY <1>1, <1>3, <1>4, MapsFrame DEF OverlayInv
<1>8. N!NoUseAfterFree'
  <2>1. freed \subseteq N!Hdl
      BY DEF OverlayInv, OverlayTypes, N!TypeOK
  <2>2. \A g \in freed : g \in OutHdl => cb'[g] = cb[g]
      BY <1>2, <2>1 DEF OverlayInv, N!NoUseAfterFree
  <2> QED
      BY <1>1, <2>2, FreedFrame DEF OverlayInv, OverlayTypes
<1>9. HandlesOK'
  <2>1. ASSUME NEW g \in N!Hdl, g # h
        PROVE  HandleOK(g)'
    <3>1. HandleKept(g)
        BY <1>1, <1>2, <1>3, <1>4, <2>1 DEF HandleKept, Registered, Ended
    <3> QED
        BY <3>1, HandleFrame, HandlesAreOK DEF OverlayInv
  <2>2. Registered(h) => connections_'[connection_handles_[h]].connected
                            = connections_[connection_handles_[h]].connected
      BY <1>3, KnownRegistered DEF OverlayInv
  <2>3. HandleOK(h)'
      BY <1>1, <1>2, <2>2
         DEF HandleOK, NewOK, RegisteredOK, DelayedOK, CallbackOK, Registered, Conns, Ended
  <2> QED
      BY <2>1, <2>3, HandlesAreOK
<1>10. LiveOK'
  <2>1. ASSUME NEW i \in DOMAIN connections_', LiveConn(i)'
        PROVE  ConnKept(i) \/ AnswersOK(i)'
    <3>1. i \in DOMAIN connections_ /\ connections_[i].handle \in N!Hdl
        BY <1>4, <2>1, ConnectionTypes DEF OverlayInv
    <3>2. CASE connections_'[i].received = 0
      <4>1. connections_'[i].sent \in Nat /\ \A g \in DOMAIN ping_age' : ping_age'[g] \in Nat
          BY <1>1, <1>3, <3>1 DEF ConnectionRecord, OverlayInv, OverlayTypes
      <4> QED
          BY <2>1, <3>2, <4>1, FreshAnswers
    <3>3. CASE connections_'[i] = connections_[i]
      <4>1. cb[connections_[i].handle].at = "touch" => cb'[connections_[i].handle].at = "touch"
          BY <1>1, <1>2, <3>1
      <4> QED
          BY <1>1, <3>1, <3>3, <4>1 DEF ConnKept
    <3> QED
        BY <1>3, <3>1, <3>2, <3>3
  <2> QED
      BY <1>1, <2>1, LiveFrame DEF OverlayInv
<1> QED
    BY <1>5, <1>6, <1>7, <1>8, <1>9, <1>10 DEF OverlayInv

\* The first two critical sections of OnMessage.
LEMMA MessageTouchStep ==
    ASSUME OverlayInv, NEW h \in N!Hdl, N!OnMessageTouch(h)
    PROVE  OverlayInv'
<1>1. /\ ws' = ws /\ closing_age' = closing_age /\ server_conns_' = server_conns_
      /\ client_conns_' = client_conns_ /\ hdl_to_ids_' = hdl_to_ids_
      /\ delay_delete_conns_' = delay_delete_conns_ /\ freed' = freed /\ loop' = loop
      /\ net_io' = net_io /\ checked' = checked /\ net_next_id_' = net_next_id_
      /\ connection_handles_' = connection_handles_ /\ silent' = silent
      /\ ping_age' = ping_age /\ refused' = refused
      /\ disconnects' = disconnects /\ cb[h].at = "touch"
      /\ \/ /\ N!Known(h)
            /\ connections_' = [connections_ EXCEPT ![connection_handles_[h]] = N!Touched(@)]
            /\ cb' = [cb EXCEPT ![h] = [at |-> "proc", kind |-> cb[h].kind,
                                        id |-> connection_handles_[h]]]
         \/ ~N!Known(h) /\ connections_' = connections_ /\ cb' = [cb EXCEPT ![h] = N!Idle]
    BY DEF N!OnMessageTouch, N!IdOf, N!CallbackAt, N!CallbackEnds, N!adapterVars, N!startVars,
           N!peerVars, N!hookVars
<1>2. /\ disconnects \in [N!Hdl -> Nat] /\ N!MapsAgree /\ OverlayTypes
      /\ cb = [g \in N!Hdl |-> cb[g]] /\ cb[h] # N!Idle /\ HandleOK(h)
    BY <1>1, HandlesAreOK DEF OverlayInv, OverlayTypes, N!Idle
<1>3. CASE N!Known(h)
  <2>1. Registered(h)
      BY <1>2, <1>3, KnownRegistered
  <2>2. TouchOf(h) /\ \A i \in DOMAIN connections_ :
                         connections_[i].handle = h =>
                            connections_'[i].received = 0 /\ connections_'[i].handle = h
      BY <1>1, <1>3, <2>1, TouchOne
  <2>3. /\ cb'[h].at = "proc" /\ cb'[h].id = connection_handles_[h] /\ cb'[h] # N!Idle
        /\ \E r : cb' = [cb EXCEPT ![h] = r]
      BY <1>1, <1>2, <1>3 DEF N!Idle
  <2>4. connection_handles_[h] \in DOMAIN connections_
        /\ connections_[connection_handles_[h]].handle = h
      BY <1>2, <2>1, KnownRegistered
  <2>5. ws[h] \notin {"none", "connecting"}
      BY <1>2 DEF HandleOK, CallbackOK
  <2>6. HandleOK(h)'
      BY <1>1, <1>2, <2>2, <2>3, <2>4, <2>5
         DEF HandleOK, NewOK, RegisteredOK, DelayedOK, CallbackOK, Registered, Conns, TouchOf
  <2> QED
      BY <1>1, <1>2, <2>2, <2>3, <2>6, CallbackFrame
<1>4. CASE ~N!Known(h)
  <2>1. TouchOf(h) /\ \A i \in DOMAIN connections_ : connections_[i].handle # h
      BY <1>1, <1>2, <1>4, NoTouch, KnownRegistered
  <2>2. cb'[h] = N!Idle /\ cb'[h].at = "idle" /\ \E r : cb' = [cb EXCEPT ![h] = r]
      BY <1>1, <1>2, <1>4 DEF N!Idle
  <2>3. HandleOK(h)'
    <3>1. ~Registered(h) /\ ws[h] \notin {"none", "connecting"}
        BY <1>2, <1>4, KnownRegistered DEF HandleOK, CallbackOK
    <3> QED
        BY <1>1, <1>2, <2>2, <3>1
           DEF HandleOK, NewOK, RegisteredOK, DelayedOK, CallbackOK, Registered, Conns
  <2> QED
      BY <1>1, <1>2, <2>1, <2>2, <2>3, CallbackFrame
<1> QED
    BY <1>3, <1>4

LEMMA MessageProcStep ==
    ASSUME OverlayInv, NEW h \in N!Hdl, N!OnMessageProc(h)
    PROVE  OverlayInv'
<1>1. /\ ws' = ws /\ closing_age' = closing_age /\ server_conns_' = server_conns_
      /\ client_conns_' = client_conns_ /\ hdl_to_ids_' = hdl_to_ids_
      /\ delay_delete_conns_' = delay_delete_conns_ /\ freed' = freed /\ loop' = loop
      /\ net_io' = net_io /\ checked' = checked /\ net_next_id_' = net_next_id_
      /\ connection_handles_' = connection_handles_ /\ silent' = silent
      /\ ping_age' = ping_age /\ refused' = refused
      /\ disconnects' = disconnects /\ cb[h].at = "proc"
      /\ \/ cb' = [cb EXCEPT ![h] = N!Idle]
         \/ cb' = [cb EXCEPT ![h] = [at |-> "disconnect", id |-> cb[h].id]]
      /\ connections_' = connections_ \/ N!OnResponsePing(cb[h].id)
    BY DEF N!OnMessageProc, N!CallbackAt, N!CallbackEnds, N!adapterVars, N!startVars,
           N!peerVars, N!hookVars
<1>2. /\ disconnects \in [N!Hdl -> Nat] /\ N!MapsAgree /\ OverlayTypes
      /\ cb = [g \in N!Hdl |-> cb[g]] /\ cb[h] # N!Idle /\ HandleOK(h)
    BY <1>1, HandlesAreOK DEF OverlayInv, OverlayTypes, N!Idle
<1>3. /\ cb[h].id \in DOMAIN connections_ /\ connections_[cb[h].id].handle = h
      /\ connections_[cb[h].id].received = 0 /\ ws[h] \notin {"none", "connecting"}
      /\ Registered(h) /\ connection_handles_[h] = cb[h].id
    BY <1>1, <1>2, KnownRegistered DEF HandleOK, CallbackOK
<1>4. TouchOf(h) /\ connections_'[cb[h].id].handle = h /\ connections_'[cb[h].id].received = 0
  <2>1. CASE connections_' = connections_
      BY <1>2, <1>3, <2>1, NoTouch
  <2>2. CASE N!OnResponsePing(cb[h].id)
    <3>1. connections_' = [i \in DOMAIN connections_ |->
                              IF i = cb[h].id THEN N!Touched(connections_[i]) ELSE connections_[i]]
        BY <2>2 DEF N!OnResponsePing, N!TouchId
    <3>2. connections_[cb[h].id] \in ConnectionRecord
        BY <1>2, <1>3, ConnectionTypes
    <3>3. PICK c \in ConnectionRecord : /\ c = N!Touched(connections_[cb[h].id])
                                        /\ c.handle = h /\ c.received = 0
        BY <1>3, <3>2, TouchedRecord
    <3> QED
        BY <1>3, <3>1, <3>3 DEF TouchOf
  <2> QED
      BY <1>1, <2>1, <2>2
<1>5. /\ cb'[h].at \in {"idle", "disconnect"} /\ \E r : cb' = [cb EXCEPT ![h] = r]
      /\ cb'[h].at = "disconnect" => cb'[h].id = cb[h].id
      /\ cb'[h].at = "idle" => cb'[h] = N!Idle
    BY <1>1, <1>2 DEF N!Idle
<1>6. HandleOK(h)'
    BY <1>1, <1>2, <1>3, <1>4, <1>5
       DEF HandleOK, NewOK, RegisteredOK, DelayedOK, CallbackOK, Registered, Conns, TouchOf
<1> QED
    BY <1>1, <1>2, <1>4, <1>5, <1>6, CallbackFrame

LEMMA MessageDisconnectStep ==
    ASSUME OverlayInv, NEW h \in N!Hdl, N!OnMessageDisconnect(h)
    PROVE  OverlayInv'
<1>1. /\ ws' = ws /\ closing_age' = closing_age /\ server_conns_' = server_conns_
      /\ client_conns_' = client_conns_ /\ hdl_to_ids_' = hdl_to_ids_
      /\ delay_delete_conns_' = delay_delete_conns_ /\ freed' = freed /\ loop' = loop
      /\ net_io' = net_io /\ checked' = checked /\ net_next_id_' = net_next_id_
      /\ connection_handles_' = connection_handles_ /\ silent' = silent
      /\ ping_age' = ping_age /\ refused' = refused /\ connections_' = connections_
      /\ cb[h].at = "disconnect"
      /\ disconnects' = [disconnects EXCEPT ![h] = IF N!Known(h) THEN disconnects[h] + 1
                                                   ELSE disconnects[h]]
      /\ cb' = [cb EXCEPT ![h] = [at |-> "remove", id |-> cb[h].id]]
    BY DEF N!OnMessageDisconnect, N!CallbackAt, N!adapterVars, N!startVars, N!connVars, N!peerVars
<1>2. /\ disconnects \in [N!Hdl -> Nat] /\ N!MapsAgree /\ OverlayTypes
      /\ cb = [g \in N!Hdl |-> cb[g]] /\ cb[h] # N!Idle /\ HandleOK(h)
    BY <1>1, HandlesAreOK DEF OverlayInv, OverlayTypes, N!Idle
<1>3. /\ cb[h].id \in DOMAIN connections_ /\ connections_[cb[h].id].handle = h
      /\ connections_[cb[h].id].received = 0 /\ ws[h] \notin {"none", "connecting"}
      /\ Registered(h) /\ N!Known(h)
    BY <1>1, <1>2, KnownRegistered DEF HandleOK, CallbackOK
<1>4. TouchOf(h)
    BY <1>1, <1>2, NoTouch
<1>5. /\ cb'[h].at = "remove" /\ cb'[h].id = cb[h].id /\ \E r : cb' = [cb EXCEPT ![h] = r]
    BY <1>1, <1>2
<1>6. disconnects[h] = 0 /\ disconnects'[h] = 1 /\ disconnects' \in [N!Hdl -> Nat]
      /\ \A g \in N!Hdl \ {h} : disconnects'[g] = disconnects[g]
    BY <1>1, <1>2, <1>3 DEF HandleOK, RegisteredOK
<1>7. HandleOK(h)'
    BY <1>1, <1>2, <1>3, <1>5, <1>6
       DEF HandleOK, NewOK, RegisteredOK, DelayedOK, CallbackOK, Registered, Conns
<1> QED
    BY <1>1, <1>2, <1>4, <1>5, <1>6, <1>7, CallbackFrame

\* OnClientOpen where it accepts, or finds nothing; and OnClose where it finds nothing.
LEMMA CallbackEndsFrame ==
    ASSUME OverlayInv, NEW h \in N!Hdl, cb[h].at \in {"clientopen", "close", "fail"},
           ws' = ws, closing_age' = closing_age, server_conns_' = server_conns_,
           client_conns_' = client_conns_, hdl_to_ids_' = hdl_to_ids_,
           delay_delete_conns_' = delay_delete_conns_, freed' = freed, loop' = loop,
           net_io' = net_io, checked' = checked, net_next_id_' = net_next_id_,
           connection_handles_' = connection_handles_, silent' = silent,
           ping_age' = ping_age, refused' = refused, disconnects' = disconnects,
           cb' = [cb EXCEPT ![h] = N!Idle],
           \/ connections_' = connections_
           \/ /\ N!Known(h)
              /\ connections_' = [connections_ EXCEPT ![connection_handles_[h]] = N!SetConnectTime(@)]
    PROVE  OverlayInv'
<1>1. /\ disconnects \in [N!Hdl -> Nat] /\ N!MapsAgree /\ OverlayTypes
      /\ cb = [g \in N!Hdl |-> cb[g]] /\ cb[h] # N!Idle /\ HandleOK(h)
    BY HandlesAreOK DEF OverlayInv, OverlayTypes, N!Idle
<1>2. TouchOf(h)
  <2>1. CASE connections_' = connections_
      BY <1>1, <2>1, NoTouch
  <2>2. CASE connections_' # connections_
      BY <1>1, <2>2, KnownRegistered, TouchOne
  <2> QED
      BY <2>1, <2>2
<1>3. cb'[h] = N!Idle /\ cb'[h].at = "idle" /\ \E r : cb' = [cb EXCEPT ![h] = r]
    BY <1>1 DEF N!Idle
<1>4. ws[h] \notin {"none", "connecting"}
    BY <1>1 DEF HandleOK, CallbackOK
<1>5. HandleOK(h)'
    BY <1>1, <1>3, <1>4
       DEF HandleOK, NewOK, RegisteredOK, DelayedOK, CallbackOK, Registered, Conns
<1> QED
    BY <1>1, <1>2, <1>3, <1>5, CallbackFrame

-----------------------------------------------------------------------------
(* Connections are closed.                                                 *)

\* Close, by the class that finds the handle.
LEMMA CloseEffect ==
    ASSUME OverlayTypes, NEW S \in SUBSET N!Hdl, N!Close(S)
    PROVE  /\ ws' \in [N!Hdl -> N!WsStates] /\ closing_age' \in [N!Hdl -> Nat]
           /\ \A h \in N!Hdl :
                 IF h \in S \cap Conns /\ ws[h] = "open"
                 THEN ws'[h] = "closing" /\ closing_age'[h] = 0
                 ELSE ws'[h] = ws[h] /\ closing_age'[h] = closing_age[h]
           /\ server_conns_' = server_conns_ \ S /\ client_conns_' = client_conns_ \ S
           /\ hdl_to_ids_' = hdl_to_ids_ /\ freed' = freed
           /\ delay_delete_conns_' \in [DOMAIN delay_delete_conns_' -> Nat]
           /\ \A h \in DOMAIN delay_delete_conns_' :
                 \/ h \in S \cap Conns /\ delay_delete_conns_'[h] = 0
                 \/ /\ h \in DOMAIN delay_delete_conns_
                    /\ delay_delete_conns_'[h] = delay_delete_conns_[h]
<1> DEFINE found == S \cap Conns
<1>1. /\ N!WsClose(found) /\ N!DelayDelete(found)
      /\ server_conns_' = server_conns_ \ S /\ client_conns_' = client_conns_ \ S
      /\ hdl_to_ids_' = hdl_to_ids_ /\ freed' = freed
    BY DEF N!Close, N!ServerClose, N!ClientClose, Conns
<1> HIDE DEF found
<1>2. /\ ws' \in [N!Hdl -> N!WsStates] /\ closing_age' \in [N!Hdl -> Nat]
      /\ \A h \in N!Hdl : IF h \in found /\ ws[h] = "open"
                          THEN ws'[h] = "closing" /\ closing_age'[h] = 0
                          ELSE ws'[h] = ws[h] /\ closing_age'[h] = closing_age[h]
    BY <1>1 DEF N!WsClose, OverlayTypes, N!TypeOK, N!WsStates
<1>3. PICK K \in SUBSET found :
          delay_delete_conns_' = [h \in DOMAIN delay_delete_conns_ \cup K |->
                                     IF h \in K THEN 0 ELSE delay_delete_conns_[h]]
    BY <1>1 DEF N!DelayDelete, N!Inserted
<1>4. /\ delay_delete_conns_' \in [DOMAIN delay_delete_conns_' -> Nat]
      /\ \A h \in DOMAIN delay_delete_conns_' :
            \/ h \in found /\ delay_delete_conns_'[h] = 0
            \/ /\ h \in DOMAIN delay_delete_conns_
               /\ delay_delete_conns_'[h] = delay_delete_conns_[h]
    BY <1>3 DEF OverlayTypes
<1> QED
    BY <1>1, <1>2, <1>4 DEF found

\* The handles of S are closed and out of the maps; those of no other handle are touched.
ClosedOut(S) ==
    /\ N!Close(S)
    /\ loop' = loop /\ net_io' = net_io /\ silent' = silent
    /\ net_next_id_' \in Nat /\ net_next_id_ <= net_next_id_'
    /\ \A g \in N!Hdl : cb'[g] = cb[g] \/ cb'[g] = N!Idle
    /\ cb' = [g \in N!Hdl |-> cb'[g]]
    /\ disconnects' \in [N!Hdl -> Nat] /\ refused' \subseteq N!Hdl
    /\ connection_handles_' = [g \in DOMAIN connection_handles_' |-> connection_handles_'[g]]
    /\ DOMAIN connection_handles_' = DOMAIN connection_handles_ \ S
    /\ \A g \in DOMAIN connection_handles_' : connection_handles_'[g] = connection_handles_[g]
    /\ connections_' = [i \in DOMAIN connections_' |-> connections_'[i]]
    /\ DOMAIN connections_' = {i \in DOMAIN connections_ : connections_[i].handle \notin S}
    /\ \A i \in DOMAIN connections_' :
          /\ connections_'[i] \in ConnectionRecord
          /\ connections_'[i].handle = connections_[i].handle
          /\ connections_'[i].connected = connections_[i].connected
          /\ connections_'[i].received = connections_[i].received
    /\ ping_age' \in [DOMAIN ping_age' -> 0 .. N!Old] /\ DOMAIN ping_age' \subseteq N!Hdl
    /\ \A g \in N!Hdl \ S :
          /\ cb'[g] = cb[g] /\ disconnects'[g] = disconnects[g]
          /\ g \in refused' <=> g \in refused

\* Each of them is open, or closed by its peer, and reported if it is not refused.
Closable(g) ==
    /\ ws[g] \in {"open", "closed"} /\ g \notin DOMAIN delay_delete_conns_
    /\ disconnects'[g] = IF g \in refused' THEN 0 ELSE 1
    /\ cb'[g].at \notin {"open", "proc", "disconnect", "remove"}

LEMMA CloseFrame ==
    ASSUME OverlayInv, NEW S \in SUBSET N!Hdl, ClosedOut(S), \A g \in S : Closable(g)
    PROVE  OverlayTypes' /\ ThreadsOK' /\ N!MapsAgree' /\ N!NoUseAfterFree' /\ HandlesOK'
<1>1. /\ ws' \in [N!Hdl -> N!WsStates] /\ closing_age' \in [N!Hdl -> Nat]
      /\ \A h \in N!Hdl :
            IF h \in S \cap Conns /\ ws[h] = "open"
            THEN ws'[h] = "closing" /\ closing_age'[h] = 0
            ELSE ws'[h] = ws[h] /\ closing_age'[h] = closing_age[h]
      /\ server_conns_' = server_conns_ \ S /\ client_conns_' = client_conns_ \ S
      /\ hdl_to_ids_' = hdl_to_ids_ /\ freed' = freed
      /\ delay_delete_conns_' \in [DOMAIN delay_delete_conns_' -> Nat]
      /\ \A h \in DOMAIN delay_delete_conns_' :
            \/ h \in S \cap Conns /\ delay_delete_conns_'[h] = 0
            \/ /\ h \in DOMAIN delay_delete_conns_
               /\ delay_delete_conns_'[h] = delay_delete_conns_[h]
    BY CloseEffect DEF OverlayInv, ClosedOut
<1>2. OverlayTypes'
  <2>1. DOMAIN delay_delete_conns_' \subseteq N!Hdl /\ DOMAIN connections_' \subseteq DOMAIN connections_
      BY <1>1 DEF OverlayInv, OverlayTypes, N!TypeOK, ClosedOut
  <2>2. DOMAIN connections_' \subseteq 0 .. net_next_id_' - 1
      BY <2>1 DEF OverlayInv, OverlayTypes, N!TypeOK, ClosedOut
  <2>3. N!TypeOK'
      BY <1>1, <2>1, <2>2 DEF OverlayInv, OverlayTypes, N!TypeOK, ClosedOut, ConnectionRecord
  <2> QED
      BY <1>1, <2>3 DEF OverlayTypes, ClosedOut
<1>3. ThreadsOK'
  <2>1. net_io = "none" => \A h \in N!Hdl : ws'[h] = ws[h]
      BY <1>1 DEF OverlayInv, ThreadsOK
  <2> QED
      BY <2>1 DEF OverlayInv, ThreadsOK, ClosedOut
<1>4. N!MapsAgree'
  <2>1. ASSUME NEW h \in DOMAIN connection_handles_'
        PROVE  /\ connection_handles_'[h] \in DOMAIN connections_'
               /\ connections_'[connection_handles_'[h]].handle = h
      BY <2>1 DEF OverlayInv, N!MapsAgree, ClosedOut
  <2>2. ASSUME NEW i \in DOMAIN connections_'
        PROVE  /\ connections_'[i].handle \in DOMAIN connection_handles_'
               /\ connection_handles_'[connections_'[i].handle] = i
               /\ IF connections_'[i].handle \in InHdl THEN connections_'[i].handle \in server_conns_'
                  ELSE connections_'[i].handle \in client_conns_'
    <3>1. /\ i \in DOMAIN connections_ /\ connections_'[i].handle = connections_[i].handle
          /\ connections_[i].handle \notin S
        BY <2>2 DEF ClosedOut
    <3>2. /\ connections_[i].handle \in DOMAIN connection_handles_
          /\ connection_handles_[connections_[i].handle] = i
          /\ IF connections_[i].handle \in InHdl THEN connections_[i].handle \in server_conns_
             ELSE connections_[i].handle \in client_conns_
        BY <3>1 DEF OverlayInv, N!MapsAgree, N!GetConnectFromHandle
    <3> QED
        BY <1>1, <3>1, <3>2 DEF ClosedOut
  <2> QED
      BY <2>1, <2>2 DEF N!MapsAgree, N!GetConnectFromHandle
<1>5. N!NoUseAfterFree'
  <2>1. freed \subseteq N!Hdl
      BY DEF OverlayInv, OverlayTypes, N!TypeOK
  <2>2. \A g \in freed : g \in OutHdl => cb'[g] = cb[g] /\ (ws[g] = "closed" => ws'[g] = "closed")
      BY <1>1, <2>1 DEF OverlayInv, N!NoUseAfterFree, ClosedOut
  <2> QED
      BY <1>1, <2>2, FreedFrame DEF OverlayInv, OverlayTypes, ClosedOut
<1>6. HandlesOK'
  <2>1. ASSUME NEW g \in N!Hdl, g \notin S
        PROVE  HandleOK(g)'
    <3>1. HandleKept(g)
        BY <1>1, <2>1 DEF HandleKept, Registered, ClosedOut, Ended
    <3> QED
        BY <3>1, HandleFrame, HandlesAreOK DEF OverlayInv
  <2>2. ASSUME NEW g \in S
        PROVE  HandleOK(g)'
    <3>1. g \in N!Hdl /\ Closable(g) /\ HandleOK(g)
        BY HandlesAreOK DEF OverlayInv
    <3>2. ~Registered(g)' /\ g \notin Conns' /\ ws'[g] \in {"open", "closing", "closed"}
        BY <1>1, <3>1 DEF ClosedOut, Registered, Conns, Closable
    <3>3. DelayedOK(g)'
      <4>1. disconnects'[g] <= 1 /\ (disconnects'[g] = 1 <=> g \notin refused')
          BY <3>1 DEF Closable
      <4>2. g \in DOMAIN delay_delete_conns_' =>
               /\ delay_delete_conns_'[g] = 0 /\ ws'[g] \in {"closing", "closed"}
               /\ ws'[g] = "closing" => closing_age'[g] = 0
          BY <1>1, <3>1 DEF Closable
      <4>3. ws'[g] = "closing" => closing_age'[g] = 0
          BY <1>1, <3>1 DEF Closable
      <4> QED
          BY <3>2, <4>1, <4>2, <4>3, Delays DEF DelayedOK
    <3> QED
        BY <3>1, <3>2, <3>3 DEF HandleOK, NewOK, RegisteredOK, CallbackOK, Closable
  <2> QED
      BY <2>1, <2>2, HandlesAreOK
<1> QED
    BY <1>2, <1>3, <1>4, <1>5, <1>6

\* RemoveConnections closes the handles of these ids, and no other.
HandlesOfIds(ids) == {connections_[i].handle : i \in ids}

\* What its callers leave alone: conns is connections_ with other times of the last ping.
RemovesFrom(conns, S) ==
    /\ DOMAIN conns = DOMAIN connections_
    /\ \A i \in DOMAIN connections_ :
          /\ conns[i] \in ConnectionRecord
          /\ conns[i].handle = connections_[i].handle
          /\ conns[i].connected = connections_[i].connected
          /\ conns[i].received = connections_[i].received
    /\ loop' = loop /\ net_io' = net_io /\ silent' = silent
    /\ cb' = [g \in N!Hdl |-> cb'[g]]
    /\ \A g \in N!Hdl : cb'[g] = cb[g] \/ cb'[g] = N!Idle
    /\ \A g \in N!Hdl \ S : cb'[g] = cb[g] /\ (g \in refused' <=> g \in refused)
    /\ refused' \subseteq N!Hdl
    /\ ping_age' \in [DOMAIN ping_age' -> 0 .. N!Old] /\ DOMAIN ping_age' \subseteq N!Hdl

LEMMA RemoveClosed ==
    ASSUME OverlayInv, NEW conns, NEW deleted, NEW ids \in SUBSET DOMAIN connections_,
           NEW S, S = HandlesOfIds(ids), NEW told \in SUBSET S,
           N!RemoveConnections(conns, deleted, ids, told), RemovesFrom(conns, S)
    PROVE  /\ S \in SUBSET N!Hdl /\ ClosedOut(S)
           /\ \A i \in DOMAIN connections_' : /\ i \in DOMAIN connections_ \ ids
                                              /\ connections_'[i] = conns[i]
           /\ \A h \in S :
                 disconnects'[h] = disconnects[h] + IF h \in told THEN 1 ELSE 0
<1>1. {conns[i].handle : i \in ids} = S
    BY DEF HandlesOfIds, RemovesFrom
<1>2. S \in SUBSET N!Hdl /\ \A i \in ids : connections_[i].handle \in S
    BY ConnectionTypes DEF HandlesOfIds, OverlayInv
<1>3. \A i \in DOMAIN connections_ : connections_[i].handle \in S => i \in ids
    BY DEF HandlesOfIds, OverlayInv, N!MapsAgree
<1>4. /\ N!Close(S)
      /\ connections_' = N!Without(conns, ids)
      /\ connection_handles_' = N!Without(connection_handles_, S)
      /\ disconnects' = [h \in N!Hdl |-> disconnects[h] + IF h \in told THEN 1 ELSE 0]
      /\ net_next_id_' = net_next_id_
    BY <1>1 DEF N!RemoveConnections
<1>5. /\ connections_' = [i \in DOMAIN connections_' |-> connections_'[i]]
      /\ DOMAIN connections_' = DOMAIN connections_ \ ids
      /\ \A i \in DOMAIN connections_' : i \in DOMAIN connections_ \ ids /\ connections_'[i] = conns[i]
    BY <1>4 DEF N!Without, RemovesFrom
<1>6. /\ connection_handles_' = [g \in DOMAIN connection_handles_' |-> connection_handles_'[g]]
      /\ DOMAIN connection_handles_' = DOMAIN connection_handles_ \ S
      /\ \A g \in DOMAIN connection_handles_' : connection_handles_'[g] = connection_handles_[g]
    BY <1>4 DEF N!Without
<1>7. /\ disconnects' \in [N!Hdl -> Nat]
      /\ \A h \in N!Hdl : disconnects'[h] = disconnects[h] + IF h \in told THEN 1 ELSE 0
    BY <1>4 DEF OverlayInv, OverlayTypes
<1>8. \A g \in N!Hdl \ S : disconnects'[g] = disconnects[g]
  <2>1. told \subseteq S
      OBVIOUS
  <2>2. \A g \in N!Hdl : disconnects[g] \in Nat
      BY DEF OverlayInv, OverlayTypes
  <2> QED
      BY <1>7, <2>1, <2>2
<1>9. \A g \in N!Hdl \ S : cb'[g] = cb[g] /\ (g \in refused' <=> g \in refused)
    BY DEF RemovesFrom
<1>10. DOMAIN connections_' = {i \in DOMAIN connections_ : connections_[i].handle \notin S}
    BY <1>2, <1>3, <1>5
<1>11. net_next_id_' \in Nat /\ net_next_id_ <= net_next_id_'
    BY <1>4 DEF OverlayInv, OverlayTypes
<1>12. \A i \in DOMAIN connections_' :
          /\ connections_'[i] \in ConnectionRecord
          /\ connections_'[i].handle = connections_[i].handle
          /\ connections_'[i].connected = connections_[i].connected
          /\ connections_'[i].received = connections_[i].received
    BY <1>5 DEF RemovesFrom
<1>13. ClosedOut(S)
    BY <1>4, <1>5, <1>6, <1>7, <1>8, <1>9, <1>10, <1>11, <1>12 DEF ClosedOut, RemovesFrom
<1> QED
    BY <1>2, <1>5, <1>7, <1>13

\* One connection is removed by a callback of its own.
LEMMA RemoveOne ==
    ASSUME OverlayInv, NEW h \in N!Hdl, Registered(h), cb[h] # N!Idle,
           NEW told \in SUBSET {h}, N!Remove({connection_handles_[h]}, told),
           loop' = loop, net_io' = net_io, silent' = silent, checked' = checked,
           ping_age' = ping_age, cb' = [cb EXCEPT ![h] = N!Idle],
           refused' = refused \/ refused' = refused \cup {h},
           disconnects[h] + (IF h \in told THEN 1 ELSE 0) = IF h \in refused' THEN 0 ELSE 1
    PROVE  OverlayInv'
<1>0. PICK conns, deleted, ids : /\ conns = connections_ /\ deleted = connections_delete_
                                 /\ ids = {connection_handles_[h]}
    OBVIOUS
<1>1. /\ OverlayTypes /\ N!MapsAgree /\ HandleOK(h)
      /\ cb = [g \in N!Hdl |-> cb[g]] /\ refused \subseteq N!Hdl
      /\ ping_age \in [DOMAIN ping_age -> 0 .. N!Old] /\ DOMAIN ping_age \subseteq N!Hdl
    BY HandlesAreOK DEF OverlayInv, OverlayTypes, N!TypeOK
<1>2. ids \in SUBSET DOMAIN connections_ /\ HandlesOfIds(ids) = {h}
    BY <1>0, <1>1, KnownRegistered DEF HandlesOfIds
<1>3. /\ cb' = [g \in N!Hdl |-> cb'[g]] /\ cb'[h] = N!Idle
      /\ \A g \in N!Hdl \ {h} : cb'[g] = cb[g]
      /\ \A g \in N!Hdl : cb'[g] = cb[g] \/ cb'[g] = N!Idle
    BY <1>1
<1>4. \A i \in DOMAIN connections_ : connections_[i] \in ConnectionRecord
    BY <1>1, ConnectionTypes
<1>5. N!RemoveConnections(conns, deleted, ids, told)
    BY <1>0 DEF N!Remove, N!RemoveConnections
<1>6. /\ ClosedOut({h})
      /\ \A i \in DOMAIN connections_' : /\ i \in DOMAIN connections_ \ ids
                                         /\ connections_'[i] = connections_[i]
      /\ disconnects'[h] = disconnects[h] + IF h \in told THEN 1 ELSE 0
  <2>1. PICK S : S = {h}
      OBVIOUS
  <2>2. RemovesFrom(conns, S)
      BY <1>0, <1>1, <1>3, <1>4, <2>1 DEF RemovesFrom
  <2>3. ids \in SUBSET DOMAIN connections_ /\ S = HandlesOfIds(ids) /\ told \in SUBSET S
      BY <1>2, <2>1
  <2>4. /\ ClosedOut(S)
        /\ \A i \in DOMAIN connections_' : i \in DOMAIN connections_ \ ids /\ connections_'[i] = conns[i]
        /\ \A g \in S : disconnects'[g] = disconnects[g] + IF g \in told THEN 1 ELSE 0
      BY <1>5, <2>2, <2>3, RemoveClosed
  <2> QED
      BY <1>0, <2>1, <2>4 DEF ClosedOut
<1>7. Closable(h)
  <2>1. ws[h] \in {"open", "closed"} /\ h \notin DOMAIN delay_delete_conns_
      BY <1>1 DEF HandleOK, RegisteredOK, CallbackOK
  <2> QED
      BY <1>3, <1>6, <2>1 DEF Closable, N!Idle
<1>8. OverlayTypes' /\ ThreadsOK' /\ N!MapsAgree' /\ N!NoUseAfterFree' /\ HandlesOK'
    BY <1>6, <1>7, CloseFrame
<1>9. LiveOK'
  <2>1. \A g \in N!Hdl : ws'[g] = ws[g] \/ ws'[g] \in {"closing", "closed"}
      BY <1>1, <1>6, CloseEffect DEF ClosedOut
  <2>2. \A i \in DOMAIN connections_' : ConnKept(i)
    <3>1. ASSUME NEW i \in DOMAIN connections_'
          PROVE  i \in DOMAIN connections_ /\ connections_[i].handle \in N!Hdl \ {h}
        BY <1>1, <1>6, <3>1, ConnectionTypes DEF ClosedOut
    <3> QED
        BY <1>3, <1>6, <2>1, <3>1 DEF ConnKept
  <2>3. DOMAIN ping_age \subseteq N!Hdl
      BY <1>1
  <2> QED
      BY <2>1, <2>2, <2>3, LiveFrame DEF OverlayInv
<1> QED
    BY <1>8, <1>9 DEF OverlayInv

LEMMA ClientOpenStep ==
    ASSUME OverlayInv, NEW h \in N!Hdl, N!OnClientOpen(h)
    PROVE  OverlayInv'
<1>1. /\ loop' = loop /\ net_io' = net_io /\ silent' = silent /\ checked' = checked
      /\ ping_age' = ping_age /\ cb' = [cb EXCEPT ![h] = N!Idle] /\ cb[h].at = "clientopen"
    BY DEF N!OnClientOpen, N!CallbackEnds, N!startVars, N!peerVars
<1>2. /\ N!MapsAgree /\ HandleOK(h) /\ cb[h] # N!Idle
    BY <1>1, HandlesAreOK DEF OverlayInv, N!Idle
<1>3. CASE N!Known(h) /\ N!Remove({N!IdOf(h)}, {}) /\ refused' = refused \cup {h}
  <2>1. PICK told \in SUBSET {h} : told = {}
      OBVIOUS
  <2>2. N!Remove({connection_handles_[h]}, told)
      BY <1>3, <2>1 DEF N!Remove, N!RemoveConnections, N!IdOf
  <2>3. Registered(h)
      BY <1>2, <1>3, KnownRegistered
  <2>4. disconnects[h] + (IF h \in told THEN 1 ELSE 0) = IF h \in refused' THEN 0 ELSE 1
      BY <1>1, <1>2, <1>3, <2>1, <2>3 DEF HandleOK, RegisteredOK
  <2> QED
      BY <1>1, <1>2, <1>3, <2>2, <2>3, <2>4, RemoveOne
<1>4. CASE ~(N!Known(h) /\ N!Remove({N!IdOf(h)}, {}) /\ refused' = refused \cup {h})
  <2>1. /\ ws' = ws /\ closing_age' = closing_age /\ server_conns_' = server_conns_
        /\ client_conns_' = client_conns_ /\ hdl_to_ids_' = hdl_to_ids_
        /\ delay_delete_conns_' = delay_delete_conns_ /\ freed' = freed
        /\ net_next_id_' = net_next_id_ /\ connection_handles_' = connection_handles_
        /\ refused' = refused /\ disconnects' = disconnects
        /\ \/ connections_' = connections_
           \/ /\ N!Known(h)
              /\ connections_' = [connections_ EXCEPT ![connection_handles_[h]] = N!SetConnectTime(@)]
      BY <1>4 DEF N!OnClientOpen, N!IdOf, N!adapterVars, N!connVars, N!hookVars
  <2> QED
      BY <1>1, <2>1, CallbackEndsFrame
<1> QED
    BY <1>3, <1>4

LEMMA CloseStep ==
    ASSUME OverlayInv, NEW h \in N!Hdl, N!OnClose(h)
    PROVE  OverlayInv'
<1>1. /\ loop' = loop /\ net_io' = net_io /\ silent' = silent /\ checked' = checked
      /\ ping_age' = ping_age /\ cb' = [cb EXCEPT ![h] = N!Idle] /\ cb[h].at \in {"close", "fail"}
    BY DEF N!OnClose, N!CallbackEnds, N!startVars, N!peerVars
<1>2. /\ N!MapsAgree /\ HandleOK(h) /\ cb[h] # N!Idle
    BY <1>1, HandlesAreOK DEF OverlayInv, N!Idle
<1>3. CASE N!Known(h)
  <2>1. PICK told \in SUBSET {h} : told = {h}
      OBVIOUS
  <2>2. N!Remove({connection_handles_[h]}, told) /\ refused' = refused
      BY <1>3, <2>1 DEF N!OnClose, N!Remove, N!RemoveConnections, N!IdOf
  <2>3. Registered(h)
      BY <1>2, <1>3, KnownRegistered
  <2>4. disconnects[h] + (IF h \in told THEN 1 ELSE 0) = IF h \in refused' THEN 0 ELSE 1
      BY <1>1, <1>2, <2>1, <2>2, <2>3 DEF HandleOK, RegisteredOK
  <2> QED
      BY <1>1, <1>2, <2>2, <2>3, <2>4, RemoveOne
<1>4. CASE ~N!Known(h)
  <2>1. /\ ws' = ws /\ closing_age' = closing_age /\ server_conns_' = server_conns_
        /\ client_conns_' = client_conns_ /\ hdl_to_ids_' = hdl_to_ids_
        /\ delay_delete_conns_' = delay_delete_conns_ /\ freed' = freed
        /\ net_next_id_' = net_next_id_ /\ connection_handles_' = connection_handles_
        /\ refused' = refused /\ disconnects' = disconnects /\ connections_' = connections_
      BY <1>4 DEF N!OnClose, N!adapterVars, N!connVars, N!hookVars
  <2> QED
      BY <1>1, <2>1, CallbackEndsFrame
<1> QED
    BY <1>3, <1>4

LEMMA MessageRemoveStep ==
    ASSUME OverlayInv, NEW h \in N!Hdl, N!OnMessageRemove(h)
    PROVE  OverlayInv'
<1>1. /\ loop' = loop /\ net_io' = net_io /\ silent' = silent /\ checked' = checked
      /\ ping_age' = ping_age /\ cb' = [cb EXCEPT ![h] = N!Idle] /\ cb[h].at = "remove"
      /\ refused' = refused
    BY DEF N!OnMessageRemove, N!CallbackEnds, N!startVars, N!peerVars
<1>2. /\ N!MapsAgree /\ HandleOK(h) /\ cb[h] # N!Idle
    BY <1>1, HandlesAreOK DEF OverlayInv, N!Idle
<1>3. cb[h].id \in DOMAIN connections_ /\ Registered(h) /\ connection_handles_[h] = cb[h].id
    BY <1>1, <1>2, KnownRegistered DEF HandleOK, CallbackOK
<1>4. PICK told \in SUBSET {h} : told = {}
    OBVIOUS
<1>5. N!Remove({connection_handles_[h]}, told)
    BY <1>3, <1>4 DEF N!OnMessageRemove, N!Remove, N!RemoveConnections
<1>6. disconnects[h] + (IF h \in told THEN 1 ELSE 0) = IF h \in refused' THEN 0 ELSE 1
    BY <1>1, <1>2, <1>3, <1>4 DEF HandleOK, RegisteredOK
<1> QED
    BY <1>1, <1>2, <1>3, <1>5, <1>6, RemoveOne

-----------------------------------------------------------------------------
(* Connections are registered.                                             *)

LEMMA AddEffect ==
    ASSUME OverlayInv, NEW h \in N!Hdl, ~Registered(h), N!AddConnection(h)
    PROVE  /\ net_next_id_' = net_next_id_ + 1 /\ net_next_id_ \notin DOMAIN connections_
           /\ connections_' = [i \in DOMAIN connections_' |-> connections_'[i]]
           /\ DOMAIN connections_' = DOMAIN connections_ \cup {net_next_id_}
           /\ \A i \in DOMAIN connections_ : connections_'[i] = connections_[i]
           /\ connections_'[net_next_id_] = N!Connection(h)
           /\ N!Connection(h) \in ConnectionRecord
           /\ N!Connection(h).handle = h /\ N!Connection(h).received = 0
           /\ N!Connection(h).connected <=> h \in InHdl
           /\ connection_handles_' =
                  [g \in DOMAIN connection_handles_' |-> connection_handles_'[g]]
           /\ DOMAIN connection_handles_' = DOMAIN connection_handles_ \cup {h}
           /\ \A g \in DOMAIN connection_handles_ :
                 g # h /\ connection_handles_'[g] = connection_handles_[g]
           /\ connection_handles_'[h] = net_next_id_
<1>1. /\ net_next_id_' = net_next_id_ + 1
      /\ connections_' = N!With(connections_, net_next_id_, N!Connection(h))
      /\ connection_handles_' = N!With(connection_handles_, h, net_next_id_)
    BY DEF N!AddConnection
<1>2. net_next_id_ \notin DOMAIN connections_
    BY DEF OverlayInv, OverlayTypes, N!TypeOK
<1>3. N!Old \in Nat /\ 0 \in 0 .. N!Old /\ N!Old \in 0 .. N!Old
    BY Delays DEF N!Old
<1>4. /\ N!Connection(h) \in ConnectionRecord
      /\ N!Connection(h).handle = h /\ N!Connection(h).received = 0
      /\ N!Connection(h).connected <=> h \in InHdl
  <2>1. ASSUME NEW b \in BOOLEAN, NEW r \in 0 .. N!Old, NEW s \in 0 .. N!Old
        PROVE  [handle |-> h, connected |-> b, received |-> r, sent |-> s] \in ConnectionRecord
      BY DEF ConnectionRecord
  <2>2. (h \in InHdl) \in BOOLEAN
      OBVIOUS
  <2>3. N!Connection(h) \in ConnectionRecord
      BY <1>3, <2>1, <2>2, Zenon DEF N!Connection
  <2>4. /\ N!Connection(h).handle = h /\ N!Connection(h).received = 0
        /\ N!Connection(h).connected <=> h \in InHdl
      BY Zenon DEF N!Connection
  <2> QED
      BY <2>3, <2>4
<1> QED
    BY <1>1, <1>2, <1>4 DEF N!With, Registered

\* The connection of h is registered; h itself may start to connect, or end its callback.
LEMMA AddFrame ==
    ASSUME OverlayInv, NEW h \in N!Hdl, ~Registered(h), N!AddConnection(h),
           N!GetConnectFromHandle(h), ws[h] \in {"none", "open"},
           ws' = ws \/ (ws[h] = "none" /\ ws' = [ws EXCEPT ![h] = "connecting"]),
           cb' = cb \/ cb' = [cb EXCEPT ![h] = N!Idle],
           closing_age' = closing_age, server_conns_' = server_conns_,
           client_conns_' = client_conns_, hdl_to_ids_' = hdl_to_ids_,
           delay_delete_conns_' = delay_delete_conns_, freed' = freed, loop' = loop,
           net_io' = net_io, checked' = checked, silent' = silent, ping_age' = ping_age,
           refused' = refused, disconnects' = disconnects, cb'[h].at # "touch",
           HandleOK(h)'
    PROVE  OverlayInv'
<1>1. /\ net_next_id_' = net_next_id_ + 1 /\ net_next_id_ \notin DOMAIN connections_
      /\ connections_' = [i \in DOMAIN connections_' |-> connections_'[i]]
      /\ DOMAIN connections_' = DOMAIN connections_ \cup {net_next_id_}
      /\ \A i \in DOMAIN connections_ : connections_'[i] = connections_[i]
      /\ connections_'[net_next_id_] \in ConnectionRecord
      /\ connections_'[net_next_id_].handle = h /\ connections_'[net_next_id_].received = 0
      /\ connection_handles_' =
             [g \in DOMAIN connection_handles_' |-> connection_handles_'[g]]
      /\ DOMAIN connection_handles_' = DOMAIN connection_handles_ \cup {h}
      /\ \A g \in DOMAIN connection_handles_ :
            g # h /\ connection_handles_'[g] = connection_handles_[g]
      /\ connection_handles_'[h] = net_next_id_
    BY AddEffect
<1>2. /\ h \notin freed /\ freed \subseteq N!Hdl
      /\ cb = [g \in N!Hdl |-> cb[g]] /\ ws \in [N!Hdl -> N!WsStates]
    BY DEF OverlayInv, OverlayTypes, N!TypeOK, N!NoUseAfterFree, N!GetConnectFromHandle
<1>3. /\ ws' \in [N!Hdl -> N!WsStates] /\ \A g \in N!Hdl \ {h} : ws'[g] = ws[g]
      /\ cb' = [g \in N!Hdl |-> cb'[g]] /\ \A g \in N!Hdl \ {h} : cb'[g] = cb[g]
      /\ \A g \in N!Hdl : cb'[g] = cb[g] \/ cb'[g] = N!Idle
      /\ ws'[h] = ws[h] \/ ws'[h] = "connecting"
    BY <1>2 DEF N!WsStates
<1>4. \A i \in DOMAIN connections_ : connections_[i] \in ConnectionRecord
                                     /\ connections_[i].handle \in N!Hdl \ {h}
    BY ConnectionTypes, Unregistered DEF OverlayInv
<1>5. OverlayTypes'
  <2>1. net_next_id_' \in Nat /\ DOMAIN connections_' \subseteq 0 .. net_next_id_' - 1
      BY <1>1 DEF OverlayInv, OverlayTypes, N!TypeOK
  <2>2. \A i \in DOMAIN connections_' : connections_'[i] \in ConnectionRecord
      BY <1>1, <1>4
  <2> QED
      BY <1>1, <1>3, <2>1, <2>2 DEF OverlayInv, OverlayTypes, N!TypeOK, ConnectionRecord
<1>6. ThreadsOK'
    BY <1>3 DEF OverlayInv, ThreadsOK
<1>7. N!MapsAgree'
  <2>1. ASSUME NEW i \in DOMAIN connections_
        PROVE  /\ connections_[i].handle \in DOMAIN connection_handles_'
               /\ connection_handles_'[connections_[i].handle] = i
               /\ N!GetConnectFromHandle(connections_[i].handle)
      BY <1>1, <2>1 DEF OverlayInv, N!MapsAgree
  <2>2. ASSUME NEW i \in DOMAIN connections_'
        PROVE  /\ connections_'[i].handle \in DOMAIN connection_handles_'
               /\ connection_handles_'[connections_'[i].handle] = i
               /\ IF connections_'[i].handle \in InHdl THEN connections_'[i].handle \in server_conns_'
                  ELSE connections_'[i].handle \in client_conns_'
      BY <1>1, <2>1, <2>2 DEF N!GetConnectFromHandle
  <2>3. ASSUME NEW g \in DOMAIN connection_handles_'
        PROVE  /\ connection_handles_'[g] \in DOMAIN connections_'
               /\ connections_'[connection_handles_'[g]].handle = g
      BY <1>1, <2>3 DEF OverlayInv, N!MapsAgree
  <2> QED
      BY <2>2, <2>3 DEF N!MapsAgree, N!GetConnectFromHandle
<1>8. N!NoUseAfterFree'
  <2>1. \A g \in freed : cb'[g] = cb[g] /\ ws'[g] = ws[g]
      BY <1>2, <1>3
  <2> QED
      BY <2>1, FreedFrame DEF OverlayInv, OverlayTypes
<1>9. HandlesOK'
  <2>1. ASSUME NEW g \in N!Hdl, g # h
        PROVE  HandleOK(g)'
    <3>1. HandleKept(g)
        BY <1>1, <1>3, <2>1 DEF HandleKept, Registered, Ended
    <3> QED
        BY <3>1, HandleFrame, HandlesAreOK, <2>1 DEF OverlayInv
  <2> QED
      BY <2>1, HandlesAreOK
<1>10. LiveOK'
  <2>1. ASSUME NEW i \in DOMAIN connections_
        PROVE  ConnKept(i)
      BY <1>1, <1>3, <1>4, <2>1 DEF ConnKept
  <2>2. ASSUME NEW i \in DOMAIN connections_', i = net_next_id_
        PROVE  AnswersOK(i)'
    <3>1. connections_'[i].received = 0 /\ connections_'[i].sent \in Nat
        BY <1>1, <2>2 DEF ConnectionRecord
    <3>2. \A g \in DOMAIN ping_age' : ping_age'[g] \in Nat
        BY DEF OverlayInv, OverlayTypes
    <3> QED
        BY <3>1, <3>2, FreshAnswers
  <2>3. \A g \in DOMAIN ping_age' : ping_age'[g] = ping_age[g] /\ ws'[g] = ws[g]
      BY <1>3 DEF OverlayInv, LiveOK, OverlayTypes, N!TypeOK
  <2> QED
      BY <1>1, <2>1, <2>2, <2>3, LiveFrame DEF OverlayInv
<1> QED
    BY <1>5, <1>6, <1>7, <1>8, <1>9, <1>10 DEF OverlayInv

LEMMA OpenStep ==
    ASSUME OverlayInv, NEW h \in N!Hdl, N!OnOpen(h)
    PROVE  OverlayInv'
<1>1. /\ loop' = loop /\ net_io' = net_io /\ silent' = silent /\ checked' = checked
      /\ ping_age' = ping_age /\ cb' = [cb EXCEPT ![h] = N!Idle] /\ cb[h].at = "open"
    BY DEF N!OnOpen, N!CallbackEnds, N!startVars, N!peerVars
<1>2. /\ OverlayTypes /\ N!MapsAgree /\ HandleOK(h)
      /\ cb = [g \in N!Hdl |-> cb[g]] /\ refused \subseteq N!Hdl /\ disconnects \in [N!Hdl -> Nat]
      /\ ping_age \in [DOMAIN ping_age -> 0 .. N!Old] /\ DOMAIN ping_age \subseteq N!Hdl
      /\ net_next_id_ \in Nat
      /\ connections_ = [i \in DOMAIN connections_ |-> connections_[i]]
      /\ connection_handles_ = [g \in DOMAIN connection_handles_ |-> connection_handles_[g]]
    BY HandlesAreOK DEF OverlayInv, OverlayTypes, N!TypeOK
<1>3. /\ ~Registered(h) /\ h \notin refused /\ h \notin DOMAIN delay_delete_conns_
      /\ disconnects[h] = 0 /\ h \in server_conns_ /\ ws[h] = "open" /\ h \in InHdl
    BY <1>1, <1>2 DEF HandleOK, NewOK, OverlayTypes, N!TypeOK
<1>4. /\ cb' = [g \in N!Hdl |-> cb'[g]] /\ cb'[h] = N!Idle /\ cb'[h].at = "idle"
      /\ \A g \in N!Hdl \ {h} : cb'[g] = cb[g]
      /\ \A g \in N!Hdl : cb'[g] = cb[g] \/ cb'[g] = N!Idle
    BY <1>1, <1>2 DEF N!Idle
<1>5. CASE N!AddConnection(h) /\ UNCHANGED <<N!adapterVars, connections_delete_, N!hookVars>>
  <2>1. /\ ws' = ws /\ closing_age' = closing_age /\ server_conns_' = server_conns_
        /\ client_conns_' = client_conns_ /\ hdl_to_ids_' = hdl_to_ids_
        /\ delay_delete_conns_' = delay_delete_conns_ /\ freed' = freed
        /\ refused' = refused /\ disconnects' = disconnects /\ N!AddConnection(h)
      BY <1>5 DEF N!adapterVars, N!hookVars
  <2>2. HandleOK(h)'
    <3>1. h \notin DOMAIN delay_delete_conns_'
        BY <1>3, <2>1
    <3> QED
        BY <1>2, <1>3, <1>4, <2>1, <3>1
           DEF HandleOK, NewOK, RegisteredOK, DelayedOK, CallbackOK
  <2>3. N!GetConnectFromHandle(h) /\ ws[h] \in {"none", "open"}
      BY <1>3 DEF N!GetConnectFromHandle
  <2> QED
      BY <1>1, <1>3, <1>4, <2>1, <2>2, <2>3, AddFrame
<1>6. CASE ~(N!AddConnection(h) /\ UNCHANGED <<N!adapterVars, connections_delete_, N!hookVars>>)
  <2>1. /\ N!Close({h}) /\ net_next_id_' = net_next_id_ + 1 /\ refused' = refused \cup {h}
        /\ connections_' = connections_ /\ connection_handles_' = connection_handles_
        /\ disconnects' = disconnects
      BY <1>6 DEF N!OnOpen
  <2>2. PICK S \in SUBSET N!Hdl : S = {h}
      OBVIOUS
  <2>3. ClosedOut(S)
    <3>1. N!Close(S)
        BY <2>1, <2>2 DEF N!Close
    <3>2. net_next_id_' \in Nat /\ net_next_id_ <= net_next_id_'
        BY <1>2, <2>1
    <3>3. \A i \in DOMAIN connections_ : connections_[i] \in ConnectionRecord
                                         /\ connections_[i].handle \notin S
        BY <1>2, <1>3, <2>2, ConnectionTypes, Unregistered
    <3>4. DOMAIN connection_handles_' = DOMAIN connection_handles_ \ S
        BY <1>3, <2>1, <2>2 DEF Registered
    <3>5. \A g \in N!Hdl \ S : cb'[g] = cb[g] /\ disconnects'[g] = disconnects[g]
                                /\ (g \in refused' <=> g \in refused)
        BY <1>4, <2>1, <2>2
    <3>6. /\ refused' \subseteq N!Hdl /\ disconnects' \in [N!Hdl -> Nat]
          /\ ping_age' \in [DOMAIN ping_age' -> 0 .. N!Old] /\ DOMAIN ping_age' \subseteq N!Hdl
        BY <1>1, <1>2, <2>1
    <3>7. /\ connections_' = [i \in DOMAIN connections_' |-> connections_'[i]]
          /\ DOMAIN connections_' = {i \in DOMAIN connections_ : connections_[i].handle \notin S}
          /\ \A i \in DOMAIN connections_' :
                /\ connections_'[i] \in ConnectionRecord
                /\ connections_'[i].handle = connections_[i].handle
                /\ connections_'[i].connected = connections_[i].connected
                /\ connections_'[i].received = connections_[i].received
        BY <1>2, <2>1, <3>3
    <3>8. /\ connection_handles_' =
                 [g \in DOMAIN connection_handles_' |-> connection_handles_'[g]]
          /\ \A g \in DOMAIN connection_handles_' : connection_handles_'[g] = connection_handles_[g]
        BY <1>2, <2>1
    <3>9. loop' = loop /\ net_io' = net_io /\ silent' = silent
        BY <1>1
    <3> QED
        BY <1>4, <3>1, <3>2, <3>4, <3>5, <3>6, <3>7, <3>8, <3>9 DEF ClosedOut
  <2>4. Closable(h)
      BY <1>3, <1>4, <2>1 DEF Closable
  <2>5. OverlayTypes' /\ ThreadsOK' /\ N!MapsAgree' /\ N!NoUseAfterFree' /\ HandlesOK'
      BY <2>2, <2>3, <2>4, CloseFrame
  <2>6. LiveOK'
    <3>1. \A g \in N!Hdl : ws'[g] = ws[g] \/ ws'[g] \in {"closing", "closed"}
        BY <1>2, <2>2, <2>3, CloseEffect DEF ClosedOut
    <3>2. \A i \in DOMAIN connections_' : ConnKept(i)
      <4>1. ASSUME NEW i \in DOMAIN connections_'
            PROVE  i \in DOMAIN connections_ /\ connections_[i].handle \in N!Hdl \ {h}
          BY <1>2, <1>3, <2>1, <4>1, ConnectionTypes, Unregistered
      <4> QED
          BY <1>1, <1>4, <2>1, <3>1, <4>1 DEF ConnKept
    <3>3. \A g \in DOMAIN ping_age' : ping_age'[g] = ping_age[g] /\ g \in N!Hdl
        BY <1>1, <1>2
    <3> QED
        BY <1>1, <3>1, <3>2, <3>3, LiveFrame DEF OverlayInv
  <2> QED
      BY <2>5, <2>6 DEF OverlayInv
<1> QED
    BY <1>5, <1>6

LEMMA ConnectAddStep ==
    ASSUME OverlayInv, NEW h \in N!Hdl, N!ConnectAdd(h)
    PROVE  OverlayInv'
<1>1. /\ h \in client_conns_ /\ ws[h] = "none" /\ N!AddConnection(h)
      /\ ws' = [ws EXCEPT ![h] = "connecting"]
      /\ closing_age' = closing_age /\ server_conns_' = server_conns_
      /\ client_conns_' = client_conns_ /\ hdl_to_ids_' = hdl_to_ids_
      /\ delay_delete_conns_' = delay_delete_conns_ /\ freed' = freed
      /\ loop' = loop /\ net_io' = net_io /\ checked' = checked
      /\ cb' = cb /\ silent' = silent /\ ping_age' = ping_age
      /\ disconnects' = disconnects /\ refused' = refused
    BY DEF N!ConnectAdd, N!ClientConnect, N!startVars, N!peerVars, N!hookVars
<1>2. HandleOK(h) /\ ws \in [N!Hdl -> N!WsStates] /\ client_conns_ \subseteq OutHdl
    BY HandlesAreOK DEF OverlayInv, OverlayTypes, N!TypeOK
<1>3. /\ ~Registered(h) /\ h \notin refused /\ h \notin DOMAIN delay_delete_conns_
      /\ disconnects[h] = 0 /\ cb[h] = N!Idle /\ cb[h].at = "idle" /\ h \notin InHdl
    BY <1>1, <1>2, Delays DEF HandleOK, NewOK, N!Idle
<1>4. N!GetConnectFromHandle(h) /\ ws[h] \in {"none", "open"} /\ cb'[h].at # "touch"
    BY <1>1, <1>3 DEF N!GetConnectFromHandle
<1>5. ws'[h] = "connecting"
    BY <1>1, <1>2
<1>6. connection_handles_'[h] = net_next_id_ /\ ~connections_'[net_next_id_].connected
  <2>1. N!AddConnection(h) /\ ~Registered(h)
      BY <1>1, <1>3
  <2>2. /\ connection_handles_'[h] = net_next_id_
        /\ connections_'[net_next_id_] = N!Connection(h)
        /\ N!Connection(h).connected <=> h \in InHdl
      BY <2>1, AddEffect
  <2> QED
      BY <1>3, <2>2
<1>7. HandleOK(h)'
    BY <1>1, <1>3, <1>5, <1>6 DEF HandleOK, NewOK, RegisteredOK, DelayedOK, CallbackOK
<1> QED
    BY <1>1, <1>3, <1>4, <1>7, AddFrame

-----------------------------------------------------------------------------
(* The loop checks, and time passes.                                       *)

\* Check: who sent nothing for the whole timeout goes, and who was not pinged for a quarter of
\* it is pinged.
LEMMA CheckStep ==
    ASSUME OverlayInv, N!Check
    PROVE  OverlayInv'
<1>1. /\ loop' = loop /\ net_io' = net_io /\ silent' = silent /\ cb' = cb /\ refused' = refused
      /\ checked' = TRUE /\ N!PingCustom
    BY DEF N!Check, N!startVars
<1>0. PICK conns, deleted, ids, S :
          /\ conns = [i \in DOMAIN connections_ |->
                         IF i \in N!Pinged THEN [connections_[i] EXCEPT !.sent = 0]
                                           ELSE connections_[i]]
          /\ deleted = N!Without(connections_delete_, N!DropDeleted)
          /\ ids = N!ExpiredIds /\ S = HandlesOfIds(ids)
    OBVIOUS
<1>2. N!RemoveConnections(conns, deleted, ids, S)
    BY <1>0 DEF N!Check, N!RemoveConnections, N!HandlesOf, HandlesOfIds
<1>3. /\ OverlayTypes /\ N!MapsAgree /\ LiveOK
      /\ cb = [g \in N!Hdl |-> cb[g]] /\ refused \subseteq N!Hdl /\ disconnects \in [N!Hdl -> Nat]
      /\ ping_age \in [DOMAIN ping_age -> 0 .. N!Old] /\ DOMAIN ping_age \subseteq N!Hdl
    BY DEF OverlayInv, OverlayTypes, N!TypeOK
<1>4. \A i \in DOMAIN connections_ :
         /\ connections_[i] \in ConnectionRecord /\ connections_[i].handle \in N!Hdl
         /\ connections_[i].sent \in Nat /\ connections_[i].received \in Nat
    BY <1>3, ConnectionTypes
<1>5. /\ DOMAIN conns = DOMAIN connections_
      /\ \A i \in DOMAIN connections_ :
            /\ conns[i] \in ConnectionRecord
            /\ conns[i].handle = connections_[i].handle
            /\ conns[i].connected = connections_[i].connected
            /\ conns[i].received = connections_[i].received
            /\ i \in N!Pinged => conns[i].sent = 0
            /\ i \notin N!Pinged => conns[i].sent = connections_[i].sent
  <2>1. 0 \in 0 .. N!Old
      BY Delays DEF N!Old
  <2>2. ASSUME NEW c \in ConnectionRecord, NEW s \in 0 .. N!Old
        PROVE  /\ [c EXCEPT !.sent = s] \in ConnectionRecord
               /\ [c EXCEPT !.sent = s].handle = c.handle
               /\ [c EXCEPT !.sent = s].connected = c.connected
               /\ [c EXCEPT !.sent = s].received = c.received
               /\ [c EXCEPT !.sent = s].sent = s
      BY DEF ConnectionRecord
  <2>3. ASSUME NEW i \in DOMAIN connections_
        PROVE  conns[i] = IF i \in N!Pinged THEN [connections_[i] EXCEPT !.sent = 0]
                                            ELSE connections_[i]
      BY <1>0
  <2> QED
      BY <1>0, <1>4, <2>1, <2>2, <2>3
<1>6. /\ ids \in SUBSET DOMAIN connections_
      /\ \A i \in ids : connections_[i].connected /\ connections_[i].received # 0
      /\ \A i \in DOMAIN connections_ \ ids :
            connections_[i].connected => connections_[i].received <= ConnectTimeOut
    BY <1>0, <1>4, Delays DEF N!ExpiredIds, N!IsDataExpired
<1>7. /\ DOMAIN ping_age' \subseteq N!Hdl /\ ping_age' \in [DOMAIN ping_age' -> 0 .. N!Old]
      /\ DOMAIN ping_age \subseteq DOMAIN ping_age'
      /\ \A h \in DOMAIN ping_age : ping_age'[h] = ping_age[h]
      /\ \A h \in DOMAIN ping_age' \ DOMAIN ping_age : ws[h] = "open" /\ ping_age'[h] = 0
      /\ \A i \in DOMAIN connections_ \ ids :
            i \in N!Pinged /\ ws[connections_[i].handle] = "open" =>
               connections_[i].handle \in DOMAIN ping_age'
  <2> DEFINE delivered == {h \in N!HandlesOf(N!Pinged \ N!ExpiredIds) : ws[h] = "open"}
  <2>1. /\ delivered \subseteq N!Hdl
        /\ \A i \in DOMAIN connections_ \ ids :
              i \in N!Pinged /\ ws[connections_[i].handle] = "open" =>
                 connections_[i].handle \in delivered
      BY <1>0, <1>4 DEF N!HandlesOf, N!Pinged
  <2>2. ping_age' = [h \in DOMAIN ping_age \cup delivered |->
                        IF h \in DOMAIN ping_age THEN ping_age[h] ELSE 0]
      BY <1>1 DEF N!PingCustom
  <2>3. \A h \in delivered : ws[h] = "open"
      OBVIOUS
  <2>4. 0 \in 0 .. N!Old
      BY Delays DEF N!Old
  <2> HIDE DEF delivered
  <2> QED
      BY <1>3, <2>1, <2>2, <2>3, <2>4
<1>8. S \in SUBSET N!Hdl /\ S = HandlesOfIds(ids)
    BY <1>0, <1>4, <1>6 DEF HandlesOfIds
<1>9. RemovesFrom(conns, S)
    BY <1>1, <1>3, <1>5, <1>7 DEF RemovesFrom
<1>10. /\ ClosedOut(S)
       /\ \A i \in DOMAIN connections_' : i \in DOMAIN connections_ \ ids /\ connections_'[i] = conns[i]
       /\ \A h \in S : disconnects'[h] = disconnects[h] + 1
  <2>1. PICK told \in SUBSET S : told = S
      OBVIOUS
  <2>2. N!RemoveConnections(conns, deleted, ids, told)
      BY <1>2, <2>1
  <2>3. /\ ClosedOut(S)
        /\ \A i \in DOMAIN connections_' : i \in DOMAIN connections_ \ ids /\ connections_'[i] = conns[i]
        /\ \A h \in S : disconnects'[h] = disconnects[h] + IF h \in told THEN 1 ELSE 0
      BY <1>6, <1>8, <1>9, <2>2, RemoveClosed
  <2> QED
      BY <2>1, <2>3
<1>11. \A h \in S : Closable(h)
  <2>1. ASSUME NEW h \in S
        PROVE  Closable(h)
    <3>1. PICK i \in ids : connections_[i].handle = h
        BY <1>8 DEF HandlesOfIds
    <3>2. /\ h \in N!Hdl /\ HandleOK(h) /\ Registered(h) /\ connection_handles_[h] = i
          /\ i \in DOMAIN connections_
        BY <1>3, <1>6, <1>8, <3>1, KnownRegistered, HandlesAreOK DEF OverlayInv
    <3>3. connections_[i].connected /\ connections_[i].received # 0
        BY <1>6
    <3>4. cb[h].at \notin {"proc", "disconnect", "remove"}
        BY <1>3, <3>2, <3>3, KnownRegistered DEF HandleOK, CallbackOK
    <3>5. /\ ws[h] \in {"open", "closed"} /\ h \notin DOMAIN delay_delete_conns_
          /\ disconnects[h] = 0 /\ h \notin refused /\ cb[h].at # "open"
        BY <3>2, <3>3, <3>4 DEF HandleOK, RegisteredOK, NewOK
    <3> QED
        BY <1>1, <1>10, <3>4, <3>5 DEF Closable
  <2> QED
      BY <2>1
<1>12. OverlayTypes' /\ ThreadsOK' /\ N!MapsAgree' /\ N!NoUseAfterFree' /\ HandlesOK'
    BY <1>8, <1>10, <1>11, CloseFrame
<1>13. \A g \in N!Hdl : ws'[g] = ws[g] \/ ws'[g] \in {"closing", "closed"}
    BY <1>3, <1>8, <1>10, CloseEffect DEF ClosedOut
<1>14. LiveOK'
  <2>1. ASSUME NEW i \in DOMAIN connections_', LiveConn(i)'
        PROVE  AnswersOK(i)'
    <3> DEFINE h == connections_[i].handle
    <3>1. /\ i \in DOMAIN connections_ \ ids /\ connections_'[i] = conns[i]
          /\ connections_'[i].handle = h /\ h \in N!Hdl
          /\ connections_'[i].received = connections_[i].received
          /\ connections_'[i].connected = connections_[i].connected
          /\ connections_[i].received \in Nat /\ connections_[i].sent \in Nat
        BY <1>4, <1>5, <1>10
    <3>2. ws[h] = "open" /\ h \notin silent /\ connections_[i].connected
        BY <1>1, <1>13, <2>1, <3>1 DEF LiveConn
    <3>3. AnswersOK(i)
        BY <1>3, <3>1, <3>2 DEF LiveOK, LiveConn
    <3>4. CASE h \in DOMAIN ping_age'
      <4>1. h \in DOMAIN ping_age => ping_age'[h] = ping_age[h] /\ ping_age[h] \in Nat
          BY <1>3, <1>7
      <4>2. h \notin DOMAIN ping_age => ping_age'[h] = 0
          BY <1>7, <3>4
      <4> QED
          BY <1>1, <3>1, <3>3, <3>4, <4>1, <4>2, Delays DEF AnswersOK
    <3>5. CASE h \notin DOMAIN ping_age'
      <4>1. h \notin DOMAIN ping_age /\ i \notin N!Pinged
          BY <1>7, <3>1, <3>2, <3>5
      <4>2. connections_'[i].sent = connections_[i].sent
          BY <1>5, <3>1, <4>1
      <4>3. connections_[i].sent <= Quarter
          BY <3>1, <3>2, <4>1, Delays DEF N!Pinged, N!NeedPing, Quarter
      <4> QED
          BY <1>1, <3>1, <3>3, <3>5, <4>1, <4>2, <4>3, Delays DEF AnswersOK
    <3> QED
        BY <3>4, <3>5
  <2>2. ASSUME NEW h \in DOMAIN ping_age'
        PROVE  /\ ws'[h] \notin {"none", "connecting"}
               /\ ws'[h] = "open" /\ h \notin silent' => ping_age'[h] <= PeerLatency
    <3>1. h \in N!Hdl /\ (ws'[h] = ws[h] \/ ws'[h] \in {"closing", "closed"})
        BY <1>7, <1>13
    <3>2. CASE h \in DOMAIN ping_age
        BY <1>1, <1>3, <1>7, <3>1, <3>2 DEF LiveOK
    <3>3. CASE h \notin DOMAIN ping_age
        BY <1>7, <3>1, <3>3, Delays
    <3> QED
        BY <3>2, <3>3
  <2> QED
      BY <2>1, <2>2 DEF LiveOK
<1> QED
    BY <1>12, <1>14 DEF OverlayInv

LEMMA AgedOne ==
    ASSUME NEW a \in 0 .. N!Old
    PROVE  /\ N!Aged(a) \in 0 .. N!Old /\ N!Aged(a) \in Nat /\ N!Aged(a) <= a + 1 /\ a \in Nat
           /\ a <= ConnectTimeOut => N!Aged(a) = a + 1
BY Delays DEF N!Aged, N!Old

LEMMA AgedOrder ==
    ASSUME NEW a \in 0 .. N!Old, NEW b \in 0 .. N!Old, a <= b
    PROVE  N!Aged(a) <= N!Aged(b)
BY Delays DEF N!Aged, N!Old

\* Tick: no callback is in progress, and a living peer that was pinged has time left.
LEMMA TickStep ==
    ASSUME OverlayInv, N!Tick
    PROVE  OverlayInv'
<1>1. /\ net_io # "down"
      /\ loop = "run" => checked
      /\ \A h \in N!Hdl : cb[h] = N!Idle
      /\ \A h \in DOMAIN ping_age : ws[h] = "open" /\ h \notin silent => ping_age[h] < PeerLatency
      /\ \A h \in N!Hdl : ws[h] = "closing" => closing_age[h] < CloseTimeout
      /\ closing_age' = [h \in N!Hdl |-> IF ws[h] = "closing" THEN closing_age[h] + 1 ELSE 0]
      /\ delay_delete_conns_' =
             [h \in DOMAIN delay_delete_conns_ |-> delay_delete_conns_[h] + 1]
      /\ ws' = ws /\ server_conns_' = server_conns_ /\ client_conns_' = client_conns_
      /\ hdl_to_ids_' = hdl_to_ids_ /\ freed' = freed /\ loop' = loop /\ net_io' = net_io
      /\ checked' = FALSE
      /\ net_next_id_' = net_next_id_ /\ connection_handles_' = connection_handles_
      /\ cb' = cb /\ silent' = silent /\ disconnects' = disconnects /\ refused' = refused
    BY DEF N!Tick, N!MayTick, N!AdapterMayTick, N!AdapterTick, N!startVars, N!hookVars
<1>0. /\ connections_' = [i \in DOMAIN connections_ |->
                             [connections_[i] EXCEPT !.received = N!Aged(@), !.sent = N!Aged(@)]]
      /\ ping_age' = [h \in DOMAIN ping_age |-> N!Aged(ping_age[h])]
    BY DEF N!Tick
<1>2. /\ OverlayTypes /\ N!MapsAgree /\ LiveOK
      /\ closing_age \in [N!Hdl -> Nat] /\ ws \in [N!Hdl -> N!WsStates]
      /\ delay_delete_conns_ \in [DOMAIN delay_delete_conns_ -> Nat]
      /\ DOMAIN delay_delete_conns_ \subseteq N!Hdl
      /\ ping_age \in [DOMAIN ping_age -> 0 .. N!Old] /\ DOMAIN ping_age \subseteq N!Hdl
    BY DEF OverlayInv, OverlayTypes, N!TypeOK
<1>3. \A i \in DOMAIN connections_ :
         /\ connections_[i] \in ConnectionRecord /\ connections_[i].handle \in N!Hdl
         /\ connections_[i].sent \in 0 .. N!Old /\ connections_[i].received \in 0 .. N!Old
    BY <1>2, ConnectionTypes DEF ConnectionRecord
<1>4. /\ DOMAIN connections_' = DOMAIN connections_
      /\ connections_' = [i \in DOMAIN connections_' |-> connections_'[i]]
      /\ \A i \in DOMAIN connections_ :
            /\ connections_'[i] \in ConnectionRecord
            /\ connections_'[i].handle = connections_[i].handle
            /\ connections_'[i].connected = connections_[i].connected
            /\ connections_'[i].received = N!Aged(connections_[i].received)
            /\ connections_'[i].sent = N!Aged(connections_[i].sent)
  <2>2. ASSUME NEW i \in DOMAIN connections_
        PROVE  connections_'[i] = [connections_[i] EXCEPT
                                      !.received = N!Aged(connections_[i].received),
                                      !.sent = N!Aged(connections_[i].sent)]
      BY <1>0
  <2>3. DOMAIN connections_' = DOMAIN connections_
        /\ connections_' = [i \in DOMAIN connections_' |-> connections_'[i]]
      BY <1>0
  <2>4. ASSUME NEW i \in DOMAIN connections_
        PROVE  /\ connections_'[i] \in ConnectionRecord
               /\ connections_'[i].handle = connections_[i].handle
               /\ connections_'[i].connected = connections_[i].connected
               /\ connections_'[i].received = N!Aged(connections_[i].received)
               /\ connections_'[i].sent = N!Aged(connections_[i].sent)
    <3>1. N!Aged(connections_[i].received) \in 0 .. N!Old /\ N!Aged(connections_[i].sent) \in 0 .. N!Old
        BY <1>3, AgedOne, Zenon
    <3>2. PICK r \in 0 .. N!Old, t \in 0 .. N!Old : r = N!Aged(connections_[i].received)
                                                   /\ t = N!Aged(connections_[i].sent)
        BY <3>1, Zenon
    <3>3. connections_'[i] = [connections_[i] EXCEPT !.received = r, !.sent = t]
        BY <2>2, <3>2, Zenon
    <3>4. /\ connections_'[i] \in ConnectionRecord
          /\ connections_'[i].handle = connections_[i].handle
          /\ connections_'[i].connected = connections_[i].connected
          /\ connections_'[i].received = r /\ connections_'[i].sent = t
      <4>1. PICK c \in ConnectionRecord : c = connections_[i]
          BY <1>3
      <4>2. connections_'[i] = [c EXCEPT !.received = r, !.sent = t]
          BY <3>3, <4>1, Zenon
      <4>3. PICK d : d = connections_'[i]
          OBVIOUS
      <4>4. d = [c EXCEPT !.received = r, !.sent = t]
          BY <4>2, <4>3
      <4>5. /\ d \in ConnectionRecord /\ d.handle = c.handle /\ d.connected = c.connected
            /\ d.received = r /\ d.sent = t
          BY <4>4 DEF ConnectionRecord
      <4> QED
          BY <4>1, <4>3, <4>5
    <3> QED
        BY <3>2, <3>4
  <2> QED
      BY <2>3, <2>4, Zenon
<1>5. /\ closing_age' \in [N!Hdl -> Nat]
      /\ \A h \in N!Hdl : closing_age'[h] = IF ws[h] = "closing" THEN closing_age[h] + 1 ELSE 0
      /\ DOMAIN delay_delete_conns_' = DOMAIN delay_delete_conns_
      /\ delay_delete_conns_' \in [DOMAIN delay_delete_conns_' -> Nat]
      /\ \A h \in DOMAIN delay_delete_conns_ : delay_delete_conns_'[h] = delay_delete_conns_[h] + 1
      /\ DOMAIN ping_age' = DOMAIN ping_age
      /\ ping_age' \in [DOMAIN ping_age' -> 0 .. N!Old]
      /\ \A h \in DOMAIN ping_age : ping_age'[h] = N!Aged(ping_age[h])
  <2>1. ASSUME NEW h \in DOMAIN ping_age
        PROVE  N!Aged(ping_age[h]) \in 0 .. N!Old
    <3>1. ping_age[h] \in 0 .. N!Old
        BY <1>2
    <3> QED
        BY <3>1, AgedOne, Zenon
  <2>2. /\ DOMAIN ping_age' = DOMAIN ping_age
        /\ ping_age' \in [DOMAIN ping_age' -> 0 .. N!Old]
        /\ \A h \in DOMAIN ping_age : ping_age'[h] = N!Aged(ping_age[h])
      BY <1>0, <2>1, Zenon
  <2>3. /\ closing_age' \in [N!Hdl -> Nat]
        /\ \A h \in N!Hdl : closing_age'[h] = IF ws[h] = "closing" THEN closing_age[h] + 1 ELSE 0
        /\ DOMAIN delay_delete_conns_' = DOMAIN delay_delete_conns_
        /\ delay_delete_conns_' \in [DOMAIN delay_delete_conns_' -> Nat]
        /\ \A h \in DOMAIN delay_delete_conns_ : delay_delete_conns_'[h] = delay_delete_conns_[h] + 1
      BY <1>1, <1>2
  <2> QED
      BY <2>2, <2>3
<1>6. OverlayTypes'
    BY <1>1, <1>4, <1>5 DEF OverlayInv, OverlayTypes, N!TypeOK, ConnectionRecord
<1>7. ThreadsOK'
    BY <1>1 DEF OverlayInv, ThreadsOK
<1>8. N!MapsAgree'
    BY <1>1, <1>4, MapsFrame DEF OverlayInv
<1>9. N!NoUseAfterFree'
    BY <1>1, FreedFrame DEF OverlayInv, OverlayTypes
<1>10. HandlesOK'
  <2>1. ASSUME NEW h \in N!Hdl
        PROVE  HandleOK(h)'
    <3>1. HandleOK(h) /\ cb[h] = N!Idle /\ cb[h].at = "idle"
        BY <1>1, HandlesAreOK DEF OverlayInv, N!Idle
    <3>2. NewOK(h)' /\ CallbackOK(h)'
        BY <1>1, <1>5, <3>1 DEF HandleOK, NewOK, CallbackOK, Registered, Ended
    <3>3. RegisteredOK(h)'
        BY <1>1, <1>2, <1>4, <1>5, <3>1, KnownRegistered DEF HandleOK, RegisteredOK, Registered
    <3>4. DelayedOK(h)'
      <4>1. closing_age[h] \in Nat /\ (h \in DOMAIN delay_delete_conns_ => delay_delete_conns_[h] \in Nat)
          BY <1>2
      <4> QED
          BY <1>1, <1>5, <3>1, <4>1, Delays DEF HandleOK, DelayedOK, Conns
    <3> QED
        BY <3>2, <3>3, <3>4 DEF HandleOK
  <2> QED
      BY <2>1, HandlesAreOK
<1>11. LiveOK'
  <2>1. ASSUME NEW i \in DOMAIN connections_', LiveConn(i)'
        PROVE  AnswersOK(i)'
    <3> DEFINE h == connections_[i].handle
               r == connections_[i].received
               s == connections_[i].sent
               ra == N!Aged(r)
               sa == N!Aged(s)
    <3>1. /\ i \in DOMAIN connections_ /\ h \in N!Hdl /\ r \in 0 .. N!Old /\ s \in 0 .. N!Old
          /\ connections_'[i].handle = h /\ connections_'[i].received = N!Aged(r)
          /\ connections_'[i].sent = N!Aged(s)
          /\ connections_'[i].connected = connections_[i].connected
        BY <1>3, <1>4
    <3>2. ws[h] = "open" /\ h \notin silent /\ LiveConn(i)
        BY <1>1, <2>1, <3>1 DEF LiveConn
    <3>3. checked /\ cb[h].at # "touch"
      <4>1. net_io \in {"none", "up", "down"} /\ cb[h] = N!Idle
          BY <1>1, <1>2, <3>1 DEF OverlayTypes, N!TypeOK
      <4>2. net_io # "none"
          BY <3>1, <3>2 DEF OverlayInv, ThreadsOK
      <4>3. loop = "run"
          BY <1>1, <4>1, <4>2 DEF OverlayInv, ThreadsOK
      <4> QED
          BY <1>1, <4>1, <4>3 DEF N!Idle
    <3>4. IF h \in DOMAIN ping_age THEN r <= Quarter + 1 + ping_age[h]
          ELSE r <= Quarter /\ r <= s
        BY <1>2, <3>1, <3>2, <3>3, Delays DEF LiveOK, AnswersOK
    <3>9. ra \in Nat /\ ra <= r + 1 /\ r \in Nat /\ (r <= s => ra <= sa)
        BY <3>1, AgedOne, AgedOrder, Zenon
    <3>10. connections_'[i].received = ra /\ connections_'[i].sent = sa
        BY <3>1
    <3> HIDE DEF ra, sa
    <3>5. CASE h \in DOMAIN ping_age
      <4>1. ping_age[h] < PeerLatency /\ ping_age[h] \in Nat /\ ping_age[h] <= ConnectTimeOut
          BY <1>1, <1>2, <3>2, <3>5, Delays
      <4>2. ping_age'[h] = ping_age[h] + 1
        <5>1. ping_age[h] \in 0 .. N!Old
            BY <1>2, <3>5
        <5>2. ping_age'[h] = N!Aged(ping_age[h])
            BY <1>5, <3>5
        <5> QED
            BY <4>1, <5>1, <5>2, AgedOne, Zenon
      <4>3. ra <= Quarter + 1 + (ping_age[h] + 1) /\ ra <= Quarter + 1 + PeerLatency
          BY <3>4, <3>5, <3>9, <4>1, Delays
      <4>4. h \in DOMAIN ping_age'
          BY <1>5, <3>5
      <4> QED
          BY <3>1, <3>10, <4>2, <4>3, <4>4 DEF AnswersOK
    <3>6. CASE h \notin DOMAIN ping_age
      <4>1. ra <= Quarter + 1 /\ ra <= Quarter + 1 + PeerLatency /\ ra <= sa
          BY <3>4, <3>6, <3>9, Delays
      <4>2. h \notin DOMAIN ping_age'
          BY <1>5, <3>6
      <4> QED
          BY <1>1, <3>1, <3>10, <4>1, <4>2 DEF AnswersOK
    <3> QED
        BY <3>5, <3>6
  <2>2. ASSUME NEW h \in DOMAIN ping_age'
        PROVE  /\ ws'[h] \notin {"none", "connecting"}
               /\ ws'[h] = "open" /\ h \notin silent' => ping_age'[h] <= PeerLatency
    <3>1. h \in DOMAIN ping_age /\ ping_age[h] \in 0 .. N!Old
        BY <1>2, <1>5
    <3> DEFINE p == ping_age[h]
               pa == N!Aged(p)
    <3>2. pa <= p + 1 /\ pa \in Nat /\ p \in Nat
        BY <3>1, AgedOne, Zenon
    <3>3. ping_age'[h] = pa
        BY <1>5, <3>1
    <3> HIDE DEF pa
    <3>4. ws[h] = "open" /\ h \notin silent => pa <= PeerLatency
        BY <1>1, <3>1, <3>2, Delays
    <3> QED
        BY <1>1, <1>2, <3>1, <3>3, <3>4 DEF LiveOK
  <2> QED
      BY <2>1, <2>2 DEF LiveOK
<1> QED
    BY <1>6, <1>7, <1>8, <1>9, <1>10, <1>11 DEF OverlayInv

-----------------------------------------------------------------------------
(* Theorems.                                                               *)

LEMMA OverlayInit ==
    ASSUME N!Init
    PROVE  OverlayInv
<1>1. /\ ws = [h \in N!Hdl |-> "none"] /\ closing_age = [h \in N!Hdl |-> 0]
      /\ server_conns_ = {} /\ client_conns_ = {} /\ hdl_to_ids_ = {}
      /\ delay_delete_conns_ = [h \in {} |-> 0] /\ freed = {}
      /\ loop = "init" /\ net_io = "none" /\ net_next_id_ = 0
      /\ connections_ = [i \in {} |-> 0] /\ connection_handles_ = [h \in {} |-> 0]
      /\ cb = [h \in N!Hdl |-> N!Idle] /\ silent = {} /\ ping_age = [h \in {} |-> 0]
      /\ disconnects = [h \in N!Hdl |-> 0] /\ refused = {}
    BY DEF N!Init, N!AdapterInit
<1>2. OverlayTypes
    BY <1>1 DEF OverlayTypes, N!TypeOK, N!WsStates
<1>3. ThreadsOK
    BY <1>1 DEF ThreadsOK
<1>4. N!MapsAgree /\ N!NoUseAfterFree /\ LiveOK
    BY <1>1 DEF N!MapsAgree, N!NoUseAfterFree, LiveOK
<1>5. HandlesOK
    BY <1>1 DEF HandlesOK, NewOK, RegisteredOK, DelayedOK, CallbackOK, Registered, N!Idle
<1> QED
    BY <1>2, <1>3, <1>4, <1>5 DEF OverlayInv

LEMMA OverlayStutter ==
    ASSUME OverlayInv, UNCHANGED N!vars
    PROVE  OverlayInv'
<1>1. UNCHANGED networkVars
    BY DEF N!vars, N!adapterVars, N!startVars, N!connVars, N!peerVars, N!hookVars, networkVars
<1>2. OverlayTypes' /\ ThreadsOK'
    BY <1>1 DEF OverlayInv, networkVars, OverlayTypes, N!TypeOK, ThreadsOK
<1>3. N!MapsAgree' /\ N!NoUseAfterFree'
    BY <1>1, MapsFrame, FreedFrame DEF OverlayInv, OverlayTypes, networkVars
<1>4. HandlesOK'
    BY <1>1, AllHandlesKept DEF OverlayInv, networkVars, HandleKept, Registered, Ended
<1>5. LiveOK'
    BY <1>1 DEF OverlayInv, networkVars, LiveOK, LiveConn, AnswersOK, Quarter
<1> QED
    BY <1>2, <1>3, <1>4, <1>5 DEF OverlayInv

LEMMA OverlayStep ==
    ASSUME OverlayInv, [N!Next]_(N!vars)
    PROVE  OverlayInv'
<1>1. ASSUME NEW h \in N!Hdl, N!Callback(h)
      PROVE  OverlayInv'
    BY <1>1, OpenStep, ClientOpenStep, CloseStep, PongTouchStep, MessageTouchStep, MessageProcStep,
       MessageDisconnectStep, MessageRemoveStep DEF N!Callback
<1>2. ASSUME NEW h \in N!Hdl, NEW kind \in N!Kinds, N!Receive(h, kind)
      PROVE  OverlayInv'
    BY <1>2, ReceiveStep
<1>3. ASSUME NEW h \in N!Hdl,
             \/ N!AcceptOpen(h) \/ N!ConnectOpens(h) \/ N!ConnectFails(h) \/ N!PeerCloses(h)
             \/ N!PeerFallsSilent(h) \/ N!OnPong(h) \/ N!ConnectGet(h) \/ N!ConnectAdd(h)
      PROVE  OverlayInv'
    BY <1>3, AcceptOpenStep, LinkSteps, SilentStep, PongStep, ConnectGetStep, ConnectAddStep
<1>4. CASE N!Start \/ N!Stop \/ N!LoopEnds
    BY <1>4, LoopSteps
<1>5. CASE N!Check \/ N!Destroy \/ N!OnTimer \/ N!Tick
    BY <1>5, CheckStep, DestroyStep, TimerStep, TickStep
<1>6. CASE UNCHANGED N!vars
    BY <1>6, OverlayStutter
<1> QED
    BY <1>1, <1>2, <1>3, <1>4, <1>5, <1>6 DEF N!Next

\* A connection that went away was reported once, or refused.
LEMMA OverlayDisconnects ==
    ASSUME OverlayInv
    PROVE  N!DisconnectedOnce
<1>1. ASSUME NEW h \in N!Hdl
      PROVE  /\ disconnects[h] <= 1
             /\ h \in DOMAIN delay_delete_conns_ => (disconnects[h] = 1 <=> h \notin refused)
             /\ N!Known(h) /\ cb[h].at # "remove" => disconnects[h] = 0
  <2>1. HandleOK(h) /\ (N!Known(h) <=> Registered(h))
      BY HandlesAreOK, KnownRegistered DEF OverlayInv
  <2> QED
      BY <2>1 DEF HandleOK, DelayedOK, RegisteredOK
<1> QED
    BY <1>1 DEF N!DisconnectedOnce

\* A quarter of the timeout, a tick and the time to answer are less than the timeout.
LEMMA OverlayLive ==
    ASSUME OverlayInv
    PROVE  LivePeerKept
<1>1. ASSUME NEW i \in DOMAIN connections_,
             ws[connections_[i].handle] = "open", connections_[i].handle \notin silent
      PROVE  ~N!IsDataExpired(connections_[i], ConnectTimeOut)
  <2>1. connections_[i].received \in Nat
      BY ConnectionTypes DEF OverlayInv
  <2>2. connections_[i].connected => connections_[i].received <= Quarter + 1 + PeerLatency
      BY <1>1 DEF OverlayInv, LiveOK, LiveConn, AnswersOK
  <2> QED
      BY <2>1, <2>2, Delays DEF N!IsDataExpired
<1> QED
    BY <1>1 DEF LivePeerKept, N!LivePeerKept

THEOREM OverlayInvariant == N!Spec => []OverlayInv
<1>1. N!Init => OverlayInv
    BY OverlayInit
<1>2. OverlayInv /\ [N!Next]_(N!vars) => OverlayInv'
    BY OverlayStep
<1> QED
    BY <1>1, <1>2, PTL DEF N!Spec

\* The overlay network releases each connection once, uses it only before, and reports the end
\* of each that was not refused once (common/network.cpp, common/network_adapter.cpp), for any
\* number of connections, delays and interleaving of the io threads, the loop and the timer.
THEOREM ConnectionsReleasedOnce == N!Spec => []ConnectionReleasedOnce
<1>1. OverlayInv => ConnectionReleasedOnce
    BY OverlayDisconnects DEF OverlayInv, OverlayTypes, ConnectionReleasedOnce
<1> QED
    BY <1>1, OverlayInvariant, PTL

\* Network::Start's loop never takes a peer that answers its pings for dead, whatever the
\* timeout and the latency, as long as a quarter of the timeout and the latency, a tick more,
\* fit into the timeout.
THEOREM LivePeersKept == N!Spec => []LivePeerKept
<1>1. OverlayInv => LivePeerKept
    BY OverlayLive
<1> QED
    BY <1>1, OverlayInvariant, PTL
=============================================================================
