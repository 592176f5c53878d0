--------------------------- MODULE NetworkAdapter ---------------------------
(***************************************************************************)
(* WssSocketServer and WssSocketClient of common/network_adapter.cpp over  *)
(* websocketpp.  A handle stands for a websocketpp connection and for the  *)
(* id of the WssConnection made for it (g_id never repeats).  Both classes *)
(* guard their maps by one lock_ that no callback is made under, so each   *)
(* critical section is one step.                                           *)
(*                                                                         *)
(* Time is kept as ages that a Tick of the composing module advances: the  *)
(* age of an entry of a delay_delete map is the time since it was put in.  *)
(***************************************************************************)
EXTENDS Naturals, FiniteSets

CONSTANTS
    InHdl,              \* connections that peers open to the server
    OutHdl,             \* connections that Network::Connect opens
    ServerDeleteDelay,  \* 15 s of WssSocketServer::Close, in ticks
    ClientDeleteDelay,  \* 300 s of WssSocketClient::Close, in ticks
    CloseTimeout        \* websocketpp's limit for a closing handshake, in ticks

\* What the constants have to satisfy.
DelaysOK ==
    /\ InHdl \cap OutHdl = {}
    /\ ServerDeleteDelay \in Nat
    /\ ClientDeleteDelay \in Nat
    /\ CloseTimeout \in Nat
    /\ CloseTimeout < ClientDeleteDelay

VARIABLES
    ws,                 \* state of each websocketpp connection
    closing_age,        \* ticks since a closing handshake began
    server_conns_,      \* handles the server finds
    client_conns_,      \* handles the client finds
    hdl_to_ids_,        \* server connections whose callbacks find an id
    delay_delete_conns_,\* handle -> age, the two delay_delete maps
    freed               \* handles whose WssConnection was deleted

Hdl == InHdl \cup OutHdl

WsStates == {"none", "connecting", "open", "closing", "closed"}

(***************************************************************************)
(* A websocketpp connection leaves none of these states backwards; close() *)
(* starts a handshake on an open one and fails on any other.               *)
(***************************************************************************)
WsClose(S) ==
    /\ ws' = [h \in Hdl |-> IF h \in S /\ ws[h] = "open" THEN "closing" ELSE ws[h]]
    /\ closing_age' =
           [h \in Hdl |-> IF h \in S /\ ws[h] = "open" THEN 0 ELSE closing_age[h]]

(***************************************************************************)
(* The delay_delete maps are keyed by a microsecond: of two connections    *)
(* closed in the same one, by the same class, the second is not inserted   *)
(* and will never be deleted.  Inserted(S) is what may get in.             *)
(***************************************************************************)
SameClass(g, h) == (g \in InHdl) <=> (h \in InHdl)

Fresh == {h \in DOMAIN delay_delete_conns_ : delay_delete_conns_[h] = 0}

Inserted(S) ==
    {K \in SUBSET S : \A d \in S \ K : \E e \in K \cup Fresh : SameClass(d, e)}

DelayDelete(S) ==
    \E K \in Inserted(S) :
        delay_delete_conns_' =
            [h \in DOMAIN delay_delete_conns_ \cup K |->
                 IF h \in K THEN 0 ELSE delay_delete_conns_[h]]

\* Close of the handles of S that a class still finds.
ServerClose(S) == server_conns_' = server_conns_ \ S

ClientClose(S) == client_conns_' = client_conns_ \ S

Close(S) ==
    LET found == S \cap (server_conns_ \cup client_conns_)
    IN  /\ WsClose(found)
        /\ DelayDelete(found)
        /\ ServerClose(S)
        /\ ClientClose(S)
        /\ UNCHANGED <<hdl_to_ids_, freed>>

GetConnectFromHandle(h) ==
    IF h \in InHdl THEN h \in server_conns_ ELSE h \in client_conns_

(***************************************************************************)
(* Send, with the three tries of Connection::SendByteMessage: an unknown   *)
(* handle leaves the code at 0 and counts as sent; websocketpp refuses a   *)
(* connection that is not open.                                            *)
(***************************************************************************)
SendSucceeds(h) == GetConnectFromHandle(h) => ws[h] = "open"

\* WssSocketServer::OnOpen up to open_handle_.
ServerOnOpen(h) ==
    /\ ws' = [ws EXCEPT ![h] = "open"]
    /\ hdl_to_ids_' = hdl_to_ids_ \cup {h}
    /\ server_conns_' = server_conns_ \cup {h}
    /\ UNCHANGED <<closing_age, client_conns_, delay_delete_conns_, freed>>

\* get_con_from_hdl fails: the peer is gone and nobody hears of it.
ServerOnOpenGone(h) ==
    /\ ws' = [ws EXCEPT ![h] = "closed"]
    /\ UNCHANGED <<closing_age, hdl_to_ids_, server_conns_, client_conns_,
                   delay_delete_conns_, freed>>

\* Does a callback of websocketpp for h reach the Network?
ServerHandle(h) == h \in hdl_to_ids_

ClientHandle(h) == h \in OutHdl

Reaches(h) == ServerHandle(h) \/ ClientHandle(h)

\* WssSocketClient::GetConnect.
GetConnect(h) ==
    /\ client_conns_' = client_conns_ \cup {h}
    /\ UNCHANGED <<ws, closing_age, server_conns_, hdl_to_ids_,
                   delay_delete_conns_, freed>>

\* WssSocketClient::Connect.
ClientConnect(h) ==
    /\ ws' = [ws EXCEPT ![h] = IF h \in client_conns_ THEN "connecting" ELSE @]
    /\ UNCHANGED <<closing_age, server_conns_, client_conns_, hdl_to_ids_,
                   delay_delete_conns_, freed>>

\* websocketpp changes the state of h and calls a handler.
WsBecomes(h, s) ==
    /\ ws' = [ws EXCEPT ![h] = s]
    /\ UNCHANGED <<closing_age, server_conns_, client_conns_, hdl_to_ids_,
                   delay_delete_conns_, freed>>

(***************************************************************************)
(* OnTimer of the two classes, called every 2 s by the main thread.        *)
(***************************************************************************)
ServerExpired ==
    {h \in DOMAIN delay_delete_conns_ \cap InHdl :
         delay_delete_conns_[h] > ServerDeleteDelay}

\* Mutant: the connection is deleted by the next timer.
ClientExpiredAtOnce == DOMAIN delay_delete_conns_ \cap OutHdl

ClientExpired ==
    {h \in DOMAIN delay_delete_conns_ \cap OutHdl :
         delay_delete_conns_[h] > ClientDeleteDelay}

AdapterOnTimer ==
    LET expired == ServerExpired \cup ClientExpired
    IN  /\ expired # {}
        /\ freed' = freed \cup expired
        /\ delay_delete_conns_' =
               [h \in DOMAIN delay_delete_conns_ \ expired |-> delay_delete_conns_[h]]
        /\ UNCHANGED <<ws, closing_age, server_conns_, client_conns_, hdl_to_ids_>>

\* The destructors delete what the maps still hold.
AdapterDestroy ==
    /\ freed' = freed \cup server_conns_ \cup client_conns_ \cup DOMAIN delay_delete_conns_
    /\ server_conns_' = {} /\ client_conns_' = {}
    /\ delay_delete_conns_' = [h \in {} |-> 0]
    /\ UNCHANGED <<ws, closing_age, hdl_to_ids_>>

\* websocketpp ends a closing handshake in time, and the 2 s timer is alive.
AdapterMayTick ==
    /\ \A h \in Hdl : ws[h] = "closing" => closing_age[h] < CloseTimeout
    /\ ServerExpired \cup ClientExpired = {}

AdapterTick ==
    /\ closing_age' = [h \in Hdl |-> IF ws[h] = "closing" THEN closing_age[h] + 1 ELSE 0]
    /\ delay_delete_conns_' =
           [h \in DOMAIN delay_delete_conns_ |-> delay_delete_conns_[h] + 1]
    /\ UNCHANGED <<ws, server_conns_, client_conns_, hdl_to_ids_, freed>>

AdapterInit ==
    /\ ws = [h \in Hdl |-> "none"]
    /\ closing_age = [h \in Hdl |-> 0]
    /\ server_conns_ = {}
    /\ client_conns_ = {}
    /\ hdl_to_ids_ = {}
    /\ delay_delete_conns_ = [h \in {} |-> 0]
    /\ freed = {}
=============================================================================
