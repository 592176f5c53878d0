-------------------------- MODULE WebSocketClient --------------------------
(***************************************************************************)
(* WebSocketClient and its two subclasses (websocket/): per layer, one     *)
(* thread runs websocketpp's event loop and its handlers.  A handler that  *)
(* reconnects sleeps, connects and runs the loop again from inside the     *)
(* handler, so that depth counts the runs on the thread's stack; none      *)
(* returns before client_.stop().                                          *)
(***************************************************************************)
EXTENDS Naturals

CONSTANTS
    Layer,
    MaxLost         \* bound on the links lost or refused, per layer

VARIABLES
    connected_,
    stopped,        \* client_.stop() was called
    link,           \* none, connecting, open, closed (on_close is due), half-open,
                    \* or error: connect gave up
    subscribed,     \* did the subscription reach the chain over this link?
    ws_pc,             \* the client's thread
    depth,          \* runs on its stack
    lost            \* links lost or refused so far

wsVars == <<connected_, stopped, link, subscribed, ws_pc, depth, lost>>

PcStates == {"none", "connect", "run", "on_open", "on_message", "sleep", "ended"}

WsTypeOK ==
    /\ connected_ \in [Layer -> BOOLEAN] /\ stopped \in [Layer -> BOOLEAN]
    /\ link \in [Layer -> {"none", "connecting", "open", "closed", "half", "error"}]
    /\ subscribed \in [Layer -> BOOLEAN]
    /\ ws_pc \in [Layer -> PcStates]
    /\ depth \in [Layer -> 0 .. MaxLost + 1] /\ lost \in [Layer -> 0 .. MaxLost]

WsInit ==
    /\ connected_ = [l \in Layer |-> FALSE] /\ stopped = [l \in Layer |-> FALSE]
    /\ link = [l \in Layer |-> "none"] /\ subscribed = [l \in Layer |-> FALSE]
    /\ ws_pc = [l \in Layer |-> "none"] /\ depth = [l \in Layer |-> 0]
    /\ lost = [l \in Layer |-> 0]

\* Initialize of both clients: the threads are started.
StartThreads ==
    /\ ws_pc' = [l \in Layer |-> "connect"]
    /\ UNCHANGED <<connected_, stopped, link, subscribed, depth, lost>>

Running(l) == ws_pc[l] = "run" /\ ~stopped[l]

\* connect and run.
Connect(l) ==
    /\ ws_pc[l] = "connect"
    /\ link' = [link EXCEPT ![l] = "connecting"]
    /\ ws_pc' = [ws_pc EXCEPT ![l] = "run"]
    /\ depth' = [depth EXCEPT ![l] = @ + 1]
    /\ UNCHANGED <<connected_, stopped, subscribed, lost>>

\* connect gives up (no connection object, or an exception): the first run has
\* nothing to do and returns; one inside a handler waits for stop.
ConnectError(l) ==
    /\ ws_pc[l] = "connect" /\ lost[l] < MaxLost
    /\ lost' = [lost EXCEPT ![l] = @ + 1]
    /\ link' = [link EXCEPT ![l] = "error"]
    /\ ws_pc' = [ws_pc EXCEPT ![l] = IF depth[l] = 0 THEN "ended" ELSE "run"]
    /\ depth' = [depth EXCEPT ![l] = IF @ = 0 THEN 0 ELSE @ + 1]
    /\ UNCHANGED <<connected_, stopped, subscribed>>

\* on_open: connected_ is set before the subscription is sent.
OnOpen(l) ==
    /\ Running(l) /\ link[l] = "connecting"
    /\ link' = [link EXCEPT ![l] = "open"]
    /\ connected_' = [connected_ EXCEPT ![l] = TRUE]
    /\ ws_pc' = [ws_pc EXCEPT ![l] = "on_open"]
    /\ UNCHANGED <<stopped, subscribed, depth, lost>>

\* subscribe: an error of send is only logged.
Subscribe(l) ==
    /\ ws_pc[l] = "on_open"
    /\ subscribed' = [subscribed EXCEPT ![l] = (link[l] = "open")]
    /\ ws_pc' = [ws_pc EXCEPT ![l] = "run"]
    /\ UNCHANGED <<connected_, stopped, link, depth, lost>>

\* The link breaks, noticed by the event loop or (half-open) by nobody.
LinkLost(l, state) ==
    /\ link[l] = "open" /\ lost[l] < MaxLost
    /\ lost' = [lost EXCEPT ![l] = @ + 1]
    /\ link' = [link EXCEPT ![l] = state]
    /\ UNCHANGED <<connected_, stopped, subscribed, ws_pc, depth>>

OnClose(l) ==
    /\ Running(l) /\ link[l] = "closed"
    /\ link' = [link EXCEPT ![l] = "none"]
    /\ connected_' = [connected_ EXCEPT ![l] = FALSE]
    /\ subscribed' = [subscribed EXCEPT ![l] = FALSE]
    /\ ws_pc' = [ws_pc EXCEPT ![l] = "sleep"]
    /\ UNCHANGED <<stopped, depth, lost>>

\* Mutant: a connection that fails is not tried again.
OnFailGivesUp(l) ==
    /\ Running(l) /\ link[l] = "connecting" /\ lost[l] < MaxLost
    /\ lost' = [lost EXCEPT ![l] = @ + 1]
    /\ link' = [link EXCEPT ![l] = "none"]
    /\ connected_' = [connected_ EXCEPT ![l] = FALSE]
    /\ UNCHANGED <<stopped, subscribed, ws_pc, depth>>

OnFail(l) ==
    /\ Running(l) /\ link[l] = "connecting" /\ lost[l] < MaxLost
    /\ lost' = [lost EXCEPT ![l] = @ + 1]
    /\ link' = [link EXCEPT ![l] = "none"]
    /\ connected_' = [connected_ EXCEPT ![l] = FALSE]
    /\ ws_pc' = [ws_pc EXCEPT ![l] = "sleep"]
    /\ UNCHANGED <<stopped, subscribed, depth>>

\* reconnect: the five seconds are over.
Reconnect(l) ==
    /\ ws_pc[l] = "sleep"
    /\ ws_pc' = [ws_pc EXCEPT ![l] = "connect"]
    /\ UNCHANGED <<connected_, stopped, link, subscribed, depth, lost>>

\* on_message of a contract log calls the HandleManager.
OnMessage(l) ==
    /\ Running(l) /\ link[l] = "open" /\ subscribed[l]
    /\ ws_pc' = [ws_pc EXCEPT ![l] = "on_message"]
    /\ UNCHANGED <<connected_, stopped, link, subscribed, depth, lost>>

OnMessageDone(l) ==
    /\ ws_pc[l] = "on_message"
    /\ ws_pc' = [ws_pc EXCEPT ![l] = "run"]
    /\ UNCHANGED <<connected_, stopped, link, subscribed, depth, lost>>

\* close of a client: client_.stop().
CloseClient(l) ==
    /\ stopped' = [stopped EXCEPT ![l] = TRUE]
    /\ UNCHANGED <<connected_, link, subscribed, ws_pc, depth, lost>>

\* After stop every run on the stack returns, and with them the thread.
Unwind(l) ==
    /\ ws_pc[l] = "run" /\ stopped[l]
    /\ ws_pc' = [ws_pc EXCEPT ![l] = "ended"]
    /\ depth' = [depth EXCEPT ![l] = 0]
    /\ UNCHANGED <<connected_, stopped, link, subscribed, lost>>

Client(l) ==
    \/ Connect(l) \/ OnOpen(l) \/ Subscribe(l) \/ OnClose(l) \/ Reconnect(l)
    \/ OnMessageDone(l) \/ Unwind(l)

ClientFaults(l) ==
    \/ ConnectError(l) \/ OnFail(l) \/ LinkLost(l, "closed") \/ LinkLost(l, "half")
=============================================================================
