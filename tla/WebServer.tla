----------------------------- MODULE WebServer -----------------------------
(***************************************************************************)
(* WebServer (webserver/web_server.cpp) with the web socket clients it     *)
(* owns, from main's call of Initialize to the end of main: a request      *)
(* submits a start transaction to a layer if both clients are connected.   *)
(***************************************************************************)
EXTENDS WebSocketClient

CONSTANTS L1, L2

VARIABLES
    main,               \* where main stands
    manager,            \* does the HandleManager instance exist?
    request             \* the http thread: idle, second (check), submit

ASSUME LayersAssumption == Layer = {L1, L2} /\ MaxLost \in Nat

webVars == <<wsVars, main, manager, request>>

webRest == <<main, manager, request>>

WebInit ==
    /\ WsInit
    /\ main = "start" /\ manager = TRUE /\ request = "idle"

\* WebServer::Initialize: the clients first, then the endpoint.
StartClients ==
    /\ main = "start" /\ main' = "endpoint"
    /\ StartThreads
    /\ UNCHANGED <<manager, request>>

StartEndpoint ==
    /\ main = "endpoint" /\ main' = "serving"
    /\ UNCHANGED <<wsVars, manager, request>>

\* An exception, e.g. for a port in use: Initialize returns false, and main leaves without
\* WebServer::Exit.
EndpointFails ==
    /\ main = "endpoint" /\ main' = "failed"
    /\ UNCHANGED <<wsVars, manager, request>>

(***************************************************************************)
(* WebServer::Exit: close and join the clients one after the other, then   *)
(* the endpoint.                                                           *)
(***************************************************************************)
CloseL1 ==
    /\ main = "serving" /\ main' = "join1"
    /\ CloseClient(L1)
    /\ UNCHANGED <<manager, request>>

CloseL2 ==
    /\ main = "join1" /\ main' = "join2"
    /\ ws_pc[L1] \in {"none", "ended"}
    /\ CloseClient(L2)
    /\ UNCHANGED <<manager, request>>

\* Mutant: the second client is not joined.
JoinL2Skipped ==
    /\ main = "join2" /\ main' = "shutdown"
    /\ UNCHANGED <<wsVars, manager, request>>

JoinL2 ==
    /\ main = "join2" /\ main' = "shutdown"
    /\ ws_pc[L2] \in {"none", "ended"}
    /\ UNCHANGED <<wsVars, manager, request>>

\* endpoint_ptr_->shutdown(): no request is taken, the one in work ends.
Shutdown ==
    /\ main = "shutdown" /\ main' = "instances"
    /\ request = "idle"
    /\ UNCHANGED <<wsVars, manager, request>>

\* HandleManager::ExitInstance.
ExitInstance ==
    /\ \/ main = "instances" /\ main' = "exited"
       \/ main = "failed" /\ main' = "aborted"
    /\ manager' = FALSE
    /\ UNCHANGED <<wsVars, request>>

(***************************************************************************)
(* SubmitStartTxToLayer1 and SubmitStartTxToLayer2.                        *)
(***************************************************************************)
Serving == main \in {"serving", "join1", "join2"}

\* IsConnected of the layer 1 client; without it the answer is Service_Unavailable.
SubmitChecks ==
    /\ Serving /\ request = "idle"
    /\ request' = IF connected_[L1] THEN "second" ELSE "idle"
    /\ UNCHANGED <<wsVars, main, manager>>

SubmitChecksL2 ==
    /\ request = "second"
    /\ request' = IF connected_[L2] THEN "submit" ELSE "idle"
    /\ UNCHANGED <<wsVars, main, manager>>

\* The transaction is posted and the chain's answer handed on.
Submitted ==
    /\ request = "submit"
    /\ request' = "idle"
    /\ UNCHANGED <<wsVars, main, manager>>

(***************************************************************************)
(* Specification.                                                          *)
(***************************************************************************)
Main ==
    \/ StartClients \/ StartEndpoint
    \/ CloseL1 \/ CloseL2 \/ JoinL2 \/ Shutdown \/ ExitInstance

Http == SubmitChecks \/ SubmitChecksL2 \/ Submitted

ClientGoesOn(l) == Client(l) /\ UNCHANGED webRest

WebNext ==
    \/ Main \/ EndpointFails
    \/ Http
    \/ \E l \in Layer : ClientGoesOn(l)
    \/ \E l \in Layer : ClientFaults(l) /\ UNCHANGED webRest
    \/ \E l \in Layer : OnMessage(l) /\ UNCHANGED webRest

WebSpec == WebInit /\ [][WebNext]_webVars

\* main waits for a signal as long as it likes; everything else is scheduled.  The
\* chain's node answers a connection in the end: faults are bounded.
MainGoesOn == \/ StartClients \/ StartEndpoint
              \/ CloseL2 \/ JoinL2 \/ Shutdown \/ ExitInstance

RequestGoesOn == SubmitChecksL2 \/ Submitted

WebFairSpec ==
    /\ WebSpec
    /\ WF_webVars(MainGoesOn) /\ WF_webVars(RequestGoesOn)
    /\ \A l \in Layer : WF_webVars(ClientGoesOn(l))

(***************************************************************************)
(* Properties.                                                             *)
(***************************************************************************)
WebTypeOK ==
    /\ WsTypeOK
    /\ main \in {"start", "endpoint", "serving", "join1", "join2", "shutdown",
                "instances", "exited", "failed", "aborted"}
    /\ manager \in BOOLEAN /\ request \in {"idle", "second", "submit"}

\* connected_ is never left over from a link whose end the client has handled:
\* while it waits to reconnect, or connects, the web server refuses requests.
ConnectedHasLink == \A l \in Layer : connected_[l] => link[l] \in {"open", "closed", "half"}

\* Once the endpoint has started, the HandleManager exists whenever a client hands it an
\* event: Exit has joined both threads before the instance is deleted.
ManagerOutlivesEvents ==
    main # "aborted" => \A l \in Layer : ws_pc[l] = "on_message" => manager

\* What a request and an event may count on: connected_ is never left over from a link whose
\* end the client has handled, and an event has its HandleManager.
EventHasManager == WebTypeOK /\ ConnectedHasLink /\ ManagerOutlivesEvents

\* A client is connected again and again: whatever ended a link, or refused one, the
\* client tries until it has the next, unless it is stopped or connect itself gave up,
\* after which nothing ever tries again.
Reconnects ==
    \A l \in Layer : []<>(connected_[l] \/ stopped[l] \/ link[l] = "error" \/ ws_pc[l] = "none")

\* Exit ends: a client that sleeps before it connects again finds the loop stopped.
ExitEnds == []<>(main \in {"start", "endpoint", "serving", "exited", "aborted"})
=============================================================================
