----------------------------- MODULE MCOverlay -----------------------------
(***************************************************************************)
(* The overlay network as MCLibraries checks it and OverlayProof proves it *)
(* safe: the module Network, with names of its own for the variables that  *)
(* AsyncSocket has too.                                                    *)
(***************************************************************************)
EXTENDS Naturals

CONSTANTS
    InHdl, OutHdl, ServerDeleteDelay, ClientDeleteDelay, CloseTimeout, ConnectTimeOut,
    PeerLatency

VARIABLES
    ws, closing_age, server_conns_, client_conns_, hdl_to_ids_, delay_delete_conns_, freed,
    ip, loop, enabled_, thread_inited_, net_io, checked, net_next_id_, connections_,
    connection_handles_, connections_delete_, cb, silent, ping_age, disconnects, refused

networkVars == <<ws, closing_age, server_conns_, client_conns_, hdl_to_ids_,
                 delay_delete_conns_, freed, ip, loop, enabled_, thread_inited_, net_io,
                 checked, net_next_id_, connections_, connection_handles_,
                 connections_delete_, cb, silent, ping_age, disconnects, refused>>

N == INSTANCE Network WITH io <- net_io, next_id_ <- net_next_id_

ASSUME OverlayAssumption == N!TimeOutOK

\* A connection of the overlay is released once, and used only before that: the two maps of
\* the Network are each other's inverse and the adapter finds every handle in them whenever
\* conns_list_lock_ is free; websocketpp has made its last call to a deleted WssConnection;
\* and a connection that went away without being refused was reported to OnDisconnect once,
\* whether its peer closed it, a handler failed on a message, or the loop found it expired.
ConnectionReleasedOnce == N!TypeOK /\ N!MapsAgree /\ N!NoUseAfterFree /\ N!DisconnectedOnce

\* A peer that answers its pings is never found expired.
LivePeerKept == N!LivePeerKept
=============================================================================
