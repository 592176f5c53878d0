----------------------------- MODULE MCSockets -----------------------------
(***************************************************************************)
(* What has to happen in the libraries of sockets, side by side for TLC:   *)
(* "part" says which of them this behaviour runs, and the others stay at   *)
(* their initial state.  The safety of AsyncSocket and of the overlay is   *)
(* checked with more sockets in MCLibraries.                               *)
(*                                                                         *)
(* ssl: a client and an accepted socket, handshake included.  overlay: one *)
(* connection that Network::Connect opens; a tick is 15 s.  epoll: the     *)
(* lives of one socket that two threads may serve, which does not connect. *)
(* batch: that, with one thread, and a second socket, attached once, whose *)
(* events may stand before its own in the batch.  connect: the lives of    *)
(* one socket that may connect, of one thread.                             *)
(***************************************************************************)
EXTENDS Naturals

CONSTANTS
    c1, s1, s2, o1, None,
    VxSock, MAX_IO_COUNT, MaxSerial         \* of AsyncVxIo

VARIABLES
    part,
    threads, io, next_id_, service, phase, remote, peer_address_, ops, done, accepting,
    tcpsocket_lptr_, backlog, sent, wire, buffer_, received, noticed,
    ws, closing_age, server_conns_, client_conns_, hdl_to_ids_, delay_delete_conns_, freed,
    ip, loop, enabled_, thread_inited_, net_io, checked, net_next_id_, connections_,
    connection_handles_, connections_delete_, cb, silent, ping_age, disconnects, refused,
    vx_io, nThreadCount, vx_enabled_, running_, sock, calling, kernel, edge, batch, at, missed,
    told

socketVars == <<threads, io, next_id_, service, phase, remote, peer_address_, ops, done,
                accepting, tcpsocket_lptr_, backlog, sent, wire, buffer_, received, noticed>>
networkVars == <<ws, closing_age, server_conns_, client_conns_, hdl_to_ids_,
                 delay_delete_conns_, freed, ip, loop, enabled_, thread_inited_, net_io,
                 checked, net_next_id_, connections_, connection_handles_,
                 connections_delete_, cb, silent, ping_age, disconnects, refused>>
vxVars == <<vx_io, nThreadCount, vx_enabled_, running_, sock, calling, kernel, edge, batch, at,
            missed, told>>
mcVars == <<part, socketVars, networkVars, vxVars>>

S == INSTANCE AsyncSocket WITH
         Client <- {c1}, Server <- {s1}, Ssl <- TRUE, ThreadCount <- 2, MaxBytes <- 2,
         MaxChunk <- 2

N == INSTANCE Network WITH
         io <- net_io, next_id_ <- net_next_id_, InHdl <- {}, OutHdl <- {o1},
         ServerDeleteDelay <- 0, ClientDeleteDelay <- 2, CloseTimeout <- 1,
         ConnectTimeOut <- 4, PeerLatency <- 1

V == INSTANCE AsyncVxIo WITH io <- vx_io, enabled_ <- vx_enabled_, Sock <- VxSock

ASSUME SocketsAssumption == N!TimeOutOK /\ V!BoundsOK

MCInit ==
    /\ part \in {"ssl", "overlay", "epoll", "batch", "connect"}
    /\ S!Init /\ N!Init /\ V!Init
    /\ part = "overlay" \/ ip = "given"

\* A step A of one part.
Ssl_(A) == part = "ssl" /\ A /\ UNCHANGED <<part, networkVars, vxVars>>
Overlay_(A) == part = "overlay" /\ A /\ UNCHANGED <<part, socketVars, vxVars>>
Vx_(p, A) == part = p /\ A /\ UNCHANGED <<part, socketVars, networkVars>>
Epoll_(A) == Vx_("epoll", A) /\ nThreadCount' # 1 /\ sock'[s2] = sock[s2] /\ calling' = {}
Batch_(A) ==
    /\ Vx_("batch", A)
    /\ nThreadCount' # 2 /\ vx_io' # "closing" /\ calling' = {} /\ kernel'[s1] # "listen"
    /\ sock'[s2].life <= 1 /\ kernel'[s2] \in {"none", "up"} /\ sock'[s2].prepared = sock'[s2].valid
Connect_(A) ==
    /\ Vx_("connect", A)
    /\ nThreadCount' # 2 /\ sock'[s2] = sock[s2] /\ kernel'[s1] # "listen"

MCNext ==
    \/ Ssl_(S!Next) \/ Overlay_(N!Next) \/ Epoll_(V!Next) \/ Batch_(V!Next) \/ Connect_(V!Next)

\* Each part's own fairness.  As one part runs in a behaviour, the conditions of
\* different parts can be joined: fairness to "A of one part or B of another" is
\* fairness to A when the one part runs and to B when the other does.
MCSpec ==
    /\ MCInit /\ [][MCNext]_mcVars
    /\ WF_mcVars(\/ Ssl_(S!Handler(c1)) \/ Overlay_(N!Check)
                 \/ Epoll_(V!CloseReturns) \/ Connect_(V!CloseReturns))
    /\ WF_mcVars(\/ Ssl_(S!Handler(s1)) \/ Overlay_(N!OnTimer)
                 \/ Epoll_(V!ThreadStep(0)) \/ Connect_(V!ThreadStep(0)))
    /\ WF_mcVars(\/ Ssl_(S!HandshakeEnds(c1)) \/ Overlay_(N!LoopEnds)
                 \/ Epoll_(V!CloseThread(0)) \/ Connect_(V!CloseThread(0)))
    /\ WF_mcVars(\/ Ssl_(S!HandshakeEnds(s1)) \/ Overlay_(N!Callback(o1))
                 \/ Epoll_(V!ThreadStep(1)) \/ Connect_(V!ConnectEnds(s1)))
    /\ WF_mcVars(\/ Ssl_(S!ReceiveEnds(s1)) \/ Overlay_(ws[o1] = "closing" /\ N!PeerCloses(o1))
                 \/ Epoll_(V!CloseThread(1)) \/ Connect_(V!ConnectBlocks(s1)))
    /\ WF_mcVars(Ssl_(\E next \in {s1, None} : S!OnAccept(s1, next)))
    /\ SF_mcVars(Overlay_(N!Tick)) /\ SF_mcVars(Overlay_(N!Receive(o1, "pong")))

-----------------------------------------------------------------------------
\* Every read of an AsyncSocket ends with OnReceive, which reads on, or with OnError: a
\* server socket whose client is closed hands on all that the client sent, and its owner is
\* told then; the library itself leaves the socket open.
CloseIsNoticed == S!CloseIsNoticed

\* A half-open link of the overlay is found out: no connection whose peer fell silent stays
\* registered for ever, as long as the loop of Network::Start runs.
SilentPeerRemoved == N!SilentPeerRemoved

\* Which events reach the handlers of a socket that any thread may close, detach, attach and
\* create: a part of an event passes the comparison in AsyncCustomIoThread::Run only in the
\* life that the event was dispatched in, or in one that Attach began; the events of one life
\* are taken by one thread, so that no two call the handlers for that life at once; and when
\* AsyncVxIo::Close has returned no thread runs that might use a deleted poll.
HandlersOfASocket == V!TypeOK /\ V!RestDropped /\ V!OneThreadPerLife /\ V!NoThreadWithoutIo

\* An attempt to connect that blocked is answered, unless the socket or the library is closed
\* or the one OUT that told of its end came when the socket was not prepared or
\* Socket::Connect had not noted the attempt; the failure of an attempt is always told, by
\* OnConnect or OnError; and AsyncVxIo::Close returns.
ConnectAnswered ==
    /\ []<>(part = "connect" => V!NothingAsked(s1)) /\ []<>(part = "connect" => V!FailureTold(s1))
    /\ V!IoCloses
=============================================================================
