---------------------------- MODULE AsyncSocket ----------------------------
(***************************************************************************)
(* The sockets over asio: AsyncIo, AsyncSocketTcp, AsyncSocketSsl and      *)
(* AsyncSocketAcceptor (utils/net.cpp).  An operation is started by a call *)
(* and ends with one completion handler, run by the thread of the          *)
(* io_service; the handlers know the socket by this only, the acceptor     *)
(* knows the socket it fills by one member, and a socket reads into one    *)
(* buffer.  Clients connect to an acceptor, which serves one accepted      *)
(* socket after the other.                                                 *)
(***************************************************************************)
EXTENDS Naturals, Sequences, FiniteSets

CONSTANTS
    Client, Server,     \* sockets that connect, and sockets for the acceptor to fill
    None,
    Ssl,                \* AsyncSocketSsl, or AsyncSocketTcp
    ThreadCount,        \* thread_count of AsyncIo::Create
    MaxBytes,           \* bound on the bytes a client sends
    MaxChunk            \* ETH_MAX_PACKET_SIZE

ASSUME AsyncSocketAssumption ==
    /\ Client \cap Server = {} /\ None \notin Client \cup Server /\ Ssl \in BOOLEAN
    /\ ThreadCount \in Nat \ {0} /\ MaxBytes \in Nat /\ MaxChunk \in Nat \ {0}

Socket == Client \cup Server

VARIABLES
    threads,            \* threads_ptr_: running threads
    io,                 \* new, open, closed
    next_id_,
    service,            \* socket -> the io_service it got
    phase,              \* socket -> what it has been through
    remote,             \* socket -> the socket at the other end
    peer_address_,
    ops,                \* socket -> operations under way
    done,               \* completions whose handler has not run: socket, operation, error?
    accepting,          \* async_accept: none, pending, done
    tcpsocket_lptr_,    \* the acceptor's
    backlog,
    sent, wire, buffer_, received,
    noticed             \* history: sockets whose OnError was called

vars == <<threads, io, next_id_, service, phase, remote, peer_address_, ops, done, accepting,
          tcpsocket_lptr_, backlog, sent, wire, buffer_, received, noticed>>
ioVars == <<threads, io, next_id_, service>>
acceptVars == <<accepting, tcpsocket_lptr_, backlog>>
streamVars == <<sent, wire, buffer_, received>>
dataVars == <<streamVars, noticed>>

Phases == {"none", "new", "connecting", "connected", "handshake", "ready", "closed"}

TypeOK ==
    /\ threads \in 0 .. ThreadCount /\ io \in {"new", "open", "closed"}
    /\ next_id_ \in Nat /\ service \in [Socket -> 0 .. ThreadCount - 1]
    /\ phase \in [Socket -> Phases]
    /\ remote \in [Socket -> Socket \cup {None}]
    /\ peer_address_ \in [Socket -> Socket \cup {None}]
    /\ ops \in [Socket -> SUBSET {"connect", "handshake", "receive"}]
    /\ done \subseteq [sock : Socket, op : {"connect", "handshake", "receive"}, ok : BOOLEAN]
    /\ accepting \in {"none", "pending", "done"} /\ tcpsocket_lptr_ \in Server \cup {None}
    /\ backlog \in Seq(Client) /\ noticed \subseteq Socket
    /\ sent \in [Client -> 0 .. MaxBytes]
    /\ \A s \in Server : \A q \in {wire[s], buffer_[s], received[s]} :
          \A i \in DOMAIN q : q[i] \in 1 .. MaxBytes

Init ==
    /\ threads = 0 /\ io = "new" /\ next_id_ = 0 /\ service = [s \in Socket |-> 0]
    /\ phase = [s \in Socket |-> "none"] /\ remote = [s \in Socket |-> None]
    /\ peer_address_ = [s \in Socket |-> None] /\ ops = [s \in Socket |-> {}] /\ done = {}
    /\ accepting = "none" /\ tcpsocket_lptr_ = None /\ backlog = <<>>
    /\ sent = [c \in Client |-> 0] /\ wire = [s \in Server |-> <<>>]
    /\ buffer_ = [s \in Server |-> <<>>] /\ received = [s \in Server |-> <<>>] /\ noticed = {}

(***************************************************************************)
(* AsyncIo.                                                                *)
(***************************************************************************)
\* Create: a thread that cannot be started ends it, and those before it are closed.
CreateIo ==
    /\ io = "new" /\ io' \in {"open", "closed"}
    /\ threads' = IF io' = "open" THEN ThreadCount ELSE 0
    /\ UNCHANGED <<next_id_, service, phase, remote, peer_address_, ops, done, acceptVars, dataVars>>

\* Close: each io_service is stopped and its thread joined; what is under way stays so.
CloseIo ==
    /\ io = "open" /\ io' = "closed" /\ threads' = 0
    /\ UNCHANGED <<next_id_, service, phase, remote, peer_address_, ops, done, acceptVars, dataVars>>

GetIoService == next_id_ % threads

\* The constructor of a socket.
NewSocket(s) ==
    /\ io = "open" /\ phase[s] = "none"
    /\ service' = [service EXCEPT ![s] = GetIoService]
    /\ next_id_' = next_id_ + 1
    /\ phase' = [phase EXCEPT ![s] = "new"]
    /\ UNCHANGED <<threads, io, remote, peer_address_, ops, done, acceptVars, dataVars>>

(***************************************************************************)
(* Starting operations.                                                    *)
(***************************************************************************)
\* AsyncConnect: the address asked for is noted.
AsyncConnect(c) ==
    /\ io = "open" /\ phase[c] = "new"
    /\ phase' = [phase EXCEPT ![c] = "connecting"]
    /\ ops' = [ops EXCEPT ![c] = {"connect"}]
    /\ UNCHANGED <<ioVars, remote, peer_address_, done, acceptVars, dataVars>>

\* The first AsyncAccept; the others are started by OnAccept.
AsyncAccept(s) ==
    /\ io = "open" /\ phase[s] = "new" /\ accepting = "none"
    /\ tcpsocket_lptr_' = s /\ accepting' = "pending"
    /\ UNCHANGED <<ioVars, phase, remote, peer_address_, ops, done, backlog, dataVars>>

\* After a connection is made: the handshake under SSL, else reading if it was accepted.
Established(s) ==
    IF Ssl THEN [phase |-> "handshake", ops |-> {"handshake"}]
    ELSE [phase |-> "ready", ops |-> IF s \in Server THEN {"receive"} ELSE {}]

\* Close, in a handler or before any: asio ends what is under way with an error.
Close(s) ==
    /\ io = "open" /\ phase[s] \in {"connecting", "ready", "handshake"}
    /\ ~ \E e \in done : e.sock = s
    /\ phase' = [phase EXCEPT ![s] = "closed"]
    /\ ops' = [ops EXCEPT ![s] = {}]
    /\ done' = done \cup [sock : {s}, op : ops[s], ok : {FALSE}]
    /\ UNCHANGED <<ioVars, remote, peer_address_, acceptVars, dataVars>>

\* SendSome of a client that is connected.
SendSome(c) ==
    /\ phase[c] = "ready" /\ sent[c] < MaxBytes /\ remote[c] # None
    /\ sent' = [sent EXCEPT ![c] = @ + 1]
    /\ wire' = [wire EXCEPT ![remote[c]] = Append(@, sent[c] + 1)]
    /\ UNCHANGED <<ioVars, phase, remote, peer_address_, ops, done, acceptVars, buffer_, received, noticed>>

(***************************************************************************)
(* TCP, SSL and asio: an operation ends.                                   *)
(***************************************************************************)
Ends(s, op, ok) ==
    /\ io = "open" /\ op \in ops[s]
    /\ ops' = [ops EXCEPT ![s] = @ \ {op}]
    /\ done' = done \cup {[sock |-> s, op |-> op, ok |-> ok]}

\* The kernel connects before the acceptor has accepted.
ConnectEnds(c) ==
    /\ \E ok \in BOOLEAN :
          /\ Ends(c, "connect", ok)
          /\ backlog' = IF ok THEN Append(backlog, c) ELSE backlog
    /\ UNCHANGED <<ioVars, phase, remote, peer_address_, accepting, tcpsocket_lptr_, dataVars>>

AcceptEnds ==
    /\ io = "open" /\ accepting = "pending" /\ backlog # <<>>
    /\ remote' = [remote EXCEPT ![tcpsocket_lptr_] = Head(backlog), ![Head(backlog)] = tcpsocket_lptr_]
    /\ backlog' = Tail(backlog) /\ accepting' = "done"
    /\ UNCHANGED <<ioVars, phase, peer_address_, ops, done, tcpsocket_lptr_, dataVars>>

\* The handler of AsyncAccept with an error: the notified OnError may accept again.
AcceptFails ==
    /\ io = "open" /\ accepting = "pending" /\ accepting' = "none"
    /\ UNCHANGED <<ioVars, phase, remote, peer_address_, ops, done, tcpsocket_lptr_, backlog, dataVars>>

HandshakeEnds(s) ==
    /\ \E ok \in BOOLEAN :
          /\ ok => remote[s] # None /\ phase[remote[s]] \in {"handshake", "ready"}
          /\ Ends(s, "handshake", ok)
    /\ UNCHANGED <<ioVars, phase, remote, peer_address_, acceptVars, dataVars>>

\* Up to the size of the buffer, or the end of the stream.
ReceiveEnds(s) ==
    /\ \/ \E n \in 1 .. MaxChunk :
             /\ n <= Len(wire[s])
             /\ Ends(s, "receive", TRUE)
             /\ buffer_' = [buffer_ EXCEPT ![s] = SubSeq(wire[s], 1, n)]
             /\ wire' = [wire EXCEPT ![s] = SubSeq(@, n + 1, Len(@))]
       \/ /\ wire[s] = <<>> /\ remote[s] # None /\ phase[remote[s]] = "closed"
          /\ Ends(s, "receive", FALSE)
          /\ UNCHANGED <<buffer_, wire>>
    /\ UNCHANGED <<ioVars, phase, remote, peer_address_, acceptVars, sent, received, noticed>>

(***************************************************************************)
(* The completion handlers.                                                *)
(***************************************************************************)
\* The handler of AsyncConnect, and OnConnect, which under SSL starts the handshake.
OnConnect(c) ==
    /\ io = "open"
    /\ \E e \in done :
          /\ e = [sock |-> c, op |-> "connect", ok |-> TRUE]
          /\ done' = done \ {e}
    /\ peer_address_' = [peer_address_ EXCEPT ![c] = remote[c]]
    /\ phase' = [phase EXCEPT ![c] = Established(c).phase]
    /\ ops' = [ops EXCEPT ![c] = Established(c).ops]
    /\ UNCHANGED <<ioVars, remote, acceptVars, dataVars>>

\* Mutant: the next socket is accepted before the address of this one is noted.
OnAcceptNextFirst(s, next) ==
    /\ io = "open" /\ accepting = "done" /\ tcpsocket_lptr_ = s
    /\ next # None => (phase[next] = "new" /\ next # s)
    /\ peer_address_' = IF next = None THEN peer_address_
                        ELSE [peer_address_ EXCEPT ![next] = remote[s]]
    /\ phase' = [phase EXCEPT ![s] = Established(s).phase]
    /\ ops' = [ops EXCEPT ![s] = Established(s).ops]
    /\ tcpsocket_lptr_' = next /\ accepting' = IF next = None THEN "none" ELSE "pending"
    /\ UNCHANGED <<ioVars, remote, done, backlog, dataVars>>

\* The handler of AsyncAccept, and the notified OnAccept, which accepts the next socket.
OnAccept(s, next) ==
    /\ io = "open" /\ accepting = "done" /\ tcpsocket_lptr_ = s
    /\ next # None => (phase[next] = "new" /\ next # s)
    /\ peer_address_' = [peer_address_ EXCEPT ![s] = remote[s]]
    /\ phase' = [phase EXCEPT ![s] = Established(s).phase]
    /\ ops' = [ops EXCEPT ![s] = Established(s).ops]
    /\ tcpsocket_lptr_' = next /\ accepting' = IF next = None THEN "none" ELSE "pending"
    /\ UNCHANGED <<ioVars, remote, done, backlog, dataVars>>

OnHandShake(s) ==
    /\ io = "open"
    /\ \E e \in done :
          /\ e = [sock |-> s, op |-> "handshake", ok |-> TRUE]
          /\ done' = done \ {e}
    /\ phase' = [phase EXCEPT ![s] = "ready"]
    /\ ops' = [ops EXCEPT ![s] = IF s \in Server THEN {"receive"} ELSE {}]
    /\ UNCHANGED <<ioVars, remote, peer_address_, acceptVars, dataVars>>

\* Mutant: the next read is begun, and fills the buffer, before the data is used.
OnReceiveReadsFirst(s) ==
    /\ io = "open"
    /\ \E e \in done :
          /\ e = [sock |-> s, op |-> "receive", ok |-> TRUE]
          /\ done' = done \ {e}
    /\ IF wire[s] = <<>> THEN UNCHANGED <<wire, buffer_>>
       ELSE /\ buffer_' = [buffer_ EXCEPT ![s] = SubSeq(wire[s], 1, 1)]
            /\ wire' = [wire EXCEPT ![s] = Tail(@)]
    /\ received' = [received EXCEPT ![s] = @ \o buffer_'[s]]
    /\ ops' = [ops EXCEPT ![s] = {"receive"}]
    /\ UNCHANGED <<ioVars, phase, remote, peer_address_, acceptVars, sent, noticed>>

\* The handler of AsyncReceiveSome: OnReceive uses the buffer and reads on.
OnReceive(s) ==
    /\ io = "open"
    /\ \E e \in done :
          /\ e = [sock |-> s, op |-> "receive", ok |-> TRUE]
          /\ done' = done \ {e}
    /\ received' = [received EXCEPT ![s] = @ \o buffer_[s]]
    /\ ops' = [ops EXCEPT ![s] = {"receive"}]
    /\ UNCHANGED <<ioVars, phase, remote, peer_address_, acceptVars, sent, wire, buffer_, noticed>>

\* Mutant: a handler with an error does nothing, as that of AsyncSocketUdp::AsyncSendTo.
OnErrorForgotten(s) ==
    /\ io = "open"
    /\ \E e \in done : e.sock = s /\ ~e.ok /\ done' = done \ {e}
    /\ UNCHANGED <<ioVars, phase, ops, remote, peer_address_, acceptVars, dataVars>>

\* Any handler with an error: OnError, which does nothing unless the owner overrides it; an
\* owner may Close then, as at any other time.
OnError(s) ==
    /\ io = "open"
    /\ \E e \in done : e.sock = s /\ ~e.ok /\ done' = done \ {e}
    /\ noticed' = noticed \cup {s}
    /\ UNCHANGED <<ioVars, phase, ops, remote, peer_address_, acceptVars, streamVars>>

\* The handler of AsyncConnect or AsyncAccept asks for the address of a peer that has reset
\* the connection: remote_endpoint() throws, nothing catches that in a thread of AsyncIo, and
\* the process ends.
RemoteEndpointThrows(s) ==
    /\ io = "open" /\ remote[s] # None /\ phase[remote[s]] = "closed"
    /\ \/ [sock |-> s, op |-> "connect", ok |-> TRUE] \in done
       \/ accepting = "done" /\ tcpsocket_lptr_ = s
    /\ io' = "closed" /\ threads' = 0
    /\ UNCHANGED <<next_id_, service, phase, remote, peer_address_, ops, done, acceptVars, dataVars>>

Handler(s) ==
    \/ s \in Client /\ OnConnect(s)
    \/ OnHandShake(s)
    \/ s \in Server /\ OnReceive(s)
    \/ OnError(s)

Next ==
    \/ CreateIo \/ CloseIo \/ AcceptEnds \/ AcceptFails
    \/ \E s \in Socket : NewSocket(s) \/ Close(s) \/ HandshakeEnds(s) \/ Handler(s)
                         \/ RemoteEndpointThrows(s)
    \/ \E c \in Client : AsyncConnect(c) \/ ConnectEnds(c) \/ SendSome(c)
    \/ \E s \in Server : AsyncAccept(s) \/ ReceiveEnds(s)
    \/ \E s \in Server, next \in Server \cup {None} : OnAccept(s, next)

(***************************************************************************)
(* The thread of an io_service runs the handlers there are; a stream that  *)
(* has something to read is read, and a failed handshake ends.             *)
(***************************************************************************)
Spec ==
    /\ Init /\ [][Next]_vars
    /\ \A s \in Socket : WF_vars(Handler(s)) /\ WF_vars(HandshakeEnds(s))
    /\ \A s \in Server : WF_vars(ReceiveEnds(s)) /\ WF_vars(\E next \in Server \cup {None} : OnAccept(s, next))

(***************************************************************************)
(* Properties.                                                             *)
(***************************************************************************)
\* OnReceive is given the bytes of the stream, each once and in order, though all reads
\* use the one buffer_ of the socket.
ReceivedInOrder ==
    \A s \in Server : \A i \in DOMAIN received[s] : received[s][i] = i

\* A socket hands on the bytes its peer sent, in their order, though all its reads share one
\* buffer and all sockets the io_services' threads.
StreamsKeptApart == TypeOK /\ ReceivedInOrder

\* An accepted socket knows the address of its own peer, though the handler finds it
\* through the member of the acceptor that the next AsyncAccept overwrites.
PeerAddressIsPeer ==
    \A s \in Server : phase[s] \in {"handshake", "ready"} => peer_address_[s] = remote[s]

\* The server socket s is not reading from a client that is closed.
ClientOpen(s) ==
    phase[s] # "ready" \/ remote[s] = None \/ io = "closed" \/ phase[remote[s]] # "closed"

\* Every read ends with OnReceive, which reads on, or with OnError: a server socket whose
\* client is closed hands on all that the client sent, and its owner is told then.
CloseIsNoticed ==
    \A s \in Server :
        []<>(ClientOpen(s) \/ (s \in noticed /\ Len(received[s]) = sent[remote[s]]))
=============================================================================
