--------------------------- MODULE LibrariesProof ---------------------------
(***************************************************************************)
(* Three of the libraries below the agent.                                 *)
(*                                                                         *)
(* The sockets: the acceptor never mixes up the addresses of two           *)
(* connections, and a socket hands on what its peer sent and in that       *)
(* order, however many sockets and threads there are and however long the  *)
(* streams.                                                                *)
(*                                                                         *)
(* Write batches, for any number of slots, batches and keys, and any       *)
(* number of writes and crashes: as long as the calls of NewWriteBatch do  *)
(* not overlap and there are no more batches than slots, a batch has its   *)
(* slot to itself, and the database has all of its keys or none.           *)
(*                                                                         *)
(* The log, for any capacities and times, any failures of move, copy and   *)
(* open and any restarts: lines are lost only with a file that is opened   *)
(* anew although neither the move nor the copy brought them to a backup.   *)
(* Backups of one tick that share a name have each other's lines           *)
(* (BackupsCovered), and the check for expired files, which runs without   *)
(* the lock of the writer, never dooms the open file (ListedOK).           *)
(***************************************************************************)
EXTENDS AsyncSocket, Storage, MCLogger, SequenceTheorems, FiniteSetTheorems,
        WellFoundedInduction, TLAPS

\* An operation of the socket is under way or its handler has not run, or the socket is in use.
Active(s) ==
    \/ ops[s] # {}
    \/ \E e \in done : e.sock = s
    \/ phase[s] \in {"handshake", "ready"}

AcceptTypeOK ==
    /\ phase \in [Socket -> Phases]
    /\ remote \in [Socket -> Socket \cup {None}]
    /\ peer_address_ \in [Socket -> Socket \cup {None}]
    /\ ops \in [Socket -> SUBSET {"connect", "handshake", "receive"}]
    /\ tcpsocket_lptr_ \in Server \cup {None}
    /\ backlog \in Seq(Client)

\* The socket that the acceptor is about to fill is one that nobody uses yet.
FillsNewSocket ==
    accepting \in {"pending", "done"} =>
        tcpsocket_lptr_ \in Server /\ phase[tcpsocket_lptr_] = "new"

\* A socket that is in use knows its peer, and is not new.
ActiveKnowsPeer ==
    \A s \in Server : Active(s) => peer_address_[s] = remote[s] /\ phase[s] \notin {"none", "new"}

AcceptInv == AcceptTypeOK /\ FillsNewSocket /\ ActiveKnowsPeer

LEMMA InitAccept == Init => AcceptInv
BY DEF Init, AcceptInv, AcceptTypeOK, FillsNewSocket, ActiveKnowsPeer, Active, Phases, Socket

\* Steps that leave sockets and acceptor alone.
LEMMA SameAccept ==
    ASSUME AcceptInv, UNCHANGED <<phase, remote, peer_address_, ops, done, acceptVars>>
    PROVE  AcceptInv'
BY DEF AcceptInv, AcceptTypeOK, FillsNewSocket, ActiveKnowsPeer, Active, acceptVars

\* An operation of s ends.
LEMMA EndsAccept ==
    ASSUME AcceptInv, NEW s \in Socket, NEW op, NEW ok, Ends(s, op, ok),
           UNCHANGED <<phase, remote, peer_address_, accepting, tcpsocket_lptr_>>, backlog' \in Seq(Client)
    PROVE  AcceptInv'
<1>1. AcceptTypeOK'
  BY DEF AcceptInv, AcceptTypeOK, Ends
<1>2. FillsNewSocket'
  BY DEF AcceptInv, FillsNewSocket
<1>3. ASSUME NEW r \in Server, Active(r)'
      PROVE  Active(r)
  BY <1>3 DEF AcceptInv, AcceptTypeOK, Active, Ends, Socket
<1> QED
  BY <1>1, <1>2, <1>3 DEF AcceptInv, ActiveKnowsPeer

\* A socket changes its phase and its operations; if it is one for the acceptor, it was
\* active and knows its peer.
LEMMA PhaseAccept ==
    ASSUME AcceptInv, NEW s \in Socket, NEW p \in Phases \ {"none", "new"},
           NEW o \in SUBSET {"connect", "handshake", "receive"},
           s \in Server => Active(s),
           phase' = [phase EXCEPT ![s] = p], ops' = [ops EXCEPT ![s] = o],
           \A e \in done' : e \in done \/ e.sock = s,
           peer_address_' \in [Socket -> Socket \cup {None}],
           \A r \in Server : peer_address_'[r] = peer_address_[r],
           UNCHANGED <<remote, acceptVars>>
    PROVE  AcceptInv'
<1>1. AcceptTypeOK'
  BY DEF AcceptInv, AcceptTypeOK, acceptVars
<1>2. FillsNewSocket'
  BY DEF AcceptInv, AcceptTypeOK, FillsNewSocket, ActiveKnowsPeer, acceptVars, Socket
<1>3. ASSUME NEW r \in Server, r # s, Active(r)'
      PROVE  Active(r)
  BY <1>3 DEF AcceptInv, AcceptTypeOK, Active, Socket
<1>4. ASSUME NEW r \in Server, Active(r)'
      PROVE  peer_address_'[r] = remote'[r] /\ phase'[r] \notin {"none", "new"}
  BY <1>3, <1>4 DEF AcceptInv, AcceptTypeOK, ActiveKnowsPeer, Socket
<1> QED
  BY <1>1, <1>2, <1>4 DEF AcceptInv, ActiveKnowsPeer

\* Each action preserves the invariant.
LEMMA NextAccept == AcceptInv /\ [Next]_vars => AcceptInv'
<1> SUFFICES ASSUME AcceptInv, [Next]_vars PROVE AcceptInv'
  OBVIOUS
<1> USE AsyncSocketAssumption
<1>1. CASE UNCHANGED vars
  BY <1>1, SameAccept DEF vars, acceptVars
<1>2. CASE CreateIo \/ CloseIo \/ \E s \in Socket : RemoteEndpointThrows(s)
  BY <1>2, SameAccept DEF CreateIo, CloseIo, RemoteEndpointThrows
<1>3. CASE AcceptEnds
  <2>1. tcpsocket_lptr_ \in Server /\ phase[tcpsocket_lptr_] = "new"
    BY <1>3 DEF AcceptEnds, AcceptInv, FillsNewSocket
  <2>2. Head(backlog) \in Client /\ Tail(backlog) \in Seq(Client)
    BY <1>3 DEF AcceptEnds, AcceptInv, AcceptTypeOK
  <2>3. AcceptTypeOK'
    BY <1>3, <2>1, <2>2 DEF AcceptEnds, AcceptInv, AcceptTypeOK, Socket
  <2>4. FillsNewSocket'
    BY <1>3, <2>1 DEF AcceptEnds, FillsNewSocket
  <2>5. ASSUME NEW r \in Server, Active(r)'
        PROVE  peer_address_'[r] = remote'[r] /\ phase'[r] \notin {"none", "new"}
    <3>1. Active(r)
      BY <1>3, <2>5 DEF AcceptEnds, Active
    <3>2. r # tcpsocket_lptr_ /\ r # Head(backlog)
      BY <2>1, <2>2, <3>1 DEF AcceptInv, ActiveKnowsPeer
    <3> QED
      BY <1>3, <3>1, <3>2 DEF AcceptEnds, AcceptInv, AcceptTypeOK, ActiveKnowsPeer, Socket
  <2> QED
    BY <2>3, <2>4, <2>5 DEF AcceptInv, ActiveKnowsPeer
<1>4. CASE AcceptFails
  BY <1>4 DEF AcceptFails, AcceptInv, AcceptTypeOK, FillsNewSocket, ActiveKnowsPeer, Active
<1>5. ASSUME NEW s \in Socket, NewSocket(s) PROVE AcceptInv'
  <2>1. AcceptTypeOK' /\ FillsNewSocket'
    BY <1>5 DEF NewSocket, AcceptInv, AcceptTypeOK, FillsNewSocket, Phases, acceptVars, Socket
  <2>2. ASSUME NEW r \in Server, Active(r)'
        PROVE  peer_address_'[r] = remote'[r] /\ phase'[r] \notin {"none", "new"}
    <3>1. Active(r) /\ (r = s => phase[r] = "none")
      BY <1>5, <2>2 DEF NewSocket, Active, AcceptInv, AcceptTypeOK, Socket
    <3> QED
      BY <1>5, <3>1 DEF NewSocket, AcceptInv, AcceptTypeOK, ActiveKnowsPeer, Socket
  <2> QED
    BY <2>1, <2>2 DEF AcceptInv, ActiveKnowsPeer
<1>6. ASSUME NEW s \in Socket, Close(s) PROVE AcceptInv'
  <2>1. CASE s \in Server => Active(s)
    <3>1. /\ \A e \in done' : e \in done \/ e.sock = s
          /\ "closed" \in Phases \ {"none", "new"}
          /\ peer_address_' = peer_address_ /\ UNCHANGED <<remote, acceptVars>>
          /\ phase' = [phase EXCEPT ![s] = "closed"] /\ ops' = [ops EXCEPT ![s] = {}]
      BY <1>6 DEF Close, Phases
    <3>2. peer_address_' \in [Socket -> Socket \cup {None}]
      BY <3>1 DEF AcceptInv, AcceptTypeOK
    <3> QED
      BY <2>1, <3>1, <3>2, PhaseAccept
  <2>2. CASE s \in Server /\ ~Active(s)
    <3>1. done' = done /\ phase[s] # "new" /\ ops' = [ops EXCEPT ![s] = {}]
          /\ phase' = [phase EXCEPT ![s] = "closed"]
      BY <1>6, <2>2 DEF Close, Active
    <3>2. AcceptTypeOK' /\ FillsNewSocket'
      BY <1>6, <3>1 DEF Close, AcceptInv, AcceptTypeOK, FillsNewSocket, Phases, acceptVars, Socket
    <3>3. ASSUME NEW r \in Server, Active(r)'
          PROVE  Active(r) /\ r # s
      BY <2>2, <3>1, <3>3 DEF Active, AcceptInv, AcceptTypeOK, Socket
    <3> QED
      BY <1>6, <3>1, <3>2, <3>3 DEF Close, AcceptInv, AcceptTypeOK, ActiveKnowsPeer, Socket
  <2> QED
    BY <2>1, <2>2
<1>7. ASSUME NEW s \in Socket, HandshakeEnds(s) PROVE AcceptInv'
  BY <1>7, EndsAccept DEF HandshakeEnds, acceptVars, AcceptInv, AcceptTypeOK
<1>8. ASSUME NEW s \in Socket, Handler(s) PROVE AcceptInv'
  <2>1. CASE s \in Client /\ OnConnect(s)
    <3>1. s \notin Server
      BY <2>1
    <3>2. Established(s).phase \in Phases \ {"none", "new"}
          /\ Established(s).ops \in SUBSET {"connect", "handshake", "receive"}
      BY DEF Established, Phases
    <3>3. peer_address_' \in [Socket -> Socket \cup {None}]
          /\ \A r \in Server : peer_address_'[r] = peer_address_[r]
      BY <2>1, <3>1 DEF OnConnect, AcceptInv, AcceptTypeOK, Socket
    <3> QED
      BY <2>1, <3>1, <3>2, <3>3, PhaseAccept DEF OnConnect
  <2>2. CASE OnHandShake(s)
    <3>1. Active(s)
      BY <2>2 DEF OnHandShake, Active
    <3>2. (IF s \in Server THEN {"receive"} ELSE {}) \in SUBSET {"connect", "handshake", "receive"}
      OBVIOUS
    <3> QED
      BY <2>2, <3>1, <3>2, PhaseAccept DEF OnHandShake, Phases, AcceptInv, AcceptTypeOK
  <2>3. CASE s \in Server /\ OnReceive(s)
    <3>1. Active(s)
      BY <2>3 DEF OnReceive, Active
    <3>2. AcceptTypeOK' /\ FillsNewSocket'
      BY <2>3 DEF OnReceive, AcceptInv, AcceptTypeOK, FillsNewSocket, acceptVars
    <3>3. ASSUME NEW r \in Server, Active(r)'
          PROVE  Active(r)
      BY <2>3, <3>1, <3>3 DEF OnReceive, Active, AcceptInv, AcceptTypeOK, Socket
    <3> QED
      BY <2>3, <3>2, <3>3 DEF OnReceive, AcceptInv, ActiveKnowsPeer
  <2>4. CASE OnError(s)
    <3>1. /\ UNCHANGED <<phase, ops, remote, peer_address_, acceptVars>>
          /\ \A e \in done' : e \in done
      BY <2>4 DEF OnError
    <3>2. ASSUME NEW r \in Server, Active(r)'
          PROVE  Active(r)
      BY <3>1, <3>2 DEF Active
    <3> QED
      BY <3>1, <3>2 DEF AcceptInv, AcceptTypeOK, FillsNewSocket, ActiveKnowsPeer, acceptVars
  <2> QED
    BY <1>8, <2>1, <2>2, <2>3, <2>4 DEF Handler
<1>9. ASSUME NEW c \in Client, AsyncConnect(c) PROVE AcceptInv'
  <2>1. c \notin Server /\ c \in Socket
    BY DEF Socket
  <2> QED
    BY <1>9, <2>1, PhaseAccept DEF AsyncConnect, Phases, AcceptInv, AcceptTypeOK
<1>10. ASSUME NEW c \in Client, ConnectEnds(c) PROVE AcceptInv'
  <2>1. c \in Socket
    BY DEF Socket
  <2>2. backlog' \in Seq(Client)
    BY <1>10 DEF ConnectEnds, AcceptInv, AcceptTypeOK
  <2> QED
    BY <1>10, <2>1, <2>2, EndsAccept DEF ConnectEnds
<1>11. ASSUME NEW c \in Client, SendSome(c) PROVE AcceptInv'
  BY <1>11, SameAccept DEF SendSome
<1>12. ASSUME NEW s \in Server, AsyncAccept(s) PROVE AcceptInv'
  BY <1>12 DEF AsyncAccept, AcceptInv, AcceptTypeOK, FillsNewSocket, ActiveKnowsPeer, Active, Socket
<1>13. ASSUME NEW s \in Server, ReceiveEnds(s) PROVE AcceptInv'
  <2>1. s \in Socket
    BY DEF Socket
  <2>2. \E ok \in BOOLEAN : Ends(s, "receive", ok)
    BY <1>13 DEF ReceiveEnds
  <2> QED
    BY <1>13, <2>1, <2>2, EndsAccept DEF ReceiveEnds, acceptVars, AcceptInv, AcceptTypeOK
<1>14. ASSUME NEW s \in Server, NEW next \in Server \cup {None}, OnAccept(s, next) PROVE AcceptInv'
  <2>1. Established(s).phase \in Phases \ {"none", "new"}
        /\ Established(s).ops \in SUBSET {"connect", "handshake", "receive"}
    BY DEF Established, Phases
  <2>2. AcceptTypeOK'
    BY <1>14, <2>1 DEF OnAccept, AcceptInv, AcceptTypeOK, Socket
  <2>3. FillsNewSocket'
    BY <1>14 DEF OnAccept, AcceptInv, AcceptTypeOK, FillsNewSocket, Socket
  <2>4. ASSUME NEW r \in Server, Active(r)'
        PROVE  peer_address_'[r] = remote'[r] /\ phase'[r] \notin {"none", "new"}
    <3>1. CASE r = s
      BY <1>14, <2>1, <3>1 DEF OnAccept, AcceptInv, AcceptTypeOK, Socket
    <3>2. CASE r # s
      <4>1. Active(r)
        BY <1>14, <2>4, <3>2 DEF OnAccept, Active, AcceptInv, AcceptTypeOK, Socket
      <4> QED
        BY <1>14, <3>2, <4>1 DEF OnAccept, AcceptInv, AcceptTypeOK, ActiveKnowsPeer, Socket
    <3> QED
      BY <3>1, <3>2
  <2> QED
    BY <2>2, <2>3, <2>4 DEF AcceptInv, ActiveKnowsPeer
<1> QED
  BY <1>1, <1>2, <1>3, <1>4, <1>5, <1>6, <1>7, <1>8, <1>9, <1>10, <1>11, <1>12, <1>13, <1>14
     DEF Next

\* An accepted socket in use always has the address of its own peer, for any number of
\* clients, servers and threads, with SSL and without.
THEOREM PeerAddress == Spec => []PeerAddressIsPeer
<1>1. AcceptInv => PeerAddressIsPeer
  BY DEF AcceptInv, ActiveKnowsPeer, Active, PeerAddressIsPeer
<1> QED
  BY <1>1, InitAccept, NextAccept, PTL DEF Spec

-----------------------------------------------------------------------------
(* The streams.                                                            *)

\* An open io has all its threads; what is on its way is a sequence of bytes.
StreamTypeOK ==
    /\ io = "open" => threads = ThreadCount
    /\ wire \in [Server -> Seq(1 .. MaxBytes)]
    /\ buffer_ \in [Server -> Seq(1 .. MaxBytes)]
    /\ received \in [Server -> Seq(1 .. MaxBytes)]

\* A socket has one operation under way, or one completion whose handler has not run.
One(s) ==
    /\ \A o, p \in ops[s] : o = p
    /\ \A d, e \in done : (d.sock = s /\ e.sock = s) => (d = e /\ ops[s] = {})

OneAtATime == \A s \in Socket : One(s)

\* A client and an accepted socket are at the two ends of one connection.
LinksPaired ==
    /\ \A c \in Client : remote[c] \in Server \cup {None}
    /\ \A s \in Server : remote[s] \in Client \cup {None}
    /\ \A s \in Socket : remote[s] # None => remote[remote[s]] = s

\* A socket gets its other end once: before, it is not in the backlog, or once in it.
NewUnlinked ==
    /\ \A s \in Server :
           phase[s] \in {"none", "new"} =>
               remote[s] = None \/ (accepting = "done" /\ s = tcpsocket_lptr_)
    /\ \A i, j \in DOMAIN backlog : backlog[i] = backlog[j] => i = j
    /\ \A i \in DOMAIN backlog : remote[backlog[i]] = None
    /\ \A c \in Client :
           phase[c] \in {"none", "new"} => ops[c] = {} /\ \A e \in done : e.sock # c
    /\ \A c \in Client :
           (phase[c] \in {"none", "new"} \/ "connect" \in ops[c]) =>
               remote[c] = None /\ \A i \in DOMAIN backlog : backlog[i] # c

\* The buffer holds bytes that OnReceive has not been given.
ReadPending(s) == [sock |-> s, op |-> "receive", ok |-> TRUE] \in done

\* The bytes that were read for s, and those that its peer has sent.
Handed(s) == Len(received[s]) + IF ReadPending(s) THEN Len(buffer_[s]) ELSE 0
SentTo(s) == IF remote[s] = None THEN 0 ELSE sent[remote[s]]

\* What was received, the buffer if it waits for its handler, and the wire are the stream.
InStream(s) ==
    /\ \A i \in DOMAIN received[s] : received[s][i] = i
    /\ ReadPending(s) => \A i \in DOMAIN buffer_[s] : buffer_[s][i] = Len(received[s]) + i
    /\ \A i \in DOMAIN wire[s] : wire[s][i] = Handed(s) + i
    /\ Handed(s) + Len(wire[s]) = SentTo(s)

SentOverLink == \A c \in Client : remote[c] = None => sent[c] = 0

StreamInv ==
    /\ AcceptInv /\ TypeOK /\ StreamTypeOK /\ OneAtATime /\ LinksPaired /\ NewUnlinked
    /\ SentOverLink /\ \A s \in Server : InStream(s)

\* The first n bytes of w, and the others.
LEMMA BytesCut ==
    ASSUME NEW w \in Seq(1 .. MaxBytes), NEW n \in 1 .. Len(w)
    PROVE  /\ SubSeq(w, 1, n) \in Seq(1 .. MaxBytes) /\ Len(SubSeq(w, 1, n)) = n
           /\ \A i \in 1 .. n : SubSeq(w, 1, n)[i] = w[i]
           /\ SubSeq(w, n + 1, Len(w)) \in Seq(1 .. MaxBytes)
           /\ Len(SubSeq(w, n + 1, Len(w))) = Len(w) - n
           /\ \A i \in 1 .. Len(w) - n : SubSeq(w, n + 1, Len(w))[i] = w[n + i]
<1>1. PICK l \in Nat : l = Len(w) /\ n \in 1 .. l
  OBVIOUS
<1>2. \A i \in 1 .. l : w[i] \in 1 .. MaxBytes
  BY <1>1, ElementOfSeq
<1>3. /\ n \in Int /\ n + 1 \in Int /\ l \in Int /\ 1 \in Int
      /\ \A i \in 1 .. n : w[i] \in 1 .. MaxBytes
      /\ \A i \in n + 1 .. l : w[i] \in 1 .. MaxBytes
  BY <1>1, <1>2
<1>4. /\ 1 <= n /\ n - 1 + 1 = n /\ \A i \in 1 .. n : 1 + i - 1 = i
      /\ (IF n + 1 <= l THEN l - (n + 1) + 1 ELSE 0) = l - n
      /\ l - (n + 1) + 1 = l - n /\ \A i \in 1 .. l - n : (n + 1) + i - 1 = n + i
  BY <1>1
<1>5. /\ SubSeq(w, 1, n) \in Seq(1 .. MaxBytes) /\ Len(SubSeq(w, 1, n)) = n
      /\ \A i \in 1 .. n : SubSeq(w, 1, n)[i] = w[i]
  <2>1. /\ SubSeq(w, 1, n) \in Seq(1 .. MaxBytes)
        /\ Len(SubSeq(w, 1, n)) = IF 1 <= n THEN n - 1 + 1 ELSE 0
        /\ \A i \in 1 .. n - 1 + 1 : SubSeq(w, 1, n)[i] = w[1 + i - 1]
    BY <1>3, SubSeqProperties
  <2> QED
    BY <1>4, <2>1, Zenon
<1>6. /\ SubSeq(w, n + 1, l) \in Seq(1 .. MaxBytes) /\ Len(SubSeq(w, n + 1, l)) = l - n
      /\ \A i \in 1 .. l - n : SubSeq(w, n + 1, l)[i] = w[n + i]
  <2>1. /\ SubSeq(w, n + 1, l) \in Seq(1 .. MaxBytes)
        /\ Len(SubSeq(w, n + 1, l)) = IF n + 1 <= l THEN l - (n + 1) + 1 ELSE 0
        /\ \A i \in 1 .. l - (n + 1) + 1 : SubSeq(w, n + 1, l)[i] = w[(n + 1) + i - 1]
    BY <1>3, SubSeqProperties
  <2> QED
    BY <1>4, <2>1, Zenon
<1> QED
  BY <1>1, <1>5, <1>6, Zenon

LEMMA InitStream == Init => StreamInv
<1> SUFFICES ASSUME Init PROVE StreamInv
  OBVIOUS
<1> USE AsyncSocketAssumption
<1>1. TypeOK /\ StreamTypeOK
  BY DEF Init, TypeOK, StreamTypeOK, Phases
<1>2. OneAtATime /\ LinksPaired /\ NewUnlinked /\ SentOverLink
  BY DEF Init, OneAtATime, One, LinksPaired, NewUnlinked, SentOverLink, Socket
<1>3. ASSUME NEW s \in Server PROVE InStream(s)
  <2>1. received[s] = <<>> /\ wire[s] = <<>> /\ remote[s] = None /\ ~ReadPending(s)
    BY DEF Init, Socket, ReadPending
  <2> QED
    BY <2>1 DEF InStream, Handed, SentTo
<1> QED
  BY <1>1, <1>2, <1>3, InitAccept DEF StreamInv

\* The types.
LEMMA NextStreamType ==
    ASSUME StreamInv, [Next]_vars
    PROVE  TypeOK' /\ StreamTypeOK'
<1> USE AsyncSocketAssumption
<1>0. TypeOK /\ StreamTypeOK
  BY DEF StreamInv
<1>1. CASE UNCHANGED vars
  BY <1>0, <1>1 DEF TypeOK, StreamTypeOK, vars
<1>2. CASE CreateIo \/ CloseIo \/ \E s \in Socket : RemoteEndpointThrows(s)
  <2>1. /\ threads' \in 0 .. ThreadCount /\ io' \in {"new", "open", "closed"}
        /\ io' = "open" => threads' = ThreadCount
    <3>1. CASE CreateIo
      BY <1>0, <3>1 DEF CreateIo, TypeOK
    <3>2. CASE CloseIo \/ \E s \in Socket : RemoteEndpointThrows(s)
      <4>1. io' = "closed" /\ threads' = 0
        BY <3>2, Zenon DEF CloseIo, RemoteEndpointThrows
      <4> QED
        BY <4>1
    <3> QED
      BY <1>2, <3>1, <3>2
  <2>2. UNCHANGED <<next_id_, service, phase, remote, peer_address_, ops, done, acceptVars, dataVars>>
    BY <1>2 DEF CreateIo, CloseIo, RemoteEndpointThrows
  <2> QED
    BY <1>0, <2>1, <2>2 DEF TypeOK, StreamTypeOK, acceptVars, dataVars, streamVars
<1>3. CASE AcceptEnds
  <2>1. tcpsocket_lptr_ \in Server /\ Head(backlog) \in Client /\ Tail(backlog) \in Seq(Client)
    BY <1>0, <1>3 DEF AcceptEnds, StreamInv, AcceptInv, FillsNewSocket, TypeOK
  <2> QED
    BY <1>0, <1>3, <2>1 DEF AcceptEnds, TypeOK, StreamTypeOK, ioVars, dataVars, streamVars, Socket
<1>4. CASE AcceptFails
  BY <1>0, <1>4 DEF AcceptFails, TypeOK, StreamTypeOK, ioVars, dataVars, streamVars
<1>5. ASSUME NEW s \in Socket, NewSocket(s) PROVE TypeOK' /\ StreamTypeOK'
  <2>1. GetIoService \in 0 .. ThreadCount - 1
    BY <1>0, <1>5 DEF NewSocket, GetIoService, TypeOK, StreamTypeOK
  <2> QED
    BY <1>0, <1>5, <2>1 DEF NewSocket, TypeOK, StreamTypeOK, acceptVars, dataVars, streamVars, Phases
<1>6. ASSUME NEW s \in Socket, Close(s) PROVE TypeOK' /\ StreamTypeOK'
  <2>1. ops[s] \subseteq {"connect", "handshake", "receive"}
    BY <1>0 DEF TypeOK
  <2>2. done' \subseteq [sock : Socket, op : {"connect", "handshake", "receive"}, ok : BOOLEAN]
    BY <1>0, <1>6, <2>1 DEF Close, TypeOK
  <2> QED
    BY <1>0, <1>6, <2>2 DEF Close, TypeOK, StreamTypeOK, ioVars, acceptVars, dataVars, streamVars, Phases
<1>7. ASSUME NEW s \in Socket, OnError(s) PROVE TypeOK' /\ StreamTypeOK'
  BY <1>0, <1>7 DEF OnError, TypeOK, StreamTypeOK, ioVars, acceptVars, streamVars
<1>8. ASSUME NEW s \in Socket, NEW op, NEW ok \in BOOLEAN, Ends(s, op, ok)
      PROVE  /\ ops' \in [Socket -> SUBSET {"connect", "handshake", "receive"}]
             /\ done' \subseteq [sock : Socket, op : {"connect", "handshake", "receive"}, ok : BOOLEAN]
  BY <1>0, <1>8 DEF Ends, TypeOK
<1>9. ASSUME NEW s \in Socket, HandshakeEnds(s) PROVE TypeOK' /\ StreamTypeOK'
  BY <1>0, <1>8, <1>9 DEF HandshakeEnds, TypeOK, StreamTypeOK, ioVars, acceptVars, dataVars, streamVars
<1>10. ASSUME NEW c \in Client, ConnectEnds(c) PROVE TypeOK' /\ StreamTypeOK'
  <2>1. backlog' \in Seq(Client) /\ c \in Socket
    BY <1>0, <1>10 DEF ConnectEnds, TypeOK, Socket
  <2> QED
    BY <1>0, <1>8, <1>10, <2>1 DEF ConnectEnds, TypeOK, StreamTypeOK, ioVars, dataVars, streamVars
<1>11. ASSUME NEW s \in Socket
       PROVE  /\ Established(s).phase \in Phases
              /\ Established(s).ops \subseteq {"connect", "handshake", "receive"}
  BY DEF Established, Phases
<1>12. ASSUME NEW s \in Socket, OnConnect(s) \/ OnHandShake(s) PROVE TypeOK' /\ StreamTypeOK'
  <2>1. CASE OnConnect(s)
    BY <1>0, <1>11, <2>1 DEF OnConnect, TypeOK, StreamTypeOK, ioVars, acceptVars, dataVars, streamVars
  <2>2. CASE OnHandShake(s)
    BY <1>0, <2>2 DEF OnHandShake, TypeOK, StreamTypeOK, ioVars, acceptVars, dataVars, streamVars, Phases
  <2> QED
    BY <1>12, <2>1, <2>2
<1>13. ASSUME NEW s \in Server, NEW next \in Server \cup {None}, OnAccept(s, next)
       PROVE TypeOK' /\ StreamTypeOK'
  <2>1. s \in Socket
    BY DEF Socket
  <2> QED
    BY <1>0, <1>11, <1>13, <2>1 DEF OnAccept, TypeOK, StreamTypeOK, ioVars, dataVars, streamVars
<1>14. ASSUME NEW c \in Client, AsyncConnect(c) PROVE TypeOK' /\ StreamTypeOK'
  BY <1>0, <1>14 DEF AsyncConnect, TypeOK, StreamTypeOK, ioVars, acceptVars, dataVars,
                      streamVars, Phases, Socket
<1>15. ASSUME NEW s \in Server, AsyncAccept(s) PROVE TypeOK' /\ StreamTypeOK'
  BY <1>0, <1>15 DEF AsyncAccept, TypeOK, StreamTypeOK, ioVars, dataVars, streamVars
<1>16. ASSUME StreamTypeOK', UNCHANGED <<ioVars, phase, remote, peer_address_, acceptVars, noticed>>,
              ops' \in [Socket -> SUBSET {"connect", "handshake", "receive"}],
              done' \subseteq [sock : Socket, op : {"connect", "handshake", "receive"}, ok : BOOLEAN],
              sent' \in [Client -> 0 .. MaxBytes]
       PROVE  TypeOK'
  <2>1. \A s \in Server : \A q \in {wire'[s], buffer_'[s], received'[s]} :
            \A i \in DOMAIN q : q[i] \in 1 .. MaxBytes
    BY <1>16 DEF StreamTypeOK
  <2> QED
    BY <1>0, <1>16, <2>1 DEF TypeOK, ioVars, acceptVars
<1>17. ASSUME NEW c \in Client, SendSome(c) PROVE TypeOK' /\ StreamTypeOK'
  <2>1. sent[c] + 1 \in 1 .. MaxBytes /\ remote[c] \in Server
    BY <1>0, <1>17 DEF SendSome, TypeOK, StreamInv, LinksPaired
  <2>2. StreamTypeOK'
    BY <1>0, <1>17, <2>1 DEF SendSome, StreamTypeOK, ioVars
  <2>3. sent' \in [Client -> 0 .. MaxBytes]
    BY <1>0, <1>17, <2>1 DEF SendSome, TypeOK
  <2>4. /\ ops' \in [Socket -> SUBSET {"connect", "handshake", "receive"}]
        /\ done' \subseteq [sock : Socket, op : {"connect", "handshake", "receive"}, ok : BOOLEAN]
        /\ UNCHANGED <<ioVars, phase, remote, peer_address_, acceptVars, noticed>>
    BY <1>0, <1>17 DEF SendSome, TypeOK
  <2> QED
    BY <1>16, <2>2, <2>3, <2>4
<1>18. ASSUME NEW s \in Server, ReceiveEnds(s) PROVE TypeOK' /\ StreamTypeOK'
  <2>1. s \in Socket /\ \E ok \in BOOLEAN : Ends(s, "receive", ok)
    BY <1>18 DEF ReceiveEnds, Socket
  <2>2. StreamTypeOK'
    <3>1. \A n \in 1 .. MaxChunk : n <= Len(wire[s]) =>
              /\ SubSeq(wire[s], 1, n) \in Seq(1 .. MaxBytes)
              /\ SubSeq(wire[s], n + 1, Len(wire[s])) \in Seq(1 .. MaxBytes)
      <4> SUFFICES ASSUME NEW n \in 1 .. MaxChunk, n <= Len(wire[s])
                   PROVE  /\ SubSeq(wire[s], 1, n) \in Seq(1 .. MaxBytes)
                          /\ SubSeq(wire[s], n + 1, Len(wire[s])) \in Seq(1 .. MaxBytes)
        OBVIOUS
      <4>1. PICK w \in Seq(1 .. MaxBytes) : w = wire[s]
        BY <1>0 DEF StreamTypeOK
      <4>2. n \in 1 .. Len(w)
        BY <4>1, AsyncSocketAssumption
      <4> QED
        BY <4>1, <4>2, BytesCut, Zenon
    <3>2. UNCHANGED <<io, threads, received>>
      BY <1>18 DEF ReceiveEnds, ioVars
    <3>3. wire' \in [Server -> Seq(1 .. MaxBytes)] /\ buffer_' \in [Server -> Seq(1 .. MaxBytes)]
      <4>1. wire \in [Server -> Seq(1 .. MaxBytes)] /\ buffer_ \in [Server -> Seq(1 .. MaxBytes)]
        BY <1>0 DEF StreamTypeOK
      <4>2. CASE UNCHANGED <<buffer_, wire>>
        BY <4>1, <4>2
      <4>3. ASSUME NEW u \in Seq(1 .. MaxBytes), NEW v \in Seq(1 .. MaxBytes),
                   buffer_' = [buffer_ EXCEPT ![s] = u], wire' = [wire EXCEPT ![s] = v]
            PROVE  wire' \in [Server -> Seq(1 .. MaxBytes)] /\ buffer_' \in [Server -> Seq(1 .. MaxBytes)]
        BY <4>1, <4>3, Zenon
      <4> QED
        BY <1>18, <3>1, <4>2, <4>3, Zenon DEF ReceiveEnds
    <3> QED
      BY <1>0, <3>2, <3>3 DEF StreamTypeOK
  <2> QED
    BY <1>0, <1>8, <1>16, <1>18, <2>1, <2>2 DEF ReceiveEnds, TypeOK
<1>19. ASSUME NEW s \in Server, OnReceive(s) PROVE TypeOK' /\ StreamTypeOK'
  <2>1. received[s] \o buffer_[s] \in Seq(1 .. MaxBytes)
    BY <1>0 DEF StreamTypeOK
  <2>2. StreamTypeOK'
    BY <1>0, <1>19, <2>1 DEF OnReceive, StreamTypeOK, ioVars
  <2> QED
    BY <1>0, <1>16, <1>19, <2>2 DEF OnReceive, TypeOK
<1> QED
  BY <1>1, <1>2, <1>3, <1>4, <1>5, <1>6, <1>7, <1>9, <1>10, <1>12, <1>13, <1>14, <1>15, <1>17,
     <1>18, <1>19 DEF Next, Handler

\* The operations.
LEMMA NextOneAtATime ==
    ASSUME StreamInv, [Next]_vars
    PROVE  OneAtATime'
<1> USE AsyncSocketAssumption
<1>0. TypeOK /\ OneAtATime
  BY DEF StreamInv
<1>1. CASE UNCHANGED <<ops, done>>
  BY <1>0, <1>1 DEF OneAtATime, One
\* The operations of s become o, and a completion is left only if there is none under way.
<1>2. ASSUME NEW s \in Socket, NEW o, ops' = [ops EXCEPT ![s] = o],
             \A e \in done' : e.sock # s => e \in done,
             \A i, j \in o : i = j,
             \A d, e \in done' : (d.sock = s /\ e.sock = s) => (d = e /\ o = {})
      PROVE  OneAtATime'
  <2> SUFFICES ASSUME NEW r \in Socket PROVE One(r)'
    BY DEF OneAtATime
  <2>1. CASE r = s
    BY <1>0, <1>2, <2>1 DEF One, TypeOK
  <2>2. CASE r # s
    BY <1>0, <1>2, <2>2 DEF OneAtATime, One, TypeOK
  <2> QED
    BY <2>1, <2>2
<1>3. ASSUME NEW s \in Socket, NEW op, NEW ok, Ends(s, op, ok) PROVE OneAtATime'
  <2>1. \A e \in done : e.sock # s
    BY <1>0, <1>3 DEF Ends, OneAtATime, One
  <2>2. ops[s] \ {op} = {}
    BY <1>0, <1>3 DEF Ends, OneAtATime, One
  <2>3. ops' = [ops EXCEPT ![s] = {}]
    BY <1>3, <2>2 DEF Ends
  <2>4. /\ \A e \in done' : e.sock # s => e \in done
        /\ \A d, e \in done' : (d.sock = s /\ e.sock = s) => d = e
    BY <1>3, <2>1 DEF Ends
  <2> QED
    BY <1>2, <2>3, <2>4
\* The handler of the only completion of s runs, and starts o.
<1>4. ASSUME NEW s \in Socket, NEW e \in done, e.sock = s, done' = done \ {e}, NEW o,
             ops' = [ops EXCEPT ![s] = o], \A i, j \in o : i = j
      PROVE  OneAtATime'
  <2>1. \A d \in done' : d.sock # s
    BY <1>0, <1>4 DEF OneAtATime, One
  <2> QED
    BY <1>2, <1>4, <2>1
<1>5. ASSUME NEW s \in Socket PROVE \A i, j \in Established(s).ops : i = j
  BY DEF Established
<1>6. ASSUME NEW s \in Socket, Handler(s) PROVE OneAtATime'
  <2>1. CASE OnConnect(s)
    BY <1>4, <1>5, <2>1 DEF OnConnect
  <2>2. CASE OnHandShake(s)
    <3>1. \A i, j \in (IF s \in Server THEN {"receive"} ELSE {}) : i = j
      OBVIOUS
    <3> QED
      BY <1>4, <2>2, <3>1 DEF OnHandShake
  <2>3. CASE OnReceive(s)
    BY <1>4, <2>3 DEF OnReceive
  <2>4. CASE OnError(s)
    <3>1. PICK e \in done : e.sock = s /\ done' = done \ {e} /\ ops' = ops
      BY <2>4 DEF OnError
    <3>2. ops[s] = {}
      BY <1>0, <3>1 DEF OneAtATime, One
    <3>3. done' = done \ {e} /\ ops' = [ops EXCEPT ![s] = {}]
      BY <1>0, <3>1, <3>2 DEF TypeOK
    <3> QED
      BY <1>4, <3>1, <3>3
  <2> QED
    BY <1>6, <2>1, <2>2, <2>3, <2>4 DEF Handler
<1>7. ASSUME NEW s \in Socket, Close(s) PROVE OneAtATime'
  <2>1. /\ \A e \in done : e.sock # s
        /\ \A i, j \in ops[s] : i = j
        /\ done' = done \cup [sock : {s}, op : ops[s], ok : {FALSE}]
        /\ ops' = [ops EXCEPT ![s] = {}]
    BY <1>0, <1>7 DEF Close, OneAtATime, One
  <2>2. ASSUME NEW d \in [sock : {s}, op : ops[s], ok : {FALSE}],
               NEW e \in [sock : {s}, op : ops[s], ok : {FALSE}]
        PROVE  d.sock = s /\ d = e
    <3>1. /\ d = [sock |-> s, op |-> d.op, ok |-> FALSE] /\ d.op \in ops[s]
          /\ e = [sock |-> s, op |-> e.op, ok |-> FALSE] /\ e.op \in ops[s]
      BY <2>2
    <3> QED
      BY <2>1, <3>1
  <2>3. /\ \A e \in done' : e.sock # s => e \in done
        /\ \A d, e \in done' : (d.sock = s /\ e.sock = s) => (d = e /\ {} = {})
        /\ \A i, j \in {} : i = j
    BY <2>1, <2>2
  <2> QED
    BY <1>2, <2>1, <2>3
<1>8. ASSUME NEW c \in Client, AsyncConnect(c) PROVE OneAtATime'
  <2>1. c \in Socket /\ \A e \in done : e.sock # c
    BY <1>8 DEF AsyncConnect, StreamInv, NewUnlinked, Socket
  <2>2. /\ ops' = [ops EXCEPT ![c] = {"connect"}]
        /\ \A e \in done' : e.sock # c => e \in done
        /\ \A i, j \in {"connect"} : i = j
        /\ \A d, e \in done' : (d.sock = c /\ e.sock = c) => (d = e /\ {"connect"} = {})
    BY <1>8, <2>1 DEF AsyncConnect
  <2> QED
    BY <1>2, <2>1, <2>2
<1>9. ASSUME NEW s \in Server, NEW next \in Server \cup {None}, OnAccept(s, next) PROVE OneAtATime'
  <2>1. s \in Socket /\ phase[s] = "new" /\ UNCHANGED done
    BY <1>9 DEF OnAccept, StreamInv, AcceptInv, FillsNewSocket, Socket
  <2>2. \A e \in done : e.sock # s
    BY <2>1 DEF StreamInv, AcceptInv, ActiveKnowsPeer, Active
  <2>3. PICK o : o = Established(s).ops
    OBVIOUS
  <2>4. /\ ops' = [ops EXCEPT ![s] = o]
        /\ \A e \in done' : e.sock # s => e \in done
        /\ \A i, j \in o : i = j
        /\ \A d, e \in done' : (d.sock = s /\ e.sock = s) => (d = e /\ o = {})
    BY <1>5, <1>9, <2>1, <2>2, <2>3 DEF OnAccept
  <2> QED
    BY <1>2, <2>1, <2>4
<1>10. ASSUME NEW s \in Socket, HandshakeEnds(s) PROVE OneAtATime'
  BY <1>3, <1>10 DEF HandshakeEnds
<1>11. ASSUME NEW c \in Client, ConnectEnds(c) PROVE OneAtATime'
  BY <1>3, <1>11 DEF ConnectEnds, Socket
<1>12. ASSUME NEW s \in Server, ReceiveEnds(s) PROVE OneAtATime'
  BY <1>3, <1>12 DEF ReceiveEnds, Socket
<1>13. CASE \/ CreateIo \/ CloseIo \/ AcceptEnds \/ AcceptFails
            \/ \E s \in Socket : NewSocket(s) \/ RemoteEndpointThrows(s)
            \/ \E c \in Client : SendSome(c)
            \/ \E s \in Server : AsyncAccept(s)
  BY <1>1, <1>13 DEF CreateIo, CloseIo, AcceptEnds, AcceptFails, NewSocket, RemoteEndpointThrows,
                      SendSome, AsyncAccept
<1> QED
  BY <1>1, <1>6, <1>7, <1>8, <1>9, <1>10, <1>11, <1>12, <1>13 DEF Next, vars

\* The two ends of a connection.
LEMMA NextLinks ==
    ASSUME StreamInv, [Next]_vars
    PROVE  LinksPaired' /\ NewUnlinked' /\ SentOverLink'
<1> USE AsyncSocketAssumption
<1>0. TypeOK /\ LinksPaired /\ NewUnlinked /\ SentOverLink
  BY DEF StreamInv
<1>1. CASE AcceptEnds
  <2>1. /\ tcpsocket_lptr_ \in Server /\ phase[tcpsocket_lptr_] = "new" /\ accepting = "pending"
        /\ backlog # <<>> /\ backlog \in Seq(Client) /\ remote \in [Socket -> Socket \cup {None}]
    BY <1>0, <1>1 DEF AcceptEnds, TypeOK, StreamInv, AcceptInv, FillsNewSocket
  <2>2. PICK s \in Server, c \in Client :
            /\ s = tcpsocket_lptr_ /\ c = Head(backlog) /\ c = backlog[1]
            /\ remote' = [remote EXCEPT ![s] = c, ![c] = s]
    <3>1. Head(backlog) \in Client /\ Head(backlog) = backlog[1]
      BY <2>1
    <3>2. remote' = [remote EXCEPT ![tcpsocket_lptr_] = Head(backlog),
                                   ![Head(backlog)] = tcpsocket_lptr_]
      BY <1>1 DEF AcceptEnds
    <3> QED
      BY <2>1, <3>1, <3>2
  <2>3. remote[s] = None /\ remote[c] = None
    BY <1>0, <2>1, <2>2 DEF NewUnlinked
  <2>4. /\ remote'[s] = c /\ remote'[c] = s /\ s # c /\ s # None /\ c # None
        /\ \A r \in Socket \ {s, c} : remote'[r] = remote[r] /\ remote[r] # s /\ remote[r] # c
    <3>1. s # c /\ s # None /\ c # None /\ s \in Socket /\ c \in Socket
      BY DEF Socket
    <3>2. \A r \in Socket : remote[r] # s /\ remote[r] # c
      BY <1>0, <2>3, <3>1 DEF LinksPaired, Socket
    <3> QED
      BY <2>1, <2>2, <3>1, <3>2
  <2>5. LinksPaired'
    <3>1. /\ \A k \in Client : remote'[k] \in Server \cup {None}
          /\ \A r \in Server : remote'[r] \in Client \cup {None}
      BY <1>0, <2>4 DEF LinksPaired, Socket
    <3>2. ASSUME NEW r \in Socket, remote'[r] # None
          PROVE  remote'[remote'[r]] = r
      BY <1>0, <2>1, <2>4, <3>2 DEF LinksPaired, Socket
    <3> QED
      BY <3>1, <3>2 DEF LinksPaired
  <2>6. /\ \A i \in DOMAIN backlog' : i + 1 \in DOMAIN backlog /\ backlog'[i] = backlog[i + 1]
        /\ \A i \in DOMAIN backlog' : i \in Nat \ {0}
    BY <1>1, <2>1 DEF AcceptEnds
  <2>7. \A i \in DOMAIN backlog' : backlog'[i] \in Client \ {c}
    BY <1>0, <2>1, <2>2, <2>6 DEF NewUnlinked
  <2>8. /\ accepting' = "done" /\ tcpsocket_lptr_' = s /\ UNCHANGED <<phase, ops, done, sent>>
    BY <1>1, <2>2 DEF AcceptEnds, dataVars, streamVars
  <2>9. NewUnlinked'
    <3>1. \A r \in Server :
              phase'[r] \in {"none", "new"} =>
                  remote'[r] = None \/ (accepting' = "done" /\ r = tcpsocket_lptr_')
      BY <1>0, <2>1, <2>4, <2>8 DEF NewUnlinked, Socket
    <3>2. \A i, j \in DOMAIN backlog' : backlog'[i] = backlog'[j] => i = j
      BY <1>0, <2>6 DEF NewUnlinked
    <3>3. \A i \in DOMAIN backlog' : remote'[backlog'[i]] = None
      BY <1>0, <2>4, <2>6, <2>7 DEF NewUnlinked, Socket
    <3>4. \A k \in Client :
              (phase[k] \in {"none", "new"} \/ "connect" \in ops[k]) =>
                  remote'[k] = None /\ \A i \in DOMAIN backlog' : backlog'[i] # k
      BY <1>0, <2>1, <2>2, <2>4, <2>6 DEF NewUnlinked, Socket
    <3> QED
      BY <1>0, <2>8, <3>1, <3>2, <3>3, <3>4 DEF NewUnlinked
  <2>10. SentOverLink'
    BY <1>0, <2>4, <2>8 DEF SentOverLink, Socket
  <2> QED
    BY <2>5, <2>9, <2>10
<1>2. CASE UNCHANGED <<remote, sent>> /\ NewUnlinked'
  BY <1>0, <1>2 DEF LinksPaired, SentOverLink
\* Socket s is used from now on, or still.
<1>3. ASSUME NEW s \in Socket, UNCHANGED <<remote, backlog, accepting, tcpsocket_lptr_>>,
             NEW p \in Phases \ {"none", "new"}, phase' = [phase EXCEPT ![s] = p],
             NEW o, ops' = [ops EXCEPT ![s] = o],
             "connect" \in o => s \in Client /\ phase[s] = "new",
             \A e \in done' : e \in done \/ e.sock = s
      PROVE  NewUnlinked'
  <2>1. /\ phase \in [Socket -> Phases] /\ ops \in [Socket -> SUBSET {"connect", "handshake", "receive"}]
        /\ Client \subseteq Socket /\ Server \subseteq Socket
    BY <1>0 DEF TypeOK, Socket
  <2>2. \A r \in Socket : phase'[r] \in {"none", "new"} => phase'[r] = phase[r] /\ r # s /\ ops'[r] = ops[r]
    BY <1>3, <2>1
  <2>3. \A c \in Client :
            phase'[c] \in {"none", "new"} => ops'[c] = {} /\ \A e \in done' : e.sock # c
    BY <1>0, <1>3, <2>1, <2>2 DEF NewUnlinked
  <2>4. \A c \in Client :
            (phase'[c] \in {"none", "new"} \/ "connect" \in ops'[c]) =>
                phase[c] \in {"none", "new"} \/ "connect" \in ops[c]
    BY <1>3, <2>1
  <2> QED
    BY <1>0, <1>3, <2>1, <2>2, <2>3, <2>4 DEF NewUnlinked
<1>4. ASSUME NEW s \in Socket, NEW op, NEW ok, Ends(s, op, ok)
      PROVE  /\ \A c \in Client :
                    phase[c] \in {"none", "new"} => ops'[c] = {} /\ \A e \in done' : e.sock # c
             /\ \A c \in Client : "connect" \in ops'[c] => "connect" \in ops[c]
             /\ \A c \in Client : phase[c] \in {"none", "new"} => c # s
             /\ op = "connect" => "connect" \notin ops'[s] /\ "connect" \in ops[s]
  <2>1. \A c \in Client : phase[c] \in {"none", "new"} => c # s
    BY <1>0, <1>4 DEF Ends, NewUnlinked
  <2> QED
    BY <1>0, <1>4, <2>1 DEF Ends, TypeOK, NewUnlinked, Socket
<1>5. ASSUME NEW s \in Socket, HandshakeEnds(s) PROVE NewUnlinked'
  BY <1>0, <1>4, <1>5 DEF HandshakeEnds, NewUnlinked, acceptVars
<1>6. ASSUME NEW s \in Server, ReceiveEnds(s) PROVE NewUnlinked'
  <2>1. s \in Socket /\ \E ok \in BOOLEAN : Ends(s, "receive", ok)
    BY <1>6 DEF ReceiveEnds, Socket
  <2> QED
    BY <1>0, <1>4, <1>6, <2>1 DEF ReceiveEnds, NewUnlinked, acceptVars
<1>7. ASSUME NEW c \in Client, ConnectEnds(c) PROVE NewUnlinked'
  <2>1. PICK ok \in BOOLEAN : Ends(c, "connect", ok) /\ backlog' = IF ok THEN Append(backlog, c) ELSE backlog
    BY <1>7 DEF ConnectEnds
  <2>2. /\ c \in Socket /\ backlog \in Seq(Client) /\ "connect" \in ops[c]
        /\ UNCHANGED <<phase, remote, accepting, tcpsocket_lptr_>>
    BY <1>0, <1>7, <2>1 DEF Ends, ConnectEnds, TypeOK, Socket
  <2>3. remote[c] = None /\ \A i \in DOMAIN backlog : backlog[i] # c
    BY <1>0, <2>2 DEF NewUnlinked
  <2>4. \A i \in DOMAIN backlog' : \/ i \in DOMAIN backlog /\ backlog'[i] = backlog[i]
                                   \/ i \notin DOMAIN backlog /\ i = Len(backlog) + 1 /\ backlog'[i] = c
    BY <2>1, <2>2
  <2>5. /\ \A i, j \in DOMAIN backlog' : backlog'[i] = backlog'[j] => i = j
        /\ \A i \in DOMAIN backlog' : remote'[backlog'[i]] = None
    BY <1>0, <2>2, <2>3, <2>4 DEF NewUnlinked
  <2>6. ASSUME NEW k \in Client, phase'[k] \in {"none", "new"} \/ "connect" \in ops'[k]
        PROVE  remote'[k] = None /\ \A i \in DOMAIN backlog' : backlog'[i] # k
    <3>1. k # c /\ (phase[k] \in {"none", "new"} \/ "connect" \in ops[k])
      BY <1>4, <2>1, <2>2, <2>6
    <3> QED
      BY <1>0, <2>2, <2>4, <3>1 DEF NewUnlinked
  <2> QED
    BY <1>0, <1>4, <2>1, <2>2, <2>5, <2>6 DEF NewUnlinked
<1>8. ASSUME NEW s \in Socket
      PROVE  Established(s).phase \in Phases \ {"none", "new"} /\ "connect" \notin Established(s).ops
  BY DEF Established, Phases
<1>9. ASSUME NEW s \in Socket, OnConnect(s) \/ OnHandShake(s) PROVE NewUnlinked'
  <2>1. CASE OnConnect(s)
    BY <1>3, <1>8, <2>1 DEF OnConnect, acceptVars
  <2>2. CASE OnHandShake(s)
    <3>1. "connect" \notin (IF s \in Server THEN {"receive"} ELSE {}) /\ "ready" \in Phases \ {"none", "new"}
      BY DEF Phases
    <3> QED
      BY <1>3, <2>2, <3>1 DEF OnHandShake, acceptVars
  <2> QED
    BY <1>9, <2>1, <2>2
<1>10. ASSUME NEW s \in Socket, Close(s) PROVE NewUnlinked'
  <2>1. /\ phase' = [phase EXCEPT ![s] = "closed"] /\ ops' = [ops EXCEPT ![s] = {}]
        /\ \A e \in done' : e \in done \/ e.sock = s
        /\ UNCHANGED <<remote, backlog, accepting, tcpsocket_lptr_>>
    BY <1>10 DEF Close, acceptVars
  <2>2. "closed" \in Phases \ {"none", "new"} /\ "connect" \notin {}
    BY DEF Phases
  <2> QED
    BY <1>3, <2>1, <2>2
<1>11. ASSUME NEW c \in Client, AsyncConnect(c) PROVE NewUnlinked'
  <2>1. c \in Socket /\ "connecting" \in Phases \ {"none", "new"}
    BY DEF Socket, Phases
  <2> QED
    BY <1>3, <1>11, <2>1 DEF AsyncConnect, acceptVars
<1>12. ASSUME NEW s \in Server, OnReceive(s) PROVE NewUnlinked'
  <2>1. /\ s \in Socket /\ s \notin Client /\ done' \subseteq done
        /\ ops' = [ops EXCEPT ![s] = {"receive"}]
        /\ UNCHANGED <<remote, backlog, accepting, tcpsocket_lptr_, phase>>
    BY <1>12 DEF OnReceive, acceptVars, Socket
  <2>2. \A c \in Client : ops'[c] = ops[c]
    BY <1>0, <2>1 DEF TypeOK, Socket
  <2> QED
    BY <1>0, <2>1, <2>2 DEF NewUnlinked
<1>13. ASSUME NEW s \in Server, NEW next \in Server \cup {None}, OnAccept(s, next) PROVE NewUnlinked'
  <2>1. /\ s \in Socket /\ s \notin Client /\ s = tcpsocket_lptr_
        /\ phase' = [phase EXCEPT ![s] = Established(s).phase]
        /\ ops' = [ops EXCEPT ![s] = Established(s).ops]
        /\ UNCHANGED <<remote, backlog, done>>
    BY <1>13 DEF OnAccept, Socket
  <2>2. \A c \in Client : ops'[c] = ops[c] /\ phase'[c] = phase[c]
    BY <1>0, <2>1 DEF TypeOK, Socket
  <2>3. \A r \in Server : phase'[r] \in {"none", "new"} => phase[r] \in {"none", "new"} /\ r # s
    BY <1>0, <1>8, <2>1 DEF TypeOK, Socket
  <2> QED
    BY <1>0, <2>1, <2>2, <2>3 DEF NewUnlinked
<1>14. ASSUME NEW s \in Socket, NewSocket(s) PROVE NewUnlinked'
  <2>1. /\ \A r \in Socket : phase'[r] \in {"none", "new"} => phase[r] \in {"none", "new"}
        /\ UNCHANGED <<remote, backlog, accepting, tcpsocket_lptr_, ops, done>>
        /\ Client \subseteq Socket /\ Server \subseteq Socket
    BY <1>0, <1>14 DEF NewSocket, TypeOK, acceptVars, Socket
  <2> QED
    BY <1>0, <2>1 DEF NewUnlinked
<1>15. ASSUME \/ CreateIo \/ CloseIo \/ AcceptFails
              \/ \E s \in Server : AsyncAccept(s)
              \/ \E s \in Socket : RemoteEndpointThrows(s) \/ OnError(s)
       PROVE  NewUnlinked'
  <2>1. /\ UNCHANGED <<phase, remote, ops, backlog>> /\ done' \subseteq done
        /\ accepting = "done" => UNCHANGED <<accepting, tcpsocket_lptr_>>
    BY <1>15 DEF CreateIo, CloseIo, AcceptFails, AsyncAccept, RemoteEndpointThrows, OnError, acceptVars
  <2> QED
    BY <1>0, <2>1 DEF NewUnlinked
<1>16. ASSUME NEW c \in Client, SendSome(c) PROVE LinksPaired' /\ NewUnlinked' /\ SentOverLink'
  <2>1. NewUnlinked' /\ LinksPaired'
    BY <1>0, <1>16 DEF SendSome, NewUnlinked, LinksPaired, acceptVars
  <2>2. SentOverLink'
    BY <1>0, <1>16 DEF SendSome, SentOverLink, TypeOK
  <2> QED
    BY <2>1, <2>2
<1>17. CASE UNCHANGED vars
  BY <1>0, <1>17 DEF vars, LinksPaired, NewUnlinked, SentOverLink
<1>18. \/ AcceptEnds \/ (\E c \in Client : SendSome(c)) \/ UNCHANGED vars
       \/ UNCHANGED <<remote, sent>>
  <2>1. CreateIo \/ CloseIo \/ AcceptFails => UNCHANGED <<remote, sent>>
    BY DEF CreateIo, CloseIo, AcceptFails, dataVars, streamVars
  <2>2. ASSUME NEW s \in Socket, NewSocket(s) \/ Close(s) \/ HandshakeEnds(s) \/ OnError(s)
                                \/ RemoteEndpointThrows(s)
        PROVE  UNCHANGED <<remote, sent>>
    BY <2>2 DEF NewSocket, Close, HandshakeEnds, OnError, RemoteEndpointThrows, dataVars, streamVars
  <2>3. ASSUME NEW s \in Socket, OnConnect(s) \/ OnHandShake(s) \/ OnReceive(s)
        PROVE  UNCHANGED <<remote, sent>>
    BY <2>3 DEF OnConnect, OnHandShake, OnReceive, dataVars, streamVars
  <2>4. ASSUME NEW c \in Client, AsyncConnect(c) \/ ConnectEnds(c)
        PROVE  UNCHANGED <<remote, sent>>
    BY <2>4 DEF AsyncConnect, ConnectEnds, dataVars, streamVars
  <2>5. ASSUME NEW s \in Server, NEW next, AsyncAccept(s) \/ ReceiveEnds(s) \/ OnAccept(s, next)
        PROVE  UNCHANGED <<remote, sent>>
    BY <2>5 DEF AsyncAccept, ReceiveEnds, OnAccept, dataVars, streamVars
  <2> QED
    BY <2>1, <2>2, <2>3, <2>4, <2>5 DEF Next, Handler
<1> QED
  BY <1>1, <1>2, <1>5, <1>6, <1>7, <1>9, <1>10, <1>11, <1>12, <1>13, <1>14, <1>15, <1>16, <1>17,
     <1>18 DEF Next, Handler

\* Pieces of the stream: one that grows, one that is cut in two, and two that are joined.
LEMMA StreamGrows ==
    ASSUME NEW w \in Seq(1 .. MaxBytes), NEW k \in Nat, \A i \in DOMAIN w : w[i] = k + i,
           NEW b, b = k + Len(w) + 1
    PROVE  /\ Len(Append(w, b)) = Len(w) + 1
           /\ \A i \in DOMAIN Append(w, b) : Append(w, b)[i] = k + i
<1>1. /\ Len(w) \in Nat /\ DOMAIN w = 1 .. Len(w) /\ Len(Append(w, b)) = Len(w) + 1
      /\ DOMAIN Append(w, b) = 1 .. Len(w) + 1
  OBVIOUS
<1>2. Append(w, b)[Len(w) + 1] = b /\ \A i \in 1 .. Len(w) : Append(w, b)[i] = w[i]
  OBVIOUS
<1>3. PICK l \in Nat : l = Len(w)
  BY <1>1
<1>4. \A i \in 1 .. l + 1 : i \in 1 .. l \/ (i = l + 1 /\ k + i = k + l + 1)
  BY <1>3
<1> QED
  BY <1>1, <1>2, <1>3, <1>4, Zenon

StreamFrom(w, k) == \A i \in DOMAIN w : w[i] = k + i

LEMMA StreamCut ==
    ASSUME NEW w \in Seq(1 .. MaxBytes), NEW k \in Nat, StreamFrom(w, k), NEW n \in 1 .. Len(w)
    PROVE  /\ Len(SubSeq(w, 1, n)) = n
           /\ Len(SubSeq(w, n + 1, Len(w))) = Len(w) - n
           /\ StreamFrom(SubSeq(w, 1, n), k)
           /\ StreamFrom(SubSeq(w, n + 1, Len(w)), k + n)
<1>1. /\ Len(w) \in Nat /\ DOMAIN w = 1 .. Len(w)
      /\ DOMAIN SubSeq(w, 1, n) = 1 .. n /\ Len(SubSeq(w, 1, n)) = n
      /\ DOMAIN SubSeq(w, n + 1, Len(w)) = 1 .. Len(w) - n
      /\ Len(SubSeq(w, n + 1, Len(w))) = Len(w) - n
  <2>1. \A v \in Seq(1 .. MaxBytes) : Len(v) \in Nat /\ DOMAIN v = 1 .. Len(v)
    OBVIOUS
  <2>2. /\ SubSeq(w, 1, n) \in Seq(1 .. MaxBytes) /\ Len(SubSeq(w, 1, n)) = n
        /\ SubSeq(w, n + 1, Len(w)) \in Seq(1 .. MaxBytes)
        /\ Len(SubSeq(w, n + 1, Len(w))) = Len(w) - n
    BY BytesCut, Zenon
  <2>3. DOMAIN SubSeq(w, 1, n) = 1 .. n
    BY <2>1, <2>2, Zenon
  <2>4. DOMAIN SubSeq(w, n + 1, Len(w)) = 1 .. Len(w) - n
    BY <2>1, <2>2, Zenon
  <2> QED
    BY <2>1, <2>2, <2>3, <2>4, Zenon
<1>2. /\ \A i \in 1 .. n : SubSeq(w, 1, n)[i] = w[i]
      /\ \A i \in 1 .. Len(w) - n : SubSeq(w, n + 1, Len(w))[i] = w[n + i]
  BY BytesCut, Zenon
<1>3. PICK l \in Nat : l = Len(w) /\ n \in 1 .. l
  OBVIOUS
<1>4. /\ \A i \in 1 .. n : i \in 1 .. l
      /\ \A i \in 1 .. l - n : n + i \in 1 .. l /\ k + (n + i) = k + n + i
  BY <1>3
<1> QED
  BY <1>1, <1>2, <1>3, <1>4, Zenon DEF StreamFrom

LEMMA StreamJoined ==
    ASSUME NEW p \in Seq(1 .. MaxBytes), NEW q \in Seq(1 .. MaxBytes),
           \A i \in DOMAIN p : p[i] = i, \A i \in DOMAIN q : q[i] = Len(p) + i
    PROVE  /\ Len(p \o q) = Len(p) + Len(q)
           /\ \A i \in DOMAIN (p \o q) : (p \o q)[i] = i
<1>1. /\ Len(p) \in Nat /\ DOMAIN p = 1 .. Len(p) /\ Len(q) \in Nat /\ DOMAIN q = 1 .. Len(q)
      /\ Len(p \o q) = Len(p) + Len(q) /\ DOMAIN (p \o q) = 1 .. Len(p) + Len(q)
  OBVIOUS
<1>2. \A i \in 1 .. Len(p) + Len(q) :
          (p \o q)[i] = IF i <= Len(p) THEN p[i] ELSE q[i - Len(p)]
  OBVIOUS
<1>3. ASSUME NEW i \in 1 .. Len(p) + Len(q) PROVE (p \o q)[i] = i
  <2>1. CASE i <= Len(p)
    BY <1>1, <1>2, <2>1
  <2>2. CASE ~(i <= Len(p))
    <3>1. i - Len(p) \in DOMAIN q /\ Len(p) + (i - Len(p)) = i
      BY <1>1, <2>2
    <3> QED
      BY <1>2, <2>2, <3>1
  <2> QED
    BY <2>1, <2>2
<1> QED
  BY <1>1, <1>3

\* What is read for a socket that the step does not concern.
LEMMA SameStream ==
    ASSUME NEW r \in Server, InStream(r), ReadPending(r)' <=> ReadPending(r),
           received'[r] = received[r], buffer_'[r] = buffer_[r], wire'[r] = wire[r],
           SentTo(r)' = SentTo(r)
    PROVE  InStream(r)'
BY DEF InStream, Handed

\* The bytes.
LEMMA NextInStream ==
    ASSUME StreamInv, [Next]_vars, NEW r \in Server
    PROVE  InStream(r)'
<1> USE AsyncSocketAssumption
<1>0. /\ TypeOK /\ StreamTypeOK /\ LinksPaired /\ NewUnlinked /\ SentOverLink /\ OneAtATime
      /\ InStream(r) /\ r \in Socket /\ r \notin Client
  BY DEF StreamInv, Socket
<1>1. CASE UNCHANGED streamVars /\ UNCHANGED remote /\ (ReadPending(r)' <=> ReadPending(r))
  BY <1>0, <1>1, SameStream DEF streamVars, SentTo
<1>2. CASE AcceptEnds
  <2>1. /\ UNCHANGED streamVars /\ (ReadPending(r)' <=> ReadPending(r))
        /\ tcpsocket_lptr_ \in Server /\ phase[tcpsocket_lptr_] = "new" /\ accepting = "pending"
        /\ Head(backlog) \in Client /\ Head(backlog) = backlog[1] /\ 1 \in DOMAIN backlog
        /\ remote' = [remote EXCEPT ![tcpsocket_lptr_] = Head(backlog),
                                    ![Head(backlog)] = tcpsocket_lptr_]
    BY <1>0, <1>2 DEF AcceptEnds, StreamInv, AcceptInv, FillsNewSocket, TypeOK, ReadPending, dataVars
  <2>2. remote[Head(backlog)] = None /\ remote[tcpsocket_lptr_] = None
    BY <1>0, <2>1 DEF NewUnlinked
  <2>3. sent[Head(backlog)] = 0
    BY <1>0, <2>1, <2>2 DEF SentOverLink
  <2>4. remote'[r] = IF r = tcpsocket_lptr_ THEN Head(backlog) ELSE remote[r]
    BY <1>0, <2>1 DEF TypeOK, Socket
  <2>5. SentTo(r)' = SentTo(r)
    BY <2>1, <2>2, <2>3, <2>4 DEF SentTo, streamVars
  <2> QED
    BY <1>0, <2>1, <2>5, SameStream DEF streamVars
<1>3. ASSUME NEW c \in Client, SendSome(c) PROVE InStream(r)'
  <2>1. /\ remote[c] \in Server /\ remote[remote[c]] = c /\ UNCHANGED <<remote, received, buffer_>>
        /\ (ReadPending(r)' <=> ReadPending(r))
        /\ sent'[c] = sent[c] + 1 /\ \A k \in Client \ {c} : sent'[k] = sent[k]
    BY <1>0, <1>3 DEF SendSome, LinksPaired, Socket, ReadPending, TypeOK
  <2>2. CASE r = remote[c]
    <3>1. wire[r] \in Seq(1 .. MaxBytes) /\ wire'[r] = Append(wire[r], sent[c] + 1)
      BY <1>0, <1>3, <2>2 DEF SendSome, StreamTypeOK
    <3>2. SentTo(r) = sent[c] /\ SentTo(r)' = sent[c] + 1
      BY <2>1, <2>2 DEF SentTo
    <3>3. PICK k \in Nat : k = Handed(r) /\ k = Handed(r)'
      <4>1. PICK p, q \in Seq(1 .. MaxBytes) : p = received[r] /\ q = buffer_[r]
        BY <1>0 DEF StreamTypeOK
      <4>2. PICK m, n \in Nat : m = Len(p) /\ n = Len(q)
        OBVIOUS
      <4>3. PICK k \in Nat : k = IF ReadPending(r) THEN m + n ELSE m + 0
        BY <4>2
      <4>4. Handed(r) = k
        BY <4>1, <4>2, <4>3 DEF Handed
      <4>5. Handed(r)' = k
        BY <2>1, <4>1, <4>2, <4>3 DEF Handed
      <4> QED
        BY <4>3, <4>4, <4>5
    <3>4. k + Len(wire[r]) = sent[c] /\ \A i \in DOMAIN wire[r] : wire[r][i] = k + i
      BY <1>0, <3>2, <3>3 DEF InStream
    <3>5. /\ Len(wire'[r]) = Len(wire[r]) + 1
          /\ \A i \in DOMAIN wire'[r] : wire'[r][i] = k + i
      <4>1. PICK w \in Seq(1 .. MaxBytes), b \in {sent[c] + 1} : w = wire[r] /\ b = sent[c] + 1
        BY <3>1
      <4>2. b = k + Len(w) + 1 /\ \A i \in DOMAIN w : w[i] = k + i
        BY <3>4, <4>1
      <4>3. Len(Append(w, b)) = Len(w) + 1 /\ \A i \in DOMAIN Append(w, b) : Append(w, b)[i] = k + i
        BY <4>2, StreamGrows
      <4> QED
        BY <3>1, <4>1, <4>3
    <3>6. k + Len(wire'[r]) = SentTo(r)'
      BY <3>1, <3>2, <3>4, <3>5
    <3> QED
      BY <1>0, <2>1, <3>3, <3>5, <3>6 DEF InStream
  <2>3. CASE r # remote[c]
    <3>1. remote[r] # c /\ remote[r] \in Client \cup {None}
      BY <1>0, <2>1, <2>3 DEF LinksPaired
    <3>2. wire'[r] = wire[r] /\ SentTo(r)' = SentTo(r)
      BY <1>0, <1>3, <2>1, <2>3, <3>1 DEF SendSome, StreamTypeOK, SentTo
    <3> QED
      BY <1>0, <2>1, <3>2, SameStream
  <2> QED
    BY <2>2, <2>3
<1>4. ASSUME NEW s \in Server, ReceiveEnds(s) PROVE InStream(r)'
  <2>0. UNCHANGED <<remote, received, sent>> /\ SentTo(r)' = SentTo(r)
    BY <1>4 DEF ReceiveEnds, SentTo
  <2>1. CASE r # s
    <3>1. ReadPending(r)' <=> ReadPending(r)
      BY <1>4, <2>1 DEF ReceiveEnds, Ends, ReadPending
    <3>2. wire'[r] = wire[r] /\ buffer_'[r] = buffer_[r]
      BY <1>0, <1>4, <2>1 DEF ReceiveEnds, StreamTypeOK
    <3> QED
      BY <1>0, <2>0, <3>1, <3>2, SameStream
  <2>2. CASE r = s /\ Ends(s, "receive", FALSE) /\ UNCHANGED <<buffer_, wire>>
    <3>1. ReadPending(r)' <=> ReadPending(r)
      BY <2>2 DEF Ends, ReadPending
    <3> QED
      BY <1>0, <2>0, <2>2, <3>1, SameStream
  <2>3. ASSUME r = s, NEW n \in 1 .. MaxChunk, n <= Len(wire[s]), Ends(s, "receive", TRUE),
               buffer_' = [buffer_ EXCEPT ![s] = SubSeq(wire[s], 1, n)],
               wire' = [wire EXCEPT ![s] = SubSeq(@, n + 1, Len(@))]
        PROVE  InStream(r)'
    <3>1. ~ReadPending(r) /\ ReadPending(r)'
      <4>1. "receive" \in ops[s] /\ done' = done \cup {[sock |-> s, op |-> "receive", ok |-> TRUE]}
        BY <2>3 DEF Ends
      <4>2. ~ReadPending(r)
        BY <1>0, <2>3, <4>1 DEF OneAtATime, One, ReadPending
      <4> QED
        BY <2>3, <4>1, <4>2 DEF ReadPending
    <3>2. /\ wire[r] \in Seq(1 .. MaxBytes) /\ buffer_'[r] = SubSeq(wire[r], 1, n)
          /\ wire'[r] = SubSeq(wire[r], n + 1, Len(wire[r])) /\ received[r] \in Seq(1 .. MaxBytes)
      BY <1>0, <2>3 DEF StreamTypeOK
    <3>3. PICK k \in Nat : k = Len(received[r]) /\ k = Handed(r)
      BY <3>1, <3>2 DEF Handed
    <3>4. k + Len(wire[r]) = SentTo(r) /\ \A i \in DOMAIN wire[r] : wire[r][i] = k + i
      BY <1>0, <3>3 DEF InStream
    <3>5. /\ Len(buffer_'[r]) = n /\ Len(wire'[r]) = Len(wire[r]) - n
          /\ \A i \in DOMAIN buffer_'[r] : buffer_'[r][i] = k + i
          /\ \A i \in DOMAIN wire'[r] : wire'[r][i] = k + n + i
      <4>1. PICK w \in Seq(1 .. MaxBytes) : w = wire[r] /\ n \in 1 .. Len(w)
        BY <2>3, <3>2
      <4>2. StreamFrom(w, k)
        BY <3>4, <4>1 DEF StreamFrom
      <4>3. /\ Len(SubSeq(w, 1, n)) = n /\ Len(SubSeq(w, n + 1, Len(w))) = Len(w) - n
            /\ StreamFrom(SubSeq(w, 1, n), k) /\ StreamFrom(SubSeq(w, n + 1, Len(w)), k + n)
        BY <4>1, <4>2, StreamCut, Zenon
      <4> QED
        BY <3>2, <4>1, <4>3, Zenon DEF StreamFrom
    <3>6. Handed(r)' = k + n
      <4>1. Handed(r)' = Len(received'[r]) + Len(buffer_'[r])
        BY <3>1 DEF Handed
      <4> QED
        BY <2>0, <3>3, <3>5, <4>1
    <3>7. Handed(r)' + Len(wire'[r]) = SentTo(r)'
      <4>1. PICK l \in Nat : l = Len(wire[r])
        BY <3>2
      <4>2. Len(wire'[r]) = l - n /\ k + l = SentTo(r)' /\ Handed(r)' = k + n
        BY <2>0, <3>4, <3>5, <3>6, <4>1
      <4>3. k + n + (l - n) = k + l
        OBVIOUS
      <4> QED
        BY <4>2, <4>3
    <3> QED
      BY <1>0, <2>0, <3>3, <3>5, <3>6, <3>7 DEF InStream
  <2> QED
    BY <1>4, <2>1, <2>2, <2>3 DEF ReceiveEnds
<1>5. ASSUME NEW s \in Server, OnReceive(s) PROVE InStream(r)'
  <2>1. /\ ReadPending(s) /\ done' = done \ {[sock |-> s, op |-> "receive", ok |-> TRUE]}
        /\ received' = [received EXCEPT ![s] = @ \o buffer_[s]]
        /\ UNCHANGED <<remote, sent, wire, buffer_>> /\ SentTo(r)' = SentTo(r)
    BY <1>5 DEF OnReceive, ReadPending, SentTo
  <2>2. CASE r # s
    <3>1. ReadPending(r)' <=> ReadPending(r)
      BY <2>1, <2>2 DEF ReadPending
    <3>2. received'[r] = received[r]
      BY <1>0, <2>1, <2>2 DEF StreamTypeOK
    <3> QED
      BY <1>0, <2>1, <3>1, <3>2, SameStream
  <2>3. CASE r = s
    <3>1. /\ ~ReadPending(r)' /\ received'[r] = received[r] \o buffer_[r]
          /\ received[r] \in Seq(1 .. MaxBytes) /\ buffer_[r] \in Seq(1 .. MaxBytes)
      BY <1>0, <2>1, <2>3 DEF ReadPending, StreamTypeOK
    <3>2. /\ \A i \in DOMAIN received[r] : received[r][i] = i
          /\ \A i \in DOMAIN buffer_[r] : buffer_[r][i] = Len(received[r]) + i
      BY <1>0, <2>1, <2>3 DEF InStream
    <3>3. /\ Len(received'[r]) = Len(received[r]) + Len(buffer_[r])
          /\ \A i \in DOMAIN received'[r] : received'[r][i] = i
      <4>1. PICK p, q \in Seq(1 .. MaxBytes) : p = received[r] /\ q = buffer_[r]
        BY <3>1
      <4>2. (\A i \in DOMAIN p : p[i] = i) /\ (\A i \in DOMAIN q : q[i] = Len(p) + i)
        BY <3>2, <4>1
      <4>3. Len(p \o q) = Len(p) + Len(q) /\ \A i \in DOMAIN (p \o q) : (p \o q)[i] = i
        BY <4>2, StreamJoined
      <4> QED
        BY <3>1, <4>1, <4>3
    <3>4. Handed(r)' = Handed(r)
      <4>1. Handed(r)' = Len(received'[r]) + 0 /\ Handed(r) = Len(received[r]) + Len(buffer_[r])
        BY <2>1, <2>3, <3>1 DEF Handed
      <4> QED
        BY <3>1, <3>3, <4>1
    <3> QED
      BY <1>0, <2>1, <3>1, <3>3, <3>4 DEF InStream
  <2> QED
    BY <2>2, <2>3
\* The other handlers are of another operation, or of one that failed.
<1>6. ASSUME NEW s \in Socket, OnConnect(s) \/ OnHandShake(s) \/ OnError(s) \/ Close(s) PROVE InStream(r)'
  <2>1. CASE OnConnect(s) \/ OnHandShake(s)
    <3>1. \E op \in {"connect", "handshake"} : done' = done \ {[sock |-> s, op |-> op, ok |-> TRUE]}
      BY <2>1 DEF OnConnect, OnHandShake
    <3>2. ReadPending(r)' <=> ReadPending(r)
      BY <3>1 DEF ReadPending
    <3> QED
      BY <1>1, <2>1, <3>2 DEF OnConnect, OnHandShake, dataVars
  <2>2. CASE Close(s)
    <3>1. done' = done \cup [sock : {s}, op : ops[s], ok : {FALSE}]
      BY <2>2 DEF Close
    <3>2. \A e \in [sock : {s}, op : ops[s], ok : {FALSE}] : ~e.ok
      OBVIOUS
    <3>3. ReadPending(r)' <=> ReadPending(r)
      BY <3>1, <3>2 DEF ReadPending
    <3> QED
      BY <1>1, <2>2, <3>3 DEF Close, dataVars
  <2>3. CASE OnError(s)
    <3>1. PICK e \in done : ~e.ok /\ done' = done \ {e}
      BY <2>3 DEF OnError
    <3>2. ReadPending(r)' <=> ReadPending(r)
      BY <3>1 DEF ReadPending
    <3> QED
      BY <1>1, <2>3, <3>2 DEF OnError
  <2> QED
    BY <1>6, <2>1, <2>2, <2>3
<1>7. ASSUME NEW s \in Socket, NEW op \in {"connect", "handshake"}, NEW ok, Ends(s, op, ok)
      PROVE  ReadPending(r)' <=> ReadPending(r)
  BY <1>7 DEF Ends, ReadPending
<1>8. ASSUME NEW s \in Socket, HandshakeEnds(s) PROVE InStream(r)'
  BY <1>1, <1>7, <1>8 DEF HandshakeEnds, dataVars
<1>9. ASSUME NEW c \in Client, ConnectEnds(c) PROVE InStream(r)'
  BY <1>1, <1>7, <1>9 DEF ConnectEnds, Socket, dataVars
<1>10. ASSUME UNCHANGED done PROVE ReadPending(r)' <=> ReadPending(r)
  BY <1>10 DEF ReadPending
<1>11. CASE \/ CreateIo \/ CloseIo \/ AcceptFails \/ UNCHANGED vars
            \/ \E s \in Socket : RemoteEndpointThrows(s)
  BY <1>1, <1>10, <1>11 DEF CreateIo, CloseIo, AcceptFails, RemoteEndpointThrows, vars, dataVars,
                            streamVars
<1>12. ASSUME NEW s \in Socket, NEW next, NewSocket(s) \/ AsyncConnect(s) \/ AsyncAccept(s) \/ OnAccept(s, next)
       PROVE  InStream(r)'
  BY <1>1, <1>10, <1>12 DEF NewSocket, AsyncConnect, AsyncAccept, OnAccept, dataVars
<1> QED
  BY <1>2, <1>3, <1>4, <1>5, <1>6, <1>8, <1>9, <1>11, <1>12 DEF Next, Handler, Socket

\* Of every stream, however long, OnReceive is given the bytes its peer sent, each once and in
\* order, by any number of sockets, io_services and sizes of the buffer, with SSL and without,
\* and whatever is closed or fails meanwhile.
THEOREM Streams == Spec => []StreamsKeptApart
<1>1. StreamInv /\ [Next]_vars => StreamInv'
  <2> SUFFICES ASSUME StreamInv, [Next]_vars PROVE StreamInv'
    OBVIOUS
  <2>1. AcceptInv'
    BY NextAccept DEF StreamInv
  <2> QED
    BY <2>1, NextStreamType, NextOneAtATime, NextLinks, NextInStream DEF StreamInv
<1>2. StreamInv => StreamsKeptApart
  BY DEF StreamInv, InStream, StreamsKeptApart, ReceivedInOrder
<1> QED
  BY <1>1, <1>2, InitStream, PTL DEF Spec

-----------------------------------------------------------------------------
(* Write batches.                                                          *)

Contents == [Key \cup {Single} -> Batch \cup {NoBatch}]

StorageTypeOK ==
    /\ history \in Seq(Contents) /\ Len(history) > 0
    /\ stage \in [Batch -> {"none", "index", "live", "released"}]
    /\ batch_index_ \in [Batch -> Nat]
    /\ record \in [0 .. Slots - 1 -> Batch \cup {NoBatch}]
    /\ content \in [Batch -> [Key -> Batch \cup {NoBatch}]]

\* A batch object holds what its own owner has put.
OwnContent == \A b \in Batch, k \in Key : content[b][k] \in {b, NoBatch}

\* The slots and the batches alive know each other; the one batch that has its index, and is
\* not yet in the vector, finds its slot free.
SlotsAndBatches ==
    /\ \A b \in Batch :
           stage[b] = "live" => batch_index_[b] \in 0 .. Slots - 1 /\ record[batch_index_[b]] = b
    /\ \A b \in Batch :
           stage[b] = "index" => batch_index_[b] \in 0 .. Slots - 1 /\ record[batch_index_[b]] = NoBatch
    /\ \A b, c \in Batch : stage[b] = "index" /\ stage[c] = "index" => b = c
    /\ \A i \in 0 .. Slots - 1 :
           record[i] # NoBatch => stage[record[i]] = "live" /\ batch_index_[record[i]] = i

\* What the database holds, and all that a crash may take it back to.
Whole(d) == \A k1, k2 \in Key : d[k1] = d[k2]
HistoryWhole == \A n \in 1 .. Len(history) : Whole(history[n])

StorageInv == StorageTypeOK /\ OwnContent /\ SlotsAndBatches /\ HistoryWhole

LEMMA InitStorage ==
    ASSUME StorageInit
    PROVE  StorageInv
<1>1. Len(history) = 1 /\ history[1] = [k \in Key \cup {Single} |-> NoBatch] /\ history \in Seq(Contents)
  BY DEF StorageInit, Contents
<1>2. StorageTypeOK /\ OwnContent /\ SlotsAndBatches
  BY <1>1, StorageAssumption DEF StorageInit, StorageTypeOK, OwnContent, SlotsAndBatches, Empty
<1>3. HistoryWhole
  BY <1>1 DEF HistoryWhole, Whole
<1> QED
  BY <1>2, <1>3 DEF StorageInv

\* A set of slots has a first one.
LEMMA FirstSlot ==
    ASSUME NEW S \in SUBSET Nat, S # {}
    PROVE  \E i \in S : \A j \in S : i <= j
<1>1. PICK i \in S : \A j \in S : ~ (<<j, i>> \in OpToRel(<, Nat))
  BY NatLessThanWellFounded, WFMin
<1>2. \A j \in S : ~ (j < i)
  BY <1>1 DEF OpToRel
<1> QED
  BY <1>2

\* While fewer batches are alive than there are slots, ThreadSafeGetIndex finds a free one:
\* were all in use, each would hold a batch of its own.
LEMMA FreeSlot ==
    ASSUME MaxLive <= Slots, StorageInv, Cardinality(Live) < MaxLive
    PROVE  ThreadSafeGetIndex \in 0 .. Slots - 1 /\ record[ThreadSafeGetIndex] = NoBatch
<1> DEFINE free == {i \in 0 .. Slots - 1 : record[i] = NoBatch}
<1>1. StorageTypeOK /\ SlotsAndBatches /\ Slots \in Nat \ {0} /\ MaxLive \in Nat /\ MaxLive <= Slots
  BY StorageAssumption DEF StorageInv
<1>2. free # {}
  <2> SUFFICES ASSUME free = {} PROVE FALSE
    OBVIOUS
  <2>1. \A i \in 0 .. Slots - 1 : record[i] \in Live /\ batch_index_[record[i]] = i
    BY <1>1 DEF StorageTypeOK, SlotsAndBatches, Live
  <2>2. record \in Injection(0 .. Slots - 1, Live)
    BY <1>1, <2>1 DEF StorageTypeOK, Injection, IsInjective
  <2>3. IsFiniteSet(Live)
    <3>1. Live \subseteq Batch
      BY DEF Live
    <3> QED
      BY <3>1, FS_Subset, StorageAssumption
  <2>4. Cardinality(0 .. Slots - 1) <= Cardinality(Live)
    BY <2>2, <2>3, FS_Injection
  <2>5. Cardinality(0 .. Slots - 1) = Slots
    BY <1>1, FS_Interval
  <2>6. Cardinality(Live) \in Nat
    BY <2>3, FS_CardinalityType
  <2> QED
    BY <1>1, <2>4, <2>5, <2>6
<1>3. \E i \in free : \A j \in free : i <= j
  <2>1. free \in SUBSET Nat
    BY <1>1
  <2> QED
    BY <1>2, <2>1, FirstSlot
<1>4. ThreadSafeGetIndex \in free
  BY <1>2, <1>3 DEF ThreadSafeGetIndex
<1> QED
  BY <1>4

\* The owner of a batch that is alive finds its own object.
LEMMA FindsOwn ==
    ASSUME StorageInv, NEW b \in Batch, stage[b] = "live"
    PROVE  Object(b) = b
<1>1. /\ batch_index_[b] \in 0 .. Slots - 1 /\ record[batch_index_[b]] = b
      /\ DOMAIN record = 0 .. Slots - 1 /\ Slots \in Nat /\ MAX_BATCH_COUNT \in Nat
      /\ Slots < MAX_BATCH_COUNT
  BY StorageAssumption DEF StorageInv, StorageTypeOK, SlotsAndBatches
<1>2. ~ (batch_index_[b] >= MAX_BATCH_COUNT)
  BY <1>1
<1> QED
  BY <1>1, <1>2 DEF Object, ThreadSafeGetByIndex

\* The database as it is now.
LEMMA DbWhole ==
    ASSUME StorageInv
    PROVE  db \in Contents /\ Whole(db)
BY DEF StorageInv, StorageTypeOK, HistoryWhole, db

\* A write of a database with all or none of each batch.
LEMMA WriteWhole ==
    ASSUME StorageInv, NEW d \in Contents, Whole(d), history' = Append(history, d)
    PROVE  HistoryWhole' /\ history' \in Seq(Contents) /\ Len(history') > 0
<1>1. history \in Seq(Contents) /\ HistoryWhole
  BY DEF StorageInv, StorageTypeOK
<1>2. /\ history' \in Seq(Contents) /\ Len(history') = Len(history) + 1 /\ Len(history) \in Nat
      /\ \A n \in 1 .. Len(history') : history'[n] = IF n = Len(history) + 1 THEN d ELSE history[n]
  BY <1>1
<1>3. HistoryWhole'
  <2> SUFFICES ASSUME NEW n \in 1 .. Len(history') PROVE Whole(history'[n])
    BY DEF HistoryWhole, Whole
  <2>1. CASE n = Len(history) + 1
    BY <1>2, <2>1
  <2>2. CASE n # Len(history) + 1
    <3>1. n \in 1 .. Len(history)
      BY <1>2, <2>2
    <3> QED
      BY <1>1, <1>2, <2>2, <3>1 DEF HistoryWhole
  <2> QED
    BY <2>1, <2>2
<1> QED
  BY <1>2, <1>3

\* After a restart no batch is alive; the database is one that it was before.
LEMMA RestartStorage ==
    ASSUME StorageInv, NEW h \in Seq(Contents), Len(h) > 0, Restarted(h),
           \A n \in 1 .. Len(h) : Whole(h[n])
    PROVE  StorageInv'
<1>1. StorageTypeOK'
  BY DEF StorageInv, StorageTypeOK, Restarted
<1>2. SlotsAndBatches' /\ OwnContent'
  BY DEF StorageInv, StorageTypeOK, OwnContent, SlotsAndBatches, Restarted
<1>3. HistoryWhole'
  BY DEF HistoryWhole, Restarted, Whole
<1> QED
  BY <1>1, <1>2, <1>3 DEF StorageInv

LEMMA NextStorage ==
    ASSUME ~Overlap, MaxLive <= Slots, StorageInv, [StorageNext]_storageVars
    PROVE  StorageInv'
<1>1. /\ StorageTypeOK /\ OwnContent /\ SlotsAndBatches /\ HistoryWhole
      /\ Slots \in Nat \ {0} /\ NoBatch \notin Batch /\ Single \notin Key
  BY StorageAssumption DEF StorageInv
\* The database is not written.
<1>2. ASSUME UNCHANGED history PROVE HistoryWhole' /\ history' \in Seq(Contents) /\ Len(history') > 0
  BY <1>1, <1>2 DEF HistoryWhole, StorageTypeOK
\* The slots are not touched.
<1>3. ASSUME UNCHANGED <<stage, batch_index_, record>> PROVE SlotsAndBatches'
  BY <1>1, <1>3 DEF SlotsAndBatches
<1>4. ASSUME NEW b \in Batch, NewWriteBatch(b) PROVE StorageInv'
  <2>1. ThreadSafeGetIndex \in 0 .. Slots - 1 /\ record[ThreadSafeGetIndex] = NoBatch
    BY <1>4, FreeSlot DEF NewWriteBatch
  <2>2. PICK i \in 0 .. Slots - 1 : record[i] = NoBatch /\ batch_index_' = [batch_index_ EXCEPT ![b] = i]
    BY <1>4, <2>1 DEF NewWriteBatch
  <2>3. /\ stage[b] = "none" /\ (\A c \in Batch : stage[c] # "index")
        /\ stage' = [stage EXCEPT ![b] = "index"] /\ UNCHANGED <<history, record, content>>
    BY <1>4 DEF NewWriteBatch
  <2>4. StorageTypeOK'
    BY <1>1, <1>2, <2>2, <2>3 DEF StorageTypeOK
  <2>5. SlotsAndBatches'
    BY <1>1, <2>2, <2>3 DEF SlotsAndBatches, StorageTypeOK
  <2>6. OwnContent'
    BY <1>1, <2>3 DEF OwnContent
  <2> QED
    BY <1>2, <2>3, <2>4, <2>5, <2>6 DEF StorageInv
<1>5. ASSUME NEW b \in Batch, NewWriteBatchAdd(b) PROVE StorageInv'
  <2>1. /\ stage[b] = "index" /\ stage' = [stage EXCEPT ![b] = "live"]
        /\ record' = [record EXCEPT ![batch_index_[b]] = b] /\ batch_index_[b] \in 0 .. Slots - 1
        /\ content' = [content EXCEPT ![b] = Empty] /\ UNCHANGED <<history, batch_index_>>
    BY <1>1, <1>5 DEF NewWriteBatchAdd, ThreadSafeAdd, StorageTypeOK, SlotsAndBatches
  <2>2. StorageTypeOK' /\ OwnContent'
    BY <1>1, <1>2, <2>1 DEF StorageTypeOK, OwnContent, Empty
  <2>3. SlotsAndBatches'
    BY <1>1, <2>1 DEF SlotsAndBatches, StorageTypeOK
  <2> QED
    BY <1>2, <2>1, <2>2, <2>3 DEF StorageInv
\* The owner changes its object, which holds its own values.
<1>6. ASSUME NEW b \in Batch, NEW c \in [Key -> {b, NoBatch}], content' = [content EXCEPT ![b] = c],
             UNCHANGED <<stage, batch_index_, record>>
      PROVE  /\ SlotsAndBatches' /\ OwnContent'
             /\ content' \in [Batch -> [Key -> Batch \cup {NoBatch}]]
  BY <1>1, <1>3, <1>6 DEF StorageTypeOK, OwnContent
<1>7. ASSUME NEW b \in Batch, NEW k \in Key, BatchPut(b, k) PROVE StorageInv'
  <2>1. Object(b) = b /\ UNCHANGED <<history, stage, batch_index_, record>>
    BY <1>7, FindsOwn DEF BatchPut
  <2>2. content' = [content EXCEPT ![b] = [content[b] EXCEPT ![k] = b]]
    BY <1>1, <1>7, <2>1 DEF BatchPut, StorageTypeOK
  <2>3. [content[b] EXCEPT ![k] = b] \in [Key -> {b, NoBatch}]
    BY <1>1 DEF StorageTypeOK, OwnContent
  <2> QED
    BY <1>1, <1>2, <1>6, <2>1, <2>2, <2>3 DEF StorageInv, StorageTypeOK
<1>8. ASSUME NEW b \in Batch, BatchClear(b) PROVE StorageInv'
  <2>1. Object(b) = b /\ UNCHANGED <<history, stage, batch_index_, record>>
    BY <1>8, FindsOwn DEF BatchClear
  <2>2. content' = [content EXCEPT ![b] = Empty] /\ Empty \in [Key -> {b, NoBatch}]
    BY <1>8, <2>1 DEF BatchClear, Empty
  <2> QED
    BY <1>1, <1>2, <1>6, <2>1, <2>2 DEF StorageInv, StorageTypeOK
<1>9. ASSUME NEW b \in Batch, WriteBatch(b) PROVE StorageInv'
  <2>1. Object(b) = b /\ UNCHANGED <<stage, batch_index_, record>>
    BY <1>9, FindsOwn DEF WriteBatch
  <2>2. content' = [content EXCEPT ![b] = Empty] /\ Empty \in [Key -> {b, NoBatch}]
    BY <1>9, <2>1 DEF WriteBatch, Empty
  <2>3. \A k \in Key : content[b][k] = b
    BY <1>1, <1>9, <2>1 DEF WriteBatch, OwnContent
  <2>4. PICK d \in Contents : history' = Append(history, d) /\ \A k \in Key : d[k] = b
    <3>1. db \in Contents
      BY DbWhole
    <3>2. Written(content[b]) \in Contents /\ \A k \in Key : Written(content[b])[k] = b
      BY <1>1, <2>3, <3>1 DEF Written, Contents
    <3> QED
      BY <1>9, <2>1, <3>2 DEF WriteBatch, WriteToDb
  <2>5. Whole(d)
    BY <2>4 DEF Whole
  <2>6. HistoryWhole' /\ history' \in Seq(Contents) /\ Len(history') > 0
    BY <2>4, <2>5, WriteWhole
  <2> QED
    BY <1>1, <1>6, <2>1, <2>2, <2>6 DEF StorageInv, StorageTypeOK
<1>10. ASSUME NEW b \in Batch, ReleaseBatch(b) PROVE StorageInv'
  <2>1. /\ stage[b] = "live" /\ stage' = [stage EXCEPT ![b] = "released"]
        /\ record' = [record EXCEPT ![batch_index_[b]] = NoBatch] /\ batch_index_[b] \in 0 .. Slots - 1
        /\ UNCHANGED <<history, batch_index_, content>>
    BY <1>1, <1>10 DEF ReleaseBatch, ThreadSafeAdd, StorageTypeOK, SlotsAndBatches
  <2>2. StorageTypeOK' /\ OwnContent'
    BY <1>1, <1>2, <2>1 DEF StorageTypeOK, OwnContent
  <2>3. SlotsAndBatches'
    BY <1>1, <2>1 DEF SlotsAndBatches, StorageTypeOK
  <2> QED
    BY <1>2, <2>1, <2>2, <2>3 DEF StorageInv
<1>11. ASSUME NEW v \in Batch \cup {NoBatch}, history' = Append(history, [db EXCEPT ![Single] = v]),
              UNCHANGED <<stage, batch_index_, record, content>>
       PROVE  StorageInv'
  <2>1. PICK d \in Contents : d = [db EXCEPT ![Single] = v] /\ Whole(d)
    <3>1. [db EXCEPT ![Single] = v] \in Contents
      BY DbWhole DEF Contents
    <3>2. \A k \in Key : [db EXCEPT ![Single] = v][k] = db[k]
      BY <1>1, DbWhole DEF Contents
    <3>3. Whole([db EXCEPT ![Single] = v])
      BY <3>2, DbWhole, Zenon DEF Whole
    <3> QED
      BY <3>1, <3>3, Zenon
  <2>2. HistoryWhole' /\ history' \in Seq(Contents) /\ Len(history') > 0
    BY <1>11, <2>1, WriteWhole
  <2> QED
    BY <1>1, <1>3, <1>11, <2>2 DEF StorageInv, StorageTypeOK, OwnContent
<1>12. CASE DBDelete \/ \E v \in Batch : DBPut(v)
  BY <1>11, <1>12 DEF DBDelete, DBPut
<1>13. CASE Flush
  <2>1. PICK d \in Contents : history' = <<d>> /\ Whole(d)
    BY <1>13, DbWhole DEF Flush
  <2>2. history' \in Seq(Contents) /\ Len(history') = 1 /\ history'[1] = d
    BY <2>1
  <2>3. HistoryWhole'
    BY <2>1, <2>2 DEF HistoryWhole, Whole
  <2> QED
    BY <1>1, <1>3, <1>13, <2>2, <2>3 DEF Flush, StorageInv, StorageTypeOK, OwnContent
<1>14. CASE ProcessCrash
  BY <1>1, <1>14, RestartStorage DEF ProcessCrash, StorageTypeOK, HistoryWhole
<1>15. CASE HostCrash
  <2>1. PICK n \in 1 .. Len(history) - 1 : Restarted(SubSeq(history, 1, n))
    BY <1>15 DEF HostCrash
  <2>2. PICK h \in Seq(Contents) : /\ h = SubSeq(history, 1, n) /\ Len(h) = n
                                   /\ \A i \in 1 .. n : h[i] = history[i]
    <3>1. history \in Seq(Contents) /\ n \in 1 .. Len(history)
      BY <1>1, <2>1 DEF StorageTypeOK
    <3>2. /\ SubSeq(history, 1, n) \in Seq(Contents) /\ Len(SubSeq(history, 1, n)) = n
          /\ \A i \in 1 .. n : SubSeq(history, 1, n)[i] = history[i]
      BY <3>1
    <3> QED
      BY <3>2
  <2>3. \A i \in 1 .. Len(h) : Whole(h[i])
    BY <1>1, <2>1, <2>2 DEF HistoryWhole, StorageTypeOK
  <2>4. Restarted(h) /\ Len(h) > 0
    BY <2>1, <2>2
  <2> QED
    BY <2>3, <2>4, RestartStorage
<1>16. CASE UNCHANGED storageVars
  BY <1>1, <1>2, <1>3, <1>16 DEF storageVars, StorageInv, StorageTypeOK, OwnContent
<1> QED
  BY <1>4, <1>5, <1>7, <1>8, <1>9, <1>10, <1>12, <1>13, <1>14, <1>15, <1>16 DEF StorageNext

\* As long as calls of NewWriteBatch do not overlap and no more batches are alive than there
\* are slots: of the keys that a batch sets together the database has all or none, after any
\* crash of the process or of the host; a batch that is alive is alone in its slot, and once
\* no batch is alive the first slot is free again.
THEOREM Batches ==
    ASSUME ~Overlap, MaxLive <= Slots
    PROVE  StorageSpec => []BatchAllOrNothing
<1>1. StorageInit => StorageInv
  BY InitStorage
<1>2. StorageInv /\ [StorageNext]_storageVars => StorageInv'
  BY NextStorage
<1>3. StorageInv => KeysTogether /\ OwnSlot
  BY FindsOwn, DbWhole DEF Whole, KeysTogether, OwnSlot
<1>4. ASSUME StorageInv, Live = {} PROVE ThreadSafeGetIndex = 0
  <2>1. \A i \in 0 .. Slots - 1 : record[i] = NoBatch
    BY <1>4 DEF StorageInv, StorageTypeOK, SlotsAndBatches, Live
  <2>2. {i \in 0 .. Slots - 1 : record[i] = NoBatch} = 0 .. Slots - 1 /\ 0 \in 0 .. Slots - 1
    BY <2>1, StorageAssumption
  <2>3. \A i \in 0 .. Slots - 1 : (\A j \in 0 .. Slots - 1 : i <= j) <=> i = 0
    BY <2>2, StorageAssumption
  <2> QED
    BY <2>2, <2>3 DEF ThreadSafeGetIndex
<1>5. StorageInv => BatchAllOrNothing
  BY <1>3, <1>4 DEF BatchAllOrNothing, SlotsFreed
<1> QED
  BY <1>1, <1>2, <1>5, PTL DEF StorageSpec

-----------------------------------------------------------------------------
(* The log.                                                                *)

\* d maps names to files.
IsDir(d) == d = [n \in DOMAIN d |-> d[n]]

\* The types of the log directory and of its writer, with no "unlinked" file.
LogTypes(t, d, w, W, X, ln, r) ==
    /\ IsDir(d)
    /\ DOMAIN d \subseteq L!Names
    /\ \A n \in DOMAIN d : d[n] \in [lines : SUBSET (1 .. ln), size : Nat, changed : 0 .. t]
    /\ w \in [file_ptr_ : {"file", "NULL"}, begin_time_ : 0 .. t, size_ : Nat]
    /\ W \in SUBSET [line : 1 .. ln, at : 0 .. t] /\ X \subseteq 1 .. ln
    /\ ln \in 0 .. MaxLines /\ r \in 0 .. MaxRate

\* All files but the one that is written.
Backups(d) == DOMAIN d \ {L!Active}

\* At the time t, with the files d and the writer w, of the lines accepted W and lost X, of ln
\* asked for and r of them in this tick: the writer knows its file, a file holds no line that
\* is younger than the time it is known by, and what has not expired is in some file or lost.
LogCore(t, d, w, W, X, ln, r) ==
    /\ LogTypes(t, d, w, W, X, ln, r)
    /\ w.file_ptr_ = "file" => L!Active \in DOMAIN d /\ w.size_ = d[L!Active].size
    /\ \A n \in Backups(d) : n[2] <= t
    /\ \A n \in Backups(d) : \A v \in W : v.line \in d[n].lines => v.at <= n[2]
    /\ L!Active \in DOMAIN d => \A v \in W : v.at <= d[L!Active].changed
    /\ \A v \in W : v.at + Expire >= t => v.line \in X \/ \E n \in DOMAIN d : v.line \in d[n].lines

\* Another backup may take the name of a backup of this tick.  Then it holds all its lines; or
\* the file was reopened in this tick, and a file that was begun in the tick the name says is
\* too short to be backed up.
BackupsCovered(t, d, w, r) ==
    \A n \in Backups(d) :
        n[2] = t /\ L!Active \in DOMAIN d =>
            \/ d[n].lines \subseteq d[L!Active].lines
            \/ /\ d[L!Active].changed = t
               /\ w.file_ptr_ = "file" => w.begin_time_ = t
               /\ n[1] = t => d[L!Active].size <= r

\* Nothing happened to the files in a tick in which no line was asked for.
Rated(t, d, w, r) ==
    \/ r >= 1
    \/ /\ \A n \in Backups(d) : n[2] # t
       /\ L!Active \in DOMAIN d /\ d[L!Active].changed = t => d[L!Active].size = 0
       /\ w.file_ptr_ = "file" /\ w.begin_time_ = t => w.size_ = 0

\* A line may be written from the directory d with the writer w.
LogReady(d, w, W, X, ln, r) ==
    LogCore(now, d, w, W, X, ln, r) /\ BackupsCovered(now, d, w, r) /\ Rated(now, d, w, r)

\* Another line may be written.
LogFilesOK == LogReady(dir, writer, written, lost, lines, rate)

\* The check of one directory at a time, of a running agent.
CheckTypes ==
    /\ now \in 0 .. MaxTime /\ up \in BOOLEAN
    /\ checking \in 0 .. now /\ m_nCheckRunLogTime \in 0 .. now
    /\ nFiles \subseteq L!Names \X (0 .. now)
    /\ doomed \subseteq L!Names
    /\ \A n, m \in doomed : n = m
    /\ ~up => nFiles = {} /\ doomed = {} /\ writer.file_ptr_ = "NULL"

\* The open file has just been written: it does not expire.
NeverSilent ==
    writer.file_ptr_ = "file" => now <= dir[L!Active].changed + MaxSilence

\* A listed backup has the time of its name.  The active file is listed with a recent time, or
\* none is open and it stays as it was listed.
ListedOK ==
    /\ L!Checking => now <= checking + 1
    /\ \A f \in nFiles :
          IF f[1] # L!Active THEN f[2] = f[1][2]
          ELSE \/ checking <= f[2] + MaxSilence
               \/ /\ writer.file_ptr_ = "NULL"
                  /\ L!Active \in DOMAIN dir => dir[L!Active].changed = f[2]

\* What is about to be deleted has expired, and is not open.
DoomedOK ==
    \A n \in doomed :
        IF n # L!Active THEN n[2] + Expire < now
        ELSE /\ writer.file_ptr_ = "NULL"
             /\ L!Active \in DOMAIN dir => dir[L!Active].changed + Expire < now

\* A backup that had expired when the check began is still listed, or about to be deleted.
ExpiredListed ==
    /\ L!Checking =>
          \A n \in Backups(dir) :
              n[2] + Expire >= checking \/ n \in doomed \/ <<n, n[2]>> \in nFiles
    /\ L!ExpiredIsDeleted

LoggerInv == LogFilesOK /\ CheckTypes /\ NeverSilent /\ ListedOK /\ DoomedOK /\ ExpiredListed

LEMMA LogBounds ==
    /\ {size_capacity_, time_capacity_, Expire, CheckPeriod} \subseteq Nat \ {0}
    /\ {MaxSilence, MaxRate, MaxLines, MaxTime} \subseteq Nat
    /\ MaxRate <= size_capacity_ + 1
    /\ MaxSilence < Expire
BY LoggerAssumption DEF L!BoundsOK

LEMMA PutFile ==
    ASSUME NEW d, NEW n, NEW f
    PROVE  /\ IsDir(L!Put(d, n, f))
           /\ DOMAIN L!Put(d, n, f) = DOMAIN d \cup {n}
           /\ L!Put(d, n, f)[n] = f
           /\ \A m \in DOMAIN d \ {n} : L!Put(d, n, f)[m] = d[m]
BY DEF L!Put, IsDir

LEMMA RemoveFiles ==
    ASSUME NEW d, NEW N
    PROVE  /\ IsDir(L!Remove(d, N))
           /\ DOMAIN L!Remove(d, N) = DOMAIN d \ N
           /\ \A m \in DOMAIN d \ N : L!Remove(d, N)[m] = d[m]
BY DEF L!Remove, IsDir

\* A backup has a name of its own.
LEMMA BackupNames ==
    /\ L!Active \in L!Names
    /\ \A b, e \in 0 .. MaxTime : <<b, e>> \in L!Names /\ <<b, e>> # L!Active
    /\ \A n \in L!Names \ {L!Active} :
          n[1] \in 0 .. MaxTime /\ n[2] \in 0 .. MaxTime /\ n = <<n[1], n[2]>>
<1>1. \A b, e : <<b, e>> # <<>>
  <2>1. ASSUME NEW b, NEW e PROVE <<b, e>> # <<>>
    <3>1. 1 \in DOMAIN <<b, e>> /\ 1 \notin DOMAIN <<>>
      OBVIOUS
    <3> QED BY <3>1
  <2> QED BY <2>1
<1> QED BY <1>1 DEF L!Names, L!Active

\* What Move and Copy leave: a file of the name b has lines of the active one, all but those
\* in S.  These are lost if the active file is truncated now.
BackedUpOK(d, b, e, S, r) ==
    /\ IsDir(e)
    /\ Backups(d) \subseteq DOMAIN e /\ DOMAIN e \subseteq DOMAIN d \cup {b}
    /\ \A m \in DOMAIN e \ {b} : e[m] = d[m]
    /\ b \in DOMAIN e => e[b] \in [lines : SUBSET d[L!Active].lines, size : Nat, changed : 0 .. now]
    /\ \A l \in d[L!Active].lines : l \in S \/ (b \in DOMAIN e /\ l \in e[b].lines)
    /\ L!Active \notin DOMAIN e => S = {}
    /\ S \subseteq d[L!Active].lines
    /\ b \in L!Names \ {L!Active} /\ b[2] = now
    /\ b[1] = now => r >= 1
    /\ b \in DOMAIN d => d[b].lines \subseteq d[L!Active].lines

LEMMA Backing ==
    ASSUME NEW d, NEW w, NEW W, NEW X, NEW ln, NEW r, now \in 0 .. MaxTime, r < MaxRate,
           LogCore(now, d, w, W, X, ln, r), BackupsCovered(now, d, w, r), Rated(now, d, w, r),
           w.file_ptr_ = "file", L!MustRotate(w),
           NEW y \in L!BackedUp(d, w)
    PROVE  BackedUpOK(d, L!BackupName(w), y.dir, y.lost, r)
<1>1. PICK f : f = d[L!Active]
  OBVIOUS
<1>2. /\ L!Active \in DOMAIN d /\ w.size_ = f.size
      /\ f \in [lines : SUBSET (1 .. ln), size : Nat, changed : 0 .. now]
      /\ w.begin_time_ \in 0 .. now /\ w.size_ \in Nat /\ r \in Nat
      /\ DOMAIN d \subseteq L!Names /\ IsDir(d)
      /\ \A n \in DOMAIN d : d[n] \in [lines : SUBSET (1 .. ln), size : Nat, changed : 0 .. now]
  BY <1>1 DEF LogCore, LogTypes
<1>3. PICK b : b = L!BackupName(w)
  OBVIOUS
<1>4. b = <<w.begin_time_, now>> /\ w.begin_time_ \in 0 .. MaxTime
  BY <1>2, <1>3, LogBounds DEF L!BackupName
<1>5. b \in L!Names \ {L!Active} /\ b[1] = w.begin_time_ /\ b[2] = now
  BY <1>4, BackupNames
<1>6. w.begin_time_ = now => w.size_ > size_capacity_
  BY <1>2, LogBounds DEF L!MustRotate
<1>7. w.begin_time_ = now => r >= 1
  BY <1>2, <1>6, LogBounds DEF Rated
<1>8. b \in DOMAIN d => d[b].lines \subseteq f.lines
  <2> SUFFICES ASSUME b \in DOMAIN d, ~(d[b].lines \subseteq f.lines) PROVE FALSE
    OBVIOUS
  <2>1. b \in Backups(d) /\ b[2] = now
    BY <1>5 DEF Backups
  <2>2. w.begin_time_ = now /\ (b[1] = now => f.size <= r)
    BY <2>1, <1>1, <1>2 DEF BackupsCovered
  <2> QED BY <2>2, <1>2, <1>5, <1>6, LogBounds
<1>9. CASE y = [dir |-> d, lost |-> f.lines]
  <2>1. y.dir = d /\ y.lost = f.lines
    BY <1>9
  <2>2. b \in DOMAIN d => d[b] \in [lines : SUBSET f.lines, size : Nat, changed : 0 .. now]
    <3> SUFFICES ASSUME b \in DOMAIN d
                 PROVE  d[b] \in [lines : SUBSET f.lines, size : Nat, changed : 0 .. now]
      OBVIOUS
    <3>1. PICK h : h = d[b] /\ h \in [lines : SUBSET (1 .. ln), size : Nat, changed : 0 .. now]
      BY <1>2
    <3>2. h.lines \subseteq f.lines
      BY <3>1, <1>8
    <3> QED BY <3>1, <3>2
  <2>3. BackedUpOK(d, b, d, f.lines, r)
    BY <2>2, <1>1, <1>2, <1>5, <1>7, <1>8 DEF BackedUpOK, Backups
  <2> QED BY <2>1, <2>3, <1>3
<1>10. ASSUME NEW g \in [lines : SUBSET f.lines, size : Nat, changed : 0 .. now],
              NEW S \in SUBSET f.lines, \A l \in f.lines : l \in S \/ l \in g.lines,
              NEW e, (e = L!Remove(L!Put(d, b, g), {L!Active}) /\ S = {}) \/ e = L!Put(d, b, g)
       PROVE  BackedUpOK(d, b, e, S, r)
  <2>1. b # L!Active
    BY <1>5
  <2>2. e = L!Remove(L!Put(d, b, g), {L!Active}) \/ e = L!Put(d, b, g)
    BY <1>10
  <2>3. /\ IsDir(e)
        /\ Backups(d) \subseteq DOMAIN e /\ DOMAIN e \subseteq DOMAIN d \cup {b}
        /\ \A m \in DOMAIN e \ {b} : e[m] = d[m]
        /\ b \in DOMAIN e /\ e[b] = g
    <3>1. L!Active \in DOMAIN d
      BY <1>2
    <3>2. CASE e = L!Remove(L!Put(d, b, g), {L!Active})
      BY <2>1, <3>1, <3>2 DEF L!Put, L!Remove, IsDir, Backups
    <3>3. CASE e = L!Put(d, b, g)
      BY <2>1, <3>1, <3>3 DEF L!Put, IsDir, Backups
    <3> QED BY <2>2, <3>2, <3>3
  <2>4. L!Active \notin DOMAIN e => S = {}
    <3>1. CASE e = L!Put(d, b, g)
      BY <3>1, <1>2 DEF L!Put
    <3> QED BY <3>1, <1>10
  <2> QED BY <2>3, <2>4, <1>1, <1>5, <1>7, <1>8, <1>10 DEF BackedUpOK
<1>11. PICK g : g = [f EXCEPT !.changed = now]
  OBVIOUS
<1>12. g \in [lines : SUBSET f.lines, size : Nat, changed : 0 .. now] /\ g.lines = f.lines
  BY <1>2, <1>11
<1>13. CASE y = [dir |-> L!Move(d, L!Active, b), lost |-> {}]
  <2>1. PICK e : e = y.dir /\ e = L!Remove(L!Put(d, b, g), {L!Active}) /\ y.lost = {}
    BY <1>1, <1>11, <1>13 DEF L!Move
  <2>2. BackedUpOK(d, b, e, {}, r)
    BY <2>1, <1>10, <1>12
  <2> QED BY <2>1, <2>2, <1>3
<1>14. CASE y = [dir |-> L!Copy(d, L!Active, b), lost |-> {}]
  <2>1. PICK e : e = y.dir /\ e = L!Put(d, b, g) /\ y.lost = {}
    BY <1>1, <1>11, <1>14 DEF L!Copy
  <2>2. BackedUpOK(d, b, e, {}, r)
    BY <2>1, <1>10, <1>12
  <2> QED BY <2>1, <2>2, <1>3
<1>15. ASSUME NEW l \in f.lines,
              y = [dir |-> L!CopyUpTo(d, L!Active, b, l), lost |-> {m \in f.lines : m >= l}]
       PROVE  BackedUpOK(d, b, y.dir, y.lost, r)
  <2>1. PICK h : h = [f EXCEPT !.lines = {m \in @ : m < l}, !.changed = now]
    OBVIOUS
  <2>2. h \in [lines : SUBSET f.lines, size : Nat, changed : 0 .. now]
        /\ h.lines = {m \in f.lines : m < l}
    <3>1. PICK K \in SUBSET f.lines : K = {m \in f.lines : m < l}
      OBVIOUS
    <3>2. PICK u : u = [f EXCEPT !.lines = K]
      OBVIOUS
    <3>3. h = [u EXCEPT !.changed = now]
      BY <2>1, <3>1, <3>2
    <3>4. u \in [lines : SUBSET f.lines, size : Nat, changed : 0 .. now] /\ u.lines = K
      BY <3>2, <1>2
    <3>5. now \in 0 .. now
      OBVIOUS
    <3>6. h \in [lines : SUBSET f.lines, size : Nat, changed : 0 .. now] /\ h.lines = K
      BY <3>3, <3>4, <3>5
    <3> QED BY <3>1, <3>6
  <2>3. PICK S : S = y.lost /\ S = {m \in f.lines : m >= l}
    BY <1>15
  <2>4. S \in SUBSET f.lines /\ \A m \in f.lines : m \in S \/ m \in h.lines
    <3>1. \A m \in f.lines : m \in Int /\ l \in Int
      BY <1>2
    <3> QED BY <3>1, <2>2, <2>3
  <2>5. PICK e : e = y.dir /\ e = L!Put(d, b, h)
    BY <1>1, <1>15, <2>1 DEF L!CopyUpTo
  <2>6. BackedUpOK(d, b, e, S, r)
    BY <2>2, <2>4, <2>5, <1>10
  <2> QED BY <2>3, <2>5, <2>6
<1>16. \/ y = [dir |-> L!Move(d, L!Active, b), lost |-> {}]
       \/ y = [dir |-> L!Copy(d, L!Active, b), lost |-> {}]
       \/ y = [dir |-> d, lost |-> f.lines]
       \/ \E l \in f.lines :
             y = [dir |-> L!CopyUpTo(d, L!Active, b, l), lost |-> {m \in f.lines : m >= l}]
  BY <1>1, <1>2, <1>3 DEF L!BackedUp
<1> QED BY <1>3, <1>9, <1>13, <1>14, <1>15, <1>16

\* The backups after a backup: perhaps one more, which is of now; a line is missing only if
\* the active file has it, and then it is in S.
BackupsOK(d, b, e, S, W, X, ln) ==
    /\ DOMAIN e \subseteq L!Names
    /\ Backups(d) \subseteq Backups(e) /\ Backups(e) \subseteq Backups(d) \cup {b}
    /\ \A n \in DOMAIN e : e[n] \in [lines : SUBSET (1 .. ln), size : Nat, changed : 0 .. now]
    /\ \A n \in Backups(e) : n[2] <= now
    /\ \A n \in Backups(e) : \A v \in W : v.line \in e[n].lines => v.at <= n[2]
    /\ \A v \in W : v.at + Expire >= now =>
          v.line \in X \cup S \/ \E n \in Backups(e) : v.line \in e[n].lines
    /\ S # {} => L!Active \in DOMAIN e
    /\ S \subseteq d[L!Active].lines /\ S \subseteq 1 .. ln
    /\ L!Active \in DOMAIN e => e[L!Active] = d[L!Active]

LEMMA BackedFiles ==
    ASSUME NEW d, NEW w, NEW W, NEW X, NEW ln, NEW r, now \in 0 .. MaxTime,
           LogCore(now, d, w, W, X, ln, r), w.file_ptr_ = "file",
           NEW b, NEW e, NEW S, BackedUpOK(d, b, e, S, r)
    PROVE  BackupsOK(d, b, e, S, W, X, ln)
<1>1. /\ L!Active \in DOMAIN d /\ DOMAIN d \subseteq L!Names
      /\ \A n \in DOMAIN d : d[n] \in [lines : SUBSET (1 .. ln), size : Nat, changed : 0 .. now]
      /\ W \in SUBSET [line : 1 .. ln, at : 0 .. now]
  BY DEF LogCore, LogTypes
<1>2. /\ Backups(d) \subseteq DOMAIN e /\ DOMAIN e \subseteq DOMAIN d \cup {b}
      /\ \A m \in DOMAIN e \ {b} : e[m] = d[m]
      /\ b \in DOMAIN e =>
            e[b] \in [lines : SUBSET d[L!Active].lines, size : Nat, changed : 0 .. now]
      /\ \A l \in d[L!Active].lines : l \in S \/ (b \in DOMAIN e /\ l \in e[b].lines)
      /\ L!Active \notin DOMAIN e => S = {}
      /\ S \subseteq d[L!Active].lines
      /\ b \in L!Names \ {L!Active} /\ b[2] = now
      /\ b \in DOMAIN d => d[b].lines \subseteq d[L!Active].lines
  BY DEF BackedUpOK
<1>3. /\ DOMAIN e \subseteq L!Names
      /\ Backups(d) \subseteq Backups(e) /\ Backups(e) \subseteq Backups(d) \cup {b}
      /\ L!Active \in DOMAIN e => e[L!Active] = d[L!Active]
      /\ d[L!Active].lines \subseteq 1 .. ln /\ S \subseteq 1 .. ln
  BY <1>1, <1>2 DEF Backups
<1>4. \A n \in DOMAIN e : e[n] \in [lines : SUBSET (1 .. ln), size : Nat, changed : 0 .. now]
  <2> SUFFICES ASSUME NEW n \in DOMAIN e
               PROVE  e[n] \in [lines : SUBSET (1 .. ln), size : Nat, changed : 0 .. now]
    OBVIOUS
  <2>1. CASE n = b
    <3>1. PICK h : h = e[b]
                   /\ h \in [lines : SUBSET d[L!Active].lines, size : Nat, changed : 0 .. now]
      BY <2>1, <1>2
    <3> QED BY <3>1, <2>1, <1>3
  <2>2. CASE n # b
    BY <2>2, <1>1, <1>2
  <2> QED BY <2>1, <2>2
<1>5. \A n \in Backups(e) : n[2] <= now
  BY <1>2, <1>3 DEF LogCore
<1>6. \A n \in Backups(e) : \A v \in W : v.line \in e[n].lines => v.at <= n[2]
  <2> SUFFICES ASSUME NEW n \in Backups(e), NEW v \in W, v.line \in e[n].lines PROVE v.at <= n[2]
    OBVIOUS
  <2>1. CASE n = b
    BY <2>1, <1>1, <1>2
  <2>2. CASE n # b
    BY <2>2, <1>2, <1>3 DEF LogCore, Backups
  <2> QED BY <2>1, <2>2
<1>7. \A v \in W : v.at + Expire >= now =>
         v.line \in X \cup S \/ \E n \in Backups(e) : v.line \in e[n].lines
  <2> SUFFICES ASSUME NEW v \in W, v.at + Expire >= now, v.line \notin X, v.line \notin S
               PROVE  \E n \in Backups(e) : v.line \in e[n].lines
    OBVIOUS
  <2>1. PICK n \in DOMAIN d : v.line \in d[n].lines
    BY DEF LogCore
  <2>2. CASE n = L!Active \/ n = b
    <3>1. v.line \in d[L!Active].lines
      BY <2>1, <2>2, <1>2
    <3>2. b \in DOMAIN e /\ v.line \in e[b].lines
      BY <3>1, <1>2
    <3> QED BY <3>2, <1>2 DEF Backups
  <2>3. CASE n # L!Active /\ n # b
    <3>1. n \in Backups(e) /\ e[n] = d[n]
      BY <2>3, <1>2, <1>3 DEF Backups
    <3> QED BY <3>1, <2>1
  <2> QED BY <2>2, <2>3
<1> QED BY <1>2, <1>3, <1>4, <1>5, <1>6, <1>7 DEF BackupsOK

\* What Rotated leaves is as good a state to write a line in as it found: with a new file,
\* or with no file open and the old one still there, or gone.
LEMMA Rotating ==
    ASSUME NEW d, NEW w, NEW W, NEW X, NEW ln, NEW r, now \in 0 .. MaxTime, r < MaxRate,
           LogCore(now, d, w, W, X, ln, r), BackupsCovered(now, d, w, r), Rated(now, d, w, r),
           w.file_ptr_ = "file", NEW s \in L!Rotated(d, w)
    PROVE  /\ LogCore(now, s.dir, s.writer, W, X \cup s.lost, ln, r)
           /\ BackupsCovered(now, s.dir, s.writer, r)
           /\ Backups(d) \subseteq Backups(s.dir)
           /\ \A n \in Backups(s.dir) : n \in Backups(d) \/ n[2] = now
<1>1. CASE ~L!MustRotate(w)
  <2>1. s.dir = d /\ s.writer = w /\ s.lost = {}
    BY <1>1 DEF L!Rotated
  <2>2. X \cup s.lost = X
    BY <2>1
  <2> QED BY <2>1, <2>2
<1>2. CASE L!MustRotate(w)
  <2>1. PICK y \in L!BackedUp(d, w) : s \in L!Reopened(y)
    BY <1>2 DEF L!Rotated
  <2>2. PICK b, e, S : e = y.dir /\ S = y.lost /\ BackedUpOK(d, b, e, S, r)
    <3>1. BackedUpOK(d, L!BackupName(w), y.dir, y.lost, r)
      BY <1>2, Backing, Zenon
    <3> QED BY <3>1
  <2>3. BackupsOK(d, b, e, S, W, X, ln)
    <3>1. BackedUpOK(d, b, e, S, r)
      BY <2>2
    <3> QED BY <3>1, BackedFiles, Zenon
  <2>4. IsDir(e) /\ b[2] = now /\ (b[1] = now => r >= 1)
        /\ (b \in DOMAIN e => e[b].lines \subseteq d[L!Active].lines)
        /\ \A m \in DOMAIN e \ {b} : e[m] = d[m]
        /\ \A l \in d[L!Active].lines : l \in S \/ (b \in DOMAIN e /\ l \in e[b].lines)
    BY <2>2 DEF BackedUpOK
  <2>5. /\ W \in SUBSET [line : 1 .. ln, at : 0 .. now]
        /\ ln \in 0 .. MaxLines /\ r \in 0 .. MaxRate
        /\ L!Active \in DOMAIN d /\ X \subseteq 1 .. ln
        /\ \A v \in W : v.at <= d[L!Active].changed
    BY DEF LogCore, LogTypes
  <2>6. CASE s = [dir |-> e, lost |-> {},
                  writer |-> [file_ptr_ |-> "NULL", begin_time_ |-> 0, size_ |-> 0]]
    <3>1. s.dir = e /\ s.writer = [file_ptr_ |-> "NULL", begin_time_ |-> 0, size_ |-> 0]
          /\ X \cup s.lost = X
      BY <2>6
    <3>2. LogTypes(now, s.dir, s.writer, W, X, ln, r)
      BY <3>1, <2>3, <2>4, <2>5 DEF LogTypes, BackupsOK
    <3>3. LogCore(now, s.dir, s.writer, W, X, ln, r)
      <4>1. Backups(e) \subseteq DOMAIN e
        BY DEF Backups
      <4>2. \A v \in W : v.at + Expire >= now =>
               v.line \in X \/ \E n \in DOMAIN e : v.line \in e[n].lines
        BY <2>3, <4>1 DEF BackupsOK
      <4> QED BY <3>1, <3>2, <2>3, <2>5, <4>1, <4>2 DEF LogCore, BackupsOK
    <3>4. BackupsCovered(now, s.dir, s.writer, r)
      <4> SUFFICES ASSUME NEW n \in Backups(e), n[2] = now, L!Active \in DOMAIN e
                   PROVE  \/ e[n].lines \subseteq e[L!Active].lines
                          \/ /\ e[L!Active].changed = now
                             /\ n[1] = now => e[L!Active].size <= r
        BY <3>1 DEF BackupsCovered
      <4>1. CASE n = b
        <5>1. b \in DOMAIN e
          BY <4>1 DEF Backups
        <5> QED BY <4>1, <5>1, <2>3, <2>4 DEF BackupsOK
      <4>2. CASE n # b
        <5>1. n \in Backups(d) /\ e[n] = d[n]
          BY <4>2, <2>3, <2>4 DEF Backups, BackupsOK
        <5> QED BY <5>1, <2>3, <2>5 DEF BackupsCovered, BackupsOK
      <4> QED BY <4>1, <4>2
    <3> QED BY <3>1, <3>3, <3>4, <2>3, <2>4 DEF BackupsOK
  <2>7. CASE s = [dir |-> L!Put(e, L!Active, [L!NewFile EXCEPT !.size = 1]), lost |-> S,
                  writer |-> [file_ptr_ |-> "file", begin_time_ |-> now, size_ |-> 1]]
    <3>1. PICK p : /\ s.dir = p /\ IsDir(p) /\ DOMAIN p = DOMAIN e \cup {L!Active}
                   /\ p[L!Active] = [lines |-> {}, size |-> 1, changed |-> now]
                   /\ \A m \in DOMAIN e \ {L!Active} : p[m] = e[m]
      <4>1. [L!NewFile EXCEPT !.size = 1] = [lines |-> {}, size |-> 1, changed |-> now]
        BY DEF L!NewFile
      <4>2. s.dir = L!Put(e, L!Active, [L!NewFile EXCEPT !.size = 1])
        BY <2>7
      <4>3. PICK f : f = [lines |-> {}, size |-> 1, changed |-> now]
        OBVIOUS
      <4> DEFINE q == L!Put(e, L!Active, f)
      <4>4. IsDir(q) /\ DOMAIN q = DOMAIN e \cup {L!Active}
            /\ q[L!Active] = f /\ \A m \in DOMAIN e \ {L!Active} : q[m] = e[m]
        BY DEF L!Put, IsDir
      <4>5. s.dir = q
        BY <4>1, <4>2, <4>3
      <4> HIDE DEF q
      <4> QED BY <4>3, <4>4, <4>5
    <3>2. s.writer = [file_ptr_ |-> "file", begin_time_ |-> now, size_ |-> 1] /\ s.lost = S
      BY <2>7
    <3>3. Backups(p) = Backups(e) /\ \A n \in Backups(e) : p[n] = e[n]
      BY <3>1 DEF Backups
    <3>4. LogTypes(now, p, s.writer, W, X \cup S, ln, r)
      <4>1. DOMAIN p \subseteq L!Names
        BY <3>1, <2>3, BackupNames DEF BackupsOK
      <4>2. \A n \in DOMAIN p : p[n] \in [lines : SUBSET (1 .. ln), size : Nat, changed : 0 .. now]
        BY <3>1, <2>3 DEF BackupsOK
      <4>3. X \cup S \subseteq 1 .. ln
        BY <2>3, <2>5 DEF BackupsOK
      <4> QED BY <4>1, <4>2, <4>3, <3>1, <3>2, <2>5 DEF LogTypes
    <3>5. LogCore(now, p, s.writer, W, X \cup S, ln, r)
      <4>1. \A v \in W : v.at <= now
        BY <2>5
      <4>2. Backups(p) \subseteq DOMAIN p
        BY DEF Backups
      <4>3. \A v \in W : v.at + Expire >= now =>
               v.line \in X \cup S \/ \E n \in DOMAIN p : v.line \in p[n].lines
        BY <4>2, <3>3, <2>3 DEF BackupsOK
      <4> QED BY <4>1, <4>2, <4>3, <3>1, <3>2, <3>3, <3>4, <2>3 DEF LogCore, BackupsOK
    <3>6. \A n \in Backups(e) : n[2] = now /\ n[1] = now => 1 <= r
      <4> SUFFICES ASSUME NEW n \in Backups(e), n[2] = now, n[1] = now PROVE r >= 1
        BY <2>5
      <4> QED BY <2>3, <2>4 DEF Rated, BackupsOK
    <3>7. BackupsCovered(now, p, s.writer, r)
      BY <3>1, <3>2, <3>3, <3>6 DEF BackupsCovered
    <3> QED BY <3>1, <3>2, <3>3, <3>5, <3>7, <2>3, <2>4 DEF BackupsOK
  <2>8. s = [dir |-> e, lost |-> {},
             writer |-> [file_ptr_ |-> "NULL", begin_time_ |-> 0, size_ |-> 0]]
        \/ s = [dir |-> L!Put(e, L!Active, [L!NewFile EXCEPT !.size = 1]), lost |-> S,
                writer |-> [file_ptr_ |-> "file", begin_time_ |-> now, size_ |-> 1]]
    BY <2>1, <2>2 DEF L!Reopened
  <2> QED BY <2>6, <2>7, <2>8
<1> QED BY <1>1, <1>2

\* What a Write that ended as x makes true; v is the line it was asked to write.
Wrote(d, w, x, v, W, X, ln, r) ==
    /\ LogCore(now, x.dir, x.writer, IF x.ok THEN W \cup {v} ELSE W, X \cup x.lost, ln + 1, r + 1)
    /\ BackupsCovered(now, x.dir, x.writer, r + 1)
    /\ Backups(d) \subseteq Backups(x.dir)
    /\ \A n \in Backups(x.dir) : n \in Backups(d) \/ n[2] = now
    /\ x.writer.file_ptr_ = "file" => x.dir[L!Active].changed = now
    /\ w.file_ptr_ = "NULL" => x.dir = d /\ x.writer = w

\* A line that is not written changes no file.
LEMMA Skipping ==
    ASSUME NEW d, NEW w, NEW W, NEW X, NEW ln, NEW r, now \in 0 .. MaxTime, r < MaxRate, ln < MaxLines,
           LogCore(now, d, w, W, X, ln, r), BackupsCovered(now, d, w, r)
    PROVE  LogCore(now, d, w, W, X, ln + 1, r + 1) /\ BackupsCovered(now, d, w, r + 1)
<1>1. ln \in Nat /\ r \in Nat /\ 1 .. ln \subseteq 1 .. (ln + 1)
      /\ ln + 1 \in 0 .. MaxLines /\ r + 1 \in 0 .. MaxRate
  BY LogBounds DEF LogCore, LogTypes
<1>2. LogTypes(now, d, w, W, X, ln + 1, r + 1)
  <2>1. /\ IsDir(d) /\ DOMAIN d \subseteq L!Names
        /\ w \in [file_ptr_ : {"file", "NULL"}, begin_time_ : 0 .. now, size_ : Nat]
    BY DEF LogCore, LogTypes
  <2>2. \A n \in DOMAIN d : d[n] \in [lines : SUBSET (1 .. ln), size : Nat, changed : 0 .. now]
    BY DEF LogCore, LogTypes
  <2>3. \A n \in DOMAIN d : d[n] \in [lines : SUBSET (1 .. (ln + 1)), size : Nat, changed : 0 .. now]
    BY <2>2, <1>1
  <2>4. W \in SUBSET [line : 1 .. ln, at : 0 .. now]
    BY DEF LogCore, LogTypes
  <2>5. W \in SUBSET [line : 1 .. (ln + 1), at : 0 .. now]
    BY <2>4, <1>1
  <2>6. X \subseteq 1 .. (ln + 1)
    BY <1>1 DEF LogCore, LogTypes
  <2> QED BY <2>1, <2>3, <2>5, <2>6, <1>1 DEF LogTypes
<1>3. LogCore(now, d, w, W, X, ln + 1, r + 1)
  BY <1>2 DEF LogCore
<1>4. BackupsCovered(now, d, w, r + 1)
  <2> SUFFICES ASSUME NEW n \in Backups(d), n[2] = now, L!Active \in DOMAIN d,
                      d[L!Active].size <= r
               PROVE  d[L!Active].size <= r + 1
    BY DEF BackupsCovered
  <2>1. d[L!Active].size \in Nat
    BY DEF LogCore, LogTypes
  <2> QED BY <2>1, <1>1
<1> QED BY <1>3, <1>4

\* A line that is appended is in the active file, and no other line is touched.
LEMMA Appending ==
    ASSUME NEW s, NEW W, NEW X, NEW ln, NEW r, now \in 0 .. MaxTime, r < MaxRate, ln < MaxLines,
           LogCore(now, s.dir, s.writer, W, X, ln, r), BackupsCovered(now, s.dir, s.writer, r),
           s.writer.file_ptr_ = "file"
    PROVE  LET x == L!Appended(s, ln + 1)
               v == [line |-> ln + 1, at |-> now]
           IN  /\ LogCore(now, x.dir, x.writer, W \cup {v}, X, ln + 1, r + 1)
               /\ BackupsCovered(now, x.dir, x.writer, r + 1)
               /\ Backups(x.dir) = Backups(s.dir)
               /\ x.writer.file_ptr_ = "file"
               /\ x.dir[L!Active].changed = now
<1>1. PICK d, w : d = s.dir /\ w = s.writer
  OBVIOUS
<1>2. PICK f : f = d[L!Active]
  OBVIOUS
<1>3. /\ IsDir(d) /\ DOMAIN d \subseteq L!Names /\ L!Active \in DOMAIN d
      /\ \A n \in DOMAIN d : d[n] \in [lines : SUBSET (1 .. ln), size : Nat, changed : 0 .. now]
      /\ w \in [file_ptr_ : {"file", "NULL"}, begin_time_ : 0 .. now, size_ : Nat]
      /\ w.size_ = f.size /\ w.file_ptr_ = "file"
      /\ W \in SUBSET [line : 1 .. ln, at : 0 .. now]
      /\ ln \in Nat /\ r \in Nat
  BY <1>1, <1>2 DEF LogCore, LogTypes
<1>4. ln + 1 \in 0 .. MaxLines /\ r + 1 \in 0 .. MaxRate /\ 1 .. ln \subseteq 1 .. (ln + 1)
      /\ ln + 1 \in 1 .. (ln + 1) /\ ln + 1 \notin 1 .. ln
  BY <1>3, LogBounds
<1>5. f \in [lines : SUBSET (1 .. ln), size : Nat, changed : 0 .. now]
  BY <1>2, <1>3
<1>6. PICK g : g = [lines |-> f.lines \cup {ln + 1}, size |-> f.size + 1, changed |-> now]
  OBVIOUS
<1>7. PICK p : p = L!Put(d, L!Active, g)
  OBVIOUS
<1>8. /\ IsDir(p) /\ DOMAIN p = DOMAIN d
      /\ p[L!Active] = g /\ \A m \in DOMAIN d \ {L!Active} : p[m] = d[m]
  BY <1>7, <1>3 DEF L!Put, IsDir
<1>9. PICK u : u = [w EXCEPT !.size_ = @ + 1]
  OBVIOUS
<1>10. /\ u \in [file_ptr_ : {"file", "NULL"}, begin_time_ : 0 .. now, size_ : Nat]
       /\ u.file_ptr_ = "file" /\ u.size_ = f.size + 1 /\ u.begin_time_ = w.begin_time_
  BY <1>9, <1>3
<1>11. PICK x : x = L!Appended(s, ln + 1) /\ x.dir = p /\ x.writer = u
  <2>1. s.writer.file_ptr_ = "file"
    OBVIOUS
  <2>2. L!Put(s.dir, L!Active, [lines |-> s.dir[L!Active].lines \cup {ln + 1},
                               size |-> s.dir[L!Active].size + 1, changed |-> now]) = p
    BY <1>1, <1>2, <1>6, <1>7
  <2>3. [s.writer EXCEPT !.size_ = @ + 1] = u
    BY <1>1, <1>9
  <2>4. L!Appended(s, ln + 1) = [dir |-> p, writer |-> u]
    BY <2>1, <2>2, <2>3 DEF L!Appended
  <2>5. PICK x : x = L!Appended(s, ln + 1)
    OBVIOUS
  <2> QED BY <2>4, <2>5
<1>12. /\ g.lines = f.lines \cup {ln + 1} /\ g.size = f.size + 1 /\ g.changed = now
       /\ g \in [lines : SUBSET (1 .. (ln + 1)), size : Nat, changed : 0 .. now]
  BY <1>4, <1>5, <1>6
<1>13. Backups(p) = Backups(d) /\ \A n \in Backups(d) : p[n] = d[n] /\ n \in DOMAIN d
  BY <1>8 DEF Backups
<1>14. PICK v : v = [line |-> ln + 1, at |-> now]
  OBVIOUS
<1>15. v.line = ln + 1 /\ v.at = now /\ v \in [line : 1 .. (ln + 1), at : 0 .. now]
  BY <1>4, <1>14
<1>16. LogTypes(now, p, u, W \cup {v}, X, ln + 1, r + 1)
  <2>1. \A n \in DOMAIN d : d[n] \in [lines : SUBSET (1 .. (ln + 1)), size : Nat, changed : 0 .. now]
    BY <1>3, <1>4
  <2>2. \A n \in DOMAIN p : p[n] \in [lines : SUBSET (1 .. (ln + 1)), size : Nat, changed : 0 .. now]
    BY <2>1, <1>8, <1>12
  <2>3. W \cup {v} \in SUBSET [line : 1 .. (ln + 1), at : 0 .. now]
    <3>1. W \subseteq [line : 1 .. (ln + 1), at : 0 .. now]
      BY <1>3, <1>4
    <3> QED BY <3>1, <1>15
  <2>4. X \subseteq 1 .. (ln + 1)
    BY <1>1, <1>4 DEF LogCore, LogTypes
  <2> QED BY <2>2, <2>3, <2>4, <1>3, <1>4, <1>8, <1>10 DEF LogTypes
<1>17. LogCore(now, p, u, W \cup {v}, X, ln + 1, r + 1)
  <2>1. \A n \in Backups(p) : n[2] <= now
    BY <1>1, <1>13 DEF LogCore
  <2>2. \A n \in Backups(p) : \A z \in W \cup {v} : z.line \in p[n].lines => z.at <= n[2]
    <3> SUFFICES ASSUME NEW n \in Backups(p), NEW z \in W \cup {v}, z.line \in p[n].lines
                 PROVE  z.at <= n[2]
      OBVIOUS
    <3>1. n \in Backups(d) /\ p[n] = d[n] /\ d[n].lines \subseteq 1 .. ln
      BY <1>3, <1>13
    <3>2. z \in W
      BY <3>1, <1>4, <1>15
    <3> QED BY <3>1, <3>2, <1>1 DEF LogCore
  <2>3. \A z \in W \cup {v} : z.at <= p[L!Active].changed
    BY <1>3, <1>8, <1>12, <1>15
  <2>4. \A z \in W \cup {v} : z.at + Expire >= now =>
           z.line \in X \/ \E n \in DOMAIN p : z.line \in p[n].lines
    <3> SUFFICES ASSUME NEW z \in W \cup {v}, z.at + Expire >= now, z.line \notin X
                 PROVE  \E n \in DOMAIN p : z.line \in p[n].lines
      OBVIOUS
    <3>1. CASE z = v
      BY <3>1, <1>3, <1>8, <1>12, <1>15
    <3>2. CASE z \in W
      <4>1. PICK n \in DOMAIN d : z.line \in d[n].lines
        BY <3>2, <1>1 DEF LogCore
      <4>2. z.line \in p[n].lines
        BY <4>1, <1>2, <1>8, <1>12
      <4> QED BY <4>1, <4>2, <1>8
    <3> QED BY <3>1, <3>2
  <2>5. L!Active \in DOMAIN p /\ u.size_ = p[L!Active].size
    BY <1>3, <1>8, <1>10, <1>12
  <2> QED BY <2>1, <2>2, <2>3, <2>4, <2>5, <1>16 DEF LogCore
<1>18. BackupsCovered(now, p, u, r + 1)
  <2> SUFFICES ASSUME NEW n \in Backups(p), n[2] = now
               PROVE  \/ p[n].lines \subseteq p[L!Active].lines
                      \/ /\ p[L!Active].changed = now
                         /\ u.file_ptr_ = "file" => u.begin_time_ = now
                         /\ n[1] = now => p[L!Active].size <= r + 1
    BY DEF BackupsCovered
  <2>1. \/ d[n].lines \subseteq f.lines
        \/ /\ w.begin_time_ = now
           /\ n[1] = now => f.size <= r
    BY <1>1, <1>2, <1>3, <1>13 DEF BackupsCovered
  <2>2. f.size <= r => f.size + 1 <= r + 1
    BY <1>3, <1>5
  <2> QED BY <2>1, <2>2, <1>8, <1>10, <1>12, <1>13
<1>19. Backups(x.dir) = Backups(s.dir)
  BY <1>1, <1>11, <1>13
<1>20. x.writer.file_ptr_ = "file" /\ x.dir[L!Active].changed = now
  BY <1>8, <1>10, <1>11, <1>12
<1> QED BY <1>11, <1>14, <1>17, <1>18, <1>19, <1>20

\* A write from a state that is ready for it.
LEMMA WritingLine ==
    ASSUME NEW d, NEW w, NEW W, NEW X, NEW ln, NEW r,
           now \in 0 .. MaxTime, r < MaxRate, ln < MaxLines,
           LogReady(d, w, W, X, ln, r), NEW x \in L!Write(d, w, ln + 1)
    PROVE  Wrote(d, w, x, [line |-> ln + 1, at |-> now], W, X, ln, r)
<1>1. LogCore(now, d, w, W, X, ln, r) /\ BackupsCovered(now, d, w, r) /\ Rated(now, d, w, r)
  BY DEF LogReady
<1>2. w.file_ptr_ \in {"file", "NULL"}
  BY <1>1 DEF LogCore, LogTypes
<1>3. CASE w.file_ptr_ = "NULL"
  <2>1. x.dir = d /\ x.writer = w /\ x.ok = FALSE /\ X \cup x.lost = X
    BY <1>3 DEF L!Write
  <2>2. LogCore(now, d, w, W, X, ln + 1, r + 1) /\ BackupsCovered(now, d, w, r + 1)
    BY <1>1, Skipping, Zenon
  <2> QED BY <2>1, <2>2, <1>3 DEF Wrote
<1>4. CASE w.file_ptr_ = "file"
  <2>1. PICK s \in L!Rotated(d, w) :
            x = LET y == IF s.writer.file_ptr_ = "NULL" THEN s ELSE L!Appended(s, ln + 1)
                IN  [dir |-> y.dir, lost |-> s.lost, writer |-> y.writer, ok |-> s.writer.file_ptr_ # "NULL"]
    BY <1>4 DEF L!Write
  <2>6. PICK Y : Y = X \cup s.lost
    OBVIOUS
  <2>2. /\ LogCore(now, s.dir, s.writer, W, Y, ln, r)
        /\ BackupsCovered(now, s.dir, s.writer, r)
        /\ Backups(d) \subseteq Backups(s.dir)
        /\ \A n \in Backups(s.dir) : n \in Backups(d) \/ n[2] = now
    <3>1. /\ LogCore(now, s.dir, s.writer, W, X \cup s.lost, ln, r)
          /\ BackupsCovered(now, s.dir, s.writer, r)
          /\ Backups(d) \subseteq Backups(s.dir)
          /\ \A n \in Backups(s.dir) : n \in Backups(d) \/ n[2] = now
      BY <1>1, <1>4, Rotating, Zenon
    <3> QED BY <3>1, <2>6
  <2>3. CASE s.writer.file_ptr_ = "NULL"
    <3>1. x.dir = s.dir /\ x.writer = s.writer /\ x.ok = FALSE /\ Y = X \cup x.lost
      BY <2>1, <2>3, <2>6
    <3>2. LogCore(now, s.dir, s.writer, W, Y, ln + 1, r + 1)
          /\ BackupsCovered(now, s.dir, s.writer, r + 1)
      BY <2>2, Skipping, Zenon
    <3> QED BY <3>1, <3>2, <2>2, <2>3, <1>4 DEF Wrote
  <2>4. CASE s.writer.file_ptr_ = "file"
    <3>1. PICK y : /\ y = L!Appended(s, ln + 1)
                   /\ LogCore(now, y.dir, y.writer, W \cup {[line |-> ln + 1, at |-> now]}, Y,
                              ln + 1, r + 1)
                   /\ BackupsCovered(now, y.dir, y.writer, r + 1)
                   /\ Backups(y.dir) = Backups(s.dir)
                   /\ y.writer.file_ptr_ = "file"
                   /\ y.dir[L!Active].changed = now
      BY <2>2, <2>4, Appending
    <3>2. x.dir = y.dir /\ x.writer = y.writer /\ x.ok = TRUE /\ Y = X \cup x.lost
      BY <3>1, <2>1, <2>4, <2>6
    <3> QED BY <3>1, <3>2, <2>2, <1>4 DEF Wrote
  <2>5. s.writer.file_ptr_ \in {"file", "NULL"}
    BY <2>2 DEF LogCore, LogTypes
  <2> QED BY <2>3, <2>4, <2>5
<1> QED BY <1>2, <1>3, <1>4

\* The next line is written, by whichever action, with the directory d and the writer w.
LEMMA Stubbing ==
    ASSUME NEW d, NEW w, now \in 0 .. MaxTime, now' = now,
           LogReady(d, w, written, lost, lines, rate), L!LogStub(d, w)
    PROVE  /\ LogFilesOK'
           /\ Backups(d) \subseteq Backups(dir')
           /\ \A n \in Backups(dir') : n \in Backups(d) \/ n[2] = now
           /\ writer'.file_ptr_ = "file" => dir'[L!Active].changed = now
           /\ w.file_ptr_ = "NULL" => dir' = d /\ writer' = w
<1>1. PICK x \in L!Write(d, w, lines + 1) :
         /\ dir' = x.dir /\ writer' = x.writer /\ lost' = lost \cup x.lost
         /\ written' = IF x.ok THEN written \cup {[line |-> lines + 1, at |-> now]} ELSE written
  BY DEF L!LogStub
<1>2. lines < MaxLines /\ rate < MaxRate /\ lines' = lines + 1 /\ rate' = rate + 1
  BY DEF L!LogStub
<1>3. Wrote(d, w, x, [line |-> lines + 1, at |-> now], written, lost, lines, rate)
  BY <1>2, WritingLine, Zenon
<1>4. LogCore(now', dir', writer', written', lost', lines', rate')
      /\ BackupsCovered(now', dir', writer', rate')
  BY <1>1, <1>2, <1>3 DEF Wrote
<1>5. rate \in Nat
  BY DEF LogReady, LogCore, LogTypes
<1>6. Rated(now', dir', writer', rate')
  BY <1>2, <1>5 DEF Rated
<1>7. LogFilesOK'
  BY <1>4, <1>6 DEF LogFilesOK, LogReady
<1> QED BY <1>1, <1>3, <1>7 DEF Wrote

\* LogWriterInit finds or makes the file that the next line goes to, or opens none.
LEMMA Opening ==
    ASSUME now \in 0 .. MaxTime, LogFilesOK, writer.file_ptr_ = "NULL",
           NEW s \in L!LogWriterInit(dir)
    PROVE  LogReady(s.dir, s.writer, written, lost, lines, rate) /\ Backups(s.dir) = Backups(dir)
<1>1. /\ LogCore(now, dir, writer, written, lost, lines, rate)
      /\ BackupsCovered(now, dir, writer, rate) /\ Rated(now, dir, writer, rate)
      /\ LogTypes(now, dir, writer, written, lost, lines, rate)
  BY DEF LogFilesOK, LogReady, LogCore
<1>2. CASE s = [dir |-> dir, writer |-> [file_ptr_ |-> "NULL", begin_time_ |-> 0, size_ |-> 0]]
  <2>1. PICK w : w = s.writer /\ w = [file_ptr_ |-> "NULL", begin_time_ |-> 0, size_ |-> 0]
    BY <1>2
  <2>2. s.dir = dir
    BY <1>2
  <2>3. LogTypes(now, dir, w, written, lost, lines, rate) /\ w.file_ptr_ = "NULL"
    BY <1>1, <2>1 DEF LogTypes
  <2>4. LogCore(now, dir, w, written, lost, lines, rate)
    BY <1>1, <2>3 DEF LogCore
  <2>5. BackupsCovered(now, dir, w, rate) /\ Rated(now, dir, w, rate)
    BY <1>1, <2>3 DEF BackupsCovered, Rated
  <2> QED BY <2>1, <2>2, <2>4, <2>5 DEF LogReady
<1>3. CASE s = LET e == IF L!Active \in DOMAIN dir THEN dir ELSE L!Put(dir, L!Active, L!NewFile)
               IN  [dir |-> e, writer |-> [file_ptr_ |-> "file", begin_time_ |-> e[L!Active].changed,
                                           size_ |-> e[L!Active].size]]
  <2>1. PICK e : e = IF L!Active \in DOMAIN dir THEN dir ELSE L!Put(dir, L!Active, L!NewFile)
    OBVIOUS
  <2>2. PICK w : w = s.writer /\ s.dir = e
                 /\ w = [file_ptr_ |-> "file", begin_time_ |-> e[L!Active].changed,
                         size_ |-> e[L!Active].size]
    BY <1>3, <2>1
  <2>3. CASE L!Active \in DOMAIN dir
    <3>1. e = dir
      BY <2>1, <2>3
    <3>2. dir[L!Active] \in [lines : SUBSET (1 .. lines), size : Nat, changed : 0 .. now]
      BY <1>1, <2>3 DEF LogTypes
    <3>3. LogTypes(now, dir, w, written, lost, lines, rate) /\ w.file_ptr_ = "file"
          /\ w.begin_time_ = dir[L!Active].changed /\ w.size_ = dir[L!Active].size
      BY <1>1, <2>2, <3>1, <3>2 DEF LogTypes
    <3>4. LogCore(now, dir, w, written, lost, lines, rate)
      BY <1>1, <2>3, <3>3 DEF LogCore
    <3>5. BackupsCovered(now, dir, w, rate) /\ Rated(now, dir, w, rate)
      BY <1>1, <2>3, <3>3 DEF BackupsCovered, Rated
    <3> QED BY <2>2, <3>1, <3>4, <3>5 DEF LogReady
  <2>4. CASE L!Active \notin DOMAIN dir
    <3>1. PICK f : f = L!NewFile
      OBVIOUS
    <3>2. f.lines = {} /\ f.size = 0 /\ f.changed = now
          /\ f \in [lines : SUBSET (1 .. lines), size : Nat, changed : 0 .. now]
      BY <3>1 DEF L!NewFile
    <3>3. /\ IsDir(e) /\ DOMAIN e = DOMAIN dir \cup {L!Active}
          /\ e[L!Active] = f /\ \A m \in DOMAIN dir \ {L!Active} : e[m] = dir[m]
      BY <2>1, <2>4, <3>1 DEF L!Put, IsDir
    <3>4. Backups(e) = Backups(dir) /\ \A n \in Backups(dir) : e[n] = dir[n] /\ n \in DOMAIN dir
      BY <3>3 DEF Backups
    <3>5. w \in [file_ptr_ : {"file", "NULL"}, begin_time_ : 0 .. now, size_ : Nat]
          /\ w.file_ptr_ = "file" /\ w.begin_time_ = now /\ w.size_ = 0
      BY <2>2, <3>2, <3>3
    <3>6. LogTypes(now, e, w, written, lost, lines, rate)
      <4>1. DOMAIN e \subseteq L!Names
        BY <1>1, <3>3, BackupNames DEF LogTypes
      <4>2. \A n \in DOMAIN e : e[n] \in [lines : SUBSET (1 .. lines), size : Nat, changed : 0 .. now]
        BY <1>1, <3>2, <3>3 DEF LogTypes
      <4> QED BY <1>1, <3>3, <3>5, <4>1, <4>2 DEF LogTypes
    <3>7. LogCore(now, e, w, written, lost, lines, rate)
      <4>1. \A v \in written : v.at <= now
        BY <1>1 DEF LogTypes
      <4>2. \A n \in DOMAIN dir : n \in DOMAIN e /\ e[n] = dir[n]
        BY <2>4, <3>3
      <4>3. \A v \in written : v.at + Expire >= now =>
               v.line \in lost \/ \E n \in DOMAIN e : v.line \in e[n].lines
        BY <1>1, <4>2 DEF LogCore
      <4> QED BY <1>1, <3>2, <3>3, <3>4, <3>5, <3>6, <4>1, <4>3 DEF LogCore
    <3>8. BackupsCovered(now, e, w, rate)
      <4>1. rate >= 0
        BY <1>1 DEF LogTypes
      <4> QED BY <3>2, <3>3, <3>5, <4>1 DEF BackupsCovered
    <3>9. Rated(now, e, w, rate)
      BY <1>1, <3>2, <3>3, <3>4, <3>5 DEF Rated
    <3> QED BY <2>2, <3>4, <3>7, <3>8, <3>9 DEF LogReady
  <2> QED BY <2>3, <2>4
<1> QED BY <1>2, <1>3 DEF L!LogWriterInit

\* While no file is open, an action may delete the active one, and no more.
ClosedStays ==
    writer.file_ptr_ = "NULL" =>
        /\ writer'.file_ptr_ = "NULL"
        /\ L!Active \in DOMAIN dir' =>
              L!Active \in DOMAIN dir /\ dir'[L!Active] = dir[L!Active]

LEMMA ListKept ==
    ASSUME ListedOK, ClosedStays, now' = now, checking' = checking, nFiles' \subseteq nFiles,
           L!Checking' => L!Checking
    PROVE  ListedOK'
BY DEF ListedOK, ClosedStays

LEMMA DoomKept ==
    ASSUME DoomedOK, ClosedStays, now' = now, doomed' \subseteq doomed
    PROVE  DoomedOK'
BY DEF DoomedOK, ClosedStays

\* A line written while the agent runs.
LEMMA LogLine ==
    ASSUME LoggerInv, L!LogStub(dir, writer), now' = now
    PROVE  /\ LogFilesOK' /\ NeverSilent' /\ ClosedStays
           /\ Backups(dir) \subseteq Backups(dir')
           /\ \A n \in Backups(dir') : n \in Backups(dir) \/ n[2] = now
           /\ writer.file_ptr_ = "NULL" => dir' = dir
<1>1. now \in 0 .. MaxTime /\ LogReady(dir, writer, written, lost, lines, rate)
  BY DEF LoggerInv, CheckTypes, LogFilesOK
<1>2. /\ LogFilesOK'
      /\ Backups(dir) \subseteq Backups(dir')
      /\ \A n \in Backups(dir') : n \in Backups(dir) \/ n[2] = now
      /\ writer'.file_ptr_ = "file" => dir'[L!Active].changed = now
      /\ writer.file_ptr_ = "NULL" => dir' = dir /\ writer' = writer
  BY <1>1, Stubbing, Zenon
<1>3. NeverSilent'
  BY <1>1, <1>2, LogBounds DEF NeverSilent
<1> QED BY <1>2, <1>3 DEF ClosedStays

LEMMA LoggerInit == L!Init => LoggerInv
<1> SUFFICES ASSUME L!Init PROVE LoggerInv
  OBVIOUS
<1>1. /\ now = 0 /\ up = FALSE /\ DOMAIN dir = {} /\ IsDir(dir)
      /\ writer = [file_ptr_ |-> "NULL", begin_time_ |-> 0, size_ |-> 0]
      /\ written = {} /\ lost = {} /\ lines = 0 /\ rate = 0
      /\ nFiles = {} /\ doomed = {} /\ checking = 0 /\ m_nCheckRunLogTime = 0
  BY DEF L!Init, IsDir
<1>2. LogFilesOK
  <2>1. LogTypes(now, dir, writer, written, lost, lines, rate)
    BY <1>1, LogBounds DEF LogTypes
  <2> QED BY <1>1, <2>1
          DEF LogFilesOK, LogReady, LogCore, BackupsCovered, Rated, Backups
<1>3. CheckTypes
  <2>1. up \in BOOLEAN
    BY <1>1
  <2>2. now \in 0 .. MaxTime /\ checking \in 0 .. now /\ m_nCheckRunLogTime \in 0 .. now
    BY <1>1, LogBounds
  <2>3. nFiles \subseteq L!Names \X (0 .. now) /\ doomed \subseteq L!Names
    BY <1>1
  <2>4. writer.file_ptr_ = "NULL"
    BY <1>1
  <2> QED BY <1>1, <2>1, <2>2, <2>3, <2>4, Zenon DEF CheckTypes
<1> QED BY <1>1, <1>2, <1>3
        DEF LoggerInv, NeverSilent, ListedOK, DoomedOK, ExpiredListed, L!Checking,
            L!ExpiredIsDeleted, Backups

LEMMA LogStep ==
    ASSUME LoggerInv, L!Log
    PROVE  LoggerInv'
<1>1. /\ L!LogStub(dir, writer) /\ up
      /\ UNCHANGED <<now, up, nFiles, doomed, checking, m_nCheckRunLogTime>>
  BY DEF L!Log
<1>2. /\ LogFilesOK' /\ NeverSilent' /\ ClosedStays
      /\ \A n \in Backups(dir') : n \in Backups(dir) \/ n[2] = now
  BY <1>1, LogLine, Zenon
<1>3. CheckTypes'
  BY <1>1 DEF LoggerInv, CheckTypes
<1>4. ListedOK'
  BY <1>1, <1>2, ListKept DEF LoggerInv, L!Checking
<1>5. DoomedOK'
  BY <1>1, <1>2, DoomKept DEF LoggerInv
<1>6. ExpiredListed'
  <2>1. now + Expire >= checking
    BY LogBounds DEF LoggerInv, CheckTypes
  <2> QED BY <2>1, <1>1, <1>2
          DEF LoggerInv, ExpiredListed, L!Checking, L!ExpiredIsDeleted, L!GetBackupNameTime, Backups
<1> QED BY <1>2, <1>3, <1>4, <1>5, <1>6 DEF LoggerInv

LEMMA InitializeStep ==
    ASSUME LoggerInv, L!Initialize
    PROVE  LoggerInv'
<1>1. /\ ~up /\ up' = TRUE /\ m_nCheckRunLogTime' = 0
      /\ UNCHANGED <<now, nFiles, doomed, checking>>
  BY DEF L!Initialize
<1>2. now \in 0 .. MaxTime /\ LogFilesOK /\ writer.file_ptr_ = "NULL"
      /\ nFiles = {} /\ doomed = {}
  BY <1>1 DEF LoggerInv, CheckTypes
<1>3. PICK s \in L!LogWriterInit(dir) : L!LogStub(s.dir, s.writer)
  BY DEF L!Initialize
<1>4. LogReady(s.dir, s.writer, written, lost, lines, rate)
  BY <1>2, Opening, Zenon
<1>5. now' = now
  BY <1>1
<1>6. LogFilesOK' /\ (writer'.file_ptr_ = "file" => dir'[L!Active].changed = now)
  BY <1>2, <1>3, <1>4, <1>5, Stubbing, Zenon
<1>7. NeverSilent'
  BY <1>2, <1>5, <1>6, LogBounds DEF NeverSilent
<1>8. CheckTypes'
  BY <1>1, <1>2 DEF LoggerInv, CheckTypes
<1> QED BY <1>1, <1>2, <1>6, <1>7, <1>8
        DEF LoggerInv, ListedOK, DoomedOK, ExpiredListed, L!Checking, L!ExpiredIsDeleted

LEMMA ExitStep ==
    ASSUME LoggerInv, L!Exit
    PROVE  LoggerInv'
<1>1. /\ up' = FALSE /\ nFiles' = {} /\ doomed' = {}
      /\ UNCHANGED <<now, dir, written, lost, lines, rate, checking, m_nCheckRunLogTime>>
  BY DEF L!Exit
<1>2. PICK w : w = writer' /\ w = [file_ptr_ |-> "NULL", begin_time_ |-> 0, size_ |-> 0]
  BY DEF L!Exit
<1>3. LogReady(dir, writer, written, lost, lines, rate) /\ now \in 0 .. MaxTime
  BY DEF LoggerInv, LogFilesOK, CheckTypes
<1>4. LogTypes(now, dir, w, written, lost, lines, rate) /\ w.file_ptr_ = "NULL"
  BY <1>2, <1>3 DEF LogReady, LogCore, LogTypes
<1>5. LogCore(now, dir, w, written, lost, lines, rate)
  BY <1>3, <1>4 DEF LogReady, LogCore
<1>6. BackupsCovered(now, dir, w, rate) /\ Rated(now, dir, w, rate)
  BY <1>3, <1>4 DEF LogReady, BackupsCovered, Rated
<1>7. LogReady(dir, writer, written, lost, lines, rate)'
  BY <1>1, <1>2, <1>5, <1>6 DEF LogReady
<1>8. writer'.file_ptr_ = "NULL"
  BY <1>2
<1>9. CheckTypes'
  BY <1>1, <1>8 DEF LoggerInv, CheckTypes
<1> QED BY <1>1, <1>7, <1>8, <1>9
        DEF LoggerInv, LogFilesOK, NeverSilent, ListedOK, DoomedOK, ExpiredListed, L!Checking,
            L!ExpiredIsDeleted

\* What the files are is not changed.
LEMMA FilesUnchanged ==
    ASSUME LoggerInv, UNCHANGED <<now, dir, writer, written, lost, lines, rate>>
    PROVE  LogFilesOK' /\ NeverSilent' /\ ClosedStays
<1>1. LogFilesOK'
  <2>1. LogReady(dir, writer, written, lost, lines, rate)
    BY DEF LoggerInv, LogFilesOK
  <2> QED BY <2>1 DEF LogFilesOK, LogReady
<1> QED BY <1>1 DEF LoggerInv, NeverSilent, ClosedStays

LEMMA ListingStep ==
    ASSUME LoggerInv, L!CheckExpiredLog
    PROVE  LoggerInv'
<1>1. /\ up /\ nFiles = {} /\ doomed = {} /\ DOMAIN dir # {}
      /\ nFiles' = {<<n, L!GetBackupNameTime(n)>> : n \in DOMAIN dir} /\ checking' = now
      /\ UNCHANGED <<now, up, dir, writer, written, lost, lines, rate, doomed, m_nCheckRunLogTime>>
  BY DEF L!CheckExpiredLog, L!Checking, L!GetFileList
<1>2. LogFilesOK' /\ NeverSilent'
  BY <1>1, FilesUnchanged
<1>3. /\ \A n \in DOMAIN dir : n \in L!Names
      /\ \A n \in Backups(dir) : n[2] <= now
      /\ \A n \in DOMAIN dir : dir[n].changed \in 0 .. now
      /\ now \in 0 .. MaxTime
  BY DEF LoggerInv, LogFilesOK, LogReady, LogCore, LogTypes, CheckTypes
<1>4. \A n \in DOMAIN dir : L!GetBackupNameTime(n) \in 0 .. now
  BY <1>3, BackupNames, LogBounds DEF L!GetBackupNameTime, Backups
<1>5. CheckTypes'
  <2>1. nFiles' \subseteq L!Names \X (0 .. now)
    BY <1>1, <1>3, <1>4
  <2> QED BY <2>1, <1>1, <1>3 DEF LoggerInv, CheckTypes
<1>6. \A f \in nFiles' : f[1] \in DOMAIN dir /\ f[2] = L!GetBackupNameTime(f[1])
  BY <1>1
<1>7. ListedOK'
  <2>1. L!Checking' => now' <= checking' + 1
    BY <1>1, <1>3
  <2>2. ASSUME NEW f \in nFiles', f[1] = L!Active
        PROVE  writer.file_ptr_ = "file" => now <= f[2] + MaxSilence
    BY <2>2, <1>6 DEF LoggerInv, NeverSilent, L!GetBackupNameTime
  <2>3. writer.file_ptr_ \in {"file", "NULL"}
    BY DEF LoggerInv, LogFilesOK, LogReady, LogCore, LogTypes
  <2>4. ASSUME NEW f \in nFiles'
        PROVE  IF f[1] # L!Active THEN f[2] = f[1][2]
               ELSE \/ checking' <= f[2] + MaxSilence
                    \/ /\ writer'.file_ptr_ = "NULL"
                       /\ L!Active \in DOMAIN dir' => dir'[L!Active].changed = f[2]
    BY <1>1, <1>6, <2>2, <2>3 DEF L!GetBackupNameTime
  <2> QED BY <2>1, <2>4 DEF ListedOK
<1>8. DoomedOK'
  BY <1>1 DEF DoomedOK
<1>9. L!Checking'
  BY <1>1 DEF L!Checking
<1>10. \A n \in Backups(dir) : <<n, n[2]>> \in nFiles'
  BY <1>1 DEF Backups, L!GetBackupNameTime
<1>11. ExpiredListed'
  BY <1>1, <1>9, <1>10 DEF ExpiredListed, L!ExpiredIsDeleted
<1> QED BY <1>2, <1>5, <1>7, <1>8, <1>11 DEF LoggerInv

LEMMA CheckFileStep ==
    ASSUME LoggerInv, L!CheckFile
    PROVE  LoggerInv'
<1>1. PICK f \in nFiles :
         /\ nFiles' = nFiles \ {f}
         /\ IF L!IsExpired(f)
            THEN L!LogStub(dir, writer) /\ doomed' = {f[1]} /\ UNCHANGED m_nCheckRunLogTime
            ELSE /\ m_nCheckRunLogTime' = IF nFiles' = {} THEN now ELSE m_nCheckRunLogTime
                 /\ UNCHANGED <<dir, writer, written, lost, lines, rate, doomed>>
  BY DEF L!CheckFile
<1>2. doomed = {} /\ now' = now /\ up' = up /\ checking' = checking
  BY DEF L!CheckFile
<1>3. /\ now \in 0 .. MaxTime /\ checking \in 0 .. now
      /\ f \in L!Names \X (0 .. now) /\ nFiles \subseteq L!Names \X (0 .. now)
      /\ up
      /\ ListedOK /\ L!Checking
  BY <1>1 DEF LoggerInv, CheckTypes, L!Checking
<1>4. f[1] \in L!Names /\ f[2] \in 0 .. now /\ f = <<f[1], f[2]>>
  BY <1>3
<1>5. \A n \in Backups(dir) : n[2] + Expire >= checking \/ <<n, n[2]>> \in nFiles
  BY <1>2, <1>3 DEF LoggerInv, ExpiredListed
<1>6. CASE ~L!IsExpired(f)
  <2>1. /\ nFiles' = nFiles \ {f}
        /\ m_nCheckRunLogTime' = IF nFiles' = {} THEN now ELSE m_nCheckRunLogTime
        /\ UNCHANGED <<dir, writer, written, lost, lines, rate, doomed>>
    BY <1>1, <1>6
  <2>2. UNCHANGED <<now, dir, writer, written, lost, lines, rate>>
    BY <1>2, <2>1
  <2>3. LogFilesOK' /\ NeverSilent' /\ ClosedStays
    BY <2>2, FilesUnchanged, Zenon
  <2>4. CheckTypes'
    <3>1. m_nCheckRunLogTime' \in 0 .. now
      BY <2>1, <1>3 DEF LoggerInv, CheckTypes
    <3> QED BY <3>1, <2>1, <1>2, <1>3 DEF LoggerInv, CheckTypes
  <2>5. ListedOK'
    BY <1>2, <1>3, <2>1, <2>3, ListKept
  <2>6. DoomedOK'
    BY <1>2, <2>1 DEF DoomedOK
  <2>7. \A n \in Backups(dir) : n[2] + Expire >= checking \/ <<n, n[2]>> \in nFiles'
    <3> SUFFICES ASSUME NEW n \in Backups(dir), <<n, n[2]>> = f PROVE n[2] + Expire >= checking
      BY <1>5, <2>1
    <3>1. n[2] = f[2]
      OBVIOUS
    <3> QED BY <3>1, <1>3, <1>4, <1>6, LogBounds DEF L!IsExpired
  <2>8. ExpiredListed'
    BY <1>2, <2>1, <2>7
       DEF ExpiredListed, L!Checking, L!ExpiredIsDeleted, L!GetBackupNameTime, Backups
  <2> QED BY <2>3, <2>4, <2>5, <2>6, <2>8 DEF LoggerInv
<1>7. CASE L!IsExpired(f)
  <2>1. /\ L!LogStub(dir, writer) /\ nFiles' = nFiles \ {f}
        /\ doomed' = {f[1]} /\ UNCHANGED m_nCheckRunLogTime
    BY <1>1, <1>7
  <2>2. /\ LogFilesOK' /\ NeverSilent' /\ ClosedStays
        /\ \A n \in Backups(dir') : n \in Backups(dir) \/ n[2] = now
    BY <1>2, <2>1, LogLine, Zenon
  <2>3. CheckTypes'
    BY <1>2, <1>3, <1>4, <2>1 DEF LoggerInv, CheckTypes
  <2>4. ListedOK'
    BY <1>2, <1>3, <2>1, <2>2, ListKept
  <2>5. f[2] + Expire < now
    BY <1>7 DEF L!IsExpired
  <2>6. DoomedOK'
    <3>1. CASE f[1] # L!Active
      <4>1. f[1][2] = f[2]
        BY <3>1, <1>3 DEF ListedOK
      <4> QED BY <3>1, <4>1, <2>1, <2>5, <1>2 DEF DoomedOK
    <3>2. CASE f[1] = L!Active
      <4>1. ~(checking <= f[2] + MaxSilence)
        <5>1. now <= checking + 1
          BY <1>3 DEF ListedOK
        <5> QED BY <5>1, <2>5, <1>3, <1>4, LogBounds
      <4>2. writer.file_ptr_ = "NULL" /\ (L!Active \in DOMAIN dir => dir[L!Active].changed = f[2])
        BY <3>2, <4>1, <1>3 DEF ListedOK
      <4>3. writer'.file_ptr_ = "NULL"
            /\ (L!Active \in DOMAIN dir' => dir'[L!Active].changed = f[2])
        BY <4>2, <2>2 DEF ClosedStays
      <4> QED BY <3>2, <4>3, <2>1, <2>5, <1>2 DEF DoomedOK
    <3> QED BY <3>1, <3>2
  <2>7. \A n \in Backups(dir') :
           n[2] + Expire >= checking \/ n \in doomed' \/ <<n, n[2]>> \in nFiles'
    <3> SUFFICES ASSUME NEW n \in Backups(dir'),
                        ~(n[2] + Expire >= checking), <<n, n[2]>> \notin nFiles'
                 PROVE  n \in doomed'
      OBVIOUS
    <3>1. n[2] # now
      BY <1>3, LogBounds
    <3>2. <<n, n[2]>> = f
      BY <3>1, <1>5, <2>1, <2>2
    <3> QED BY <3>2, <2>1
  <2>8. ExpiredListed'
    BY <1>2, <2>1, <2>7 DEF ExpiredListed, L!Checking, L!ExpiredIsDeleted
  <2> QED BY <2>2, <2>3, <2>4, <2>6, <2>8 DEF LoggerInv
<1> QED BY <1>6, <1>7

\* The file that is deleted had expired, and is not the one that is open.
LEMMA Deleting ==
    ASSUME LoggerInv, NEW n \in doomed, n \in DOMAIN dir, L!Delete(n),
           UNCHANGED <<now, written, lost, lines, rate>>
    PROVE  /\ LogFilesOK' /\ NeverSilent' /\ ClosedStays
           /\ Backups(dir') = Backups(dir) \ {n}
<1>1. /\ LogCore(now, dir, writer, written, lost, lines, rate)
      /\ BackupsCovered(now, dir, writer, rate) /\ Rated(now, dir, writer, rate)
      /\ now \in 0 .. MaxTime /\ n \in L!Names
  BY DEF LoggerInv, LogFilesOK, LogReady, CheckTypes
<1>2. n = L!Active => writer.file_ptr_ = "NULL" /\ dir[L!Active].changed + Expire < now
  BY DEF LoggerInv, DoomedOK
<1>3. n # L!Active => n[2] + Expire < now
  BY DEF LoggerInv, DoomedOK
<1>4. writer' = writer
  BY <1>2 DEF L!Delete
<1>5. PICK e : e = dir' /\ IsDir(e) /\ DOMAIN e = DOMAIN dir \ {n}
               /\ \A m \in DOMAIN dir \ {n} : e[m] = dir[m]
  BY DEF L!Delete, L!Remove, IsDir
<1>6. Backups(e) = Backups(dir) \ {n} /\ \A m \in Backups(e) : m \in DOMAIN dir /\ e[m] = dir[m]
  BY <1>5 DEF Backups
<1>7. LogTypes(now, e, writer, written, lost, lines, rate)
  BY <1>1, <1>5 DEF LogCore, LogTypes
<1>8. \A v \in written : v.at + Expire >= now =>
         v.line \in lost \/ \E m \in DOMAIN e : v.line \in e[m].lines
  <2> SUFFICES ASSUME NEW v \in written, v.at + Expire >= now, v.line \notin lost
               PROVE  \E m \in DOMAIN e : v.line \in e[m].lines
    OBVIOUS
  <2>1. PICK m \in DOMAIN dir : v.line \in dir[m].lines
    BY <1>1 DEF LogCore
  <2>2. v.at \in 0 .. now
    BY <1>7 DEF LogTypes
  <2>3. m # n
    <3> SUFFICES ASSUME m = n PROVE FALSE
      OBVIOUS
    <3>1. CASE n = L!Active
      <4>1. v.at <= dir[L!Active].changed /\ dir[L!Active].changed \in 0 .. now
        BY <3>1, <1>1 DEF LogCore, LogTypes
      <4> QED BY <3>1, <4>1, <1>1, <1>2, <2>2, LogBounds
    <3>2. CASE n # L!Active
      <4>1. v.at <= n[2]
        BY <3>2, <1>1, <2>1 DEF LogCore, Backups
      <4>2. n[2] \in Nat
        BY <3>2, <1>1, BackupNames, LogBounds
      <4> QED BY <3>2, <4>1, <4>2, <1>1, <1>3, <2>2, LogBounds
    <3> QED BY <3>1, <3>2
  <2> QED BY <2>1, <2>3, <1>5
<1>9. LogCore(now, e, writer, written, lost, lines, rate)
  BY <1>1, <1>2, <1>5, <1>6, <1>7, <1>8 DEF LogCore
<1>10. BackupsCovered(now, e, writer, rate) /\ Rated(now, e, writer, rate)
  BY <1>1, <1>5, <1>6 DEF BackupsCovered, Rated
<1>11. LogFilesOK'
  BY <1>4, <1>5, <1>9, <1>10 DEF LogFilesOK, LogReady
<1>12. ClosedStays
  BY <1>4, <1>5 DEF ClosedStays
<1>13. NeverSilent'
  <2>1. writer.file_ptr_ = "file" => L!Active \in DOMAIN dir /\ n # L!Active
    BY <1>1, <1>2 DEF LogCore
  <2> QED BY <2>1, <1>4, <1>5 DEF LoggerInv, NeverSilent
<1> QED BY <1>5, <1>6, <1>11, <1>12, <1>13

LEMMA DeleteStep ==
    ASSUME LoggerInv, L!DeleteFile
    PROVE  LoggerInv'
<1>1. PICK n \in doomed :
         IF n \in DOMAIN dir THEN L!Delete(n) /\ UNCHANGED <<written, lost, lines, rate>>
                             ELSE L!LogStub(dir, writer)
  BY DEF L!DeleteFile
<1>2. /\ doomed' = {} /\ now' = now /\ up' = up /\ checking' = checking /\ nFiles' = nFiles
      /\ m_nCheckRunLogTime' = IF nFiles = {} THEN now ELSE m_nCheckRunLogTime
  BY DEF L!DeleteFile
<1>3. /\ now \in 0 .. MaxTime /\ checking \in 0 .. now /\ m_nCheckRunLogTime \in 0 .. now
      /\ ListedOK /\ L!Checking /\ doomed = {n}
  BY <1>1 DEF LoggerInv, CheckTypes, L!Checking
<1>4. /\ LogFilesOK' /\ NeverSilent' /\ ClosedStays
      /\ n \notin Backups(dir') \/ n[2] = now
      /\ \A m \in Backups(dir') : m \in Backups(dir) \/ m[2] = now
  <2>1. CASE n \in DOMAIN dir
    <3>1. L!Delete(n) /\ UNCHANGED <<now, written, lost, lines, rate>>
      BY <1>1, <1>2, <2>1
    <3>2. /\ LogFilesOK' /\ NeverSilent' /\ ClosedStays
          /\ Backups(dir') = Backups(dir) \ {n}
      BY <3>1, <2>1, Deleting, Zenon
    <3> QED BY <3>2
  <2>2. CASE n \notin DOMAIN dir
    <3>1. L!LogStub(dir, writer)
      BY <1>1, <2>2
    <3>2. /\ LogFilesOK' /\ NeverSilent' /\ ClosedStays
          /\ \A m \in Backups(dir') : m \in Backups(dir) \/ m[2] = now
      BY <3>1, <1>2, LogLine, Zenon
    <3>3. n \notin Backups(dir)
      BY <2>2 DEF Backups
    <3> QED BY <3>2, <3>3
  <2> QED BY <2>1, <2>2
<1>5. CheckTypes'
  <2>1. m_nCheckRunLogTime' \in 0 .. now
    BY <1>2, <1>3
  <2> QED BY <2>1, <1>2, <1>3 DEF LoggerInv, CheckTypes
<1>6. ListedOK'
  BY <1>2, <1>3, <1>4, ListKept DEF L!Checking
<1>7. DoomedOK'
  BY <1>2 DEF DoomedOK
<1>8. \A m \in Backups(dir') : m[2] + Expire >= checking \/ <<m, m[2]>> \in nFiles'
  <2> SUFFICES ASSUME NEW m \in Backups(dir'), ~(m[2] + Expire >= checking)
               PROVE  <<m, m[2]>> \in nFiles
    BY <1>2
  <2>1. m[2] # now
    BY <1>3, LogBounds
  <2>2. m \in Backups(dir) /\ m # n
    BY <1>4, <2>1
  <2> QED BY <2>2, <1>3 DEF LoggerInv, ExpiredListed
<1>9. ExpiredListed'
  BY <1>2, <1>8
     DEF ExpiredListed, L!Checking, L!ExpiredIsDeleted, L!GetBackupNameTime, Backups
<1> QED BY <1>4, <1>5, <1>6, <1>7, <1>9 DEF LoggerInv

LEMMA TickStep ==
    ASSUME LoggerInv, L!Tick
    PROVE  LoggerInv'
<1>1. /\ now < MaxTime /\ now' = now + 1 /\ rate' = 0
      /\ L!Checking => now = checking
      /\ up /\ writer.file_ptr_ # "NULL" => \E v \in written : now' <= v.at + MaxSilence
      /\ UNCHANGED <<up, dir, writer, written, lost, lines, nFiles, doomed, checking,
                     m_nCheckRunLogTime>>
  BY DEF L!Tick
<1>2. /\ LogCore(now, dir, writer, written, lost, lines, rate)
      /\ LogTypes(now, dir, writer, written, lost, lines, rate)
      /\ CheckTypes
  BY DEF LoggerInv, LogFilesOK, LogReady, LogCore
<1>3. now \in Nat /\ now + 1 \in 0 .. MaxTime /\ 0 .. now \subseteq 0 .. (now + 1) /\ Expire \in Nat
  BY <1>1, <1>2, LogBounds DEF CheckTypes
<1>4. LogTypes(now + 1, dir, writer, written, lost, lines, 0)
  <2>1. /\ IsDir(dir) /\ DOMAIN dir \subseteq L!Names /\ lines \in 0 .. MaxLines
        /\ \A n \in DOMAIN dir :
              dir[n] \in [lines : SUBSET (1 .. lines), size : Nat, changed : 0 .. now]
        /\ writer \in [file_ptr_ : {"file", "NULL"}, begin_time_ : 0 .. now, size_ : Nat]
        /\ written \in SUBSET [line : 1 .. lines, at : 0 .. now]
    BY <1>2 DEF LogTypes
  <2>2. \A n \in DOMAIN dir :
           dir[n] \in [lines : SUBSET (1 .. lines), size : Nat, changed : 0 .. (now + 1)]
    BY <2>1, <1>3
  <2>3. writer \in [file_ptr_ : {"file", "NULL"}, begin_time_ : 0 .. (now + 1), size_ : Nat]
    BY <2>1, <1>3
  <2>4. written \in SUBSET [line : 1 .. lines, at : 0 .. (now + 1)]
    BY <2>1, <1>3
  <2>5. lost \subseteq 1 .. lines
    BY <1>2 DEF LogTypes
  <2> QED BY <2>1, <2>2, <2>3, <2>4, <2>5, LogBounds DEF LogTypes
<1>5. \A n \in Backups(dir) : n[2] \in Nat /\ n[2] <= now
  BY <1>2, BackupNames, LogBounds DEF LogCore, LogTypes, Backups
<1>6. LogCore(now + 1, dir, writer, written, lost, lines, 0)
  <2>1. \A v \in written : v.at \in Nat
    BY <1>2 DEF LogTypes
  <2>2. \A v \in written : v.at + Expire >= now + 1 =>
           v.line \in lost \/ \E n \in DOMAIN dir : v.line \in dir[n].lines
    BY <1>2, <1>3, <2>1 DEF LogCore
  <2>3. \A n \in Backups(dir) : n[2] <= now + 1
    BY <1>3, <1>5
  <2> QED BY <1>2, <1>4, <2>2, <2>3 DEF LogCore
<1>7. \A n \in Backups(dir) : n[2] # now + 1
  BY <1>3, <1>5
<1>8. BackupsCovered(now + 1, dir, writer, 0)
  BY <1>7 DEF BackupsCovered
<1>9. Rated(now + 1, dir, writer, 0)
  <2>1. L!Active \in DOMAIN dir => dir[L!Active].changed # now + 1
    BY <1>2, <1>3 DEF LogTypes
  <2>2. writer.begin_time_ # now + 1
    BY <1>2, <1>3 DEF LogTypes
  <2> QED BY <1>7, <2>1, <2>2 DEF Rated
<1>10. LogFilesOK'
  BY <1>1, <1>6, <1>8, <1>9 DEF LogFilesOK, LogReady
<1>11. CheckTypes'
  <2>1. nFiles \subseteq L!Names \X (0 .. (now + 1))
    BY <1>2, <1>3 DEF CheckTypes
  <2> QED BY <2>1, <1>1, <1>2, <1>3 DEF CheckTypes
<1>12. NeverSilent'
  <2> SUFFICES ASSUME writer.file_ptr_ = "file"
               PROVE  now + 1 <= dir[L!Active].changed + MaxSilence
    BY <1>1 DEF NeverSilent
  <2>1. up
    BY <1>2 DEF CheckTypes
  <2>2. PICK v \in written : now + 1 <= v.at + MaxSilence
    BY <1>1, <2>1
  <2>3. L!Active \in DOMAIN dir /\ v.at <= dir[L!Active].changed
    BY <1>2 DEF LogCore
  <2>4. v.at \in Nat /\ dir[L!Active].changed \in Nat
    BY <1>2, <2>3 DEF LogTypes
  <2> QED BY <2>2, <2>3, <2>4, <1>3, LogBounds
<1>13. ListedOK'
  <2>1. L!Checking' => now' <= checking' + 1
    BY <1>1, <1>3 DEF L!Checking
  <2> QED BY <2>1, <1>1 DEF LoggerInv, ListedOK
<1>14. DoomedOK'
  <2> SUFFICES ASSUME NEW n \in doomed
               PROVE  IF n # L!Active THEN n[2] + Expire < now + 1
                      ELSE /\ writer.file_ptr_ = "NULL"
                           /\ L!Active \in DOMAIN dir => dir[L!Active].changed + Expire < now + 1
    BY <1>1 DEF DoomedOK
  <2>1. n # L!Active => n[2] \in Nat
    BY <1>2, BackupNames, LogBounds DEF CheckTypes
  <2>2. L!Active \in DOMAIN dir => dir[L!Active].changed \in Nat
    BY <1>2 DEF LogTypes
  <2> QED BY <2>1, <2>2, <1>3 DEF LoggerInv, DoomedOK
<1>15. ExpiredListed'
  BY <1>1 DEF LoggerInv, ExpiredListed, L!Checking, L!ExpiredIsDeleted, L!GetBackupNameTime, Backups
<1> QED BY <1>10, <1>11, <1>12, <1>13, <1>14, <1>15 DEF LoggerInv

LEMMA LoggerStep == LoggerInv /\ [L!Next]_L!vars => LoggerInv'
<1> SUFFICES ASSUME LoggerInv, [L!Next]_L!vars PROVE LoggerInv'
  OBVIOUS
<1>1. CASE L!Log
  BY <1>1, LogStep
<1>2. CASE L!Initialize
  BY <1>2, InitializeStep
<1>3. CASE L!Exit
  BY <1>3, ExitStep
<1>4. CASE L!CheckExpiredLog
  BY <1>4, ListingStep
<1>5. CASE L!CheckFile
  BY <1>5, CheckFileStep
<1>6. CASE L!DeleteFile
  BY <1>6, DeleteStep
<1>7. CASE L!Tick
  BY <1>7, TickStep
<1>8. CASE UNCHANGED L!vars
  <2>1. UNCHANGED <<now, dir, writer, written, lost, lines, rate>>
        /\ UNCHANGED <<up, nFiles, doomed, checking, m_nCheckRunLogTime>>
    BY <1>8 DEF L!vars
  <2>2. LogFilesOK' /\ NeverSilent'
    BY <2>1, FilesUnchanged
  <2>3. CheckTypes' /\ ListedOK' /\ DoomedOK' /\ ExpiredListed'
    BY <2>1 DEF LoggerInv, CheckTypes, ListedOK, DoomedOK, ExpiredListed, L!Checking,
                L!ExpiredIsDeleted, L!GetBackupNameTime, Backups
  <2> QED BY <2>2, <2>3 DEF LoggerInv
<1> QED BY <1>1, <1>2, <1>3, <1>4, <1>5, <1>6, <1>7, <1>8 DEF L!Next

LEMMA LogKeptByInv == LoggerInv => LogKeptAsConfigured
<1> SUFFICES ASSUME LoggerInv PROVE LogKeptAsConfigured
  OBVIOUS
<1>1. LogTypes(now, dir, writer, written, lost, lines, rate) /\ CheckTypes
  BY DEF LoggerInv, LogFilesOK, LogReady, LogCore
<1>2. L!TypeOK
  <2>1. 1 .. lines \subseteq L!Line
    BY <1>1, LogBounds DEF LogTypes, L!Line
  <2>2. \A n \in DOMAIN dir : dir[n] \in [lines : SUBSET L!Line, size : Nat, changed : 0 .. now]
    BY <1>1, <2>1 DEF LogTypes
  <2>3. written \in SUBSET [line : L!Line, at : 0 .. now]
    BY <1>1, <2>1 DEF LogTypes
  <2>4. writer \in [file_ptr_ : L!Pointers, begin_time_ : 0 .. now, size_ : Nat]
    BY <1>1 DEF LogTypes, L!Pointers
  <2>5. lost \subseteq L!Line
    BY <1>1, <2>1 DEF LogTypes
  <2> QED BY <1>1, <2>2, <2>3, <2>4, <2>5 DEF L!TypeOK, LogTypes, CheckTypes
<1>3. L!RecentLinesKept
  BY DEF LoggerInv, LogFilesOK, LogReady, LogCore, L!RecentLinesKept
<1>4. L!ExpiredIsDeleted
  BY DEF LoggerInv, ExpiredListed
<1> QED BY <1>2, <1>3, <1>4 DEF LogKeptAsConfigured

\* A line that the log accepted and that has not expired is in some file, whatever was moved,
\* copied, reopened, deleted or restarted since, unless its file was truncated after a Move and
\* a Copy of it had both failed, and an ended check leaves no backup that had expired when it
\* began (logger.cpp: Write, CheckExpiredLog): for every capacity, time of expiry and number of
\* lines, and any failures of the three, if no more is written in a second than fills one file
\* and the agent is not silent for as long as files are kept.
THEOREM LogsKept == L!Spec => []LogKeptAsConfigured
<1>1. L!Init => LoggerInv
  BY LoggerInit
<1>2. LoggerInv /\ [L!Next]_L!vars => LoggerInv'
  BY LoggerStep
<1>3. LoggerInv => LogKeptAsConfigured
  BY LogKeptByInv
<1> QED BY <1>1, <1>2, <1>3, PTL DEF L!Spec
=============================================================================
