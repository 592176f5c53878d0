---------------------------- MODULE SocketsProof ----------------------------
(***************************************************************************)
(* The epoll library, for any number of sockets, I/O threads and lives of  *)
(* a socket, any calls of its methods by any threads and handlers, and any *)
(* order of events.  The inductive invariant is EpollInv.  A socket is     *)
(* registered with no poll but that of its own thread, so that the events  *)
(* of a life that is not over are with the thread of that life; and the    *)
(* serial number a thread has read is that of the life it was read in, or  *)
(* a lower one, unless Attach began a life since.                          *)
(***************************************************************************)
EXTENDS MCSockets, Sequences, Integers, FiniteSets, SequenceTheorems,
        FiniteSetTheorems, TLAPS

\* An event is of a life of its socket, and of the present one only if that is of the thread.
BatchOK(t) ==
    \A i \in DOMAIN batch[t] :
        LET r == sock[batch[t][i].sock]
        IN  /\ batch[t][i].life <= r.life
            /\ batch[t][i].life = r.life /\ r.valid => r.io = t

\* While the numbers agree, no life was begun since Dispatch but by Attach.
DispatchedOK(t) ==
    at[t].step # "wait" =>
        LET r == sock[batch[t][1].sock]
        IN  /\ batch[t] # <<>>
            /\ at[t].serial <= r.serial
            /\ at[t].serial = r.serial => at[t].life = r.life \/ r.attached

\* A socket is registered with its own thread at most.
SocketOK(s) ==
    /\ sock[s].serial <= sock[s].life
    /\ sock[s].valid => sock[s].io \in V!Threads
    /\ \A u \in DOMAIN edge[s] : sock[s].valid /\ u = sock[s].io

EventsInv ==
    /\ \A s \in VxSock : SocketOK(s)
    /\ \A t \in V!Threads : BatchOK(t) /\ DispatchedOK(t)
    /\ V!OneThreadPerLife

\* A thread with a batch runs, and none runs before Create and after Close.
ThreadsInv ==
    /\ \A t \in V!Threads : batch[t] # <<>> => running_[t]
    /\ vx_io \in {"none", "closed"} => \A t \in V!Threads : ~running_[t]

EpollInv == V!TypeOK /\ EventsInv /\ ThreadsInv

-----------------------------------------------------------------------------
(* Types.                                                                  *)

\* The fields of a socket, as V!TypeOK types them.
SocketRecord ==
    [valid : BOOLEAN, serial : 0 .. MaxSerial, life : 0 .. MaxSerial, attached : BOOLEAN,
     connectBlocked : BOOLEAN, listening : BOOLEAN, prepared : BOOLEAN,
     io : -1 .. MAX_IO_COUNT - 1]

Kernel == {"none", "fresh", "connecting", "up", "failed", "listen"}

Place == [step : {"wait", "OUT", "IN", "ERR"}, valid : BOOLEAN, serial : 0 .. MaxSerial,
          life : 0 .. MaxSerial]

ThreadTypes ==
    /\ vx_io \in {"none", "open", "closing", "closed"} /\ nThreadCount \in 0 .. MAX_IO_COUNT
    /\ vx_enabled_ \in [V!Threads -> BOOLEAN] /\ running_ \in [V!Threads -> BOOLEAN]

SocketTypes ==
    /\ sock \in [VxSock -> SocketRecord] /\ kernel \in [VxSock -> Kernel]
    /\ calling \subseteq VxSock /\ missed \subseteq VxSock /\ told \subseteq VxSock

EventTypes ==
    /\ edge \in [VxSock -> V!Untold] /\ batch \in [V!Threads -> Seq(V!Event)]
    /\ at \in [V!Threads -> Place]

LEMMA TypeParts == /\ V!TypeOK <=> ThreadTypes /\ SocketTypes /\ EventTypes
                   /\ V!TypeOK' <=> ThreadTypes' /\ SocketTypes' /\ EventTypes'
BY DEF V!TypeOK, ThreadTypes, SocketTypes, EventTypes, SocketRecord, Kernel, Place

\* Functions from polls to events.
LEMMA UntoldFunction ==
    ASSUME NEW T \in SUBSET V!Threads, NEW f \in [T -> SUBSET V!Events]
    PROVE  f \in V!Untold
BY DEF V!Untold

LEMMA UntoldDomain ==
    ASSUME NEW f \in V!Untold
    PROVE  /\ DOMAIN f \subseteq V!Threads /\ f \in [DOMAIN f -> SUBSET V!Events]
           /\ \A u \in DOMAIN f : f[u] \subseteq V!Events
BY DEF V!Untold

\* What the record of a socket becomes.  The values are variables here: with constants the
\* provers do not see that the record is one.
LEMMA FlagRecord ==
    ASSUME NEW r \in SocketRecord, NEW b \in BOOLEAN,
           NEW q, q \in {[r EXCEPT !.connectBlocked = b], [r EXCEPT !.prepared = b],
                         [r EXCEPT !.listening = b]}
    PROVE  /\ q \in SocketRecord
           /\ q.valid = r.valid /\ q.serial = r.serial /\ q.life = r.life
           /\ q.attached = r.attached /\ q.io = r.io
BY DEF SocketRecord

\* The events are about sockets.
LEMMA EventSockets ==
    ASSUME V!TypeOK, EventsInv, NEW t \in V!Threads
    PROVE  /\ \A i \in DOMAIN batch[t] :
                 /\ batch[t][i] \in V!Event /\ batch[t][i].sock \in VxSock
                 /\ batch[t][i].life \in 0 .. MaxSerial
           /\ at[t].step # "wait" => 1 \in DOMAIN batch[t] /\ batch[t][1].sock \in VxSock
<1>1. \A i \in DOMAIN batch[t] : batch[t][i] \in V!Event
  BY DEF V!TypeOK
<1>2. at[t].step # "wait" => 1 \in DOMAIN batch[t]
  BY DEF V!TypeOK, EventsInv, DispatchedOK
<1> QED
  BY <1>1, <1>2 DEF V!Event

-----------------------------------------------------------------------------
(* The steps and the events.                                               *)

\* The fields of a socket that events depend on.
Same(s) ==
    /\ sock'[s].valid = sock[s].valid /\ sock'[s].serial = sock[s].serial
    /\ sock'[s].life = sock[s].life /\ sock'[s].io = sock[s].io
    /\ sock'[s].attached = sock[s].attached

\* The life of a socket goes on or ends, or a new one begins.
GoesOn(s) ==
    \/ /\ sock'[s].life = sock[s].life /\ sock'[s].serial = sock[s].serial
       /\ sock'[s].attached = sock[s].attached
       /\ sock'[s].valid => sock[s].valid /\ sock'[s].io = sock[s].io
    \/ /\ sock'[s].life > sock[s].life
       /\ \/ sock'[s].serial > sock[s].serial
          \/ sock'[s].serial = sock[s].serial /\ sock'[s].attached

\* A step that touches no event that was taken.
LEMMA SocketsStep ==
    ASSUME V!TypeOK, EventsInv, SocketTypes', \A s \in VxSock : SocketOK(s)' /\ GoesOn(s),
           UNCHANGED <<batch, at>>
    PROVE  EventsInv'
<1>1. sock \in [VxSock -> SocketRecord] /\ sock' \in [VxSock -> SocketRecord]
      /\ at \in [V!Threads -> Place]
  BY TypeParts DEF SocketTypes, EventTypes
<1>2. \A s \in VxSock :
          /\ sock[s].life \in Nat /\ sock'[s].life \in Nat
          /\ sock[s].serial \in Nat /\ sock'[s].serial \in Nat
  BY <1>1 DEF SocketRecord
<1>3. ASSUME NEW t \in V!Threads
      PROVE  BatchOK(t)'
  <2> SUFFICES ASSUME NEW i \in DOMAIN batch[t]
               PROVE  /\ batch[t][i].life <= sock'[batch[t][i].sock].life
                      /\ batch[t][i].life = sock'[batch[t][i].sock].life
                            /\ sock'[batch[t][i].sock].valid => sock'[batch[t][i].sock].io = t
    BY DEF BatchOK
  <2>1. PICK s \in VxSock : s = batch[t][i].sock
    BY EventSockets
  <2>2. PICK l \in Nat : l = batch[t][i].life
    BY EventSockets
  <2>3. l <= sock[s].life /\ (l = sock[s].life /\ sock[s].valid => sock[s].io = t)
    BY <2>1, <2>2 DEF EventsInv, BatchOK
  <2>4. l <= sock'[s].life /\ (l = sock'[s].life /\ sock'[s].valid => sock'[s].io = t)
    BY <1>2, <2>3 DEF GoesOn
  <2> QED
    BY <2>1, <2>2, <2>4
<1>4. ASSUME NEW t \in V!Threads
      PROVE  DispatchedOK(t)'
  <2> SUFFICES ASSUME at[t].step # "wait"
               PROVE  /\ batch[t] # <<>>
                      /\ at[t].serial <= sock'[batch[t][1].sock].serial
                      /\ at[t].serial = sock'[batch[t][1].sock].serial =>
                            \/ at[t].life = sock'[batch[t][1].sock].life
                            \/ sock'[batch[t][1].sock].attached
    BY DEF DispatchedOK
  <2>1. PICK s \in VxSock : s = batch[t][1].sock
    BY EventSockets
  <2>2. PICK n \in Nat : n = at[t].serial
    BY <1>1 DEF Place
  <2>3. /\ batch[t] # <<>> /\ n <= sock[s].serial
        /\ n = sock[s].serial => at[t].life = sock[s].life \/ sock[s].attached
    BY <2>1, <2>2 DEF EventsInv, DispatchedOK
  <2>4. /\ n <= sock'[s].serial
        /\ n = sock'[s].serial => at[t].life = sock'[s].life \/ sock'[s].attached
    BY <1>2, <2>3 DEF GoesOn
  <2> QED
    BY <2>1, <2>2, <2>3, <2>4
<1>5. V!OneThreadPerLife'
  BY DEF EventsInv, V!OneThreadPerLife
<1> QED
  BY <1>3, <1>4, <1>5 DEF EventsInv

\* Thread t goes on with its event, is ready with it, or only changes its place.
Forward(t) ==
    /\ \A u \in V!Threads \ {t} : batch'[u] = batch[u] /\ at'[u] = at[u]
    /\ at'[t].step # "wait" =>
          batch'[t] = batch[t] /\ at'[t].serial = at[t].serial /\ at'[t].life = at[t].life
    /\ \A i \in DOMAIN batch'[t] : \E j \in DOMAIN batch[t] : batch'[t][i] = batch[t][j]

LEMMA ForwardKeeps ==
    ASSUME V!TypeOK, EventsInv, NEW t \in V!Threads, at[t].step # "wait", Forward(t),
           \A s \in VxSock : Same(s), edge' = edge
    PROVE  EventsInv'
<1>1. \A s \in VxSock : SocketOK(s)'
  BY DEF EventsInv, SocketOK, Same
<1>2. ASSUME NEW u \in V!Threads, NEW i \in DOMAIN batch'[u]
      PROVE  \E j \in DOMAIN batch[u] : batch'[u][i] = batch[u][j]
  BY <1>2 DEF Forward
<1>3. ASSUME NEW u \in V!Threads
      PROVE  BatchOK(u)'
  <2> SUFFICES ASSUME NEW i \in DOMAIN batch'[u]
               PROVE  /\ batch'[u][i].life <= sock'[batch'[u][i].sock].life
                      /\ batch'[u][i].life = sock'[batch'[u][i].sock].life
                            /\ sock'[batch'[u][i].sock].valid => sock'[batch'[u][i].sock].io = u
    BY DEF BatchOK
  <2>1. PICK j \in DOMAIN batch[u] : batch'[u][i] = batch[u][j]
    BY <1>2
  <2>2. batch[u][j].sock \in VxSock
    BY EventSockets
  <2> QED
    BY <2>1, <2>2 DEF EventsInv, BatchOK, Same
<1>4. ASSUME NEW u \in V!Threads
      PROVE  DispatchedOK(u)'
  <2> SUFFICES ASSUME at'[u].step # "wait"
               PROVE  /\ batch'[u] # <<>>
                      /\ at'[u].serial <= sock'[batch'[u][1].sock].serial
                      /\ at'[u].serial = sock'[batch'[u][1].sock].serial =>
                            \/ at'[u].life = sock'[batch'[u][1].sock].life
                            \/ sock'[batch'[u][1].sock].attached
    BY DEF DispatchedOK
  <2>1. /\ at[u].step # "wait" /\ batch'[u] = batch[u]
        /\ at'[u].serial = at[u].serial /\ at'[u].life = at[u].life
    BY DEF Forward
  <2>2. batch[u][1].sock \in VxSock
    BY <2>1, EventSockets
  <2> QED
    BY <2>1, <2>2 DEF EventsInv, DispatchedOK, Same
<1>5. V!OneThreadPerLife'
  <2> SUFFICES ASSUME NEW u \in V!Threads, NEW v \in V!Threads,
                      NEW i \in DOMAIN batch'[u], NEW j \in DOMAIN batch'[v],
                      batch'[u][i].sock = batch'[v][j].sock, batch'[u][i].life = batch'[v][j].life
               PROVE  u = v
    BY DEF V!OneThreadPerLife
  <2>1. PICK k \in DOMAIN batch[u] : batch'[u][i] = batch[u][k]
    BY <1>2
  <2>2. PICK l \in DOMAIN batch[v] : batch'[v][j] = batch[v][l]
    BY <1>2
  <2> QED
    BY <2>1, <2>2 DEF EventsInv, V!OneThreadPerLife
<1> QED
  BY <1>1, <1>3, <1>4, <1>5 DEF EventsInv

\* The module AsyncVxIo means by finite sets what the library does.
LEMMA SameCardinality == \A X : V!Cardinality(X) = Cardinality(X)
BY Zenon DEF V!Cardinality, Cardinality

LEMMA SocketsFinite == V!BoundsOK => IsFiniteSet(VxSock)
BY Zenon DEF V!BoundsOK, V!IsFiniteSet, IsFiniteSet

\* What WaitEvent takes is of the present lives of the thread's own sockets.
LEMMA WaitEventTakes ==
    ASSUME V!BoundsOK, V!TypeOK, EventsInv, NEW t \in V!Threads, V!WaitEvent(t)
    PROVE  \E q \in Seq(V!Event) :
               /\ batch' = [batch EXCEPT ![t] = q]
               /\ \A i \in DOMAIN q : LET r == sock[q[i].sock]
                                      IN  r.valid /\ r.io = t /\ q[i].life = r.life
<1>1. PICK p \in V!SetToSeqs(V!Ready(t)) :
          batch' = [batch EXCEPT ![t] = [i \in DOMAIN p |-> V!Taken(p[i], t)]]
  BY DEF V!WaitEvent
<1>2. V!Cardinality(V!Ready(t)) \in Nat
  <2>1. V!Ready(t) \in SUBSET VxSock /\ IsFiniteSet(VxSock)
    BY SocketsFinite DEF V!Ready
  <2>2. IsFiniteSet(V!Ready(t))
    BY <2>1, FS_Subset, Zenon
  <2> QED
    BY <2>2, FS_CardinalityType, SameCardinality
<1>3. PICK n \in Nat : p \in [1 .. n -> V!Ready(t)]
  BY <1>1, <1>2 DEF V!SetToSeqs
<1>4. PICK q : q = [i \in DOMAIN p |-> V!Taken(p[i], t)]
  OBVIOUS
<1>5. ASSUME NEW s \in V!Ready(t), NEW e, e = V!Taken(s, t)
      PROVE  e \in V!Event /\ e.sock = s /\ e.life = sock[s].life
  <2>1. s \in VxSock /\ t \in DOMAIN edge[s] /\ sock[s] \in SocketRecord /\ edge[s] \in V!Untold
    BY TypeParts DEF V!Ready, SocketTypes, EventTypes
  <2>2. edge[s][t] \in SUBSET V!Events
    BY <2>1, UntoldDomain
  <2>3. V!Ended(s) \in BOOLEAN
    BY DEF V!Ended
  <2>4. sock[s].life \in 0 .. MaxSerial
    BY <2>1 DEF SocketRecord
  <2>5. e = [sock |-> s, events |-> edge[s][t], life |-> sock[s].life, ended |-> V!Ended(s)]
    BY <1>5 DEF V!Taken
  <2>6. PICK v, l, d : v = edge[s][t] /\ l = sock[s].life /\ d = V!Ended(s)
    OBVIOUS
  <2>7. e = [sock |-> s, events |-> v, life |-> l, ended |-> d]
    BY <2>5, <2>6
  <2>8. v \in SUBSET V!Events /\ l \in 0 .. MaxSerial /\ d \in BOOLEAN
    BY <2>2, <2>3, <2>4, <2>6
  <2> QED
    BY <2>1, <2>6, <2>7, <2>8 DEF V!Event
<1>6. DOMAIN q = 1 .. n /\ \A i \in 1 .. n : q[i] = V!Taken(p[i], t) /\ p[i] \in V!Ready(t)
  BY <1>3, <1>4
<1>7. \A i \in 1 .. n : q[i] \in V!Event /\ q[i].sock \in V!Ready(t)
                        /\ q[i].life = sock[q[i].sock].life
  BY <1>5, <1>6
<1>8. q \in [1 .. n -> V!Event]
  BY <1>4, <1>6, <1>7
<1>9. q \in Seq(V!Event)
  BY <1>8
<1>10. \A s \in V!Ready(t) : sock[s].valid /\ sock[s].io = t
  BY DEF V!Ready, EventsInv, SocketOK
<1>11. batch' = [batch EXCEPT ![t] = q]
  BY <1>1, <1>4
<1>12. \A i \in DOMAIN q : LET r == sock[q[i].sock]
                          IN  r.valid /\ r.io = t /\ q[i].life = r.life
  BY <1>6, <1>7, <1>10
<1> QED
  BY <1>9, <1>11, <1>12

LEMMA WaitEventKeeps ==
    ASSUME V!BoundsOK, V!TypeOK, EventsInv, NEW t \in V!Threads, V!WaitEvent(t)
    PROVE  EventsInv' /\ EventTypes'
<1>1. /\ at[t].step = "wait" /\ UNCHANGED <<sock, at>> /\ edge' = V!Untaken(t)
  BY DEF V!WaitEvent
<1>2. PICK q \in Seq(V!Event) :
          /\ batch' = [batch EXCEPT ![t] = q]
          /\ \A i \in DOMAIN q : LET r == sock[q[i].sock]
                                 IN  r.valid /\ r.io = t /\ q[i].life = r.life
  BY WaitEventTakes
<1>3. /\ batch \in [V!Threads -> Seq(V!Event)] /\ sock \in [VxSock -> SocketRecord]
      /\ edge \in [VxSock -> V!Untold] /\ at \in [V!Threads -> Place]
  BY TypeParts DEF SocketTypes, EventTypes
<1>4. /\ batch' \in [V!Threads -> Seq(V!Event)] /\ batch'[t] = q
      /\ \A u \in V!Threads \ {t} : batch'[u] = batch[u]
  BY <1>2, <1>3
<1>5. ASSUME NEW s \in VxSock
      PROVE  edge'[s] \in V!Untold /\ DOMAIN edge'[s] = DOMAIN edge[s]
  <2>1. edge'[s] = [u \in DOMAIN edge[s] |-> IF u = t THEN {} ELSE edge[s][u]]
    BY <1>1 DEF V!Untaken
  <2>2. DOMAIN edge[s] \in SUBSET V!Threads /\ \A u \in DOMAIN edge[s] : edge[s][u] \in SUBSET V!Events
    BY <1>3, UntoldDomain
  <2>3. edge'[s] \in [DOMAIN edge[s] -> SUBSET V!Events]
    BY <2>1, <2>2
  <2> QED
    BY <2>2, <2>3, UntoldFunction
<1>6. EventTypes'
  <2>1. edge' \in [VxSock -> V!Untold]
    BY <1>1, <1>5 DEF V!Untaken
  <2> QED
    BY <1>1, <1>3, <1>4, <2>1 DEF EventTypes
<1>7. \A s \in VxSock : SocketOK(s)'
  BY <1>1, <1>5 DEF EventsInv, SocketOK
<1>8. ASSUME NEW i \in DOMAIN q
      PROVE  /\ q[i].sock \in VxSock /\ q[i].life = sock[q[i].sock].life
             /\ q[i].life \in Nat /\ sock[q[i].sock].valid /\ sock[q[i].sock].io = t
  <2>1. q[i] \in V!Event
    OBVIOUS
  <2> QED
    BY <1>2, <2>1 DEF V!Event
<1>9. ASSUME NEW u \in V!Threads
      PROVE  BatchOK(u)'
  <2>1. CASE u = t
    BY <1>1, <1>4, <1>8, <2>1 DEF BatchOK
  <2>2. CASE u # t
    BY <1>1, <1>4, <2>2 DEF EventsInv, BatchOK
  <2> QED
    BY <2>1, <2>2
<1>10. \A u \in V!Threads : DispatchedOK(u)'
  BY <1>1, <1>4 DEF EventsInv, DispatchedOK
<1>11. V!OneThreadPerLife'
  <2>1. ASSUME NEW u \in V!Threads \ {t}, NEW i \in DOMAIN q, NEW j \in DOMAIN batch[u],
               q[i].sock = batch[u][j].sock, q[i].life = batch[u][j].life
        PROVE  FALSE
    BY <1>8, <2>1 DEF EventsInv, BatchOK
  <2> SUFFICES ASSUME NEW u \in V!Threads, NEW v \in V!Threads,
                      NEW i \in DOMAIN batch'[u], NEW j \in DOMAIN batch'[v],
                      batch'[u][i].sock = batch'[v][j].sock, batch'[u][i].life = batch'[v][j].life
               PROVE  u = v
    BY DEF V!OneThreadPerLife
  <2>2. CASE u = t /\ v # t
    <3>1. v \in V!Threads \ {t} /\ i \in DOMAIN q /\ batch'[u] = q /\ batch'[v] = batch[v]
      BY <1>4, <2>2
    <3> QED
      BY <2>1, <3>1
  <2>3. CASE u # t /\ v = t
    <3>1. u \in V!Threads \ {t} /\ j \in DOMAIN q /\ batch'[v] = q /\ batch'[u] = batch[u]
      BY <1>4, <2>3
    <3> QED
      BY <2>1, <3>1
  <2>4. CASE u # t /\ v # t
    <3>1. batch'[u] = batch[u] /\ batch'[v] = batch[v]
      BY <1>4, <2>4
    <3> QED
      BY <3>1 DEF EventsInv, V!OneThreadPerLife
  <2> QED
    BY <2>2, <2>3, <2>4
<1> QED
  BY <1>6, <1>7, <1>9, <1>10, <1>11 DEF EventsInv

\* Dispatch notes the number and the life of the socket.
LEMMA DispatchKeeps ==
    ASSUME V!TypeOK, EventsInv, NEW t \in V!Threads, V!Dispatch(t)
    PROVE  EventsInv' /\ EventTypes'
<1>1. /\ at[t].step = "wait" /\ batch[t] # <<>> /\ UNCHANGED <<sock, batch, edge>>
      /\ at' = [at EXCEPT ![t] = [step |-> IF sock[Head(batch[t]).sock].prepared THEN "OUT" ELSE "ERR",
                                  valid |-> FALSE, serial |-> sock[Head(batch[t]).sock].serial,
                                  life |-> sock[Head(batch[t]).sock].life]]
  BY DEF V!Dispatch
<1>2. /\ sock \in [VxSock -> SocketRecord] /\ EventTypes
  BY TypeParts DEF SocketTypes
<1>3. batch[t] \in Seq(V!Event) /\ Head(batch[t]) = batch[t][1] /\ 1 \in DOMAIN batch[t]
  BY <1>1, <1>2 DEF EventTypes
<1>4. PICK s \in VxSock : s = batch[t][1].sock
  BY <1>3, EventSockets
<1>5. PICK b \in {"OUT", "ERR"}, n \in 0 .. MaxSerial, l \in 0 .. MaxSerial :
          /\ n = sock[s].serial /\ l = sock[s].life
          /\ at' = [at EXCEPT ![t] = [step |-> b, valid |-> FALSE, serial |-> n, life |-> l]]
  <2>1. sock[s].serial \in 0 .. MaxSerial /\ sock[s].life \in 0 .. MaxSerial
    BY <1>2 DEF SocketRecord
  <2>2. PICK b \in {"OUT", "ERR"} : b = IF sock[s].prepared THEN "OUT" ELSE "ERR"
    OBVIOUS
  <2> QED
    BY <1>1, <1>3, <1>4, <2>1, <2>2
<1>6. /\ at' \in [V!Threads -> Place] /\ at'[t].serial = n /\ at'[t].life = l
      /\ \A u \in V!Threads \ {t} : at'[u] = at[u]
  <2>1. [step |-> b, valid |-> FALSE, serial |-> n, life |-> l] \in Place
    BY DEF Place
  <2> QED
    BY <1>2, <1>5, <2>1 DEF EventTypes
<1>7. EventTypes'
  BY <1>1, <1>2, <1>6 DEF EventTypes
<1>8. \A u \in V!Threads : BatchOK(u)'
  BY <1>1 DEF EventsInv, BatchOK
<1>9. ASSUME NEW u \in V!Threads
      PROVE  DispatchedOK(u)'
  <2>1. CASE u = t
    <3>1. n \in Nat
      BY <1>5
    <3> QED
      BY <1>1, <1>4, <1>5, <1>6, <2>1, <3>1 DEF DispatchedOK
  <2>2. CASE u # t
    BY <1>1, <1>6, <2>2 DEF EventsInv, DispatchedOK
  <2> QED
    BY <2>1, <2>2
<1>10. \A r \in VxSock : SocketOK(r)'
  BY <1>1 DEF EventsInv, SocketOK
<1>11. V!OneThreadPerLife'
  BY <1>1 DEF EventsInv, V!OneThreadPerLife
<1> QED
  BY <1>7, <1>8, <1>9, <1>10, <1>11 DEF EventsInv

\* Advance drops the event after its last part.
LEMMA AdvanceForward ==
    ASSUME V!BoundsOK, V!TypeOK, EventsInv, NEW t \in V!Threads, at[t].step # "wait",
           V!Advance(t)
    PROVE  /\ batch' \in [V!Threads -> Seq(V!Event)] /\ at' \in [V!Threads -> Place]
           /\ Forward(t)
<1>1. /\ batch \in [V!Threads -> Seq(V!Event)] /\ at \in [V!Threads -> Place] /\ batch[t] # <<>>
  BY TypeParts DEF EventTypes, EventsInv, DispatchedOK
<1>2. CASE at[t].step = "ERR"
  <2>1. PICK w \in Place, q \in Seq(V!Event) :
            /\ w.step = "wait" /\ q = Tail(batch[t])
            /\ at' = [at EXCEPT ![t] = w] /\ batch' = [batch EXCEPT ![t] = q]
    <3>1. V!Waiting \in Place /\ V!Waiting.step = "wait"
      BY DEF V!Waiting, Place, V!BoundsOK
    <3>2. Tail(batch[t]) \in Seq(V!Event)
      BY <1>1
    <3>3. at' = [at EXCEPT ![t] = V!Waiting] /\ batch' = [batch EXCEPT ![t] = Tail(batch[t])]
      BY <1>2 DEF V!Advance
    <3> QED
      BY <3>1, <3>2, <3>3
  <2>2. \A i \in DOMAIN q : \E j \in DOMAIN batch[t] : q[i] = batch[t][j]
    <3>1. ASSUME NEW i \in DOMAIN q
          PROVE  i + 1 \in DOMAIN batch[t] /\ q[i] = batch[t][i + 1]
      BY <1>1, <2>1
    <3> QED
      BY <3>1
  <2>3. /\ batch' \in [V!Threads -> Seq(V!Event)] /\ at' \in [V!Threads -> Place]
        /\ at'[t].step = "wait" /\ batch'[t] = q
        /\ \A u \in V!Threads \ {t} : batch'[u] = batch[u] /\ at'[u] = at[u]
    BY <1>1, <2>1
  <2> QED
    BY <2>2, <2>3 DEF Forward
<1>3. CASE at[t].step # "ERR"
  <2>1. PICK b \in {"IN", "ERR"} : at' = [at EXCEPT ![t] = [at[t] EXCEPT !.step = b, !.valid = FALSE]]
    BY <1>1, <1>3 DEF V!Advance, Place
  <2>2. batch' = batch
    BY <1>3 DEF V!Advance
  <2>3. PICK w \in Place : /\ w.serial = at[t].serial /\ w.life = at[t].life
                           /\ at' = [at EXCEPT ![t] = w]
    <3>1. ASSUME NEW r \in Place, NEW c \in BOOLEAN, NEW w, w = [r EXCEPT !.step = b, !.valid = c]
          PROVE  w \in Place /\ w.serial = r.serial /\ w.life = r.life
      BY <3>1 DEF Place
    <3> QED
      BY <1>1, <2>1, <3>1
  <2>4. at' \in [V!Threads -> Place] /\ at'[t] = w /\ \A u \in V!Threads \ {t} : at'[u] = at[u]
    BY <1>1, <2>3
  <2> QED
    BY <1>1, <2>2, <2>3, <2>4 DEF Forward
<1> QED
  BY <1>2, <1>3

\* The check of an event, and what is done for it.
LEMMA HandlersKeep ==
    ASSUME V!BoundsOK, V!TypeOK, EventsInv, NEW t \in V!Threads, V!Check(t) \/ V!Handle(t)
    PROVE  EventsInv' /\ SocketTypes' /\ EventTypes'
<1>1. SocketTypes /\ EventTypes /\ at \in [V!Threads -> Place]
  BY TypeParts DEF EventTypes
<1>2. CASE V!Check(t)
  <2>1. at[t].step # "wait" /\ UNCHANGED <<sock, calling, kernel, edge, missed, told>>
    BY <1>2 DEF V!Check, V!history
  <2>2. /\ batch' \in [V!Threads -> Seq(V!Event)] /\ at' \in [V!Threads -> Place]
        /\ Forward(t)
    <3>1. CASE at' = [at EXCEPT ![t].valid = TRUE] /\ UNCHANGED batch
      <4>1. ASSUME NEW r \in Place, NEW c \in BOOLEAN, NEW w, w = [r EXCEPT !.valid = c]
            PROVE  w \in Place /\ w.serial = r.serial /\ w.life = r.life
        BY <4>1 DEF Place
      <4>2. PICK w \in Place : /\ w.serial = at[t].serial /\ w.life = at[t].life
                               /\ at' = [at EXCEPT ![t] = w]
        BY <1>1, <3>1, <4>1
      <4>3. at' \in [V!Threads -> Place] /\ at'[t] = w /\ \A u \in V!Threads \ {t} : at'[u] = at[u]
        BY <1>1, <4>2
      <4> QED
        BY <1>1, <3>1, <4>2, <4>3 DEF EventTypes, Forward
    <3>2. CASE V!Advance(t)
      BY <2>1, <3>2, AdvanceForward
    <3> QED
      BY <1>2, <3>1, <3>2 DEF V!Check
  <2>3. EventsInv'
    BY <2>1, <2>2, ForwardKeeps DEF Same
  <2> QED
    BY <1>1, <2>1, <2>2, <2>3 DEF SocketTypes, EventTypes
<1>3. CASE V!Handle(t)
  <2>1. at[t].step # "wait" /\ V!Advance(t) /\ UNCHANGED <<calling, kernel, edge>>
    BY <1>3 DEF V!Handle
  <2>2. PICK s \in VxSock : s = Head(batch[t]).sock
    <3>1. batch[t] # <<>> /\ batch[t] \in Seq(V!Event) /\ batch[t][1].sock \in VxSock
      BY <1>1, <2>1, EventSockets DEF EventTypes
    <3> QED
      BY <3>1
  <2>3. /\ sock' = sock \/ sock' = [sock EXCEPT ![s].connectBlocked = FALSE]
        /\ missed' = missed \/ missed' = missed \cup {s}
        /\ told' = told \/ told' = told \cup {s}
    BY <1>3, <2>2, Zenon DEF V!Handle
  <2>4. SocketTypes' /\ \A r \in VxSock : Same(r)
    <3>1. PICK q \in SocketRecord :
              /\ sock' = [sock EXCEPT ![s] = q]
              /\ q.valid = sock[s].valid /\ q.serial = sock[s].serial /\ q.life = sock[s].life
              /\ q.attached = sock[s].attached /\ q.io = sock[s].io
      <4>1. PICK r \in SocketRecord : r = sock[s]
        BY <1>1 DEF SocketTypes
      <4>2. CASE sock' = sock
        BY <1>1, <4>1, <4>2 DEF SocketTypes
      <4>3. ASSUME sock' = [sock EXCEPT ![s].connectBlocked = FALSE]
            PROVE  \E q : q = [r EXCEPT !.connectBlocked = FALSE] /\ sock' = [sock EXCEPT ![s] = q]
        BY <4>1, <4>3
      <4> QED
        BY <2>3, <4>1, <4>2, <4>3, FlagRecord
    <3>2. sock' \in [VxSock -> SocketRecord] /\ \A r \in VxSock : Same(r)
      BY <1>1, <3>1 DEF SocketTypes, Same
    <3>3. missed' \subseteq VxSock /\ told' \subseteq VxSock
      BY <1>1, <2>3 DEF SocketTypes
    <3> QED
      BY <1>1, <2>1, <3>2, <3>3 DEF SocketTypes
  <2>5. /\ batch' \in [V!Threads -> Seq(V!Event)] /\ at' \in [V!Threads -> Place]
        /\ Forward(t)
    BY <2>1, AdvanceForward
  <2>6. EventsInv'
    BY <2>1, <2>4, <2>5, ForwardKeeps
  <2> QED
    BY <1>1, <2>1, <2>4, <2>5, <2>6 DEF EventTypes
<1> QED
  BY <1>2, <1>3

\* What a call, the kernel or the other end does to one socket and its polls.
LEMMA OneSocket ==
    ASSUME V!TypeOK, EventsInv, NEW s \in VxSock, NEW q \in SocketRecord, NEW f \in V!Untold,
           sock' = [sock EXCEPT ![s] = q], edge' = [edge EXCEPT ![s] = f],
           q.serial <= q.life, q.valid => q.io \in V!Threads,
           \A u \in DOMAIN f : q.valid /\ u = q.io,
           \/ /\ q.life = sock[s].life /\ q.serial = sock[s].serial
              /\ q.attached = sock[s].attached
              /\ q.valid => sock[s].valid /\ q.io = sock[s].io
           \/ /\ q.life > sock[s].life
              /\ q.serial > sock[s].serial \/ (q.serial = sock[s].serial /\ q.attached),
           \E k \in Kernel : kernel' = [kernel EXCEPT ![s] = k],
           calling' \subseteq calling \cup {s}, missed' \subseteq missed, told' \subseteq told,
           UNCHANGED <<batch, at>>
    PROVE  EventsInv' /\ SocketTypes' /\ EventTypes'
<1>1. /\ sock \in [VxSock -> SocketRecord] /\ kernel \in [VxSock -> Kernel]
      /\ calling \subseteq VxSock /\ missed \subseteq VxSock /\ told \subseteq VxSock
      /\ EventTypes /\ edge \in [VxSock -> V!Untold]
  BY TypeParts DEF SocketTypes, EventTypes
<1>2. /\ sock' \in [VxSock -> SocketRecord] /\ sock'[s] = q
      /\ \A r \in VxSock \ {s} : sock'[r] = sock[r]
  BY <1>1
<1>3. /\ edge' \in [VxSock -> V!Untold] /\ edge'[s] = f
      /\ \A r \in VxSock \ {s} : edge'[r] = edge[r]
  BY <1>1
<1>4. SocketTypes' /\ EventTypes'
  <2>1. kernel' \in [VxSock -> Kernel]
    BY <1>1
  <2>2. calling' \subseteq VxSock /\ missed' \subseteq VxSock /\ told' \subseteq VxSock
    BY <1>1
  <2> QED
    BY <1>1, <1>2, <1>3, <2>1, <2>2 DEF SocketTypes, EventTypes
<1>5. ASSUME NEW r \in VxSock
      PROVE  SocketOK(r)' /\ GoesOn(r)
  <2>1. CASE r = s
    BY <1>2, <1>3, <2>1 DEF SocketOK, GoesOn
  <2>2. CASE r # s
    BY <1>2, <1>3, <2>2 DEF EventsInv, SocketOK, GoesOn
  <2> QED
    BY <2>1, <2>2
<1> QED
  BY <1>4, <1>5, SocketsStep

\* The calls, a call of Connect that ends, and what is outside.
SocketStep(s) ==
    V!SocketCall(s) \/ V!ConnectBlocks(s) \/ V!ConnectEnds(s) \/ V!Arrives(s)

LEMMA SocketStepKeeps ==
    ASSUME V!BoundsOK, V!TypeOK, EventsInv, NEW s \in VxSock, SocketStep(s)
    PROVE  EventsInv' /\ SocketTypes' /\ EventTypes'
<1>1. /\ sock \in [VxSock -> SocketRecord] /\ kernel \in [VxSock -> Kernel]
      /\ edge \in [VxSock -> V!Untold] /\ calling \subseteq VxSock
      /\ nThreadCount \in 0 .. MAX_IO_COUNT
  BY TypeParts DEF SocketTypes, EventTypes, ThreadTypes
<1>2. PICK r \in SocketRecord : r = sock[s]
  BY <1>1
<1>3. PICK g \in V!Untold : g = edge[s]
  BY <1>1
<1>4. /\ r.serial <= r.life /\ r.serial \in 0 .. MaxSerial /\ r.life \in 0 .. MaxSerial
      /\ r.valid \in BOOLEAN /\ r.valid => r.io \in V!Threads
      /\ \A u \in DOMAIN g : r.valid /\ u = r.io
  BY <1>2, <1>3 DEF EventsInv, SocketOK, SocketRecord
<1>5. /\ DOMAIN g \subseteq V!Threads /\ g \in [DOMAIN g -> SUBSET V!Events]
      /\ \A u \in DOMAIN g : g[u] \subseteq V!Events
  BY UntoldDomain
<1>6. \E k \in Kernel : kernel = [kernel EXCEPT ![s] = k]
  BY <1>1
<1>7. FALSE \in BOOLEAN /\ TRUE \in BOOLEAN /\ -1 \in -1 .. MAX_IO_COUNT - 1
      /\ V!Threads \subseteq -1 .. MAX_IO_COUNT - 1 /\ 0 .. nThreadCount - 1 \subseteq V!Threads
  BY <1>1 DEF V!BoundsOK, V!Threads
\* A new life, registered with one thread.
<1>8. ASSUME NEW q \in SocketRecord, NEW t \in V!Threads, q.valid, q.io = t,
             q.life = r.life + 1,
             q.serial = r.serial + 1 \/ (q.serial = r.serial /\ q.attached),
             sock' = [sock EXCEPT ![s] = q], V!AddChannel(s, t),
             \E k \in Kernel : kernel' = [kernel EXCEPT ![s] = k],
             UNCHANGED <<V!threadVars, calling, V!eventVars, V!history>>,
             sock[s].valid = FALSE
      PROVE  EventsInv' /\ SocketTypes' /\ EventTypes'
  <2>1. PICK f : f = [u \in DOMAIN g \cup {t} |-> IF u = t THEN {"OUT"} ELSE g[u]]
    OBVIOUS
  <2>2. edge' = [edge EXCEPT ![s] = f]
    BY <1>1, <1>3, <1>8, <2>1 DEF V!AddChannel
  <2>3. DOMAIN g = {}
    BY <1>2, <1>4, <1>8
  <2>4. f \in [{t} -> SUBSET V!Events]
    BY <2>1, <2>3 DEF V!Events
  <2>5. f \in V!Untold /\ \A u \in DOMAIN f : u = t
    BY <2>4, UntoldFunction
  <2>6. q.serial <= q.life /\ q.life > sock[s].life
        /\ (q.serial > sock[s].serial \/ (q.serial = sock[s].serial /\ q.attached))
    BY <1>2, <1>4, <1>8
  <2>7. UNCHANGED <<batch, at, calling, missed, told>>
    BY <1>8 DEF V!eventVars, V!history
  <2> QED
    BY <1>8, <2>2, <2>5, <2>6, <2>7, OneSocket
<1>12. CASE V!Create(s)
  <2>1. PICK t \in V!Threads :
            /\ t \in -1 .. MAX_IO_COUNT - 1 /\ V!AddChannel(s, t)
            /\ sock' = [sock EXCEPT ![s] =
                  [r EXCEPT !.valid = TRUE, !.serial = r.serial + 1, !.life = r.life + 1,
                            !.attached = FALSE, !.connectBlocked = FALSE, !.listening = FALSE,
                            !.io = t]]
    BY <1>2, <1>7, <1>12 DEF V!Create
  <2>2. /\ sock[s].valid = FALSE /\ r.life < MaxSerial
        /\ UNCHANGED <<V!threadVars, calling, V!eventVars, V!history>>
        /\ \E k \in Kernel : kernel' = [kernel EXCEPT ![s] = k]
    BY <1>2, <1>4, <1>12 DEF V!Create, Kernel
  <2>3. r.serial + 1 \in 0 .. MaxSerial /\ r.life + 1 \in 0 .. MaxSerial
    BY <1>4, <2>2 DEF V!BoundsOK
  <2>4. PICK q \in SocketRecord :
            /\ q.valid = TRUE /\ q.serial = r.serial + 1 /\ q.life = r.life + 1 /\ q.io = t
            /\ sock' = [sock EXCEPT ![s] = q]
    <3>1. PICK a \in BOOLEAN, b \in BOOLEAN, m \in 0 .. MaxSerial, n \in 0 .. MaxSerial,
               c \in -1 .. MAX_IO_COUNT - 1 :
              a = TRUE /\ b = FALSE /\ m = r.serial + 1 /\ n = r.life + 1 /\ c = t
      BY <2>1, <2>3
    <3>2. PICK q : /\ q = [r EXCEPT !.valid = a, !.serial = m, !.life = n, !.attached = b,
                                    !.connectBlocked = b, !.listening = b, !.io = c]
                   /\ sock' = [sock EXCEPT ![s] = q]
      BY <2>1, <3>1
    <3>3. /\ q \in SocketRecord
          /\ q.valid = a /\ q.serial = m /\ q.life = n /\ q.io = c
      BY <3>2 DEF SocketRecord
    <3> QED
      BY <3>1, <3>2, <3>3
  <2> QED
    BY <1>8, <2>1, <2>2, <2>4
<1>13. CASE V!Attach(s)
  <2>1. PICK t \in V!Threads, d \in BOOLEAN :
            /\ t \in -1 .. MAX_IO_COUNT - 1 /\ V!AddChannel(s, t)
            /\ sock' = [sock EXCEPT ![s] =
                  [r EXCEPT !.valid = TRUE, !.life = r.life + 1, !.attached = TRUE,
                            !.listening = FALSE, !.prepared = d, !.io = t]]
    BY <1>2, <1>7, <1>13 DEF V!Attach
  <2>2. /\ sock[s].valid = FALSE /\ r.life < MaxSerial
        /\ UNCHANGED <<V!threadVars, calling, V!eventVars, V!history>>
        /\ \E k \in Kernel : kernel' = [kernel EXCEPT ![s] = k]
    BY <1>2, <1>4, <1>13 DEF V!Attach, Kernel
  <2>3. r.life + 1 \in 0 .. MaxSerial
    BY <1>4, <2>2 DEF V!BoundsOK
  <2>4. PICK q \in SocketRecord :
            /\ q.valid = TRUE /\ q.serial = r.serial /\ q.life = r.life + 1
            /\ q.attached = TRUE /\ q.io = t
            /\ sock' = [sock EXCEPT ![s] = q]
    <3>1. PICK a \in BOOLEAN, b \in BOOLEAN, n \in 0 .. MaxSerial, c \in -1 .. MAX_IO_COUNT - 1 :
              a = TRUE /\ b = FALSE /\ n = r.life + 1 /\ c = t
      BY <2>1, <2>3
    <3>2. PICK q : /\ q = [r EXCEPT !.valid = a, !.life = n, !.attached = a, !.listening = b,
                                    !.prepared = d, !.io = c]
                   /\ sock' = [sock EXCEPT ![s] = q]
      BY <2>1, <3>1
    <3>3. /\ q \in SocketRecord
          /\ q.valid = a /\ q.serial = r.serial /\ q.life = n /\ q.attached = a /\ q.io = c
      BY <3>2 DEF SocketRecord
    <3> QED
      BY <3>1, <3>2, <3>3
  <2> QED
    BY <1>8, <2>1, <2>2, <2>4
\* The life ends.
<1>9. CASE V!Detach(s) \/ V!CloseSocket(s)
  <2>1. PICK q \in SocketRecord :
            /\ q.valid = FALSE /\ q.serial = r.serial /\ q.life = r.life
            /\ q.attached = r.attached /\ sock' = [sock EXCEPT ![s] = q]
    <3>1. PICK b \in BOOLEAN, c \in -1 .. MAX_IO_COUNT - 1 : b = FALSE /\ c = -1
      BY <1>7
    <3>2. PICK q : /\ \/ q = [r EXCEPT !.valid = b, !.listening = b, !.io = c]
                      \/ q = [r EXCEPT !.valid = b, !.listening = b, !.prepared = b, !.io = c]
                   /\ sock' = [sock EXCEPT ![s] = q]
      BY <1>2, <1>9, <3>1 DEF V!Detach, V!CloseSocket
    <3>3. /\ q \in SocketRecord
          /\ q.valid = b /\ q.serial = r.serial /\ q.life = r.life /\ q.attached = r.attached
      BY <3>2 DEF SocketRecord
    <3> QED
      BY <3>1, <3>2, <3>3
  <2>2. PICK f \in V!Untold : DOMAIN f = {} /\ edge' = [edge EXCEPT ![s] = f]
    <3>1. CASE V!CloseSocket(s)
      <4>1. V!NoPoll \in [{} -> SUBSET V!Events]
        BY DEF V!NoPoll
      <4>2. {} \in SUBSET V!Threads
        OBVIOUS
      <4>3. V!NoPoll \in V!Untold
        BY <4>1, <4>2, UntoldFunction
      <4> QED
        BY <3>1, <4>3 DEF V!CloseSocket, V!NoPoll
    <3>2. CASE V!Detach(s)
      <4>1. PICK f : f = [u \in DOMAIN g \ {r.io} |-> g[u]]
        OBVIOUS
      <4>2. edge' = [edge EXCEPT ![s] = f]
        BY <1>1, <1>2, <1>3, <3>2, <4>1 DEF V!Detach, V!RemoveChannel
      <4>3. DOMAIN f = {} /\ f \in [DOMAIN f -> SUBSET V!Events] /\ DOMAIN f \in SUBSET V!Threads
        BY <1>4, <1>5, <4>1
      <4> QED
        BY <4>2, <4>3, UntoldFunction
    <3> QED
      BY <1>9, <3>1, <3>2
  <2>3. /\ \E k \in Kernel : kernel' = [kernel EXCEPT ![s] = k]
        /\ calling' = calling /\ missed' \subseteq missed /\ told' \subseteq told
        /\ UNCHANGED <<batch, at>>
    BY <1>9 DEF V!Detach, V!CloseSocket, V!eventVars, Kernel
  <2> QED
    BY <1>2, <1>4, <2>1, <2>2, <2>3, OneSocket
\* It goes on.
<1>10. CASE V!SetPrepared(s) \/ V!ConnectBlocks(s)
  <2>1. PICK q \in SocketRecord :
            /\ q.valid = r.valid /\ q.serial = r.serial /\ q.life = r.life
            /\ q.attached = r.attached /\ q.io = r.io /\ sock' = [sock EXCEPT ![s] = q]
    <3>1. PICK b \in BOOLEAN : \/ sock' = [sock EXCEPT ![s] = [r EXCEPT !.connectBlocked = b]]
                             \/ sock' = [sock EXCEPT ![s] = [r EXCEPT !.prepared = b]]
      <4>1. CASE V!SetPrepared(s)
        <5>1. PICK b \in BOOLEAN : b = ~r.prepared
          OBVIOUS
        <5>2. sock' = [sock EXCEPT ![s] = [r EXCEPT !.prepared = b]]
          BY <1>1, <1>2, <4>1, <5>1 DEF V!SetPrepared, SocketRecord
        <5> QED
          BY <5>1, <5>2
      <4>2. CASE V!ConnectBlocks(s)
        <5>1. sock' = [sock EXCEPT ![s] = [r EXCEPT !.connectBlocked = TRUE]]
          BY <1>1, <1>2, <4>2 DEF V!ConnectBlocks
        <5> QED
          BY <5>1
      <4> QED
        BY <1>10, <4>1, <4>2
    <3>2. PICK q : /\ q \in {[r EXCEPT !.connectBlocked = b], [r EXCEPT !.prepared = b],
                             [r EXCEPT !.listening = b]}
                   /\ sock' = [sock EXCEPT ![s] = q]
      BY <3>1
    <3> QED
      BY <3>2, FlagRecord
  <2>2. edge' = [edge EXCEPT ![s] = g]
    BY <1>1, <1>3, <1>10 DEF V!SetPrepared, V!ConnectBlocks
  <2>3. /\ kernel' = kernel /\ calling' \subseteq calling /\ missed' = missed /\ told' = told
        /\ UNCHANGED <<batch, at>>
    BY <1>10 DEF V!SetPrepared, V!ConnectBlocks, V!eventVars, V!history
  <2>4. /\ q.serial <= q.life
        /\ q.valid => q.io \in V!Threads
        /\ \A u \in DOMAIN g : q.valid /\ u = q.io
        /\ q.life = sock[s].life /\ q.serial = sock[s].serial /\ q.attached = sock[s].attached
        /\ q.valid => sock[s].valid /\ q.io = sock[s].io
        /\ \E k \in Kernel : kernel' = [kernel EXCEPT ![s] = k]
        /\ calling' \subseteq calling \cup {s} /\ missed' \subseteq missed /\ told' \subseteq told
        /\ sock' = [sock EXCEPT ![s] = q] /\ UNCHANGED <<batch, at>>
    BY <1>2, <1>4, <1>6, <2>1, <2>3
  <2> QED
    BY <2>2, <2>4, OneSocket
<1>11. CASE V!Listen(s) \/ V!Connect(s) \/ V!ConnectEnds(s) \/ V!Arrives(s)
  <2>1. PICK q \in SocketRecord :
            /\ q.valid = r.valid /\ q.serial = r.serial /\ q.life = r.life
            /\ q.attached = r.attached /\ q.io = r.io /\ sock' = [sock EXCEPT ![s] = q]
    <3>1. CASE V!Listen(s)
      <4>1. PICK q : q = [r EXCEPT !.listening = TRUE]
        OBVIOUS
      <4>2. sock' = [sock EXCEPT ![s] = q]
        BY <1>1, <1>2, <3>1, <4>1 DEF V!Listen
      <4> QED
        BY <4>1, <4>2, FlagRecord
    <3>2. CASE V!Connect(s) \/ V!ConnectEnds(s) \/ V!Arrives(s)
      BY <1>1, <1>2, <3>2 DEF V!Connect, V!ConnectEnds, V!Arrives
    <3> QED
      BY <1>11, <3>1, <3>2
  <2>2. PICK f \in V!Untold : DOMAIN f = DOMAIN g /\ edge' = [edge EXCEPT ![s] = f]
    <3>1. CASE V!Listen(s) \/ V!Connect(s)
      <4>1. PICK f : f = [u \in DOMAIN g |-> {}]
        OBVIOUS
      <4>2. edge' = [edge EXCEPT ![s] = f]
        BY <1>1, <1>3, <3>1, <4>1 DEF V!Listen, V!Connect
      <4>3. DOMAIN f = DOMAIN g /\ f \in [DOMAIN g -> SUBSET V!Events]
            /\ DOMAIN g \in SUBSET V!Threads
        BY <1>5, <4>1
      <4> QED
        BY <4>2, <4>3, UntoldFunction
    <3>2. CASE V!ConnectEnds(s) \/ V!Arrives(s)
      <4>1. PICK v \in SUBSET V!Events : edge' = [edge EXCEPT ![s] = V!Told(s, v)]
        BY <3>2 DEF V!ConnectEnds, V!Arrives, V!Events
      <4>2. PICK f : f = [u \in DOMAIN g |-> g[u] \cup v]
        OBVIOUS
      <4>3. edge' = [edge EXCEPT ![s] = f]
        BY <1>3, <4>1, <4>2 DEF V!Told
      <4>4. DOMAIN f = DOMAIN g /\ f \in [DOMAIN g -> SUBSET V!Events]
            /\ DOMAIN g \in SUBSET V!Threads
        BY <1>5, <4>2
      <4> QED
        BY <4>3, <4>4, UntoldFunction
    <3> QED
      BY <1>11, <3>1, <3>2
  <2>3. /\ \E k \in Kernel : kernel' = [kernel EXCEPT ![s] = k]
        /\ calling' \subseteq calling \cup {s} /\ missed' = missed /\ told' = told
        /\ UNCHANGED <<batch, at>>
    BY <1>6, <1>11 DEF V!Listen, V!Connect, V!ConnectEnds, V!Arrives, V!eventVars, V!history, Kernel
  <2>4. /\ q.serial <= q.life
        /\ q.valid => q.io \in V!Threads
        /\ \A u \in DOMAIN f : q.valid /\ u = q.io
        /\ q.life = sock[s].life /\ q.serial = sock[s].serial /\ q.attached = sock[s].attached
        /\ q.valid => sock[s].valid /\ q.io = sock[s].io
        /\ sock' = [sock EXCEPT ![s] = q]
    BY <1>2, <1>4, <2>1, <2>2
  <2> QED
    BY <2>2, <2>3, <2>4, OneSocket
<1> QED
  BY <1>9, <1>10, <1>11, <1>12, <1>13 DEF SocketStep, V!SocketCall

-----------------------------------------------------------------------------
(* The threads.                                                            *)

\* The steps of Create, Close and the end of a thread.
LibraryStep ==
    \/ V!CreateIo \/ V!Close \/ V!CloseReturns
    \/ \E t \in V!Threads : V!CloseThread(t) \/ V!RunEnds(t)

LEMMA LibraryKeeps ==
    ASSUME V!BoundsOK, V!TypeOK, EventsInv, ThreadsInv, LibraryStep
    PROVE  V!TypeOK' /\ EventsInv' /\ ThreadsInv'
<1>1. ThreadTypes /\ SocketTypes /\ EventTypes
  BY TypeParts
<1>2. UNCHANGED <<sock, calling, kernel, batch, at, missed, told>>
  BY DEF LibraryStep, V!CreateIo, V!Close, V!CloseReturns, V!CloseThread, V!RunEnds, V!eventVars,
         V!history
<1>3. edge' \in [VxSock -> V!Untold] /\ \A s \in VxSock : DOMAIN edge'[s] \subseteq DOMAIN edge[s]
  <2>1. CASE edge' = edge
    BY <1>1, <2>1 DEF EventTypes
  <2>2. CASE edge' = [s \in VxSock |-> V!NoPoll]
    <3>1. V!NoPoll \in [{} -> SUBSET V!Events] /\ {} \in SUBSET V!Threads /\ DOMAIN V!NoPoll = {}
      BY DEF V!NoPoll
    <3>2. V!NoPoll \in V!Untold
      BY <3>1, UntoldFunction
    <3> QED
      BY <2>2, <3>1, <3>2
  <2> QED
    BY <2>1, <2>2 DEF LibraryStep, V!CreateIo, V!Close, V!CloseReturns, V!CloseThread, V!RunEnds
<1>4. EventsInv'
  <2>1. \A s \in VxSock : SocketOK(s)'
    BY <1>2, <1>3 DEF EventsInv, SocketOK
  <2>2. \A t \in V!Threads : BatchOK(t)' /\ DispatchedOK(t)'
    BY <1>2 DEF EventsInv, BatchOK, DispatchedOK
  <2>3. V!OneThreadPerLife'
    BY <1>2 DEF EventsInv, V!OneThreadPerLife
  <2> QED
    BY <2>1, <2>2, <2>3 DEF EventsInv
<1>5. SocketTypes' /\ EventTypes'
  BY <1>1, <1>2, <1>3 DEF SocketTypes, EventTypes
<1>6. ThreadTypes' /\ ThreadsInv'
  <2>1. CASE V!CreateIo
    <3>1. \A t \in V!Threads : batch[t] = <<>>
      BY <2>1 DEF V!CreateIo, ThreadsInv
    <3>2. vx_io' \in {"open", "closing"} /\ nThreadCount' \in 0 .. MAX_IO_COUNT
      BY <2>1 DEF V!CreateIo, V!BoundsOK
    <3>3. vx_enabled_' \in [V!Threads -> BOOLEAN] /\ running_' \in [V!Threads -> BOOLEAN]
      BY <2>1 DEF V!CreateIo
    <3> QED
      BY <1>2, <3>1, <3>2, <3>3 DEF ThreadTypes, ThreadsInv
  <2>2. CASE V!Close
    BY <1>1, <1>2, <2>2 DEF V!Close, ThreadTypes, ThreadsInv
  <2>3. CASE V!CloseReturns
    BY <1>1, <1>2, <2>3 DEF V!CloseReturns, ThreadTypes, ThreadsInv, V!BoundsOK
  <2>4. ASSUME NEW t \in V!Threads, V!CloseThread(t)
        PROVE  ThreadTypes' /\ ThreadsInv'
    BY <1>1, <1>2, <2>4 DEF V!CloseThread, ThreadTypes, ThreadsInv
  <2>5. ASSUME NEW t \in V!Threads, V!RunEnds(t)
        PROVE  ThreadTypes' /\ ThreadsInv'
    BY <1>1, <1>2, <2>5 DEF V!RunEnds, ThreadTypes, ThreadsInv
  <2> QED
    BY <2>1, <2>2, <2>3, <2>4, <2>5 DEF LibraryStep
<1> QED
  BY <1>4, <1>5, <1>6, TypeParts

\* A thread takes a batch only while it runs, and keeps running with it.
EventStep ==
    \/ \E t \in V!Threads : V!WaitEvent(t) \/ V!Dispatch(t) \/ V!Check(t) \/ V!Handle(t)
    \/ \E s \in VxSock : SocketStep(s)

LEMMA EventStepKeeps ==
    ASSUME V!BoundsOK, V!TypeOK, EventsInv, ThreadsInv, EventStep
    PROVE  V!TypeOK' /\ EventsInv' /\ ThreadsInv'
<1>1. ThreadTypes /\ SocketTypes /\ EventTypes
  BY TypeParts
<1>2. UNCHANGED <<vx_io, nThreadCount, vx_enabled_, running_>>
  BY DEF EventStep, V!WaitEvent, V!Dispatch, V!Check, V!Handle, SocketStep, V!SocketCall, V!Create,
         V!Attach, V!Detach, V!CloseSocket, V!SetPrepared, V!Listen, V!Connect, V!ConnectBlocks,
         V!ConnectEnds, V!Arrives, V!threadVars
<1>3. ThreadTypes'
  BY <1>1, <1>2 DEF ThreadTypes
<1>4. ASSUME \A t \in V!Threads : batch'[t] # <<>> => batch[t] # <<>> \/ running_[t]
      PROVE  ThreadsInv'
  BY <1>2, <1>4 DEF ThreadsInv
<1>5. ASSUME NEW t \in V!Threads, V!WaitEvent(t)
      PROVE  EventsInv' /\ SocketTypes' /\ EventTypes' /\ ThreadsInv'
  <2>1. SocketTypes'
    BY <1>1, <1>5 DEF V!WaitEvent, V!history, SocketTypes
  <2>2. running_[t] /\ \A u \in V!Threads \ {t} : batch'[u] = batch[u]
    BY <1>1, <1>5 DEF V!WaitEvent, EventTypes
  <2> QED
    BY <1>4, <1>5, <2>1, <2>2, WaitEventKeeps
<1>6. ASSUME NEW t \in V!Threads, V!Dispatch(t)
      PROVE  EventsInv' /\ SocketTypes' /\ EventTypes' /\ ThreadsInv'
  <2>1. batch' = batch /\ UNCHANGED <<sock, kernel, calling, told>>
    BY <1>6 DEF V!Dispatch
  <2>2. missed' \subseteq VxSock
    <3>1. batch[t] # <<>> /\ batch[t] \in Seq(V!Event)
      BY <1>1, <1>6 DEF V!Dispatch, EventTypes
    <3>2. Head(batch[t]).sock \in VxSock
      <4>1. Head(batch[t]) = batch[t][1] /\ 1 \in DOMAIN batch[t]
        BY <3>1
      <4> QED
        BY <1>1, <4>1, EventSockets
    <3>3. missed' = missed \/ missed' = missed \cup {Head(batch[t]).sock}
      BY <1>6, Zenon DEF V!Dispatch
    <3> QED
      BY <1>1, <3>2, <3>3 DEF SocketTypes
  <2> QED
    BY <1>1, <1>4, <1>6, <2>1, <2>2, DispatchKeeps DEF SocketTypes
<1>7. ASSUME NEW t \in V!Threads, V!Check(t) \/ V!Handle(t)
      PROVE  EventsInv' /\ SocketTypes' /\ EventTypes' /\ ThreadsInv'
  <2>1. at[t].step # "wait"
    BY <1>7 DEF V!Check, V!Handle
  <2>2. batch[t] # <<>>
    BY <2>1 DEF EventsInv, DispatchedOK
  <2>3. \A u \in V!Threads \ {t} : batch'[u] = batch[u]
    <3>1. batch' = batch \/ V!Advance(t)
      BY <1>7 DEF V!Check, V!Handle
    <3>2. CASE V!Advance(t)
      BY <2>1, <3>2, AdvanceForward DEF Forward
    <3> QED
      BY <3>1, <3>2
  <2> QED
    BY <1>4, <1>7, <2>2, <2>3, HandlersKeep
<1>8. ASSUME NEW s \in VxSock, SocketStep(s)
      PROVE  EventsInv' /\ SocketTypes' /\ EventTypes' /\ ThreadsInv'
  <2>1. batch' = batch
    BY <1>8 DEF SocketStep, V!SocketCall, V!Create, V!Attach, V!Detach, V!CloseSocket,
                V!SetPrepared, V!Listen, V!Connect, V!ConnectBlocks, V!ConnectEnds, V!Arrives,
                V!eventVars
  <2> QED
    BY <1>4, <1>8, <2>1, SocketStepKeeps
<1>9. EventsInv' /\ SocketTypes' /\ EventTypes' /\ ThreadsInv'
  BY <1>5, <1>6, <1>7, <1>8 DEF EventStep
<1> QED
  BY <1>3, <1>9, TypeParts

-----------------------------------------------------------------------------
LEMMA EpollInit == ASSUME V!BoundsOK, V!Init PROVE EpollInv
<1>1. /\ batch = [t \in V!Threads |-> <<>>] /\ at = [t \in V!Threads |-> V!Waiting]
      /\ running_ = [t \in V!Threads |-> FALSE] /\ edge = [s \in VxSock |-> V!NoPoll]
      /\ \A s \in VxSock : sock[s].serial = 0 /\ sock[s].life = 0 /\ ~sock[s].valid
  BY DEF V!Init
<1>2. ThreadTypes
  BY DEF V!Init, ThreadTypes, V!BoundsOK
<1>3. SocketTypes
  <2>1. 0 \in 0 .. MaxSerial /\ -1 \in -1 .. MAX_IO_COUNT - 1
    BY DEF V!BoundsOK
  <2> QED
    BY <2>1 DEF V!Init, SocketTypes, SocketRecord, Kernel
<1>4. V!NoPoll \in V!Untold /\ DOMAIN V!NoPoll = {}
  <2>1. V!NoPoll \in [{} -> SUBSET V!Events] /\ {} \in SUBSET V!Threads /\ DOMAIN V!NoPoll = {}
    BY DEF V!NoPoll
  <2> QED
    BY <2>1, UntoldFunction
<1>5. EventTypes
  <2>1. V!Waiting \in Place
    BY DEF V!Waiting, Place, V!BoundsOK
  <2> QED
    BY <1>1, <1>4, <2>1 DEF EventTypes
<1>6. EventsInv
  <2>1. \A s \in VxSock : SocketOK(s)
    BY <1>1, <1>4 DEF SocketOK
  <2>2. \A t \in V!Threads : BatchOK(t) /\ DispatchedOK(t)
    BY <1>1 DEF BatchOK, DispatchedOK, V!Waiting
  <2>3. V!OneThreadPerLife
    BY <1>1 DEF V!OneThreadPerLife
  <2> QED
    BY <2>1, <2>2, <2>3 DEF EventsInv
<1>7. ThreadsInv
  BY <1>1 DEF ThreadsInv
<1> QED
  BY <1>2, <1>3, <1>5, <1>6, <1>7, TypeParts DEF EpollInv

LEMMA EpollStep == ASSUME V!BoundsOK, EpollInv, [V!Next]_(V!vars) PROVE EpollInv'
<1>1. CASE UNCHANGED V!vars
  <2>1. /\ vx_io' = vx_io /\ nThreadCount' = nThreadCount /\ vx_enabled_' = vx_enabled_
        /\ running_' = running_ /\ sock' = sock /\ calling' = calling /\ kernel' = kernel
        /\ edge' = edge /\ batch' = batch /\ at' = at /\ missed' = missed /\ told' = told
    BY <1>1 DEF V!vars
  <2>2. V!TypeOK'
    BY <2>1, TypeParts DEF EpollInv, ThreadTypes, SocketTypes, EventTypes
  <2>3. EventsInv'
    BY <2>1 DEF EpollInv, EventsInv, SocketOK, BatchOK, DispatchedOK, V!OneThreadPerLife
  <2>4. ThreadsInv'
    BY <2>1 DEF EpollInv, ThreadsInv
  <2> QED
    BY <2>2, <2>3, <2>4 DEF EpollInv
<1>2. CASE V!Next
  <2>1. LibraryStep \/ EventStep
    BY <1>2, Zenon DEF V!Next, V!ThreadStep, LibraryStep, EventStep, SocketStep
  <2> QED
    BY <2>1, LibraryKeeps, EventStepKeeps DEF EpollInv
<1> QED
  BY <1>1, <1>2

\* However threads and handlers close, detach, attach and create sockets, a part of an event
\* passes the comparison in AsyncCustomIoThread::Run only in the life it was dispatched in or
\* in one that Attach began, one thread takes the events of a life, and none runs when
\* AsyncVxIo::Close has returned.
THEOREM HandlersOfSockets == V!Spec => []HandlersOfASocket
<1>1. V!BoundsOK
  BY SocketsAssumption
<1>2. V!Init => EpollInv
  BY <1>1, EpollInit
<1>3. EpollInv /\ [V!Next]_(V!vars) => EpollInv'
  BY <1>1, EpollStep
<1>4. EpollInv => HandlersOfASocket
  <2> SUFFICES ASSUME EpollInv
               PROVE  HandlersOfASocket
    OBVIOUS
  <2>1. ASSUME NEW t \in V!Threads, at[t].step # "wait", V!IsValidEvent(t, at[t].step)
        PROVE  \/ at[t].life = sock[Head(batch[t]).sock].life
               \/ sock[Head(batch[t]).sock].attached
    <3>1. batch[t] # <<>> /\ Head(batch[t]) = batch[t][1]
      BY <2>1 DEF EpollInv, EventsInv, DispatchedOK, V!TypeOK
    <3>2. at[t].serial = sock[batch[t][1].sock].serial
      BY <2>1, <3>1 DEF V!IsValidEvent
    <3> QED
      BY <2>1, <3>1, <3>2 DEF EpollInv, EventsInv, DispatchedOK
  <2>2. V!RestDropped
    BY <2>1 DEF V!RestDropped
  <2>3. V!NoThreadWithoutIo
    BY DEF EpollInv, ThreadsInv, V!NoThreadWithoutIo
  <2> QED
    BY <2>2, <2>3 DEF HandlersOfASocket, EpollInv, EventsInv
<1> QED
  BY <1>2, <1>3, <1>4, PTL DEF V!Spec
=============================================================================
