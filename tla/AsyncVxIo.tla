----------------------------- MODULE AsyncVxIo -----------------------------
(***************************************************************************)
(* The epoll library: AsyncPoll, AsyncVxSocket, AsyncCustomIoThread and    *)
(* AsyncVxIo (utils/async_net.cpp) over Socket (utils/net.cpp).  A socket  *)
(* is registered with the poll of one of the I/O threads, edge triggered:  *)
(* an event is told once.  Each thread takes a batch of events and calls   *)
(* the handlers of their sockets one after the other.  The methods of a    *)
(* socket are public: any thread calls them, and any handler, of this      *)
(* socket or of another one.  An object is reused: each Create and each    *)
(* Attach begins a life of it; m_nSerailNumber counts the former.          *)
(* Create and Attach succeed.  m_bConnected is read where it is assigned   *)
(* only: the result of an attempt is in kernel.  Nothing calls             *)
(* AsyncPoll::AppendEvent, and m_nPoll is private: m_pAppendEvents stays   *)
(* empty.                                                                  *)
(***************************************************************************)
EXTENDS Integers, Sequences, FiniteSets, SequencesExt

CONSTANTS
    Sock,               \* AsyncVxSocket objects
    MAX_IO_COUNT,       \* the most I/O threads Create may be asked for
    MaxSerial           \* bound on the lives of a socket

\* What the constants have to satisfy.
BoundsOK ==
    /\ IsFiniteSet(Sock)
    /\ MAX_IO_COUNT \in Nat \ {0} /\ MaxSerial \in Nat \ {0}

Threads == 0 .. MAX_IO_COUNT - 1
Events  == {"IN", "OUT", "ERR"}

VARIABLES
    io,             \* m_pThreads: none (empty), open, closing (Close waits for the threads),
                    \* closed (empty again, for good: a bound)
    nThreadCount,   \* I/O threads, 0 .. nThreadCount - 1: the size of m_pThreads
    enabled_,       \* thread -> asked to go on
    running_,       \* thread -> is it running?
    sock,           \* the fields of each socket
    calling,        \* sockets with a Connect that has called connect() and not seen its result
    kernel,         \* socket -> what the TCP connection is, outside the program
    edge,           \* socket -> the polls it is registered with -> what they have not told yet
    batch,          \* thread -> events taken and not yet dispatched
    at,             \* thread -> where it is with the first event of the batch
    missed,         \* history: sockets passed over when an OUT told that TCP had ended the
                    \* attempt of this life
    told            \* history: sockets whose handler was told that the attempt has failed

vars == <<io, nThreadCount, enabled_, running_, sock, calling, kernel, edge, batch, at, missed,
          told>>

threadVars == <<io, nThreadCount, enabled_, running_>>
eventVars  == <<batch, at>>
history    == <<missed, told>>

Waiting == [step |-> "wait", valid |-> FALSE, serial |-> 0, life |-> 0]

\* The life of the socket when the event was taken, and whether TCP had ended its attempt.
Event == [sock : Sock, events : SUBSET Events, life : 0 .. MaxSerial, ended : BOOLEAN]

\* The events some polls have not told yet.
Untold == UNION {[T -> SUBSET Events] : T \in SUBSET Threads}

TypeOK ==
    /\ io \in {"none", "open", "closing", "closed"}
    /\ nThreadCount \in 0 .. MAX_IO_COUNT
    /\ enabled_ \in [Threads -> BOOLEAN] /\ running_ \in [Threads -> BOOLEAN]
    /\ sock \in [Sock -> [valid : BOOLEAN, serial : 0 .. MaxSerial, life : 0 .. MaxSerial,
                          attached : BOOLEAN, connectBlocked : BOOLEAN, listening : BOOLEAN,
                          prepared : BOOLEAN, io : -1 .. MAX_IO_COUNT - 1]]
    /\ calling \subseteq Sock /\ missed \subseteq Sock /\ told \subseteq Sock
    /\ kernel \in [Sock -> {"none", "fresh", "connecting", "up", "failed", "listen"}]
    /\ edge \in [Sock -> Untold]
    /\ batch \in [Threads -> Seq(Event)]
    /\ at \in [Threads -> [step : {"wait", "OUT", "IN", "ERR"}, valid : BOOLEAN,
                           serial : 0 .. MaxSerial, life : 0 .. MaxSerial]]

NoPoll == [t \in {} |-> {}]

Init ==
    /\ io = "none" /\ nThreadCount = 0
    /\ enabled_ = [t \in Threads |-> FALSE] /\ running_ = [t \in Threads |-> FALSE]
    /\ sock = [s \in Sock |-> [valid |-> FALSE, serial |-> 0, life |-> 0, attached |-> FALSE,
                               connectBlocked |-> FALSE, listening |-> FALSE, prepared |-> FALSE,
                               io |-> -1]]
    /\ kernel = [s \in Sock |-> "none"] /\ edge = [s \in Sock |-> NoPoll]
    /\ batch = [t \in Threads |-> <<>>] /\ at = [t \in Threads |-> Waiting]
    /\ calling = {} /\ missed = {} /\ told = {}

(***************************************************************************)
(* AsyncPoll and the channels of AsyncVxIo.                                *)
(***************************************************************************)
\* AsyncPoll::Add by AddChannel: epoll tells at once that the handle can be written, also of
\* one that is not connected (which is hung up as well; the library does not look at that).
AddChannel(s, t) == edge' = [edge EXCEPT ![s] = [u \in DOMAIN @ \cup {t} |->
                                                    IF u = t THEN {"OUT"} ELSE edge[s][u]]]

\* AsyncPoll::Remove by RemoveChannel.
RemoveChannel(s) == edge' = [edge EXCEPT ![s] = [u \in DOMAIN @ \ {sock[s].io} |-> edge[s][u]]]

\* What epoll is going to tell of a registered socket: all polls, as the handle is one.
Told(s, events) == [t \in DOMAIN edge[s] |-> edge[s][t] \cup events]

Ready(t) == {s \in Sock : t \in DOMAIN edge[s] /\ edge[s][t] # {}}

Ended(s) == kernel[s] \in {"up", "failed"}

Taken(s, t) == [sock |-> s, events |-> edge[s][t], life |-> sock[s].life, ended |-> Ended(s)]

\* The edges that are left when t has taken its own.
Untaken(t) == [s \in Sock |-> [u \in DOMAIN edge[s] |-> IF u = t THEN {} ELSE edge[s][u]]]

\* WaitEvent: what epoll has to tell, in some order.
WaitEvent(t) ==
    /\ running_[t] /\ enabled_[t] /\ at[t].step = "wait" /\ batch[t] = <<>>
    /\ Ready(t) # {}
    /\ \E q \in SetToSeqs(Ready(t)) :
          batch' = [batch EXCEPT ![t] = [i \in DOMAIN q |-> Taken(q[i], t)]]
    /\ edge' = Untaken(t)
    /\ UNCHANGED <<threadVars, sock, calling, kernel, at, history>>

(***************************************************************************)
(* AsyncVxSocket: called by any thread, in a handler or not.  Who changes  *)
(* sockets while Close is deleting the threads reaches a thread that is    *)
(* gone: sockets are created before, and closed before or in a handler.    *)
(***************************************************************************)
\* Create: a new life, registered with the next thread.  m_nNextIoIdx counts them modulo
\* their number, but without a lock: it may be any of them.
Create(s) ==
    /\ io = "open" /\ ~sock[s].valid /\ sock[s].life < MaxSerial /\ s \notin calling
    /\ \E t \in 0 .. nThreadCount - 1 :
          /\ sock' = [sock EXCEPT ![s] =
                [@ EXCEPT !.valid = TRUE, !.serial = sock[s].serial + 1,
                          !.life = sock[s].life + 1, !.attached = FALSE,
                          !.connectBlocked = FALSE, !.listening = FALSE, !.io = t]]
          /\ AddChannel(s, t)
    /\ kernel' = [kernel EXCEPT ![s] = "fresh"]
    /\ UNCHANGED <<threadVars, calling, eventVars, history>>

\* Attach: the handle of a connection, which was accepted or detached before.  The number is
\* left as it is, and so is the mark of a Connect.
Attach(s) ==
    /\ io = "open" /\ ~sock[s].valid /\ sock[s].life < MaxSerial /\ s \notin calling
    /\ \E t \in 0 .. nThreadCount - 1, bPrepared \in BOOLEAN :
          /\ sock' = [sock EXCEPT ![s] =
                [@ EXCEPT !.valid = TRUE, !.life = sock[s].life + 1, !.attached = TRUE,
                          !.listening = FALSE, !.prepared = bPrepared, !.io = t]]
          /\ AddChannel(s, t)
    /\ kernel' = [kernel EXCEPT ![s] = "up"]
    /\ UNCHANGED <<threadVars, calling, eventVars, history>>

\* The thread the socket is registered with has not been deleted.
HasThread(s) == io = "open" \/ (io = "closing" /\ running_[sock[s].io])

\* Mutant: the handle is given away and still known to the poll.
DetachOnly(s) ==
    /\ sock[s].valid /\ HasThread(s)
    /\ sock' = [sock EXCEPT ![s] = [@ EXCEPT !.valid = FALSE, !.listening = FALSE, !.io = -1]]
    /\ kernel' = [kernel EXCEPT ![s] = "none"]
    /\ missed' = missed \ {s} /\ told' = told \ {s}
    /\ UNCHANGED <<threadVars, calling, edge, eventVars>>

\* Detach: the handle goes to somebody else.
Detach(s) ==
    /\ sock[s].valid /\ HasThread(s)
    /\ RemoveChannel(s)
    /\ sock' = [sock EXCEPT ![s] = [@ EXCEPT !.valid = FALSE, !.listening = FALSE, !.io = -1]]
    /\ kernel' = [kernel EXCEPT ![s] = "none"]
    /\ missed' = missed \ {s} /\ told' = told \ {s}
    /\ UNCHANGED <<threadVars, calling, eventVars>>

\* Close: what is registered nowhere else goes from every poll with its handle.
CloseSocket(s) ==
    /\ sock[s].valid /\ HasThread(s)
    /\ sock' = [sock EXCEPT ![s] = [@ EXCEPT !.valid = FALSE, !.listening = FALSE,
                                             !.prepared = FALSE, !.io = -1]]
    /\ kernel' = [kernel EXCEPT ![s] = "none"] /\ edge' = [edge EXCEPT ![s] = NoPoll]
    /\ missed' = missed \ {s} /\ told' = told \ {s}
    /\ UNCHANGED <<threadVars, calling, eventVars>>

SetPrepared(s) ==
    /\ sock[s].valid /\ sock' = [sock EXCEPT ![s].prepared = ~@]
    /\ UNCHANGED <<threadVars, calling, kernel, edge, eventVars, history>>

\* Nothing is ready on a socket that only listens: epoll looks again before it tells.
Listen(s) ==
    /\ sock[s].valid /\ kernel[s] = "fresh"
    /\ sock' = [sock EXCEPT ![s].listening = TRUE]
    /\ kernel' = [kernel EXCEPT ![s] = "listen"]
    /\ edge' = [edge EXCEPT ![s] = [t \in DOMAIN @ |-> {}]]
    /\ UNCHANGED <<threadVars, calling, eventVars, history>>

\* Connect, once in a life (a bound): connect() would block.  As for Listen nothing is ready
\* now, but what was told before Connect stands in some batch.
Connect(s) ==
    /\ sock[s].valid /\ kernel[s] = "fresh" /\ s \notin calling
    /\ kernel' = [kernel EXCEPT ![s] = "connecting"]
    /\ edge' = [edge EXCEPT ![s] = [t \in DOMAIN @ |-> {}]]
    /\ calling' = calling \cup {s}
    /\ UNCHANGED <<threadVars, sock, eventVars, history>>

\* The rest of it: that is noted, whatever has become of the attempt, or the socket, by now.
ConnectBlocks(s) ==
    /\ s \in calling /\ calling' = calling \ {s}
    /\ sock' = [sock EXCEPT ![s].connectBlocked = TRUE]
    /\ UNCHANGED <<threadVars, kernel, edge, eventVars, history>>

(***************************************************************************)
(* AsyncCustomIoThread::Run, for the first event of the batch.             *)
(***************************************************************************)
\* Connect has been called and its answer has not been taken.
Awaits(s) == sock[s].connectBlocked \/ s \in calling

\* TCP had ended the attempt when the OUT of e was told.
TellsEnd(e) ==
    "OUT" \in e.events /\ e.ended /\ sock[e.sock].valid /\ e.life = sock[e.sock].life

\* Mutant: the whole event of a socket that is not prepared is passed over.
DispatchPrepared(t) ==
    /\ at[t].step = "wait" /\ batch[t] # <<>>
    /\ LET e == Head(batch[t])
           r == sock[e.sock]
       IN  IF r.prepared
           THEN /\ at' = [at EXCEPT ![t] = [step |-> "OUT", valid |-> FALSE,
                                            serial |-> r.serial, life |-> r.life]]
                /\ UNCHANGED <<batch, missed>>
           ELSE /\ batch' = [batch EXCEPT ![t] = Tail(@)]
                /\ missed' = IF TellsEnd(e) /\ Awaits(e.sock)
                             THEN missed \cup {e.sock} ELSE missed
                /\ UNCHANGED at
    /\ UNCHANGED <<threadVars, sock, calling, kernel, edge, told>>

\* The serial number is read, and the state that lets OUT and IN be handled.
Dispatch(t) ==
    /\ at[t].step = "wait" /\ batch[t] # <<>>
    /\ LET e == Head(batch[t])
           r == sock[e.sock]
       IN  /\ at' = [at EXCEPT ![t] = [step |-> IF r.prepared THEN "OUT" ELSE "ERR",
                                       valid |-> FALSE, serial |-> r.serial, life |-> r.life]]
           /\ missed' = IF ~r.prepared /\ TellsEnd(e) /\ Awaits(e.sock)
                        THEN missed \cup {e.sock} ELSE missed
    /\ UNCHANGED <<threadVars, sock, calling, kernel, edge, batch, told>>

IsValidEvent(t, e) ==
    /\ e \in Head(batch[t]).events
    /\ at[t].serial = sock[Head(batch[t]).sock].serial

\* What is left to do for the event.
Advance(t) ==
    /\ at' = [at EXCEPT ![t] = CASE at[t].step = "OUT" -> [@ EXCEPT !.step = "IN", !.valid = FALSE]
                                 [] at[t].step = "IN"  -> [@ EXCEPT !.step = "ERR", !.valid = FALSE]
                                 [] at[t].step = "ERR" -> Waiting]
    /\ batch' = IF at[t].step = "ERR" THEN [batch EXCEPT ![t] = Tail(@)] ELSE batch

\* "check if event is valid", before each part of it.
Check(t) ==
    /\ at[t].step # "wait" /\ ~at[t].valid
    /\ IF IsValidEvent(t, at[t].step)
       THEN at' = [at EXCEPT ![t].valid = TRUE] /\ UNCHANGED batch
       ELSE Advance(t)
    /\ UNCHANGED <<threadVars, sock, calling, kernel, edge, history>>

\* What the thread does then, before it calls the handler or instead: for OUT it takes the
\* answer to Connect, or what it holds for that.
Handle(t) ==
    /\ at[t].step # "wait" /\ at[t].valid
    /\ LET e == Head(batch[t])
           s == e.sock
           answers == at[t].step = "OUT" /\ sock[s].connectBlocked
           fails == kernel[s] = "failed"
       IN  /\ sock' = IF answers
                      THEN [sock EXCEPT ![s].connectBlocked = FALSE] ELSE sock
           /\ missed' = IF at[t].step = "OUT" /\ TellsEnd(e) /\ s \in calling
                        THEN missed \cup {s} ELSE missed
           /\ told' = IF fails /\ (answers \/ at[t].step = "ERR") THEN told \cup {s} ELSE told
    /\ Advance(t)
    /\ UNCHANGED <<threadVars, calling, kernel, edge>>

(***************************************************************************)
(* AsyncVxIo, called by the program's own thread.                          *)
(***************************************************************************)
\* Create: each thread has its poll and is started, or all are closed.
CreateIo ==
    /\ io = "none"
    /\ nThreadCount' \in 1 .. MAX_IO_COUNT
    /\ \E n \in 0 .. nThreadCount' :
          /\ running_' = [t \in Threads |-> t < n] /\ enabled_' = [t \in Threads |-> t < n]
          /\ io' = IF n = nThreadCount' THEN "open" ELSE "closing"
    /\ UNCHANGED <<sock, calling, kernel, edge, eventVars, history>>

\* Close: the threads are asked to stop, one after the other.
Close ==
    /\ io = "open" /\ io' = "closing"
    /\ UNCHANGED <<nThreadCount, enabled_, running_, sock, calling, kernel, edge, eventVars, history>>

CloseThread(t) ==
    /\ io = "closing" /\ \A u \in Threads : u < t => ~running_[u]
    /\ enabled_[t] /\ enabled_' = [enabled_ EXCEPT ![t] = FALSE]
    /\ UNCHANGED <<io, nThreadCount, running_, sock, calling, kernel, edge, eventVars, history>>

\* The threads and their polls are deleted, with all they held.
CloseReturns ==
    /\ io = "closing" /\ \A t \in Threads : ~running_[t]
    /\ io' = "closed" /\ nThreadCount' = 0
    /\ edge' = [s \in Sock |-> NoPoll]
    /\ UNCHANGED <<enabled_, running_, sock, calling, kernel, eventVars, history>>

\* The loop of Run ends between two batches.
RunEnds(t) ==
    /\ running_[t] /\ ~enabled_[t] /\ at[t].step = "wait" /\ batch[t] = <<>>
    /\ running_' = [running_ EXCEPT ![t] = FALSE]
    /\ UNCHANGED <<io, nThreadCount, enabled_, sock, calling, kernel, edge, eventVars, history>>

(***************************************************************************)
(* The other end and the kernel.                                           *)
(***************************************************************************)
ConnectEnds(s) ==
    /\ kernel[s] = "connecting"
    /\ \E ok \in BOOLEAN :
          /\ kernel' = [kernel EXCEPT ![s] = IF ok THEN "up" ELSE "failed"]
          /\ edge' = [edge EXCEPT ![s] = Told(s, IF ok THEN {"OUT"} ELSE Events)]
    /\ UNCHANGED <<threadVars, sock, calling, eventVars, history>>

\* Bytes, or a connection to accept; epoll tells with it whether the socket can be written.
Arrives(s) ==
    /\ kernel[s] \in {"up", "listen"}
    /\ \E more \in SUBSET {"OUT"} :
          /\ kernel[s] = "listen" => more = {}
          /\ edge' = [edge EXCEPT ![s] = Told(s, {"IN"} \cup more)]
    /\ UNCHANGED <<threadVars, sock, calling, kernel, eventVars, history>>

ThreadStep(t) == WaitEvent(t) \/ Dispatch(t) \/ Check(t) \/ Handle(t) \/ RunEnds(t)

SocketCall(s) ==
    \/ Create(s) \/ Attach(s) \/ Detach(s) \/ CloseSocket(s) \/ SetPrepared(s) \/ Listen(s)
    \/ Connect(s)

Next ==
    \/ CreateIo \/ Close \/ CloseReturns
    \/ \E t \in Threads : ThreadStep(t) \/ CloseThread(t)
    \/ \E s \in Sock : SocketCall(s) \/ ConnectBlocks(s) \/ ConnectEnds(s) \/ Arrives(s)

(***************************************************************************)
(* The threads and Close go on by themselves, as handlers return, a call   *)
(* of Connect ends, and TCP ends an attempt to connect.                    *)
(***************************************************************************)
Spec ==
    /\ Init /\ [][Next]_vars
    /\ WF_vars(CloseReturns)
    /\ \A t \in Threads : WF_vars(ThreadStep(t)) /\ WF_vars(CloseThread(t))
    /\ \A s \in Sock : WF_vars(ConnectEnds(s)) /\ WF_vars(ConnectBlocks(s))

(***************************************************************************)
(* Properties.                                                             *)
(***************************************************************************)
\* A part of an event passes the comparison only in the life of the socket that it was
\* dispatched in, or in one that Attach began; so one that is told in a life and dispatched
\* in a later one passes too.
RestDropped ==
    \A t \in Threads :
        at[t].step # "wait" /\ IsValidEvent(t, at[t].step)
            => \/ at[t].life = sock[Head(batch[t]).sock].life
               \/ sock[Head(batch[t]).sock].attached

\* The events of one life of a socket are taken by one thread: no two call the handlers for
\* the same life at once, whoever closed, detached or created the socket meanwhile.
OneThreadPerLife ==
    \A t, u \in Threads : \A i \in DOMAIN batch[t], j \in DOMAIN batch[u] :
        batch[t][i].sock = batch[u][j].sock /\ batch[t][i].life = batch[u][j].life => t = u

\* When Close has returned no thread runs, so that none uses a poll that is deleted.
NoThreadWithoutIo == io \in {"none", "closed"} => \A t \in Threads : ~running_[t] /\ batch[t] = <<>>

\* There is no use in waiting: the socket or the library is closed.
Gone(s) == ~sock[s].valid \/ io # "open"

\* No attempt to connect waits for its answer; or it waits in vain, because the one OUT that
\* told of its end was passed over: the socket was not prepared, or Connect had not returned.
NothingAsked(s) == ~sock[s].connectBlocked \/ Gone(s) \/ s \in missed

\* OnConnect or OnError told the socket that its attempt has failed, whether it was prepared
\* or not and whatever OnConnect said of the attempt before it had ended.
FailureTold(s) == kernel[s] # "failed" \/ Gone(s) \/ s \in told

\* Close returns.
IoCloses == []<>(io # "closing")
=============================================================================
