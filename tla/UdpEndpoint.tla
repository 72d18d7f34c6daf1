---------------------------- MODULE UdpEndpoint ----------------------------
(* The endpoints of a UDP transport from the first SYN to their destruction.   *)
(* Four kinds of threads meet in them: the main thread runs ARDP and manages   *)
(* the lists of endpoints, the dispatcher works off the callbacks that ARDP    *)
(* has queued, threads of the daemon write and stop, and one thread waits for  *)
(* every connection that this side opens.  A step is what a thread does while  *)
(* it holds one lock; ARDP is what Ardp.tla shows of it, seen from above.      *)
EXTENDS ArdpStream, Sequences

CONSTANTS Conns,        \* connections, opened by either side
          Dispatcher,   \* the dispatcher thread, one of Threads
          SndWindow,    \* buffers that ARDP accepts before it applies backpressure
          MaxRcv,       \* bound: messages received on a connection
          MaxAuth,      \* m_maxAuth
          MaxConn,      \* m_maxConn
          OtherConns,   \* how many endpoints of other connections m_currConn may count
          NoBuf, NoConn \* a NULL pointer, and no endpoint

Writers == Threads \ {Dispatcher}

ASSUME EndpointAssumption ==
  /\ Dispatcher \in Threads
  /\ IsFiniteSet(Bufs) /\ NoBuf \notin Bufs /\ NoConn \notin Conns
  /\ SndWindow \in Nat \ {0} /\ MaxRcv \in Nat /\ MaxAuth \in Nat /\ MaxConn \in Nat /\ OtherConns \subseteq Nat

VARIABLES ep,          \* the endpoint of each connection
          stream,      \* its ArdpStream
          ardp,        \* its ARDP connection record
          queue,       \* m_workerCommandQueue
          disp,        \* what the dispatcher is doing: [pc, conn]
          writer,      \* where a thread is in PushMessage, and what that returned last: [pc, conn, buf, ok]
          connector,   \* where the thread in Connect is, if this side opens the connection
          currAuth, currConn,
          used, freed, \* buffers allocated, buffers deleted
          fault        \* assertions that have failed

vars == <<ep, stream, ardp, queue, disp, writer, connector, currAuth, currConn, used, freed, fault>>

EpStates == {"NONE", "INITIALIZED", "STARTED", "STOPPING", "JOINED", "DONE"}

\* auth is m_authList with m_preList: whoever looks at the first has moved the
\* second to it.
Lists    == {"none", "auth", "endpoint", "gone"}

\* known: the daemon has a reference.  stopper: the thread of the daemon that
\* has set EP_STOPPING and has the rest of Stop() before it.
Endpoint == [state : EpStates, list : Lists, conn : BOOLEAN, known : BOOLEAN,
             registered : BOOLEAN, exitScheduled : BOOLEAN, exited : BOOLEAN,
             stopper : {"none", "wake", "disconnect"}]

NewEndpoint(list) ==
  [state |-> "INITIALIZED", list |-> list, conn |-> TRUE, known |-> FALSE,
   registered |-> FALSE, exitScheduled |-> FALSE, exited |-> FALSE, stopper |-> "none"]

NoEndpoint == [NewEndpoint("none") EXCEPT !.state = "NONE", !.conn = FALSE]

\* SYN: handshake.  LOCAL: CLOSE_WAIT after ARDP_Disconnect.  CLOSING: CLOSE_WAIT
\* after DisconnectCb.  CLOSED: the handshake timed out.
ConnRecord == [state : {"none", "SYN", "OPEN", "LOCAL", "CLOSING", "CLOSED", "gone"},
             held : SUBSET Bufs, rcv : 0..MaxRcv, left : 0..MaxRcv]

Commands == [cmd : {"CONNECT_CB"}, conn : Conns, ok : BOOLEAN]
       \cup [cmd : {"DISCONNECT_CB"}, conn : Conns, status : {"OK", "REMOTE", "SOCKET"}]
       \cup [cmd : {"SEND_CB"}, conn : Conns, buf : Bufs]
       \cup [cmd : {"RECV_CB", "EXIT"}, conn : Conns]

EpAsserts == {"StartState", "StopListed", "ExitState", "NoContext", "Destroyed", "DoubleFree"}

DispPcs == {"idle", "start", "register", "registered", "woken", "release", "sent",
            "received", "routed", "lost", "wake", "disconnect", "exit"}
WriterPcs == {"idle", "ask", "deliver", "enter", "send", "sent", "blocked", "waiting"}

TypeOK ==
  /\ ep \in [Conns -> Endpoint] /\ stream \in [Conns -> Stream] /\ ardp \in [Conns -> ConnRecord]
  /\ queue \in Seq(Commands)
  /\ disp \in [pc : DispPcs, conn : Conns \cup {NoConn}]
  /\ writer \in [Threads -> [pc : WriterPcs, conn : Conns \cup {NoConn}, buf : Bufs \cup {NoBuf}, ok : BOOLEAN]]
  /\ connector \in [Conns -> {"idle", "waiting", "woken", "timed out", "found", "empty", "failed"}]
  /\ currAuth \in Nat /\ currConn \in Nat
  /\ used \in SUBSET Bufs /\ freed \in SUBSET Bufs /\ fault \in SUBSET EpAsserts

Idle == [pc |-> "idle", conn |-> NoConn]
NotWriting == [pc |-> "idle", conn |-> NoConn, buf |-> NoBuf, ok |-> TRUE]

Init ==
  /\ ep = [c \in Conns |-> NoEndpoint]
  /\ stream = [c \in Conns |-> NewStream]
  /\ ardp = [c \in Conns |-> [state |-> "none", held |-> {}, rcv |-> 0, left |-> MaxRcv]]
  /\ queue = <<>> /\ disp = Idle
  /\ writer = [t \in Threads |-> NotWriting]
  /\ connector = [c \in Conns |-> "idle"]
  /\ currAuth = 0 /\ currConn \in OtherConns
  /\ used = {} /\ freed = {} /\ fault = {}

\* SIDE_ACTIVE: a thread of this side has opened the connection.
Active(c) == connector[c] # "idle"

Failing(name, holds) == IF holds THEN {} ELSE {name}

-----------------------------------------------------------------------------
(* ARDP: calls from above, and what ARDP_Run makes it call back.              *)

Valid(c) == ardp[c].state \notin {"none", "gone"}

\* All orders in which FlushSendQueue gives buffers back.
Flushed(c, bufs) ==
  {[i \in DOMAIN f |-> [cmd |-> "SEND_CB", conn |-> c, buf |-> f[i]]] :
     f \in {g \in [1..Cardinality(bufs) -> bufs] : \A i, j \in DOMAIN g : g[i] = g[j] => i = j}}

\* ARDP_Disconnect: the status and the record afterwards.  The RST may fail to
\* go out, and the record closes all the same.
ARDP_Disconnect(c) ==
  CASE ~Valid(c) \/ ~stream[c].conn -> {[status |-> "INVALID_CONNECTION", conn |-> ardp[c]]}
    [] Valid(c) /\ stream[c].conn /\ ardp[c].state \in {"LOCAL", "CLOSING", "CLOSED"} ->
         {[status |-> "OK", conn |-> ardp[c]]}
    [] OTHER -> [status : {"OK", "SOCKET"}, conn : {[ardp[c] EXCEPT !.state = "LOCAL"]}]

\* ArdpStream::Disconnect with its call to ARDP_Disconnect.
StreamDisconnect(c, sudden, status) ==
  \E r \in IF AsksArdp(stream[c], sudden) THEN ARDP_Disconnect(c)
           ELSE {[status |-> "OK", conn |-> ardp[c]]} :
    /\ stream' = [stream EXCEPT ![c] = Disconnect(@, sudden, status, r.status)]
    /\ ardp' = [ardp EXCEPT ![c] = r.conn]

\* The three-way handshake ends, well or by its timer.
HandshakeEnds(c, ok) ==
  /\ ardp[c].state = "SYN"
  /\ ardp' = [ardp EXCEPT ![c].state = IF ok THEN "OPEN" ELSE "CLOSED"]
  /\ queue' = Append(queue, [cmd |-> "CONNECT_CB", conn |-> c, ok |-> ok])
  /\ UNCHANGED <<ep, stream, disp, writer, connector, currAuth, currConn, used, freed, fault>>

Acknowledged(c, b) ==
  /\ ardp[c].state = "OPEN" /\ b \in ardp[c].held
  /\ ardp' = [ardp EXCEPT ![c].held = @ \ {b}]
  /\ queue' = Append(queue, [cmd |-> "SEND_CB", conn |-> c, buf |-> b])
  /\ UNCHANGED <<ep, stream, disp, writer, connector, currAuth, currConn, used, freed, fault>>

Received(c) ==
  /\ ardp[c].state = "OPEN" /\ ardp[c].left > 0
  /\ ardp' = [ardp EXCEPT ![c].rcv = @ + 1, ![c].left = @ - 1]
  /\ queue' = Append(queue, [cmd |-> "RECV_CB", conn |-> c])
  /\ UNCHANGED <<ep, stream, disp, writer, connector, currAuth, currConn, used, freed, fault>>

\* Disconnect with a reason: a RST, an illegal segment, a timeout.
ConnectionLost(c) ==
  /\ ardp[c].state \in {"SYN", "OPEN"}
  /\ \E sends \in Flushed(c, ardp[c].held) :
       queue' = queue \o sends \o <<[cmd |-> "DISCONNECT_CB", conn |-> c, status |-> "REMOTE"]>>
  /\ ardp' = [ardp EXCEPT ![c].state = "CLOSING", ![c].held = {}]
  /\ UNCHANGED <<ep, stream, disp, writer, connector, currAuth, currConn, used, freed, fault>>

\* timewait is long enough for the dispatcher to have taken the ConnectCb.
TimeWaitOver(c) ==
  /\ [cmd |-> "CONNECT_CB", conn |-> c, ok |-> TRUE] \notin {queue[i] : i \in DOMAIN queue}
  /\ disp.conn = c => disp.pc \notin {"start", "register", "registered", "woken"}

\* DisconnectTimerHandler: the answer to ARDP_Disconnect, and the end of the
\* record as soon as the upper layer has returned its buffers.
DisconnectTimer(c) ==
  /\ \/ /\ ardp[c].state = "LOCAL"
        /\ \E sends \in Flushed(c, ardp[c].held) :
             queue' = queue \o sends \o <<[cmd |-> "DISCONNECT_CB", conn |-> c, status |-> "OK"]>>
     \/ ardp[c].state = "CLOSING" /\ ardp[c].rcv = 0 /\ TimeWaitOver(c) /\ queue' = queue
  /\ ardp' = [ardp EXCEPT ![c].state = IF ardp[c].rcv = 0 THEN "gone" ELSE "CLOSING",
                          ![c].held = {}]
  /\ UNCHANGED <<ep, stream, disp, writer, connector, currAuth, currConn, used, freed, fault>>

\* AcceptCb: a passive connection gets an endpoint on m_preList, or is
\* refused, for want of a slot or for what its BusHello says.
NoSlot == currAuth + 1 > MaxAuth \/ (currAuth + 1) + (currConn + 1) > MaxConn + 1

AcceptCb(c) ==
  /\ ardp[c].state = "none"
  /\ \/ /\ NoSlot
        /\ currConn' = currConn + 1
        /\ ardp' = [ardp EXCEPT ![c].state = "gone"]
        /\ UNCHANGED <<ep, currAuth>>
     \/ /\ ~NoSlot
        /\ ardp' = [ardp EXCEPT ![c].state = "gone"]
        /\ UNCHANGED <<ep, currAuth, currConn>>
     \/ /\ ~NoSlot
        /\ ep' = [ep EXCEPT ![c] = NewEndpoint("auth")]
        /\ ardp' = [ardp EXCEPT ![c].state = "SYN"]
        /\ currAuth' = currAuth + 1
        /\ UNCHANGED currConn
  /\ UNCHANGED <<stream, queue, disp, writer, connector, used, freed, fault>>
-----------------------------------------------------------------------------
(* Stop(): a half under the endpoint list lock, then WakeThreadSet and         *)
(* Disconnect.  Only the thread that finds EP_STARTED does the second half.    *)

StoppedEp(e)        == IF e.state = "STARTED" THEN [e EXCEPT !.state = "STOPPING"] ELSE e
StoppedStream(e, s) == IF e.state = "INITIALIZED" THEN EarlyExit(s) ELSE s
StopFaults(e)       == Failing("StopListed", e.state = "STARTED" => e.list \in {"auth", "endpoint"})

\* A thread of the daemon stops an endpoint it knows.
Stop(c) ==
  /\ ep[c].known /\ ep[c].state = "STARTED"
  /\ ep' = [ep EXCEPT ![c] = [StoppedEp(@) EXCEPT !.stopper = "wake"]]
  /\ fault' = fault \cup StopFaults(ep[c])
  /\ UNCHANGED <<stream, ardp, queue, disp, writer, connector, currAuth, currConn, used, freed>>

StopWake(c) ==
  /\ ep[c].stopper = "wake"
  /\ stream' = [stream EXCEPT ![c] = WakeThreadSet(@)]
  /\ ep' = [ep EXCEPT ![c].stopper = "disconnect"]
  /\ UNCHANGED <<ardp, queue, disp, writer, connector, currAuth, currConn, used, freed, fault>>

StopDisconnect(c) ==
  /\ ep[c].stopper = "disconnect"
  /\ StreamDisconnect(c, FALSE, "LOCAL_DISCONNECT")
  /\ ep' = [ep EXCEPT ![c].stopper = "none"]
  /\ UNCHANGED <<queue, disp, writer, connector, currAuth, currConn, used, freed, fault>>

-----------------------------------------------------------------------------
(* PushMessage and PushBytes, by a thread of the daemon or, when it registers  *)
(* an endpoint or routes what it has received, by the dispatcher.              *)

Goto(t, pc) == writer' = [writer EXCEPT ![t].pc = pc]

\* Only the dispatcher looks at what PushMessage returns.
Leave(t, ok) == writer' = [writer EXCEPT ![t] = [NotWriting EXCEPT !.ok = ok \/ t # Dispatcher]]

Calls(t, c, pc) == writer' = [writer EXCEPT ![t] = [NotWriting EXCEPT !.pc = pc, !.conn = c]]

Deliverable(c) == ep[c].known /\ ep[c].state = "STARTED" /\ ep[c].list = "endpoint"

PushMessage(t, c) ==
  /\ writer[t].pc = "idle" /\ used # Bufs
  /\ Deliverable(c)
  /\ Calls(t, c, "deliver")
  /\ UNCHANGED <<ep, stream, ardp, queue, disp, connector, currAuth, currConn, used, freed, fault>>

\* The same test, by the dispatcher: it knows the endpoint in any state.
Ask ==
  /\ writer[Dispatcher].pc = "ask"
  /\ IF Deliverable(writer[Dispatcher].conn) THEN Goto(Dispatcher, "deliver")
     ELSE Leave(Dispatcher, FALSE)
  /\ UNCHANGED <<ep, stream, ardp, queue, disp, connector, currAuth, currConn, used, freed, fault>>

\* PushBytes looks at m_disc, without a lock, before the thread is on m_threads.
FindDisc(t) ==
  /\ writer[t].pc = "deliver"
  /\ IF stream[writer[t].conn].disc THEN Leave(t, FALSE) ELSE Goto(t, "enter")
  /\ UNCHANGED <<ep, stream, ardp, queue, disp, connector, currAuth, currConn, used, freed, fault>>

Enter(t) ==
  LET b == CHOOSE x \in Bufs \ used : TRUE IN
  /\ writer[t].pc = "enter"
  /\ IF used = Bufs
     THEN Leave(t, TRUE) /\ UNCHANGED <<stream, used>>
     ELSE /\ stream' = [stream EXCEPT ![writer[t].conn] = AddCurrentThread(@, t)]
          /\ used' = used \cup {b}
          /\ writer' = [writer EXCEPT ![t].pc = "send", ![t].buf = b]
  /\ UNCHANGED <<ep, ardp, queue, disp, connector, currAuth, currConn, freed, fault>>

\* delete[] buffer, RemoveCurrentThread, return an error.
GiveUp(t, s) ==
  /\ freed' = freed \cup {writer[t].buf}
  /\ stream' = [stream EXCEPT ![writer[t].conn] = RemoveCurrentThread(s, t)]
  /\ Leave(t, FALSE)

\* The call of ARDP_Send.  When the socket fails, the connection is over, and
\* own: the flush gives back the message of which a part was already queued.
SendBytes(t) ==
  LET c == writer[t].conn IN
  /\ writer[t].pc = "send"
  /\ \/ /\ ~stream[c].conn \/ ardp[c].state # "OPEN"
        /\ GiveUp(t, stream[c]) /\ UNCHANGED <<ardp, queue>>
     \/ /\ stream[c].conn /\ ardp[c].state = "OPEN"
        /\ Cardinality(ardp[c].held) >= SndWindow
        /\ Goto(t, "blocked") /\ UNCHANGED <<stream, ardp, queue, freed>>
     \/ /\ stream[c].conn /\ ardp[c].state = "OPEN"
        /\ Cardinality(ardp[c].held) < SndWindow
        /\ \/ /\ ardp' = [ardp EXCEPT ![c].held = @ \cup {writer[t].buf}]
              /\ Goto(t, "sent") /\ UNCHANGED <<stream, queue, freed>>
           \/ /\ \E own \in SUBSET {writer[t].buf} : \E sends \in Flushed(c, ardp[c].held \cup own) :
                   queue' = queue \o sends \o <<[cmd |-> "DISCONNECT_CB", conn |-> c, status |-> "SOCKET"]>>
              /\ ardp' = [ardp EXCEPT ![c].state = "CLOSING", ![c].held = {}]
              /\ GiveUp(t, stream[c])
  /\ UNCHANGED <<ep, disp, connector, currAuth, currConn, used, fault>>

Sent(t) ==
  LET c == writer[t].conn IN
  /\ writer[t].pc = "sent"
  /\ stream' = [stream EXCEPT ![c] = RemoveCurrentThread(NoteSent(@, writer[t].buf), t)]
  /\ Leave(t, TRUE)
  /\ UNCHANGED <<ep, ardp, queue, disp, connector, currAuth, currConn, used, freed, fault>>

Blocked(t) ==
  LET c == writer[t].conn IN
  /\ writer[t].pc = "blocked"
  /\ IF stream[c].writesOutstanding = 0
     THEN Goto(t, "send") /\ UNCHANGED stream
     ELSE Goto(t, "waiting") /\ stream' = [stream EXCEPT ![c] = BeginWait(@)]
  /\ UNCHANGED <<ep, ardp, queue, disp, connector, currAuth, currConn, used, freed, fault>>

\* Mutant: a wait without a time limit.
WaitEndsByEvent(s, late) == s.writeEvent
WaitEnds(s, late)        == late \/ s.writeEvent

\* Event::Wait returns because the event is set or, late is TRUE, because the
\* time for this write is over.
Woken(t, late) ==
  LET c == writer[t].conn IN
  /\ writer[t].pc = "waiting"
  /\ WaitEnds(stream[c], late)
  /\ IF stream[c].disc \/ late
     THEN GiveUp(t, EndWait(stream[c]))
     ELSE /\ stream' = [stream EXCEPT ![c] = EndWait(@)]
          /\ Goto(t, "send") /\ UNCHANGED freed
  /\ UNCHANGED <<ep, ardp, queue, disp, connector, currAuth, currConn, used, fault>>

WriterStep(t) ==
  FindDisc(t) \/ Enter(t) \/ SendBytes(t) \/ Sent(t) \/ Blocked(t) \/ \E late \in BOOLEAN : Woken(t, late)

-----------------------------------------------------------------------------
(* The dispatcher: it takes a command from the queue, then does what is left  *)
(* of it lock by lock.                                                        *)

Cmd(cmd, c) == disp.pc = "idle" /\ queue # <<>> /\ Head(queue).cmd = cmd /\ Head(queue).conn = c
Listed(c)   == ep[c].list = "endpoint"

\* Mutant: the move is not counted.
MovedUncounted == currAuth' = currAuth - 1 /\ UNCHANGED currConn

\* From m_authList to m_endpointList.
Moved == currAuth' = currAuth - 1 /\ currConn' = currConn + 1

Then(pc, c) == disp' = IF pc = "idle" THEN Idle ELSE [pc |-> pc, conn |-> c]
At(pc, c)   == disp.pc = pc /\ disp.conn = c

\* DoConnectCb for an accepted connection: from m_authList to m_endpointList,
\* then Start() or, when the handshake has failed, Stop() and release.
DoConnectCbPassive(c) ==
  LET ok == Head(queue).ok IN
  /\ ~Active(c) /\ Cmd("CONNECT_CB", c)
  /\ queue' = Tail(queue)
  /\ IF ep[c].list = "auth"
     THEN /\ ep' = [ep EXCEPT ![c].list = "endpoint"]
          /\ Moved
          /\ Then(IF ok THEN "start" ELSE "release", c)
          /\ IF ok THEN UNCHANGED <<stream, ardp>>
             ELSE \E r \in ARDP_Disconnect(c) :
                    /\ stream' = [stream EXCEPT ![c] =
                         EarlyExit(Disconnect(@, FALSE, "LOCAL_DISCONNECT", r.status))]
                    /\ ardp' = [ardp EXCEPT ![c] = r.conn]
     ELSE /\ Then("idle", c)
          /\ UNCHANGED <<ep, stream, ardp, currAuth, currConn>>
  /\ UNCHANGED <<writer, connector, used, freed, fault>>

\* Connect() has its entry in m_connectThreads, DoConnectCb finds it by the
\* record's id, which is no longer there when the record is deleted.
Entered(c)  == connector[c] \in {"waiting", "woken", "timed out"}
HasEntry(c) == Entered(c) /\ Valid(c)
SetEvent(c) == connector' = [connector EXCEPT ![c] = IF @ = "waiting" THEN "woken" ELSE @]

\* DoConnectCb for a connection that this side has opened: the endpoint is made
\* here, if Connect() is still there to want it and the BusHello reply is good.
DoConnectCbActive(c, goodReply) ==
  /\ Active(c) /\ Cmd("CONNECT_CB", c)
  /\ queue' = Tail(queue)
  /\ fault' = fault \cup Failing("NoContext", Valid(c))
  /\ \/ /\ ~HasEntry(c)
        /\ Then("release", c) /\ UNCHANGED <<ep, connector, currConn>>
     \/ /\ HasEntry(c) /\ ~(Head(queue).ok /\ goodReply)
        /\ SetEvent(c) /\ Then("release", c) /\ UNCHANGED <<ep, currConn>>
     \/ /\ HasEntry(c) /\ Head(queue).ok /\ goodReply
        /\ ep' = [ep EXCEPT ![c] = NewEndpoint("endpoint")]
        /\ currConn' = currConn + 1
        /\ Then("start", c) /\ UNCHANGED connector
  /\ UNCHANGED <<stream, ardp, writer, currAuth, used, freed>>

ARDP_ReleaseConnection(c) ==
  /\ At("release", c)
  /\ ardp' = [ardp EXCEPT ![c].state = "gone", ![c].rcv = 0]
  /\ Then("idle", c)
  /\ UNCHANGED <<ep, stream, queue, writer, connector, currAuth, currConn, used, freed, fault>>

\* Start() under the locks, and its call of RegisterEndpoint without them.
Start(c) ==
  /\ At("start", c)
  /\ fault' = fault \cup Failing("StartState", ep[c].state = "INITIALIZED" /\ Listed(c)
                                               /\ ThreadSetEmpty(stream[c]))
  /\ ep' = [ep EXCEPT ![c].state = "STARTED"]
  /\ Then("register", c)
  /\ UNCHANGED <<stream, ardp, queue, writer, connector, currAuth, currConn, used, freed>>

\* The daemon knows the endpoint and sends it the names it has: the dispatcher
\* is a writer too.  Stop() may have come before the message.
RegisterEndpoint(c) ==
  /\ At("register", c)
  /\ ep' = [ep EXCEPT ![c].known = TRUE]
  /\ Calls(Dispatcher, c, "ask")
  /\ Then("registered", c)
  /\ UNCHANGED <<stream, ardp, queue, connector, currAuth, currConn, used, freed, fault>>

\* RegisterEndpoint returns with the status of that message.
Registered(c) ==
  /\ At("registered", c) /\ writer[Dispatcher].pc = "idle"
  /\ ep' = [ep EXCEPT ![c].registered = writer[Dispatcher].ok]
  /\ writer' = [writer EXCEPT ![Dispatcher] = NotWriting]
  /\ Then(IF Active(c) THEN "woken" ELSE "idle", c)
  /\ UNCHANGED <<stream, ardp, queue, connector, currAuth, currConn, used, freed, fault>>

\* The locked half of a Stop() that the dispatcher calls.
DispatcherStop(c) ==
  /\ ep' = [ep EXCEPT ![c] = StoppedEp(@)]
  /\ stream' = [stream EXCEPT ![c] = StoppedStream(ep[c], @)]
  /\ fault' = fault \cup StopFaults(ep[c])
  /\ Then(IF ep[c].state = "STARTED" THEN "wake" ELSE "idle", c)

\* DoConnectCb after Start(): wake Connect(), or stop what nobody waits for.
DoConnectCbWakes(c) ==
  /\ At("woken", c)
  /\ IF HasEntry(c)
     THEN SetEvent(c) /\ Then("idle", c) /\ UNCHANGED <<ep, stream, fault>>
     ELSE DispatcherStop(c) /\ UNCHANGED connector
  /\ UNCHANGED <<ardp, queue, writer, currAuth, currConn, used, freed>>

\* The other half of the dispatcher's Stop().
DispatcherWakes(c) ==
  /\ At("wake", c)
  /\ stream' = [stream EXCEPT ![c] = WakeThreadSet(@)]
  /\ Then("disconnect", c)
  /\ UNCHANGED <<ep, ardp, queue, writer, connector, currAuth, currConn, used, freed, fault>>

DispatcherDisconnects(c) ==
  /\ At("disconnect", c)
  /\ StreamDisconnect(c, FALSE, "LOCAL_DISCONNECT")
  /\ Then("idle", c)
  /\ UNCHANGED <<ep, queue, writer, connector, currAuth, currConn, used, freed, fault>>

\* Mutant: m_sentSet is not asked.
SentAnyway(c, b) == TRUE
WasSent(c, b)    == b \in stream[c].sentSet

\* SendCb: the buffer is deleted if it is known, and then a writer may go on.
SendCb(c) ==
  LET b == Head(queue).buf IN
  /\ Cmd("SEND_CB", c)
  /\ queue' = Tail(queue)
  /\ IF Listed(c) /\ WasSent(c, b)
     THEN /\ stream' = [stream EXCEPT ![c] = ForgetSent(@, b)]
          /\ freed' = freed \cup {b}
          /\ fault' = fault \cup Failing("DoubleFree", b \notin freed)
     ELSE UNCHANGED <<stream, freed, fault>>
  /\ Then(IF Listed(c) THEN "sent" ELSE "idle", c)
  /\ UNCHANGED <<ep, ardp, writer, connector, currAuth, currConn, used>>

SendCbWakes(c) ==
  /\ At("sent", c)
  /\ stream' = [stream EXCEPT ![c] = SetWriteEvent(@)]
  /\ Then("idle", c)
  /\ UNCHANGED <<ep, ardp, queue, writer, connector, currAuth, currConn, used, freed, fault>>

\* Mutant: the record is not looked for.
RecvReadyAlways(c) == ardp' = [ardp EXCEPT ![c].rcv = @ - 1]
ARDP_RecvReady(c)  == ardp' = [ardp EXCEPT ![c].rcv = IF Valid(c) THEN @ - 1 ELSE @]

\* RecvCb: what is for an endpoint that does not run, or for none, goes back at
\* once; otherwise the router has it first.
RecvCb(c) ==
  /\ Cmd("RECV_CB", c)
  /\ queue' = Tail(queue)
  /\ IF Listed(c) /\ ep[c].state = "STARTED"
     THEN Then("received", c) /\ UNCHANGED ardp
     ELSE Then("idle", c) /\ ARDP_RecvReady(c)
  /\ UNCHANGED <<ep, stream, writer, connector, currAuth, currConn, used, freed, fault>>

\* The router sends a received message on over an endpoint, perhaps this one.
Route(c, d) ==
  /\ At("received", c) /\ ~(used = Bufs) /\ writer[Dispatcher].pc = "idle"
  /\ ep[d].known
  /\ Calls(Dispatcher, d, "ask")
  /\ Then("routed", c)
  /\ UNCHANGED <<ep, stream, ardp, queue, connector, currAuth, currConn, used, freed, fault>>

RecvCbReturns(c) ==
  /\ At("received", c) \/ At("routed", c)
  /\ writer[Dispatcher].pc = "idle"
  /\ ARDP_RecvReady(c)
  /\ writer' = [writer EXCEPT ![Dispatcher] = NotWriting]
  /\ Then("idle", c)
  /\ UNCHANGED <<ep, stream, queue, connector, currAuth, currConn, used, freed, fault>>

\* DisconnectCb, which ends in a Stop().
DisconnectCb(c) ==
  /\ Cmd("DISCONNECT_CB", c)
  /\ queue' = Tail(queue)
  /\ IF Listed(c)
     THEN /\ StreamDisconnect(c, Head(queue).status # "OK", Head(queue).status)
          /\ ep' = [ep EXCEPT ![c].conn = FALSE]
          /\ Then("lost", c)
     ELSE Then("idle", c) /\ UNCHANGED <<ep, stream, ardp>>
  /\ UNCHANGED <<writer, connector, currAuth, currConn, used, freed, fault>>

DisconnectCbStops(c) ==
  /\ At("lost", c)
  /\ DispatcherStop(c)
  /\ UNCHANGED <<ardp, queue, writer, connector, currAuth, currConn, used, freed>>

\* Exit: the daemon lets go of the endpoint, then it is EP_DONE.
Exit(c) ==
  /\ Cmd("EXIT", c)
  /\ queue' = Tail(queue)
  /\ IF Listed(c)
     THEN /\ ep' = [ep EXCEPT ![c].known = FALSE, ![c].exited = TRUE, ![c].registered = FALSE]
          /\ Then("exit", c)
     ELSE Then("idle", c) /\ UNCHANGED ep
  /\ UNCHANGED <<stream, ardp, writer, connector, currAuth, currConn, used, freed, fault>>

ExitDone(c) ==
  /\ At("exit", c)
  /\ fault' = fault \cup Failing("ExitState", ep[c].state = "JOINED")
  /\ ep' = [ep EXCEPT ![c].state = "DONE"]
  /\ Then("idle", c)
  /\ UNCHANGED <<stream, ardp, queue, writer, connector, currAuth, currConn, used, freed>>

DispatcherStep(c) ==
  \/ DoConnectCbPassive(c) \/ \E good \in BOOLEAN : DoConnectCbActive(c, good)
  \/ ARDP_ReleaseConnection(c) \/ Start(c) \/ RegisterEndpoint(c) \/ Registered(c)
  \/ DoConnectCbWakes(c) \/ DispatcherWakes(c) \/ DispatcherDisconnects(c)
  \/ SendCb(c) \/ SendCbWakes(c) \/ RecvCb(c) \/ RecvCbReturns(c) \/ (\E d \in Conns : Route(c, d))
  \/ DisconnectCb(c) \/ DisconnectCbStops(c) \/ Exit(c) \/ ExitDone(c)

-----------------------------------------------------------------------------
(* Connect(), in a thread of the daemon.                                      *)

Connect(c) ==
  /\ connector[c] = "idle" /\ ardp[c].state = "none"
  /\ connector' = [connector EXCEPT ![c] = "waiting"]
  /\ ardp' = [ardp EXCEPT ![c].state = "SYN"]
  /\ UNCHANGED <<ep, stream, queue, disp, writer, currAuth, currConn, used, freed, fault>>

\* It waits longer than the handshake may take, but not for the dispatcher.
ConnectTimesOut(c) ==
  /\ connector[c] = "waiting" /\ ardp[c].state # "SYN"
  /\ connector' = [connector EXCEPT ![c] = "timed out"]
  /\ UNCHANGED <<ep, stream, ardp, queue, disp, writer, currAuth, currConn, used, freed, fault>>

\* Mutant: the status of the wait is not looked at.
EndpointIfAny(c, status) == IF Listed(c) /\ ep[c].conn THEN "found" ELSE "empty"

\* An endpoint if the event came and the endpoint still has its record.
ConnectResult(c, status) ==
  CASE status = "timed out" -> "failed"
    [] status = "woken" /\ Listed(c) /\ ep[c].conn -> "found"
    [] status = "woken" /\ ~(Listed(c) /\ ep[c].conn) -> "empty"

\* Its entry goes; after the event it looks for the endpoint by its record.
ConnectReturns(c) ==
  /\ connector[c] \in {"woken", "timed out"}
  /\ connector' = [connector EXCEPT ![c] = ConnectResult(c, @)]
  /\ UNCHANGED <<ep, stream, ardp, queue, disp, writer, currAuth, currConn, used, freed, fault>>

-----------------------------------------------------------------------------
(* ManageEndpoints, in the main thread under the endpoint list lock.  The      *)
(* rounds of its two loops touch one endpoint each and are steps here.         *)

\* Mutant: PushMessage does not count itself.
NotWriters(c) == disp.conn = c \/ ep[c].stopper # "none"

\* m_refCount, beyond the main thread's own look.
Inside(c) ==
  \/ \E t \in Threads : writer[t].conn = c
  \/ disp.conn = c \/ ep[c].stopper # "none"

\* An endpoint that is too long on m_authList.  The limit is at least what a
\* handshake may take.
AuthTimeout(c) ==
  /\ ep[c].list = "auth" /\ ardp[c].state # "SYN"
  /\ ep' = [ep EXCEPT ![c] = StoppedEp([@ EXCEPT !.list = "endpoint"])]
  /\ stream' = [stream EXCEPT ![c] = StoppedStream(ep[c], @)]
  /\ Moved
  /\ UNCHANGED <<ardp, queue, disp, writer, connector, used, freed, fault>>

Joinable(c) == ThreadSetEmpty(stream[c]) /\ stream[c].disc

\* Mutant: EXIT is queued by the round that joins, or never.
ExitOnJoin(e) == e.registered /\ ~e.exitScheduled /\ e.state = "STOPPING"
ExitDue(e)    == e.registered /\ ~e.exitScheduled

\* Join(), which has nothing to wait for, and the EXIT command, once.
JoinAndExit(c) ==
  /\ Listed(c) /\ ep[c].state \in {"STOPPING", "JOINED"} /\ Joinable(c)
  /\ ep[c].state = "STOPPING" \/ ExitDue(ep[c])
  /\ ep' = [ep EXCEPT ![c].state = "JOINED", ![c].exitScheduled = @ \/ ExitDue(ep[c])]
  /\ queue' = IF ExitDue(ep[c]) THEN Append(queue, [cmd |-> "EXIT", conn |-> c]) ELSE queue
  /\ UNCHANGED <<stream, ardp, disp, writer, connector, currAuth, currConn, used, freed, fault>>

\* Off the list, and into the destructor with its assertions.
RemoveEndpoint(c) ==
  /\ Listed(c) /\ ep[c].state = "DONE" /\ ep[c].exited /\ ~Inside(c)
  /\ ep' = [ep EXCEPT ![c].list = "gone"]
  /\ currConn' = currConn - 1
  /\ fault' = fault \cup Failing("Destroyed", ThreadSetEmpty(stream[c]) /\ stream[c].disc)
  /\ UNCHANGED <<stream, ardp, queue, disp, writer, connector, currAuth, used, freed>>

ManageEndpoints(c) == AuthTimeout(c) \/ JoinAndExit(c) \/ RemoveEndpoint(c)

-----------------------------------------------------------------------------
NetworkStep(c) ==
  \/ \E ok \in BOOLEAN : HandshakeEnds(c, ok)
  \/ \E b \in Bufs : Acknowledged(c, b)
  \/ Received(c) \/ ConnectionLost(c)

Next ==
  \/ \E c \in Conns : AcceptCb(c) \/ Connect(c) \/ ConnectTimesOut(c) \/ ConnectReturns(c)
  \/ \E c \in Conns : NetworkStep(c) \/ DisconnectTimer(c) \/ DispatcherStep(c) \/ ManageEndpoints(c)
                      \/ Stop(c) \/ StopWake(c) \/ StopDisconnect(c)
  \/ \E t \in Writers, c \in Conns : PushMessage(t, c)
  \/ Ask \/ \E t \in Threads : WriterStep(t)

Spec == Init /\ [][Next]_vars

\* The threads run, and waits with a time limit end.  Nothing is asked of the
\* network, of the other node or of those who call Stop() and PushMessage.
Fairness ==
  /\ \A c \in Conns : /\ WF_vars(DispatcherStep(c)) /\ WF_vars(JoinAndExit(c))
                      /\ WF_vars(RemoveEndpoint(c)) /\ WF_vars(AuthTimeout(c))
                      /\ WF_vars(StopWake(c) \/ StopDisconnect(c)) /\ WF_vars(DisconnectTimer(c))
  /\ \A c \in Conns : WF_vars(\E ok \in BOOLEAN : HandshakeEnds(c, ok))
  /\ \A c \in Conns : WF_vars(ConnectTimesOut(c)) /\ WF_vars(ConnectReturns(c))
  /\ WF_vars(Ask) /\ \A t \in Threads : WF_vars(WriterStep(t))

FairSpec == Spec /\ Fairness

-----------------------------------------------------------------------------
(* Properties *)

\* The assertions of Start(), Stop(), SetEpDone() and the destructor, those of
\* the eight cases of Disconnect(), that DoConnectCb() finds the event of the
\* connection, and that SendCb() never deletes a buffer twice: they hold in
\* every order in which the dispatcher, the daemon's threads and the main
\* thread get the locks.
AssertionsHold == fault = {} /\ \A c \in Conns : stream[c].fault = {}

\* When ManageEndpoints() takes an endpoint off the list and so destroys it, no
\* thread is in any of its methods or waits in its stream, and the daemon has
\* let go of it, though writers and stoppers enter without the list lock.
RemovedIsUnused ==
  \A c \in Conns : ep[c].list = "gone" => ~ep[c].known /\ ThreadSetEmpty(stream[c])
                      /\ disp.conn # c /\ ep[c].stopper = "none" /\ \A t \in Threads : writer[t].conn # c

\* The counters on which AcceptCb() decides, without looking at the lists, are
\* never less than what is on them: m_maxAuth and m_maxConn are kept.
CountersCover ==
  /\ currAuth = Cardinality({c \in Conns : ep[c].list = "auth"})
  /\ currConn >= Cardinality({c \in Conns : Listed(c)})

\* No buffer that PushBytes() or SendCb() has deleted is still queued in ARDP
\* for retransmission or in m_sentSet to be deleted again, also when the socket
\* fails in the middle of a message.
FreedIsUnused ==
  \A c \in Conns : freed \cap (ardp[c].held \cup stream[c].sentSet) = {}

\* An endpoint that Connect() returns has been registered with the daemon,
\* however the dispatcher's DoConnectCb() and the time-out of Connect() meet.
FoundIsRegistered ==
  \A c \in Conns : connector[c] = "found" => ep[c].known \/ ep[c].exited

\* A registered endpoint that stops, whoever stops it and whoever is writing, is
\* joined, unregistered and removed.
RegisteredIsRemoved ==
  \A c \in Conns : ep[c].registered /\ ep[c].state # "STARTED" ~> ep[c].list = "gone"

\* PushMessage() returns, also to the dispatcher, which alone could deliver the
\* SendCb() that its own write waits for.
WritersReturn ==
  \A t \in Threads : writer[t].pc # "idle" ~> writer[t].pc = "idle"

\* DoConnectCb() of a failed passive handshake: "mark the connection for
\* deletion and bug the endpoint management code so it can purge the endpoint".
FailedIsPurged ==
  \A c \in Conns : At("release", c) /\ ~Active(c) ~> ep[c].list = "gone"
=============================================================================
