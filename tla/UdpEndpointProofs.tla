------------------------- MODULE UdpEndpointProofs --------------------------
(* The theorems about UdpEndpoint.tla, for any numbers of connections, threads *)
(* and buffers: to the life of the endpoints are added the places of the       *)
(* buffers, and what the counters count.                                       *)
EXTENDS UdpLifeProofs

-----------------------------------------------------------------------------
(* The buffers.  A buffer belongs to the thread that writes it, then to ARDP   *)
(* and m_sentSet, then to the SendCb in the queue, and is deleted from there.  *)

\* The buffer is in the hands of the thread.
WritesBuf(t, b) == writer[t].pc \in Holding /\ writer[t].buf = b

\* The thread has not given the buffer to ARDP, or ARDP has not taken it.
OwnsBuf(t, b) == WritesBuf(t, b) /\ writer[t].pc # "sent"

\* What ARDP or the stream may still delete or send is allocated.
StoredBufs ==
  /\ freed \subseteq used
  /\ \A c \in Conns : /\ ardp[c].held \subseteq used \ freed
                      /\ stream[c].sentSet \subseteq used \ freed
  /\ \A c \in Conns, d \in Conns : c # d => /\ ardp[c].held \cap ardp[d].held = {}
                                            /\ stream[c].sentSet \cap stream[d].sentSet = {}

\* A thread's buffer is its own, and no SendCb can come for it before ARDP has
\* taken it.
WrittenBufs ==
  \A t \in Threads, b \in Bufs :
    /\ WritesBuf(t, b) => /\ b \in used \ freed
                          /\ \A d \in Conns : b \notin stream[d].sentSet
                          /\ \A u \in Threads : WritesBuf(u, b) => u = t
    /\ OwnsBuf(t, b) => \A d \in Conns : b \notin ardp[d].held /\ ~InQueue(queue, SendCmd(d, b))

\* A SendCb in the queue is for a buffer that ARDP has let go of.
ReturnedBufs ==
  \A c \in Conns, b \in Bufs :
    InQueue(queue, SendCmd(c, b)) => b \in used /\ \A d \in Conns : b \notin ardp[d].held

\* All of it.
Buffers == StoredBufs /\ WrittenBufs /\ ReturnedBufs

\* At first there are no buffers.
LEMMA BuffersInit == Init => Buffers
<1>. SUFFICES ASSUME Init PROVE Buffers
  OBVIOUS
<1>1. /\ used = {} /\ freed = {} /\ queue = << >>
      /\ \A c \in Conns : ardp[c].held = {} /\ stream[c].sentSet = {}
      /\ \A t \in Threads : writer[t].pc = "idle"
  BY DEF Init, NewStream, NotWriting
<1>2. StoredBufs
  BY <1>1 DEF StoredBufs
<1>3. WrittenBufs
  BY <1>1 DEF WrittenBufs, WritesBuf, OwnsBuf, Holding
<1>4. ReturnedBufs
  BY <1>1, EmptyQueue DEF ReturnedBufs
<1>. QED BY <1>2, <1>3, <1>4 DEF Buffers

\* A step that allocates and deletes nothing: ARDP may have returned buffers
\* that it held, and threads may have left.
BufsMoved ==
  /\ used' = used /\ freed' = freed
  /\ \A c \in Conns : ardp'[c].held \subseteq ardp[c].held /\ stream'[c].sentSet = stream[c].sentSet
  /\ \A t \in Threads, b \in Bufs : (WritesBuf(t, b)' => WritesBuf(t, b)) /\ (OwnsBuf(t, b)' => OwnsBuf(t, b))
  /\ \A c \in Conns, b \in Bufs : InQueue(queue', SendCmd(c, b)) =>
       InQueue(queue, SendCmd(c, b)) \/ (b \in ardp[c].held /\ b \notin ardp'[c].held)

\* Then every buffer is still in one place.
LEMMA BuffersMoved ==
  ASSUME Shape, Buffers, BufsMoved
  PROVE  Buffers'
<1>1. StoredBufs'
  BY DEF Buffers, StoredBufs, BufsMoved
<1>2. WrittenBufs'
  BY DEF Buffers, WrittenBufs, BufsMoved
<1>3. ReturnedBufs'
  BY DEF Buffers, ReturnedBufs, StoredBufs, BufsMoved
<1>. QED BY <1>1, <1>2, <1>3 DEF Buffers

\* ARDP_Disconnect() flushes nothing.
LEMMA DisconnectHeld ==
  ASSUME Shape, NEW c \in Conns, NEW sudden, NEW status, StreamDisconnect(c, sudden, status)
  PROVE  ardp'[c].held = ardp[c].held
<1>0. ardp \in [Conns -> RecordShape] /\ ardp[c] \in RecordShape
  BY DEF Shape
<1>1. PICK r \in IF AsksArdp(stream[c], sudden) THEN ARDP_Disconnect(c)
                 ELSE {[status |-> "OK", conn |-> ardp[c]]} : ardp'[c] = r.conn
  BY <1>0 DEF StreamDisconnect
<1>2. r.conn \in {ardp[c], [ardp[c] EXCEPT !.state = "LOCAL"]}
  BY <1>1, ArdpDisconnectShape
<1>. QED BY <1>0, <1>1, <1>2 DEF RecordShape

\* Steps at a connection other than SendCb() move buffers at most.
LEMMA StepAtBuffers ==
  ASSUME Shape, Threading, NEW c \in Conns, StepAt(c), ~SendCb(c)
  PROVE  BufsMoved
<1>0. /\ stream \in [Conns -> StreamShape] /\ ardp \in [Conns -> RecordShape]
      /\ stream[c] \in StreamShape /\ ardp[c] \in RecordShape /\ ardp[c].held \in SUBSET Bufs
      /\ writer \in [Threads -> WriterShape] /\ queue \in Seq(Commands) /\ Dispatcher \in Threads
  BY EndpointAssumption DEF Shape, RecordShape
<1>1. used' = used /\ freed' = freed
  BY DEF StepAt, AcceptCb, Connect, ConnectTimesOut, ConnectReturns, NetworkStep, HandshakeEnds, Acknowledged,
     Received, ConnectionLost, DisconnectTimer, ManageEndpoints, AuthTimeout, JoinAndExit, RemoveEndpoint,
     Stop, StopWake, StopDisconnect, DispatcherStep, DoConnectCbPassive, DoConnectCbActive,
     ARDP_ReleaseConnection, Start, RegisterEndpoint, Registered, DoConnectCbWakes, DispatcherStop,
     DispatcherWakes, DispatcherDisconnects, SendCbWakes, RecvCb, RecvCbReturns, Route, DisconnectCb,
     DisconnectCbStops, Exit, ExitDone
<1>2. \A t \in Threads, b \in Bufs : (WritesBuf(t, b)' => WritesBuf(t, b)) /\ (OwnsBuf(t, b)' => OwnsBuf(t, b))
  <2>1. CASE writer' = writer
    BY <2>1 DEF WritesBuf, OwnsBuf
  <2>2. ASSUME NEW w, writer' = [writer EXCEPT ![Dispatcher] = w], w.pc \notin Holding
        PROVE  \A t \in Threads, b \in Bufs : (WritesBuf(t, b)' => WritesBuf(t, b)) /\ (OwnsBuf(t, b)' => OwnsBuf(t, b))
    BY <1>0, <2>2 DEF WritesBuf, OwnsBuf
  <2>3. NotWriting.pc \notin Holding /\ \A d : [NotWriting EXCEPT !.pc = "ask", !.conn = d].pc \notin Holding
    BY DEF NotWriting, Holding
  <2>4. CASE RegisterEndpoint(c) \/ Registered(c) \/ RecvCbReturns(c) \/ \E d \in Conns : Route(c, d)
    BY <2>2, <2>3, <2>4 DEF RegisterEndpoint, Registered, RecvCbReturns, Route, Calls
  <2>5. CASE ~(RegisterEndpoint(c) \/ Registered(c) \/ RecvCbReturns(c) \/ \E d \in Conns : Route(c, d))
    <3>1. writer' = writer
      BY <2>5 DEF StepAt, AcceptCb, Connect, ConnectTimesOut, ConnectReturns, NetworkStep, HandshakeEnds,
         Acknowledged, Received, ConnectionLost, DisconnectTimer, ManageEndpoints, AuthTimeout, JoinAndExit,
         RemoveEndpoint, Stop, StopWake, StopDisconnect, DispatcherStep, DoConnectCbPassive, DoConnectCbActive,
         ARDP_ReleaseConnection, Start, DoConnectCbWakes, DispatcherWakes, DispatcherDisconnects, SendCbWakes,
         RecvCb, DisconnectCb, DisconnectCbStops, Exit, ExitDone
    <3>. QED BY <2>1, <3>1
  <2>. QED BY <2>4, <2>5
<1>3. ASSUME NEW d \in Conns, d # c
      PROVE  ardp'[d] = ardp[d] /\ stream'[d] = stream[d]
  <2>1. CASE Route(c, d)
    BY <2>1 DEF Route
  <2>2. CASE ~Route(c, d)
    BY <1>3, <2>2, OthersUntouched DEF Untouched
  <2>. QED BY <2>1, <2>2
<1>4. stream'[c].sentSet = stream[c].sentSet
  <2>1. ASSUME NEW sudden \in BOOLEAN, NEW status \in Statuses, StreamDisconnect(c, sudden, status)
        PROVE  stream'[c].sentSet = stream[c].sentSet
    <3>1. PICK r \in IF AsksArdp(stream[c], sudden) THEN ARDP_Disconnect(c)
                     ELSE {[status |-> "OK", conn |-> ardp[c]]} :
            stream'[c] = Disconnect(stream[c], sudden, status, r.status)
      BY <1>0, <2>1 DEF StreamDisconnect
    <3>2. r.status \in Statuses
      BY ArdpDisconnectShape DEF Statuses
    <3>3. Disconnected(stream[c], sudden, status, r.status, stream'[c])
      BY <1>0, <2>1, <3>1, <3>2, DisconnectEffect
    <3>. QED BY <3>3 DEF Disconnected
  <2>2. /\ EarlyExit(stream[c]).sentSet = stream[c].sentSet
        /\ WakeThreadSet(stream[c]).sentSet = stream[c].sentSet
        /\ SetWriteEvent(stream[c]).sentSet = stream[c].sentSet
        /\ \A e : StoppedStream(e, stream[c]).sentSet = stream[c].sentSet
    BY <1>0 DEF EarlyExit, WakeThreadSet, SetWriteEvent, StoppedStream, StreamShape
  <2>3. CASE stream'[c] = stream[c]
    BY <2>3
  <2>4. CASE DoConnectCbPassive(c)
    <3>1. ASSUME NEW r \in ARDP_Disconnect(c),
                 stream' = [stream EXCEPT ![c] =
                              EarlyExit(Disconnect(@, FALSE, "LOCAL_DISCONNECT", r.status))]
          PROVE  stream'[c].sentSet = stream[c].sentSet
      <4>. DEFINE n == Disconnect(stream[c], FALSE, "LOCAL_DISCONNECT", r.status)
      <4>1. r.status \in Statuses /\ "LOCAL_DISCONNECT" \in Statuses /\ FALSE \in BOOLEAN
        BY ArdpDisconnectShape DEF Statuses
      <4>2. Disconnected(stream[c], FALSE, "LOCAL_DISCONNECT", r.status, n) /\ n \in StreamShape
        BY <1>0, <4>1, DisconnectEffect, DisconnectShape
      <4>. HIDE DEF n
      <4>3. stream'[c] = EarlyExit(n)
        BY <1>0, <3>1 DEF n
      <4>. QED BY <4>2, <4>3 DEF Disconnected, EarlyExit, StreamShape
    <3>. QED BY <2>4, <3>1 DEF DoConnectCbPassive
  <2>5. CASE AuthTimeout(c) \/ DoConnectCbWakes(c) \/ DisconnectCbStops(c)
    BY <1>0, <2>2, <2>5 DEF AuthTimeout, DoConnectCbWakes, DisconnectCbStops, DispatcherStop
  <2>6. CASE StopWake(c) \/ DispatcherWakes(c) \/ SendCbWakes(c)
    BY <1>0, <2>2, <2>6 DEF StopWake, DispatcherWakes, SendCbWakes
  <2>7. CASE StopDisconnect(c) \/ DispatcherDisconnects(c)
    BY <2>1, <2>7 DEF StopDisconnect, DispatcherDisconnects, Statuses
  <2>8. CASE DisconnectCb(c)
    <3>1. Head(queue).status \in Statuses /\ (Head(queue).status # "OK") \in BOOLEAN
      BY <2>8, HeadShape DEF DisconnectCb, Cmd, Statuses
    <3>. QED BY <2>1, <2>8, <3>1 DEF DisconnectCb
  <2>9. CASE \/ AcceptCb(c) \/ Connect(c) \/ ConnectTimesOut(c) \/ ConnectReturns(c)
             \/ NetworkStep(c) \/ DisconnectTimer(c) \/ JoinAndExit(c) \/ RemoveEndpoint(c) \/ Stop(c)
             \/ (\E good \in BOOLEAN : DoConnectCbActive(c, good)) \/ ARDP_ReleaseConnection(c) \/ Start(c)
             \/ RegisterEndpoint(c) \/ Registered(c) \/ RecvCb(c) \/ RecvCbReturns(c)
             \/ (\E d \in Conns : Route(c, d)) \/ Exit(c) \/ ExitDone(c)
    <3>1. stream' = stream
      BY <2>9 DEF AcceptCb, Connect, ConnectTimesOut, ConnectReturns, NetworkStep, HandshakeEnds, Acknowledged,
         Received, ConnectionLost, DisconnectTimer, JoinAndExit, RemoveEndpoint, Stop, DoConnectCbActive,
         ARDP_ReleaseConnection, Start, RegisterEndpoint, Registered, RecvCb, RecvCbReturns, Route, Exit, ExitDone
    <3>. QED BY <3>1
  <2>. QED BY <2>4, <2>5, <2>6, <2>7, <2>8, <2>9 DEF StepAt, ManageEndpoints, DispatcherStep
<1>5. /\ ardp'[c].held \subseteq ardp[c].held
      /\ \A b \in Bufs : InQueue(queue', SendCmd(c, b)) =>
           InQueue(queue, SendCmd(c, b)) \/ (b \in ardp[c].held /\ b \notin ardp'[c].held)
      /\ \A d \in Conns \ {c}, b \in Bufs : InQueue(queue', SendCmd(d, b)) => InQueue(queue, SendCmd(d, b))
  <2>0. \A d, b : SendCmd(d, b).cmd = "SEND_CB" /\ SendCmd(d, b).conn = d /\ SendCmd(d, b).buf = b
    BY DEF SendCmd
  <2>1. ASSUME NEW x \in Commands, x.cmd # "SEND_CB", queue' = Append(queue, x)
        PROVE  \A d \in Conns, b \in Bufs : InQueue(queue', SendCmd(d, b)) => InQueue(queue, SendCmd(d, b))
    BY <1>0, <2>0, <2>1, QueueAppend
  <2>2. ASSUME NEW cmd, Cmd(cmd, c), queue' = Tail(queue)
        PROVE  \A d \in Conns, b \in Bufs : InQueue(queue', SendCmd(d, b)) => InQueue(queue, SendCmd(d, b))
    BY <2>2, TakeCommand DEF Taken
  <2>3. ASSUME NEW status \in {"OK", "REMOTE", "SOCKET"}, FlushedTo(queue, c, ardp[c].held, status, queue')
        PROVE  \A d \in Conns, b \in Bufs : InQueue(queue', SendCmd(d, b)) =>
                 InQueue(queue, SendCmd(d, b)) \/ (d = c /\ b \in ardp[c].held)
    <3>1. FlushAdds(queue, c, ardp[c].held, status, queue')
      BY <1>0, <2>3, QueueFlush
    <3>2. DiscCmd(c, status).cmd = "DISCONNECT_CB"
      BY DEF DiscCmd
    <3>. QED BY <2>0, <3>1, <3>2 DEF FlushAdds
  <2>4. ASSUME NEW b \in Bufs, Acknowledged(c, b)
        PROVE  /\ ardp'[c].held = ardp[c].held \ {b} /\ b \in ardp[c].held
               /\ \A d \in Conns, e \in Bufs : InQueue(queue', SendCmd(d, e)) =>
                    InQueue(queue, SendCmd(d, e)) \/ (d = c /\ e = b)
    <3>1. ardp'[c].held = ardp[c].held \ {b} /\ b \in ardp[c].held
      BY <1>0, <2>4 DEF Acknowledged, RecordShape
    <3>2. queue' = Append(queue, SendCmd(c, b)) /\ SendCmd(c, b) \in Commands
      BY <2>4 DEF Acknowledged, SendCmd, Commands
    <3>3. \A y : InQueue(queue', y) <=> InQueue(queue, y) \/ y = SendCmd(c, b)
      BY <1>0, <3>2, QueueAppend
    <3>. QED BY <2>0, <3>1, <3>3
  <2>5. CASE \E b \in Bufs : Acknowledged(c, b)
    BY <2>4, <2>5
  <2>6. CASE ConnectionLost(c)
    <3>1. FlushedTo(queue, c, ardp[c].held, "REMOTE", queue') /\ ardp'[c].held = {}
      BY <1>0, <2>6 DEF ConnectionLost, FlushedTo, RecordShape
    <3>. QED BY <2>3, <3>1
  <2>7. CASE DisconnectTimer(c)
    <3>1. (FlushedTo(queue, c, ardp[c].held, "OK", queue') \/ queue' = queue) /\ ardp'[c].held = {}
      BY <1>0, <2>7 DEF DisconnectTimer, FlushedTo, RecordShape
    <3>. QED BY <2>3, <3>1
  <2>8. CASE (\E ok \in BOOLEAN : HandshakeEnds(c, ok)) \/ Received(c) \/ JoinAndExit(c)
    <3>1. ardp'[c].held = ardp[c].held
      BY <1>0, <2>8 DEF HandshakeEnds, Received, JoinAndExit, RecordShape
    <3>2. queue' = queue \/ \E x \in Commands : x.cmd # "SEND_CB" /\ queue' = Append(queue, x)
      BY <2>8, CommandsShape DEF HandshakeEnds, Received, JoinAndExit
    <3>. QED BY <2>1, <3>1, <3>2
  <2>9. CASE \/ AcceptCb(c) \/ Connect(c) \/ ConnectTimesOut(c) \/ ConnectReturns(c)
             \/ AuthTimeout(c) \/ RemoveEndpoint(c) \/ Stop(c) \/ StopWake(c) \/ StopDisconnect(c)
    <3>1. queue' = queue
      BY <2>9 DEF AcceptCb, Connect, ConnectTimesOut, ConnectReturns, AuthTimeout, RemoveEndpoint,
                  Stop, StopWake, StopDisconnect
    <3>2. ardp'[c].held = ardp[c].held
      <4>1. CASE StopDisconnect(c)
        BY <4>1, DisconnectHeld DEF StopDisconnect
      <4>. QED BY <1>0, <2>9, <4>1 DEF AcceptCb, Connect, ConnectTimesOut, ConnectReturns, AuthTimeout,
                   RemoveEndpoint, Stop, StopWake, RecordShape
    <3>. QED BY <3>1, <3>2
  <2>10. CASE DispatcherStep(c)
    <3>1. queue' = queue \/ ((\E cmd : Cmd(cmd, c)) /\ queue' = Tail(queue))
      BY <2>10 DEF DispatcherStep, DoConnectCbPassive, DoConnectCbActive, ARDP_ReleaseConnection,
         Start, RegisterEndpoint, Registered, DoConnectCbWakes, DispatcherWakes, DispatcherDisconnects,
         SendCb, SendCbWakes, RecvCb, RecvCbReturns, Route, DisconnectCb, DisconnectCbStops, Exit, ExitDone
    <3>2. ardp'[c].held = ardp[c].held
      <4>1. CASE DispatcherDisconnects(c) \/ DisconnectCb(c)
        BY <4>1, DisconnectHeld DEF DispatcherDisconnects, DisconnectCb
      <4>2. CASE DoConnectCbPassive(c)
        <5>1. \A r \in ARDP_Disconnect(c) : r.conn \in {ardp[c], [ardp[c] EXCEPT !.state = "LOCAL"]}
          BY ArdpDisconnectShape
        <5>2. \A r \in ARDP_Disconnect(c) : r.conn.held = ardp[c].held
          BY <1>0, <5>1 DEF RecordShape
        <5>. QED BY <1>0, <4>2, <5>2 DEF DoConnectCbPassive
      <4>3. CASE ARDP_ReleaseConnection(c) \/ RecvCb(c) \/ RecvCbReturns(c)
        BY <1>0, <4>3 DEF ARDP_ReleaseConnection, RecvCb, RecvCbReturns, ARDP_RecvReady, RecordShape
      <4>4. CASE \/ (\E good \in BOOLEAN : DoConnectCbActive(c, good)) \/ Start(c) \/ RegisterEndpoint(c)
                 \/ Registered(c) \/ DoConnectCbWakes(c) \/ DispatcherWakes(c) \/ SendCbWakes(c)
                 \/ (\E d \in Conns : Route(c, d)) \/ DisconnectCbStops(c) \/ Exit(c) \/ ExitDone(c)
        BY <4>4 DEF DoConnectCbActive, Start, RegisterEndpoint, Registered, DoConnectCbWakes,
           DispatcherWakes, SendCbWakes, Route, DisconnectCbStops, Exit, ExitDone
      <4>. QED BY <2>10, <4>1, <4>2, <4>3, <4>4 DEF DispatcherStep
    <3>. QED BY <2>2, <3>1, <3>2
  <2>. QED BY <2>5, <2>6, <2>7, <2>8, <2>9, <2>10 DEF StepAt, NetworkStep, ManageEndpoints
<1>. QED BY <1>1, <1>2, <1>3, <1>4, <1>5 DEF BufsMoved

\* SendCb() deletes a buffer that only m_sentSet of this connection has.
LEMMA SendCbBuffers ==
  ASSUME Shape, Threading, Buffers, NEW c \in Conns, SendCb(c)
  PROVE  /\ Buffers'
         /\ Listed(c) /\ WasSent(c, Head(queue).buf) => Head(queue).buf \notin freed
<1>. DEFINE b == Head(queue).buf
<1>0. /\ stream \in [Conns -> StreamShape] /\ stream[c] \in StreamShape /\ queue \in Seq(Commands)
  BY DEF Shape
<1>1. /\ ardp' = ardp /\ writer' = writer /\ used' = used /\ Cmd("SEND_CB", c) /\ queue' = Tail(queue)
  BY DEF SendCb
<1>2. Taken("SEND_CB", c)
  BY <1>1, TakeCommand
<1>3. b \in Bufs /\ Head(queue) = SendCmd(c, b)
  <2>1. Head(queue) \in Commands /\ Head(queue).cmd = "SEND_CB" /\ Head(queue).conn = c
    BY <1>0, <1>1, QueueTail DEF Cmd
  <2>. QED BY <2>1 DEF Commands, SendCmd
<1>4. b \in used /\ \A d \in Conns : b \notin ardp[d].held
  BY <1>2, <1>3 DEF Taken, Buffers, ReturnedBufs
<1>5. \A y : InQueue(queue', y) => InQueue(queue, y)
  BY <1>2 DEF Taken
<1>. HIDE DEF b
<1>6. CASE Listed(c) /\ WasSent(c, b)
  <2>1. stream' = [stream EXCEPT ![c] = ForgetSent(@, b)] /\ freed' = freed \cup {b} /\ b \in stream[c].sentSet
    BY <1>6 DEF SendCb, WasSent, b
  <2>2. /\ stream'[c].sentSet = stream[c].sentSet \ {b}
        /\ \A d \in Conns \ {c} : stream'[d] = stream[d]
    BY <1>0, <2>1 DEF ForgetSent, StreamShape
  <2>3. b \notin freed /\ \A d \in Conns \ {c} : b \notin stream[d].sentSet
    BY <2>1 DEF Buffers, StoredBufs
  <2>4. \A t \in Threads : ~WritesBuf(t, b)
    BY <1>3, <2>1 DEF Buffers, WrittenBufs
  <2>5. StoredBufs'
    <3>1. \A d \in Conns : stream'[d].sentSet = stream[d].sentSet \ {b}
      BY <2>2, <2>3
    <3>. QED BY <1>1, <1>4, <2>1, <3>1 DEF Buffers, StoredBufs
  <2>6. WrittenBufs'
    <3>1. \A d \in Conns : stream'[d].sentSet \subseteq stream[d].sentSet
      BY <2>2
    <3>2. \A t \in Threads : \A e : (WritesBuf(t, e)' <=> WritesBuf(t, e)) /\ (OwnsBuf(t, e)' <=> OwnsBuf(t, e))
      BY <1>1 DEF WritesBuf, OwnsBuf
    <3>. QED BY <1>1, <1>5, <2>1, <2>4, <3>1, <3>2 DEF Buffers, WrittenBufs
  <2>7. ReturnedBufs'
    BY <1>1, <1>5 DEF Buffers, ReturnedBufs
  <2>. QED BY <2>3, <2>5, <2>6, <2>7 DEF Buffers, b
<1>7. CASE ~(Listed(c) /\ WasSent(c, b))
  <2>1. stream' = stream /\ freed' = freed
    BY <1>7 DEF SendCb, b
  <2>2. BufsMoved
    BY <1>1, <1>5, <2>1 DEF BufsMoved, WritesBuf, OwnsBuf
  <2>. QED BY <1>7, <2>2, BuffersMoved DEF b
<1>. QED BY <1>6, <1>7

\* A thread gives up and deletes its buffer, which the flush may have put into
\* the queue.
LEMMA GiveUpBuffers ==
  ASSUME Shape, Threading, Buffers, NEW t \in Threads, writer[t].pc \in Holding \ {"sent"},
         writer[t].conn \in Conns,
         NEW s \in StreamShape, s.sentSet = stream[writer[t].conn].sentSet, GiveUp(t, s), used' = used,
         \A d \in Conns : ardp'[d].held \subseteq ardp[d].held,
         \A d \in Conns, e \in Bufs : InQueue(queue', SendCmd(d, e)) =>
           \/ InQueue(queue, SendCmd(d, e))
           \/ (e \in ardp[d].held \cup {writer[t].buf} /\ e \notin ardp'[d].held)
  PROVE  Buffers'
<1>. DEFINE c == writer[t].conn
            b == writer[t].buf
<1>0. /\ stream \in [Conns -> StreamShape] /\ writer \in [Threads -> WriterShape] /\ b \in Bufs
      /\ \A d \in Conns : ardp[d].held \subseteq Bufs /\ stream[d].sentSet \subseteq Bufs
  BY DEF Shape, Threading, StreamShape, RecordShape
<1>1. /\ freed' = freed \cup {b} /\ stream' = [stream EXCEPT ![c] = RemoveCurrentThread(s, t)]
      /\ writer' = [writer EXCEPT ![t] = [NotWriting EXCEPT !.ok = t # Dispatcher]]
  BY DEF GiveUp, Leave
<1>2. \A d \in Conns : stream'[d].sentSet = stream[d].sentSet
  <2>1. RemoveCurrentThread(s, t).sentSet = s.sentSet
    BY DEF RemoveCurrentThread, StreamShape
  <2>. QED BY <1>0, <1>1, <2>1
<1>3. OwnsBuf(t, b) /\ WritesBuf(t, b)
  BY DEF OwnsBuf, WritesBuf
<1>4. /\ b \in used \ freed
      /\ \A d \in Conns : b \notin stream[d].sentSet /\ b \notin ardp[d].held
      /\ \A u \in Threads : WritesBuf(u, b) => u = t
  BY <1>0, <1>3 DEF Buffers, WrittenBufs
<1>5. \A u \in Threads, e \in Bufs : /\ WritesBuf(u, e)' => u # t /\ e # b /\ WritesBuf(u, e)
                                     /\ OwnsBuf(u, e)' => u # t /\ e # b /\ OwnsBuf(u, e)
  <2>1. writer'[t].pc \notin Holding /\ \A u \in Threads \ {t} : writer'[u] = writer[u]
    BY <1>0, <1>1 DEF NotWriting, Holding
  <2>. QED BY <1>4, <2>1 DEF WritesBuf, OwnsBuf
<1>. HIDE DEF b
<1>6. StoredBufs'
  BY <1>1, <1>2, <1>4 DEF Buffers, StoredBufs
<1>7. WrittenBufs'
  <2>. SUFFICES ASSUME NEW u \in Threads, NEW e \in Bufs
                PROVE  /\ WritesBuf(u, e)' => /\ e \in used' \ freed'
                                              /\ \A d \in Conns : e \notin stream'[d].sentSet
                                              /\ \A v \in Threads : WritesBuf(v, e)' => v = u
                       /\ OwnsBuf(u, e)' => \A d \in Conns : e \notin ardp'[d].held /\ ~InQueue(queue', SendCmd(d, e))
    BY DEF WrittenBufs
  <2>1. WritesBuf(u, e)' => /\ e \in used' \ freed'
                            /\ \A d \in Conns : e \notin stream'[d].sentSet
                            /\ \A v \in Threads : WritesBuf(v, e)' => v = u
    BY <1>1, <1>2, <1>5 DEF Buffers, WrittenBufs
  <2>2. OwnsBuf(u, e)' => \A d \in Conns : e \notin ardp'[d].held /\ ~InQueue(queue', SendCmd(d, e))
    BY <1>5 DEF Buffers, WrittenBufs, b
  <2>. QED BY <2>1, <2>2
<1>8. ReturnedBufs'
  <2>. SUFFICES ASSUME NEW d \in Conns, NEW e \in Bufs, InQueue(queue', SendCmd(d, e))
                PROVE  e \in used' /\ \A x \in Conns : e \notin ardp'[x].held
    BY DEF ReturnedBufs
  <2>1. CASE InQueue(queue, SendCmd(d, e))
    BY <2>1 DEF Buffers, ReturnedBufs
  <2>2. CASE e = b
    BY <1>4, <2>2
  <2>3. CASE e \in ardp[d].held /\ e \notin ardp'[d].held
    BY <2>3 DEF Buffers, StoredBufs
  <2>. QED BY <2>1, <2>2, <2>3 DEF b
<1>. QED BY <1>6, <1>7, <1>8 DEF Buffers

\* Every step of a writer.
LEMMA WriterBuffers ==
  ASSUME Shape, Threading, Buffers, NEW t \in Threads, WriterStep(t)
  PROVE  Buffers'
<1>. DEFINE c == writer[t].conn
            b == writer[t].buf
<1>0. /\ writer \in [Threads -> WriterShape] /\ writer[t] \in WriterShape /\ queue \in Seq(Commands)
      /\ stream \in [Conns -> StreamShape] /\ ardp \in [Conns -> RecordShape] /\ used \subseteq Bufs
      /\ \A d \in Conns : ardp[d].held \subseteq Bufs /\ stream[d].sentSet \subseteq Bufs
  BY DEF Shape, StreamShape, RecordShape
<1>1. writer[t].pc # "idle"
  BY DEF WriterStep, FindDisc, Enter, SendBytes, Sent, Blocked, Woken
<1>2. /\ c \in Conns /\ stream[c] \in StreamShape /\ ardp[c] \in RecordShape
      /\ (writer[t].pc \in Holding => b \in Bufs)
  BY <1>0, <1>1 DEF Threading, WriterShape
<1>3. ASSUME NEW ok, Leave(t, ok)
      PROVE  writer'[t].pc = "idle" /\ \A u \in Threads \ {t} : writer'[u] = writer[u]
  BY <1>0, <1>3 DEF Leave, NotWriting
<1>4. ASSUME NEW pc, Goto(t, pc)
      PROVE  /\ writer'[t].buf = b /\ writer'[t].pc = pc
             /\ \A u \in Threads \ {t} : writer'[u] = writer[u]
  BY <1>0, <1>4 DEF Goto, WriterShape
<1>5. ASSUME used' = used, freed' = freed, ardp' = ardp, queue' = queue,
             \A d \in Conns : stream'[d].sentSet = stream[d].sentSet,
             \A u \in Threads \ {t} : writer'[u] = writer[u],
             writer'[t].pc \in Holding => /\ writer[t].pc \in Holding /\ writer'[t].buf = b
                                          /\ writer'[t].pc # "sent" => writer[t].pc # "sent"
      PROVE  Buffers'
  <2>1. BufsMoved
    BY <1>5 DEF BufsMoved, WritesBuf, OwnsBuf
  <2>. QED BY <2>1, BuffersMoved
<1>6. CASE FindDisc(t)
  <2>1. Leave(t, FALSE) \/ Goto(t, "enter")
    BY <1>6 DEF FindDisc
  <2>2. used' = used /\ freed' = freed /\ ardp' = ardp /\ queue' = queue /\ stream' = stream
    BY <1>6 DEF FindDisc
  <2>3. CASE Leave(t, FALSE)
    <3>1. writer'[t].pc \notin Holding /\ \A u \in Threads \ {t} : writer'[u] = writer[u]
      BY <1>3, <2>3 DEF Holding
    <3>. QED BY <1>5, <2>2, <3>1
  <2>4. CASE Goto(t, "enter")
    <3>1. writer'[t].pc \notin Holding /\ \A u \in Threads \ {t} : writer'[u] = writer[u]
      BY <1>4, <2>4 DEF Holding
    <3>. QED BY <1>5, <2>2, <3>1
  <2>. QED BY <2>1, <2>3, <2>4
<1>7. CASE Enter(t)
  <2>0. freed' = freed /\ ardp' = ardp /\ queue' = queue /\ writer[t].pc = "enter"
    BY <1>7 DEF Enter
  <2>1. CASE used = Bufs
    <3>1. Leave(t, TRUE) /\ stream' = stream /\ used' = used
      BY <1>7, <2>1 DEF Enter
    <3>. QED BY <1>3, <1>5, <2>0, <3>1 DEF Holding
  <2>2. CASE used # Bufs
    <3>. DEFINE x == CHOOSE x \in Bufs \ used : TRUE
    <3>1. x \in Bufs \ used
      BY <1>0, <2>2
    <3>. HIDE DEF x
    <3>2. /\ stream' = [stream EXCEPT ![c] = AddCurrentThread(@, t)]
          /\ used' = used \cup {x}
          /\ writer' = [writer EXCEPT ![t].pc = "send", ![t].buf = x]
      BY <1>7, <2>2 DEF Enter, x
    <3>3. /\ writer'[t].pc = "send" /\ writer'[t].buf = x
          /\ \A u \in Threads \ {t} : writer'[u] = writer[u]
      BY <1>0, <3>2 DEF WriterShape
    <3>4. \A d \in Conns : stream'[d].sentSet = stream[d].sentSet
      BY <1>0, <1>2, <3>2 DEF AddCurrentThread, StreamShape
    <3>5. /\ \A d \in Conns : x \notin ardp[d].held /\ x \notin stream[d].sentSet /\ ~InQueue(queue, SendCmd(d, x))
          /\ x \notin freed /\ \A u \in Threads : ~WritesBuf(u, x)
      BY <3>1 DEF Buffers, StoredBufs, WrittenBufs, ReturnedBufs
    <3>6. StoredBufs'
      BY <2>0, <3>2, <3>4 DEF Buffers, StoredBufs
    <3>7. \A u \in Threads, e \in Bufs :
            /\ WritesBuf(u, e)' => (u = t /\ e = x) \/ (u # t /\ WritesBuf(u, e))
            /\ OwnsBuf(u, e)' => (u = t /\ e = x) \/ (u # t /\ OwnsBuf(u, e))
      BY <3>3 DEF WritesBuf, OwnsBuf
    <3>8. WrittenBufs'
      <4>. SUFFICES ASSUME NEW u \in Threads, NEW e \in Bufs
                    PROVE  /\ WritesBuf(u, e)' => /\ e \in used' \ freed'
                                                  /\ \A d \in Conns : e \notin stream'[d].sentSet
                                                  /\ \A v \in Threads : WritesBuf(v, e)' => v = u
                           /\ OwnsBuf(u, e)' => \A d \in Conns : e \notin ardp'[d].held
                                                                  /\ ~InQueue(queue', SendCmd(d, e))
        BY DEF WrittenBufs
      <4>1. CASE e = x
        BY <2>0, <3>1, <3>2, <3>4, <3>5, <3>7, <4>1
      <4>2. CASE e # x
        BY <2>0, <3>2, <3>4, <3>7, <4>2 DEF Buffers, WrittenBufs
      <4>. QED BY <4>1, <4>2
    <3>9. ReturnedBufs'
      BY <2>0, <3>2 DEF Buffers, ReturnedBufs
    <3>. QED BY <3>6, <3>8, <3>9 DEF Buffers
  <2>. QED BY <2>1, <2>2
<1>8. CASE SendBytes(t)
  <2>0. writer[t].pc = "send" /\ b \in Bufs /\ used' = used
    BY <1>2, <1>8 DEF SendBytes, Holding
  <2>1. CASE GiveUp(t, stream[c]) /\ UNCHANGED <<ardp, queue>>
    BY <1>2, <2>0, <2>1, GiveUpBuffers DEF Holding
  <2>2. CASE Goto(t, "blocked") /\ UNCHANGED <<stream, ardp, queue, freed>>
    BY <1>4, <1>5, <2>0, <2>2 DEF Holding
  <2>3. CASE /\ ardp' = [ardp EXCEPT ![c].held = @ \cup {b}]
             /\ Goto(t, "sent") /\ UNCHANGED <<stream, queue, freed>>
    <3>1. ardp'[c].held = ardp[c].held \cup {b} /\ \A d \in Conns \ {c} : ardp'[d].held = ardp[d].held
      BY <1>0, <1>2, <2>3 DEF RecordShape
    <3>2. OwnsBuf(t, b) /\ WritesBuf(t, b)
      BY <2>0 DEF OwnsBuf, WritesBuf, Holding
    <3>3. /\ b \in used \ freed
          /\ \A d \in Conns : b \notin ardp[d].held /\ ~InQueue(queue, SendCmd(d, b))
          /\ \A u \in Threads : WritesBuf(u, b) => u = t
      BY <2>0, <3>2 DEF Buffers, WrittenBufs
    <3>4. \A u \in Threads, e \in Bufs :
            /\ WritesBuf(u, e)' => WritesBuf(u, e)
            /\ OwnsBuf(u, e)' => u # t /\ OwnsBuf(u, e)
      BY <1>4, <2>0, <2>3 DEF WritesBuf, OwnsBuf, Holding
    <3>. HIDE DEF c, b
    <3>5. StoredBufs'
      BY <1>2, <2>0, <2>3, <3>1, <3>3 DEF Buffers, StoredBufs
    <3>6. WrittenBufs'
      <4>. SUFFICES ASSUME NEW u \in Threads, NEW e \in Bufs
                    PROVE  /\ WritesBuf(u, e)' => /\ e \in used' \ freed'
                                                  /\ \A d \in Conns : e \notin stream'[d].sentSet
                                                  /\ \A v \in Threads : WritesBuf(v, e)' => v = u
                           /\ OwnsBuf(u, e)' => \A d \in Conns : e \notin ardp'[d].held
                                                                  /\ ~InQueue(queue', SendCmd(d, e))
        BY DEF WrittenBufs
      <4>1. WritesBuf(u, e)' => /\ e \in used' \ freed'
                                /\ \A d \in Conns : e \notin stream'[d].sentSet
                                /\ \A v \in Threads : WritesBuf(v, e)' => v = u
        BY <2>0, <2>3, <3>4 DEF Buffers, WrittenBufs
      <4>2. OwnsBuf(u, e)' => e # b
        BY <3>3, <3>4 DEF OwnsBuf
      <4>3. OwnsBuf(u, e)' => \A d \in Conns : e \notin ardp'[d].held /\ ~InQueue(queue', SendCmd(d, e))
        BY <2>3, <3>1, <3>4, <4>2 DEF Buffers, WrittenBufs
      <4>. QED BY <4>1, <4>3
    <3>7. ReturnedBufs'
      BY <2>0, <2>3, <3>1, <3>3 DEF Buffers, ReturnedBufs
    <3>. QED BY <3>5, <3>6, <3>7 DEF Buffers
  <2>4. ASSUME NEW own \in SUBSET {b},
               \E sends \in Flushed(c, ardp[c].held \cup own) :
                 queue' = queue \o sends \o <<[cmd |-> "DISCONNECT_CB", conn |-> c, status |-> "SOCKET"]>>,
               ardp' = [ardp EXCEPT ![c].state = "CLOSING", ![c].held = {}],
               GiveUp(t, stream[c])
        PROVE  Buffers'
    <3>1. /\ ardp[c].held \cup own \in SUBSET Bufs
          /\ FlushedTo(queue, c, ardp[c].held \cup own, "SOCKET", queue')
      BY <1>0, <1>2, <2>0, <2>4 DEF FlushedTo
    <3>2. FlushAdds(queue, c, ardp[c].held \cup own, "SOCKET", queue')
      BY <1>0, <1>2, <3>1, QueueFlush
    <3>3. ardp'[c].held = {} /\ \A d \in Conns \ {c} : ardp'[d] = ardp[d]
      BY <1>0, <1>2, <2>4 DEF RecordShape
    <3>4. \A d, e : SendCmd(d, e).cmd = "SEND_CB" /\ SendCmd(d, e).conn = d /\ SendCmd(d, e).buf = e
      BY DEF SendCmd
    <3>5. DiscCmd(c, "SOCKET").cmd = "DISCONNECT_CB"
      BY DEF DiscCmd
    <3>6. \A d \in Conns, e \in Bufs : InQueue(queue', SendCmd(d, e)) =>
            InQueue(queue, SendCmd(d, e)) \/ (d = c /\ e \in ardp[c].held \cup own)
      BY <3>2, <3>4, <3>5 DEF FlushAdds
    <3>. QED BY <1>2, <2>0, <2>4, <3>3, <3>6, GiveUpBuffers DEF Holding
  <2>. QED BY <1>8, <2>1, <2>2, <2>3, <2>4 DEF SendBytes
<1>9. CASE Sent(t)
  <2>0. /\ writer[t].pc = "sent" /\ b \in Bufs /\ used' = used /\ freed' = freed /\ ardp' = ardp /\ queue' = queue
        /\ stream' = [stream EXCEPT ![c] = RemoveCurrentThread(NoteSent(@, b), t)] /\ Leave(t, TRUE)
    BY <1>2, <1>9 DEF Sent, Holding
  <2>1. /\ stream'[c].sentSet = stream[c].sentSet \cup {b}
        /\ \A d \in Conns \ {c} : stream'[d] = stream[d]
    <3>1. RemoveCurrentThread(NoteSent(stream[c], b), t).sentSet = stream[c].sentSet \cup {b}
      BY <1>2 DEF RemoveCurrentThread, NoteSent, StreamShape
    <3>. QED BY <1>0, <1>2, <2>0, <3>1
  <2>2. WritesBuf(t, b)
    BY <2>0 DEF WritesBuf, Holding
  <2>3. /\ b \in used \ freed /\ \A d \in Conns : b \notin stream[d].sentSet
        /\ \A u \in Threads : WritesBuf(u, b) => u = t
    BY <2>0, <2>2 DEF Buffers, WrittenBufs
  <2>4. \A u \in Threads, e \in Bufs : /\ WritesBuf(u, e)' => e # b /\ WritesBuf(u, e)
                                       /\ OwnsBuf(u, e)' => e # b /\ OwnsBuf(u, e)
    <3>1. writer'[t].pc = "idle" /\ \A u \in Threads \ {t} : writer'[u] = writer[u]
      BY <1>3, <2>0
    <3>. QED BY <2>3, <3>1 DEF WritesBuf, OwnsBuf, Holding
  <2>. HIDE DEF c, b
  <2>5. StoredBufs'
    BY <1>2, <2>0, <2>1, <2>3 DEF Buffers, StoredBufs
  <2>6. WrittenBufs'
    <3>1. \A d \in Conns, e \in Bufs : e # b /\ e \notin stream[d].sentSet => e \notin stream'[d].sentSet
      BY <2>1
    <3>. QED BY <2>0, <2>4, <3>1 DEF Buffers, WrittenBufs
  <2>7. ReturnedBufs'
    BY <2>0 DEF Buffers, ReturnedBufs
  <2>. QED BY <2>5, <2>6, <2>7 DEF Buffers
<1>10. CASE Blocked(t)
  <2>1. /\ writer[t].pc = "blocked" /\ used' = used /\ freed' = freed /\ ardp' = ardp /\ queue' = queue
        /\ Goto(t, "send") \/ Goto(t, "waiting")
        /\ stream' = stream \/ stream' = [stream EXCEPT ![c] = BeginWait(@)]
    BY <1>10 DEF Blocked
  <2>2. BeginWait(stream[c]).sentSet = stream[c].sentSet
    BY <1>2 DEF BeginWait, StreamShape
  <2>3. \A d \in Conns : stream'[d].sentSet = stream[d].sentSet
    BY <1>0, <1>2, <2>1, <2>2
  <2>. QED BY <1>4, <1>5, <2>1, <2>3 DEF Holding
<1>11. ASSUME NEW late \in BOOLEAN, Woken(t, late) PROVE Buffers'
  <2>0. writer[t].pc = "waiting" /\ used' = used /\ ardp' = ardp /\ queue' = queue
    BY <1>11 DEF Woken
  <2>1. EndWait(stream[c]).sentSet = stream[c].sentSet /\ EndWait(stream[c]) \in StreamShape
    <3>1. EndWait(stream[c]) \in StreamShape
      BY <1>2, StreamOpsShape
    <3>. QED BY <1>2, <3>1 DEF EndWait, StreamShape
  <2>2. CASE GiveUp(t, EndWait(stream[c]))
    BY <1>2, <2>0, <2>1, <2>2, GiveUpBuffers DEF Holding
  <2>3. CASE stream' = [stream EXCEPT ![c] = EndWait(@)] /\ Goto(t, "send") /\ UNCHANGED freed
    <3>1. \A d \in Conns : stream'[d].sentSet = stream[d].sentSet
      BY <1>0, <1>2, <2>1, <2>3
    <3>. QED BY <1>4, <1>5, <2>0, <2>3, <3>1 DEF Holding
  <2>. QED BY <1>11, <2>2, <2>3 DEF Woken
<1>. QED BY <1>6, <1>7, <1>8, <1>9, <1>10, <1>11 DEF WriterStep

\* With EndpointInv, it is inductive.
LEMMA BuffersStep ==
  ASSUME EndpointInv, Buffers, [Next]_vars
  PROVE  Buffers'
<1>0. Shape /\ Threading
  BY DEF EndpointInv
<1>1. ASSUME NEW c \in Conns, StepAt(c) PROVE Buffers'
  BY <1>0, <1>1, SendCbBuffers, StepAtBuffers, BuffersMoved
<1>2. ASSUME NEW t \in Threads, WriterStep(t) PROVE Buffers'
  BY <1>0, <1>2, WriterBuffers
<1>3. ASSUME NEW t \in Threads, NEW w, w.pc \notin Holding, writer' = [writer EXCEPT ![t] = w],
             stream' = stream, ardp' = ardp, queue' = queue, used' = used, freed' = freed
      PROVE  Buffers'
  <2>1. writer \in [Threads -> WriterShape]
    BY <1>0 DEF Shape
  <2>2. writer'[t] = w /\ \A u \in Threads \ {t} : writer'[u] = writer[u]
    BY <1>3, <2>1
  <2>3. BufsMoved
    BY <1>3, <2>2 DEF BufsMoved, WritesBuf, OwnsBuf
  <2>. QED BY <1>0, <2>3, BuffersMoved
<1>4. CASE Ask
  <2>1. /\ Dispatcher \in Threads /\ writer[Dispatcher] \in WriterShape
        /\ [NotWriting EXCEPT !.ok = FALSE \/ Dispatcher # Dispatcher].pc \notin Holding
        /\ [writer[Dispatcher] EXCEPT !.pc = "deliver"].pc \notin Holding
    BY <1>0, EndpointAssumption DEF Shape, WriterShape, NotWriting, Holding
  <2>2. /\ stream' = stream /\ ardp' = ardp /\ queue' = queue /\ used' = used /\ freed' = freed
        /\ \/ writer' = [writer EXCEPT ![Dispatcher] = [NotWriting EXCEPT !.ok = FALSE \/ Dispatcher # Dispatcher]]
           \/ writer' = [writer EXCEPT ![Dispatcher] = [writer[Dispatcher] EXCEPT !.pc = "deliver"]]
    BY <1>4 DEF Ask, Goto, Leave
  <2>. QED BY <1>3, <2>1, <2>2
<1>5. ASSUME NEW t \in Writers, NEW c \in Conns, PushMessage(t, c) PROVE Buffers'
  <2>1. t \in Threads /\ [NotWriting EXCEPT !.pc = "deliver", !.conn = c].pc \notin Holding
    BY DEF Writers, NotWriting, Holding
  <2>. QED BY <1>3, <1>5, <2>1 DEF PushMessage, Calls
<1>6. CASE UNCHANGED vars
  <2>1. BufsMoved
    BY <1>6 DEF vars, BufsMoved, WritesBuf, OwnsBuf
  <2>. QED BY <1>0, <2>1, BuffersMoved
<1>. QED BY <1>1, <1>2, <1>4, <1>5, <1>6 DEF Next, StepAt

-----------------------------------------------------------------------------
(* The assertions of the endpoint.                                            *)

\* What every thread's next assertion depends on holds when it gets there: no
\* step adds to fault.
LEMMA FaultStep ==
  ASSUME EndpointInv, Buffers, fault = {}, [Next]_vars
  PROVE  fault' = {}
<1>0. Shape /\ Threading /\ \A d \in Conns : Local(d)
  BY DEF EndpointInv
<1>1. ASSUME NEW c \in Conns, ep[c].state = "STARTED" PROVE ep[c].list \in {"auth", "endpoint"}
  <2>1. ep[c].list \in Lists
    BY <1>0 DEF Shape, Endpoint
  <2>. QED BY <1>0, <1>1, <2>1 DEF Local, Life, Lists
<1>2. \A c \in Conns : StopFaults(ep[c]) = {}
  BY <1>1 DEF StopFaults, Failing
<1>3. ASSUME NEW c \in Conns, Start(c) PROVE fault' = {}
  <2>1. DispAt(c, {"start"})
    BY <1>3 DEF Start, At, DispAt
  <2>2. ep[c].state = "INITIALIZED" /\ Listed(c) /\ ~ep[c].known /\ ~ep[c].exited
    BY <1>0, <2>1 DEF Local, Life, Listed, Unstarted
  <2>3. \A t \in Threads : t \notin stream[c].threads
    BY <1>0, <2>2 DEF Local, Writing
  <2>4. stream[c].threads \subseteq Threads
    BY <1>0 DEF Shape, StreamShape
  <2>5. ThreadSetEmpty(stream[c])
    BY <2>3, <2>4 DEF ThreadSetEmpty
  <2>. QED BY <1>3, <2>2, <2>5 DEF Start, Failing
<1>4. ASSUME NEW c \in Conns, RemoveEndpoint(c) PROVE fault' = {}
  <2>1. stream[c].disc
    BY <1>0, <1>4 DEF RemoveEndpoint, Local, Stopping
  <2>2. \A t \in Threads : t \notin stream[c].threads
    BY <1>0, <1>4 DEF RemoveEndpoint, Inside, Local, Writing
  <2>3. stream[c].threads \subseteq Threads
    BY <1>0 DEF Shape, StreamShape
  <2>4. ThreadSetEmpty(stream[c])
    BY <2>2, <2>3 DEF ThreadSetEmpty
  <2>. QED BY <1>4, <2>1, <2>4 DEF RemoveEndpoint, Failing
<1>5. ASSUME NEW c \in Conns, ExitDone(c) PROVE fault' = {}
  <2>1. ep[c].state = "JOINED"
    BY <1>0, <1>5 DEF ExitDone, At, DispAt, Local, Leaving
  <2>. QED BY <1>5, <2>1 DEF ExitDone, Failing
<1>6. ASSUME NEW c \in Conns, NEW good \in BOOLEAN, DoConnectCbActive(c, good) PROVE fault' = {}
  <2>1. Valid(c)
    BY <1>0, <1>6, LocalConnectActive
  <2>. QED BY <1>6, <2>1 DEF DoConnectCbActive, Failing
<1>7. ASSUME NEW c \in Conns, SendCb(c) PROVE fault' = {}
  <2>1. Listed(c) /\ WasSent(c, Head(queue).buf) => Head(queue).buf \notin freed
    BY <1>0, <1>7, SendCbBuffers
  <2>. QED BY <1>7, <2>1 DEF SendCb, Failing
<1>8. ASSUME NEW c \in Conns, DoConnectCbWakes(c) \/ DisconnectCbStops(c) \/ Stop(c) PROVE fault' = {}
  BY <1>2, <1>8 DEF DoConnectCbWakes, DisconnectCbStops, DispatcherStop, Stop
<1>9. ASSUME NEW c \in Conns, DispatcherStep(c) PROVE fault' = {}
  BY <1>3, <1>5, <1>6, <1>7, <1>8, <1>9 DEF DispatcherStep, DoConnectCbPassive, ARDP_ReleaseConnection,
    RegisterEndpoint, Registered, DispatcherWakes, DispatcherDisconnects, SendCbWakes, RecvCb, RecvCbReturns,
    Route, DisconnectCb, Exit
<1>10. ASSUME NEW c \in Conns, StepAt(c) PROVE fault' = {}
  BY <1>4, <1>8, <1>9, <1>10 DEF StepAt, AcceptCb, Connect, ConnectTimesOut, ConnectReturns, NetworkStep,
    HandshakeEnds, Acknowledged, Received, ConnectionLost, DisconnectTimer, ManageEndpoints, AuthTimeout,
    JoinAndExit, StopWake, StopDisconnect
<1>11. ASSUME NEW t \in Threads, WriterStep(t) PROVE fault' = {}
  BY <1>11 DEF WriterStep, FindDisc, Enter, SendBytes, Sent, Blocked, Woken
<1>12. ASSUME NEW t \in Writers, NEW c \in Conns, PushMessage(t, c) PROVE fault' = {}
  BY <1>12 DEF PushMessage
<1>13. CASE Ask
  BY <1>13 DEF Ask
<1>14. CASE UNCHANGED vars
  BY <1>14 DEF vars
<1>. QED BY <1>10, <1>11, <1>12, <1>13, <1>14 DEF Next, StepAt

-----------------------------------------------------------------------------
(* The counters of AcceptCb().  The lists are finite though Conns need not be. *)

\* The connections whose endpoints are on a list.
OnList(list) == {c \in Conns : ep[c].list = list}

\* m_currAuth is exact, m_currConn may count more than there are.
Counters ==
  /\ IsFiniteSet(OnList("auth")) /\ currAuth = Cardinality(OnList("auth"))
  /\ IsFiniteSet(OnList("endpoint")) /\ currConn >= Cardinality(OnList("endpoint"))

\* At first the lists are empty.
LEMMA CountersInit == Init => Counters
<1>. SUFFICES ASSUME Init PROVE Counters
  OBVIOUS
<1>1. OnList("auth") = {} /\ OnList("endpoint") = {}
  BY DEF Init, OnList, NoEndpoint, NewEndpoint
<1>2. currAuth = 0 /\ currConn \in Nat
  BY EndpointAssumption DEF Init
<1>. QED BY <1>1, <1>2, FS_EmptySet DEF Counters

\* One endpoint goes from one list to another, or to the same.
Relisted(c, from, to) ==
  /\ ep[c].list = from /\ ep'[c].list = to
  /\ \A d \in Conns \ {c} : ep'[d].list = ep[d].list

\* Then the list it leaves has one less, and the list it enters one more.
LEMMA CountersRelisted ==
  ASSUME Counters, currConn \in Int, NEW c \in Conns, NEW from \in Lists, NEW to \in Lists, Relisted(c, from, to)
  PROVE  \A list \in {"auth", "endpoint"} :
           /\ IsFiniteSet(OnList(list))' /\ Cardinality(OnList(list)) \in Nat
           /\ Cardinality(OnList(list))' = Cardinality(OnList(list))
                 + (IF to = list THEN 1 ELSE 0) - (IF from = list THEN 1 ELSE 0)
<1>. SUFFICES ASSUME NEW list \in {"auth", "endpoint"}
              PROVE  /\ IsFiniteSet(OnList(list)') /\ Cardinality(OnList(list)) \in Nat
                     /\ Cardinality(OnList(list)') = Cardinality(OnList(list))
                          + (IF to = list THEN 1 ELSE 0) - (IF from = list THEN 1 ELSE 0)
  OBVIOUS
<1>. DEFINE S == OnList(list)
            T == OnList(list)'
<1>1. IsFiniteSet(S) /\ Cardinality(S) \in Nat
  BY FS_CardinalityType DEF Counters
<1>2. (c \in S <=> from = list) /\ (c \in T <=> to = list) /\ T \ {c} = S \ {c}
  BY DEF OnList, Relisted
<1>. HIDE DEF S, T
<1>3. /\ IsFiniteSet(S \ {c}) /\ Cardinality(S \ {c}) \in Nat
      /\ Cardinality(S \ {c}) = Cardinality(S) - IF from = list THEN 1 ELSE 0
  BY <1>1, <1>2, FS_RemoveElement, FS_CardinalityType
<1>4. CASE to = list
  <2>1. T = (S \ {c}) \cup {c}
    BY <1>2, <1>4
  <2>2. IsFiniteSet(T) /\ Cardinality(T) = Cardinality(S \ {c}) + 1
    BY <1>3, <2>1, FS_AddElement
  <2>. QED BY <1>1, <1>3, <1>4, <2>2 DEF S, T
<1>5. CASE to # list
  <2>1. T = S \ {c}
    BY <1>2, <1>5
  <2>. QED BY <1>1, <1>3, <1>5, <2>1 DEF S, T
<1>. QED BY <1>4, <1>5

\* With EndpointInv, it is inductive: AcceptCb() and DoConnectCb() put on a list
\* only what is on none.
LEMMA CountersStep ==
  ASSUME EndpointInv, Counters, [Next]_vars
  PROVE  Counters'
<1>0. Shape /\ Threading /\ currAuth \in Int /\ currConn \in Int /\ ep \in [Conns -> Endpoint]
      /\ \A d \in Conns : Local(d) /\ ep[d] \in Endpoint /\ ep[d].list \in Lists
  BY DEF EndpointInv, Shape, Endpoint
<1>1. ASSUME NEW c \in Conns, NEW from \in Lists, NEW to \in Lists, Relisted(c, from, to),
             currAuth' = currAuth + (IF to = "auth" THEN 1 ELSE 0) - (IF from = "auth" THEN 1 ELSE 0),
             currConn' \in Int,
             currConn' >= currConn + (IF to = "endpoint" THEN 1 ELSE 0) - (IF from = "endpoint" THEN 1 ELSE 0)
      PROVE  Counters'
  <2>1. \A list \in {"auth", "endpoint"} :
           /\ IsFiniteSet(OnList(list))' /\ Cardinality(OnList(list)) \in Nat
           /\ Cardinality(OnList(list))' = Cardinality(OnList(list))
                 + (IF to = list THEN 1 ELSE 0) - (IF from = list THEN 1 ELSE 0)
    BY <1>0, <1>1, CountersRelisted
  <2>2. currAuth' = (Cardinality(OnList("auth")))' /\ IsFiniteSet(OnList("auth"))'
    BY <1>1, <2>1 DEF Counters
  <2>3. currConn' >= (Cardinality(OnList("endpoint")))' /\ IsFiniteSet(OnList("endpoint"))'
    BY <1>0, <1>1, <2>1 DEF Counters
  <2>. QED BY <2>2, <2>3 DEF Counters
<1>2. ASSUME currAuth' = currAuth, currConn' \in Int, currConn' >= currConn,
             \A d \in Conns : ep'[d].list = ep[d].list
      PROVE  Counters'
  <2>1. OnList("auth")' = OnList("auth") /\ OnList("endpoint")' = OnList("endpoint")
    BY <1>2 DEF OnList
  <2>2. Cardinality(OnList("endpoint")) \in Nat
    BY FS_CardinalityType DEF Counters
  <2>. QED BY <1>0, <1>2, <2>1, <2>2 DEF Counters
<1>3. ASSUME NEW c \in Conns, AcceptCb(c) PROVE Counters'
  <2>1. CASE ep' = ep
    <3>1. currAuth' = currAuth /\ currConn' \in {currConn, currConn + 1}
      <4>1. NewEndpoint("auth").list = "auth" /\ ep[c].list = "none"
        BY <1>0, <1>3 DEF AcceptCb, NewEndpoint, Local, Order
      <4>. QED BY <1>0, <1>3, <2>1, <4>1 DEF AcceptCb
    <3>. QED BY <1>0, <1>2, <2>1, <3>1
  <2>2. CASE ep' # ep
    <3>1. /\ ep' = [ep EXCEPT ![c] = NewEndpoint("auth")]
          /\ currAuth' = currAuth + 1 /\ currConn' = currConn
      BY <1>3, <2>2 DEF AcceptCb
    <3>2. NewEndpoint("auth").list = "auth" /\ ep[c].list = "none"
      BY <1>0, <1>3 DEF AcceptCb, NewEndpoint, Local, Order
    <3>3. Relisted(c, "none", "auth") /\ "none" \in Lists /\ "auth" \in Lists
      BY <1>0, <3>1, <3>2 DEF Relisted, Lists
    <3>. QED BY <1>0, <1>1, <3>1, <3>3
  <2>. QED BY <2>1, <2>2
<1>4. ASSUME NEW c \in Conns, ep[c].list = "auth", ep'[c].list = "endpoint",
             \A d \in Conns \ {c} : ep'[d] = ep[d], Moved
      PROVE  Counters'
  <2>1. Relisted(c, "auth", "endpoint") /\ "auth" \in Lists /\ "endpoint" \in Lists
    BY <1>4 DEF Relisted, Lists
  <2>. QED BY <1>0, <1>1, <1>4, <2>1 DEF Moved
<1>5. ASSUME NEW c \in Conns, AuthTimeout(c) PROVE Counters'
  <2>1. /\ ep' = [ep EXCEPT ![c] = StoppedEp([ep[c] EXCEPT !.list = "endpoint"])] /\ Moved
        /\ ep[c].list = "auth"
    BY <1>5 DEF AuthTimeout
  <2>2. StoppedEp([ep[c] EXCEPT !.list = "endpoint"]).list = "endpoint"
    BY <1>0 DEF StoppedEp, Endpoint
  <2>. QED BY <1>0, <1>4, <2>1, <2>2
<1>6. ASSUME NEW c \in Conns, DoConnectCbPassive(c) PROVE Counters'
  <2>1. CASE ep[c].list = "auth"
    <3>1. ep' = [ep EXCEPT ![c].list = "endpoint"] /\ Moved
      BY <1>6, <2>1 DEF DoConnectCbPassive
    <3>2. ep'[c].list = "endpoint" /\ \A d \in Conns \ {c} : ep'[d] = ep[d]
      BY <1>0, <3>1 DEF Endpoint
    <3>. QED BY <1>4, <2>1, <3>1, <3>2
  <2>2. CASE ep[c].list # "auth"
    BY <1>0, <1>2, <1>6, <2>2 DEF DoConnectCbPassive
  <2>. QED BY <2>1, <2>2
<1>7. ASSUME NEW c \in Conns, NEW good \in BOOLEAN, DoConnectCbActive(c, good) PROVE Counters'
  <2>0. currAuth' = currAuth /\ Active(c) /\ Cmd("CONNECT_CB", c) /\ queue' = Tail(queue)
    BY <1>7 DEF DoConnectCbActive
  <2>1. CASE ep' = ep /\ currConn' = currConn
    BY <1>0, <1>2, <2>0, <2>1
  <2>2. CASE ep' = [ep EXCEPT ![c] = NewEndpoint("endpoint")] /\ currConn' = currConn + 1
    <3>1. Taken("CONNECT_CB", c)
      BY <1>0, <2>0, TakeCommand
    <3>2. ep[c].list = "none" /\ NewEndpoint("endpoint").list = "endpoint"
      BY <1>0, <2>0, <3>1 DEF Taken, Local, Order, Early, NewEndpoint
    <3>3. Relisted(c, "none", "endpoint") /\ "none" \in Lists /\ "endpoint" \in Lists
      BY <1>0, <2>2, <3>2 DEF Relisted, Lists
    <3>. QED BY <1>0, <1>1, <2>0, <2>2, <3>3
  <2>. QED BY <1>7, <2>1, <2>2 DEF DoConnectCbActive
<1>8. ASSUME NEW c \in Conns, RemoveEndpoint(c) PROVE Counters'
  <2>1. ep' = [ep EXCEPT ![c].list = "gone"] /\ ep[c].list = "endpoint" /\ currAuth' = currAuth /\ currConn' = currConn - 1
    BY <1>8 DEF RemoveEndpoint, Listed
  <2>2. Relisted(c, "endpoint", "gone") /\ "endpoint" \in Lists /\ "gone" \in Lists
    BY <1>0, <2>1 DEF Relisted, Endpoint, Lists
  <2>. QED BY <1>0, <1>1, <2>1, <2>2
<1>9. ASSUME NEW c \in Conns, Start(c) \/ RegisterEndpoint(c) \/ Registered(c) \/ Exit(c) \/ ExitDone(c)
                              \/ DisconnectCb(c) \/ JoinAndExit(c) \/ StopWake(c) \/ StopDisconnect(c)
      PROVE  Counters'
  <2>1. currAuth' = currAuth /\ currConn' = currConn
    BY <1>9 DEF Start, RegisterEndpoint, Registered, Exit, ExitDone, DisconnectCb, JoinAndExit, StopWake, StopDisconnect
  <2>2. \A d \in Conns : ep'[d].list = ep[d].list
    <3>1. CASE Start(c) \/ RegisterEndpoint(c) \/ Registered(c)
      BY <1>0, <3>1 DEF Start, RegisterEndpoint, Registered, Endpoint
    <3>2. CASE Exit(c) \/ ExitDone(c) \/ DisconnectCb(c)
      BY <1>0, <3>2 DEF Exit, ExitDone, DisconnectCb, Endpoint
    <3>3. CASE StopWake(c) \/ StopDisconnect(c)
      <4>1. \E x \in {"none", "disconnect"} : ep' = [ep EXCEPT ![c].stopper = x]
        BY <3>3 DEF StopWake, StopDisconnect
      <4>. QED BY <1>0, <4>1 DEF Endpoint
    <3>4. CASE JoinAndExit(c)
      <4>1. ASSUME NEW x PROVE [ep[c] EXCEPT !.state = "JOINED", !.exitScheduled = x].list = ep[c].list
        BY <1>0 DEF Endpoint
      <4>2. ep' = [ep EXCEPT ![c] = [ep[c] EXCEPT !.state = "JOINED",
                                                  !.exitScheduled = ep[c].exitScheduled \/ ExitDue(ep[c])]]
        BY <3>4 DEF JoinAndExit
      <4>. QED BY <1>0, <4>1, <4>2
    <3>. QED BY <1>9, <3>1, <3>2, <3>3, <3>4
  <2>. QED BY <1>0, <1>2, <2>1, <2>2
<1>10. ASSUME NEW c \in Conns, DoConnectCbWakes(c) \/ DisconnectCbStops(c) \/ Stop(c) PROVE Counters'
  <2>1. currAuth' = currAuth /\ currConn' = currConn
    BY <1>10 DEF DoConnectCbWakes, DisconnectCbStops, DispatcherStop, Stop
  <2>2. StoppedEp(ep[c]).list = ep[c].list /\ [StoppedEp(ep[c]) EXCEPT !.stopper = "wake"].list = ep[c].list
    BY <1>0 DEF StoppedEp, Endpoint
  <2>3. \A d \in Conns : ep'[d].list = ep[d].list
    BY <1>0, <1>10, <2>2 DEF DoConnectCbWakes, DisconnectCbStops, DispatcherStop, Stop
  <2>. QED BY <1>0, <1>2, <2>1, <2>3
<1>11. ASSUME ep' = ep, currAuth' = currAuth, currConn' = currConn PROVE Counters'
  BY <1>0, <1>2, <1>11
<1>12. ASSUME NEW c \in Conns, DispatcherStep(c) PROVE Counters'
  BY <1>6, <1>7, <1>9, <1>10, <1>11, <1>12 DEF DispatcherStep, ARDP_ReleaseConnection, DispatcherWakes,
    DispatcherDisconnects, SendCb, SendCbWakes, RecvCb, RecvCbReturns, Route
<1>13. ASSUME NEW c \in Conns, StepAt(c) PROVE Counters'
  BY <1>3, <1>5, <1>8, <1>9, <1>10, <1>11, <1>12, <1>13 DEF StepAt, Connect, ConnectTimesOut, ConnectReturns, NetworkStep,
    HandshakeEnds, Acknowledged, Received, ConnectionLost, DisconnectTimer, ManageEndpoints
<1>14. ASSUME NEW t \in Threads, WriterStep(t) PROVE Counters'
  BY <1>11, <1>14 DEF WriterStep, FindDisc, Enter, SendBytes, Sent, Blocked, Woken
<1>15. ASSUME NEW t \in Writers, NEW c \in Conns, PushMessage(t, c) PROVE Counters'
  BY <1>11, <1>15 DEF PushMessage
<1>16. CASE Ask
  BY <1>11, <1>16 DEF Ask
<1>17. CASE UNCHANGED vars
  BY <1>11, <1>17 DEF vars
<1>. QED BY <1>13, <1>14, <1>15, <1>16, <1>17 DEF Next, StepAt

-----------------------------------------------------------------------------
(* The threads that wait in a stream are the ones it counts.                   *)

\* The threads that wait for the write event of a connection.
Waiters(d) == {t \in Threads : writer[t].conn = d /\ writer[t].pc = "waiting"}

\* They are finitely many, and m_writeWaits is their number.
Waits == \A d \in Conns : IsFiniteSet(Waiters(d)) /\ stream[d].writeWaits = Cardinality(Waiters(d))

\* At first nobody waits.
LEMMA WaitsInit == Init => Waits
<1>. SUFFICES ASSUME Init, NEW d \in Conns PROVE IsFiniteSet(Waiters(d)) /\ stream[d].writeWaits = Cardinality(Waiters(d))
  BY DEF Waits
<1>1. Waiters(d) = {} /\ stream[d].writeWaits = 0
  BY DEF Init, Waiters, NotWriting, NewStream
<1>. QED BY <1>1, FS_EmptySet

\* Nobody begins or ends a wait.
SameWaits ==
  \A d \in Conns : stream'[d].writeWaits = stream[d].writeWaits /\ Waiters(d)' = Waiters(d)

\* Disconnect() leaves the waiting threads to WakeThreadSet().
LEMMA DisconnectWaits ==
  ASSUME Shape, NEW c \in Conns, NEW sudden \in BOOLEAN, NEW status \in Statuses, StreamDisconnect(c, sudden, status)
  PROVE  \A d \in Conns : stream'[d].writeWaits = stream[d].writeWaits
<1>0. stream \in [Conns -> StreamShape] /\ stream[c] \in StreamShape
  BY DEF Shape
<1>1. PICK r \in IF AsksArdp(stream[c], sudden) THEN ARDP_Disconnect(c)
                 ELSE {[status |-> "OK", conn |-> ardp[c]]} :
        stream' = [stream EXCEPT ![c] = Disconnect(@, sudden, status, r.status)]
  BY DEF StreamDisconnect
<1>2. r.status \in Statuses
  BY <1>1, ArdpDisconnectShape DEF Statuses
<1>3. Disconnected(stream[c], sudden, status, r.status, Disconnect(stream[c], sudden, status, r.status))
  BY <1>0, <1>2, DisconnectEffect
<1>4. Disconnect(stream[c], sudden, status, r.status).writeWaits = stream[c].writeWaits
  BY <1>3 DEF Disconnected
<1>. QED BY <1>0, <1>1, <1>4

\* Only writers begin and end waits.
LEMMA StepAtWaits ==
  ASSUME Shape, Threading, NEW c \in Conns, StepAt(c)
  PROVE  SameWaits
<1>0. /\ stream \in [Conns -> StreamShape] /\ stream[c] \in StreamShape /\ Dispatcher \in Threads
      /\ writer \in [Threads -> WriterShape] /\ queue \in Seq(Commands)
  BY EndpointAssumption DEF Shape
<1>. DEFINE Streams == \A d \in Conns : stream'[d].writeWaits = stream[d].writeWaits
<1>1. ASSUME NEW s, s.writeWaits = stream[c].writeWaits, stream' = [stream EXCEPT ![c] = s] PROVE Streams
  BY <1>0, <1>1
<1>2. ASSUME stream' = stream PROVE Streams
  BY <1>2
<1>3. /\ WakeThreadSet(stream[c]).writeWaits = stream[c].writeWaits
      /\ SetWriteEvent(stream[c]).writeWaits = stream[c].writeWaits
      /\ EarlyExit(stream[c]).writeWaits = stream[c].writeWaits
      /\ \A b : ForgetSent(stream[c], b).writeWaits = stream[c].writeWaits
  BY <1>0 DEF WakeThreadSet, SetWriteEvent, EarlyExit, ForgetSent, StreamShape
<1>4. ASSUME NEW e PROVE StoppedStream(e, stream[c]).writeWaits = stream[c].writeWaits
  BY <1>3 DEF StoppedStream
<1>. HIDE DEF Streams
<1>5. Streams
  <2>1. CASE AcceptCb(c) \/ Connect(c) \/ ConnectTimesOut(c) \/ ConnectReturns(c) \/ NetworkStep(c)
             \/ DisconnectTimer(c) \/ Stop(c)
    BY <1>2, <2>1 DEF AcceptCb, Connect, ConnectTimesOut, ConnectReturns, NetworkStep, HandshakeEnds, Acknowledged,
      Received, ConnectionLost, DisconnectTimer, Stop
  <2>2. CASE StopWake(c) \/ ManageEndpoints(c)
    BY <1>1, <1>2, <1>3, <1>4, <2>2 DEF StopWake, ManageEndpoints, AuthTimeout, JoinAndExit, RemoveEndpoint
  <2>3. CASE StopDisconnect(c) \/ DispatcherDisconnects(c)
    <3>1. StreamDisconnect(c, FALSE, "LOCAL_DISCONNECT") /\ "LOCAL_DISCONNECT" \in Statuses
      BY <2>3 DEF StopDisconnect, DispatcherDisconnects, Statuses
    <3>. QED BY <3>1, DisconnectWaits DEF Streams
  <2>4. CASE DisconnectCb(c)
    <3>1. CASE Listed(c)
      <4>1. StreamDisconnect(c, Head(queue).status # "OK", Head(queue).status) /\ Cmd("DISCONNECT_CB", c)
        BY <2>4, <3>1 DEF DisconnectCb
      <4>2. Head(queue) \in Commands /\ Head(queue).cmd = "DISCONNECT_CB"
        BY <1>0, <4>1, QueueTail DEF Cmd
      <4>3. Head(queue).status \in Statuses
        BY <4>2 DEF Commands, Statuses
      <4>4. (Head(queue).status # "OK") \in BOOLEAN
        OBVIOUS
      <4>. QED BY <4>1, <4>3, <4>4, DisconnectWaits DEF Streams
    <3>2. CASE ~Listed(c)
      BY <1>2, <2>4, <3>2 DEF DisconnectCb
    <3>. QED BY <3>1, <3>2
  <2>5. CASE DoConnectCbPassive(c)
    <3>1. CASE stream' = stream
      BY <1>2, <3>1
    <3>2. CASE stream' # stream
      <4>1. PICK r \in ARDP_Disconnect(c) :
              stream' = [stream EXCEPT ![c] = EarlyExit(Disconnect(@, FALSE, "LOCAL_DISCONNECT", r.status))]
        BY <2>5, <3>2 DEF DoConnectCbPassive
      <4>. DEFINE n == Disconnect(stream[c], FALSE, "LOCAL_DISCONNECT", r.status)
      <4>2. r.status \in Statuses /\ "LOCAL_DISCONNECT" \in Statuses
        BY ArdpDisconnectShape DEF Statuses
      <4>3. Disconnected(stream[c], FALSE, "LOCAL_DISCONNECT", r.status, n) /\ n \in StreamShape
        BY <1>0, <4>2, DisconnectEffect, DisconnectShape
      <4>. HIDE DEF n
      <4>4. EarlyExit(n).writeWaits = stream[c].writeWaits
        BY <4>3 DEF Disconnected, EarlyExit, StreamShape
      <4>. QED BY <1>1, <4>1, <4>4 DEF n
    <3>. QED BY <3>1, <3>2
  <2>6. CASE DoConnectCbWakes(c) \/ DisconnectCbStops(c) \/ DispatcherWakes(c)
    BY <1>1, <1>2, <1>3, <1>4, <2>6 DEF DoConnectCbWakes, DisconnectCbStops, DispatcherStop, DispatcherWakes
  <2>7. CASE SendCb(c) \/ SendCbWakes(c)
    BY <1>1, <1>2, <1>3, <2>7 DEF SendCb, SendCbWakes
  <2>8. CASE DispatcherStep(c)
    BY <1>2, <2>3, <2>4, <2>5, <2>6, <2>7, <2>8 DEF DispatcherStep, DoConnectCbActive, ARDP_ReleaseConnection, Start,
      RegisterEndpoint, Registered, RecvCb, RecvCbReturns, Route, Exit, ExitDone
  <2>. QED BY <2>1, <2>2, <2>3, <2>8 DEF StepAt
<1>6. ASSUME NEW d \in Conns PROVE Waiters(d)' = Waiters(d)
  <2>1. ASSUME NEW w, w.pc # "waiting", writer[Dispatcher].pc # "waiting", writer' = [writer EXCEPT ![Dispatcher] = w]
        PROVE  Waiters(d)' = Waiters(d)
    <3>1. writer'[Dispatcher].pc # "waiting" /\ \A u \in Threads \ {Dispatcher} : writer'[u] = writer[u]
      BY <1>0, <2>1
    <3>. QED BY <2>1, <3>1 DEF Waiters
  <2>2. NotWriting.pc # "waiting" /\ \A e : [NotWriting EXCEPT !.pc = "ask", !.conn = e].pc # "waiting"
    BY DEF NotWriting
  <2>3. CASE RegisterEndpoint(c)
    <3>1. writer[Dispatcher].pc = "idle"
      BY <2>3 DEF RegisterEndpoint, At, Threading
    <3>. QED BY <2>1, <2>2, <2>3, <3>1 DEF RegisterEndpoint, Calls
  <2>4. CASE Registered(c) \/ RecvCbReturns(c)
    BY <2>1, <2>2, <2>4 DEF Registered, RecvCbReturns
  <2>5. ASSUME NEW e \in Conns, Route(c, e) PROVE Waiters(d)' = Waiters(d)
    BY <2>1, <2>2, <2>5 DEF Route, Calls
  <2>6. CASE writer' = writer
    BY <2>6 DEF Waiters
  <2>7. CASE DispatcherStep(c)
    BY <2>3, <2>4, <2>5, <2>6, <2>7 DEF DispatcherStep, DoConnectCbPassive, DoConnectCbActive, ARDP_ReleaseConnection,
      Start, DoConnectCbWakes, DispatcherWakes, DispatcherDisconnects, SendCb, SendCbWakes, RecvCb, DisconnectCb,
      DisconnectCbStops, Exit, ExitDone
  <2>. QED BY <2>6, <2>7 DEF StepAt, AcceptCb, Connect, ConnectTimesOut, ConnectReturns, NetworkStep, HandshakeEnds,
         Acknowledged, Received, ConnectionLost, DisconnectTimer, Stop, StopWake, StopDisconnect, ManageEndpoints,
         AuthTimeout, JoinAndExit, RemoveEndpoint
<1>. QED BY <1>5, <1>6 DEF SameWaits, Streams

\* With Threading, it is inductive.
LEMMA WaitsStep ==
  ASSUME Shape, Threading, Waits, [Next]_vars
  PROVE  Waits'
<1>0. /\ stream \in [Conns -> StreamShape] /\ writer \in [Threads -> WriterShape] /\ Dispatcher \in Threads
      /\ \A t \in Threads : writer[t] \in WriterShape
      /\ \A d \in Conns : Cardinality(Waiters(d)) \in Nat
  BY EndpointAssumption, FS_CardinalityType DEF Shape, Waits
<1>1. SameWaits => Waits'
  BY DEF SameWaits, Waits
<1>2. ASSUME NEW t \in Threads, writer[t].pc # "waiting", writer'[t].pc # "waiting",
             \A u \in Threads \ {t} : writer'[u] = writer[u],
             \A d \in Conns : stream'[d].writeWaits = stream[d].writeWaits
      PROVE  Waits'
  <2>1. \A d \in Conns : Waiters(d)' = Waiters(d)
    BY <1>2 DEF Waiters
  <2>. QED BY <1>1, <1>2, <2>1 DEF SameWaits
<1>3. ASSUME NEW t \in Threads, WriterStep(t) PROVE Waits'
  <2>. DEFINE c == writer[t].conn
  <2>1. writer[t].pc # "idle"
    BY <1>3 DEF WriterStep, FindDisc, Enter, SendBytes, Sent, Blocked, Woken
  <2>2. c \in Conns /\ stream[c] \in StreamShape
    BY <1>0, <2>1 DEF Threading, WriterShape
  <2>3. ASSUME NEW ok, Leave(t, ok)
        PROVE  writer'[t].pc = "idle" /\ writer'[t].conn = NoConn /\ \A u \in Threads \ {t} : writer'[u] = writer[u]
    BY <1>0, <2>3 DEF Leave, NotWriting
  <2>4. ASSUME NEW pc, Goto(t, pc)
        PROVE  writer'[t].pc = pc /\ writer'[t].conn = c /\ \A u \in Threads \ {t} : writer'[u] = writer[u]
    BY <1>0, <2>4 DEF Goto, WriterShape
  <2>5. ASSUME NEW s, s.writeWaits = stream[c].writeWaits, stream' = [stream EXCEPT ![c] = s] \/ stream' = stream
        PROVE  \A d \in Conns : stream'[d].writeWaits = stream[d].writeWaits
    BY <1>0, <2>5
  <2>6. ASSUME NEW s \in StreamShape, GiveUp(t, s)
        PROVE  /\ writer'[t].pc = "idle" /\ writer'[t].conn = NoConn /\ \A u \in Threads \ {t} : writer'[u] = writer[u]
               /\ stream'[c].writeWaits = s.writeWaits /\ \A d \in Conns \ {c} : stream'[d] = stream[d]
    <3>1. RemoveCurrentThread(s, t).writeWaits = s.writeWaits
      BY <2>6 DEF RemoveCurrentThread, StreamShape
    <3>. QED BY <1>0, <2>2, <2>3, <2>6, <3>1 DEF GiveUp
  <2>7. CASE FindDisc(t)
    <3>1. writer'[t].pc # "waiting" /\ \A u \in Threads \ {t} : writer'[u] = writer[u]
      <4>1. CASE Leave(t, FALSE)
        BY <2>3, <4>1
      <4>2. CASE Goto(t, "enter")
        BY <2>4, <4>2
      <4>. QED BY <2>7, <4>1, <4>2 DEF FindDisc
    <3>. QED BY <1>2, <2>7, <3>1 DEF FindDisc
  <2>8. CASE Enter(t)
    <3>1. writer'[t].pc # "waiting" /\ \A u \in Threads \ {t} : writer'[u] = writer[u]
      <4>1. CASE Leave(t, TRUE)
        BY <2>3, <4>1
      <4>2. CASE ~Leave(t, TRUE)
        <5>1. PICK b : writer' = [writer EXCEPT ![t].pc = "send", ![t].buf = b]
          BY <2>8, <4>2 DEF Enter
        <5>. QED BY <1>0, <5>1 DEF WriterShape
      <4>. QED BY <4>1, <4>2
    <3>2. AddCurrentThread(stream[c], t).writeWaits = stream[c].writeWaits
      BY <2>2 DEF AddCurrentThread, StreamShape
    <3>3. \A d \in Conns : stream'[d].writeWaits = stream[d].writeWaits
      BY <2>5, <2>8, <3>2 DEF Enter
    <3>4. writer[t].pc # "waiting"
      BY <2>8 DEF Enter
    <3>. QED BY <1>2, <3>1, <3>3, <3>4
  <2>9. CASE SendBytes(t)
    <3>0. writer[t].pc = "send"
      BY <2>9 DEF SendBytes
    <3>1. CASE GiveUp(t, stream[c])
      <4>1. /\ writer'[t].pc # "waiting" /\ \A u \in Threads \ {t} : writer'[u] = writer[u]
            /\ \A d \in Conns : stream'[d].writeWaits = stream[d].writeWaits
        BY <2>2, <2>6, <3>1
      <4>. QED BY <1>2, <3>0, <4>1
    <3>2. CASE ~GiveUp(t, stream[c])
      <4>1. stream' = stream /\ (Goto(t, "blocked") \/ Goto(t, "sent"))
        BY <2>9, <3>2 DEF SendBytes
      <4>2. writer'[t].pc # "waiting" /\ \A u \in Threads \ {t} : writer'[u] = writer[u]
        BY <2>4, <4>1
      <4>. QED BY <1>2, <3>0, <4>1, <4>2
    <3>. QED BY <3>1, <3>2
  <2>10. CASE Sent(t)
    <3>1. /\ stream' = [stream EXCEPT ![c] = RemoveCurrentThread(NoteSent(@, writer[t].buf), t)]
          /\ Leave(t, TRUE) /\ writer[t].pc # "waiting"
      BY <2>10 DEF Sent
    <3>2. RemoveCurrentThread(NoteSent(stream[c], writer[t].buf), t).writeWaits = stream[c].writeWaits
      BY <2>2 DEF RemoveCurrentThread, NoteSent, StreamShape
    <3>3. \A d \in Conns : stream'[d].writeWaits = stream[d].writeWaits
      BY <2>5, <3>1, <3>2
    <3>. QED BY <1>2, <2>3, <3>1, <3>3
  <2>11. CASE Blocked(t)
    <3>0. writer[t].pc = "blocked"
      BY <2>11 DEF Blocked
    <3>1. CASE Goto(t, "send") /\ stream' = stream
      <4>1. writer'[t].pc # "waiting" /\ \A u \in Threads \ {t} : writer'[u] = writer[u]
        BY <2>4, <3>1
      <4>. QED BY <1>2, <3>0, <3>1, <4>1
    <3>2. CASE Goto(t, "waiting") /\ stream' = [stream EXCEPT ![c] = BeginWait(@)]
      <4>1. /\ BeginWait(stream[c]).writeWaits = stream[c].writeWaits + 1
        BY <2>2 DEF BeginWait, StreamShape
      <4>2. stream'[c].writeWaits = stream[c].writeWaits + 1 /\ \A d \in Conns \ {c} : stream'[d] = stream[d]
        BY <1>0, <2>2, <3>2, <4>1
      <4>3. writer'[t].pc = "waiting" /\ writer'[t].conn = c /\ \A u \in Threads \ {t} : writer'[u] = writer[u]
        BY <2>4, <3>2
      <4>4. PICK e \in Conns : e = c
        BY <2>2
      <4>5. /\ Waiters(e)' = Waiters(e) \cup {t} /\ t \notin Waiters(e)
            /\ \A d \in Conns \ {e} : Waiters(d)' = Waiters(d)
        BY <3>0, <4>3, <4>4 DEF Waiters
      <4>6. IsFiniteSet(Waiters(e)') /\ Cardinality(Waiters(e)') = Cardinality(Waiters(e)) + 1
        <5>1. IsFiniteSet(Waiters(e))
          BY <4>4 DEF Waits
        <5>. HIDE DEF c
        <5>. QED BY <4>5, <5>1, FS_AddElement
      <4>. QED BY <4>2, <4>4, <4>5, <4>6 DEF Waits
    <3>. QED BY <2>11, <3>1, <3>2 DEF Blocked
  <2>12. ASSUME NEW late \in BOOLEAN, Woken(t, late) PROVE Waits'
    <3>0. writer[t].pc = "waiting"
      BY <2>12 DEF Woken
    <3>1. EndWait(stream[c]) \in StreamShape /\ EndWait(stream[c]).writeWaits = stream[c].writeWaits - 1
      <4>1. EndWait(stream[c]) \in StreamShape
        BY <2>2, StreamOpsShape
      <4>. QED BY <2>2, <4>1 DEF EndWait, StreamShape
    <3>2. /\ writer'[t].pc # "waiting" /\ \A u \in Threads \ {t} : writer'[u] = writer[u]
          /\ stream'[c].writeWaits = stream[c].writeWaits - 1 /\ \A d \in Conns \ {c} : stream'[d] = stream[d]
      <4>1. CASE GiveUp(t, EndWait(stream[c]))
        BY <2>6, <3>1, <4>1
      <4>2. CASE stream' = [stream EXCEPT ![c] = EndWait(@)] /\ Goto(t, "send")
        BY <1>0, <2>2, <2>4, <3>1, <4>2
      <4>. QED BY <2>12, <4>1, <4>2 DEF Woken
    <3>3. PICK e \in Conns : e = c
      BY <2>2
    <3>4. /\ Waiters(e)' = Waiters(e) \ {t} /\ t \in Waiters(e)
          /\ \A d \in Conns \ {e} : Waiters(d)' = Waiters(d)
      BY <3>0, <3>2, <3>3 DEF Waiters
    <3>5. IsFiniteSet(Waiters(e)') /\ Cardinality(Waiters(e)') = Cardinality(Waiters(e)) - 1
      <4>1. IsFiniteSet(Waiters(e))
        BY <3>3 DEF Waits
      <4>. QED BY <3>4, <4>1, FS_RemoveElement
    <3>. QED BY <3>2, <3>3, <3>4, <3>5 DEF Waits
  <2>. QED BY <1>3, <2>7, <2>8, <2>9, <2>10, <2>11, <2>12 DEF WriterStep
<1>4. ASSUME NEW t \in Threads, NEW w, w.pc # "waiting", writer[t].pc # "waiting",
             writer' = [writer EXCEPT ![t] = w], stream' = stream
      PROVE  Waits'
  <2>1. writer'[t].pc # "waiting" /\ \A u \in Threads \ {t} : writer'[u] = writer[u]
    BY <1>0, <1>4
  <2>. QED BY <1>2, <1>4, <2>1
<1>5. CASE Ask
  <2>1. /\ [NotWriting EXCEPT !.ok = FALSE \/ Dispatcher # Dispatcher].pc # "waiting"
        /\ [writer[Dispatcher] EXCEPT !.pc = "deliver"].pc # "waiting" /\ writer[Dispatcher].pc # "waiting"
    BY <1>0, <1>5 DEF Ask, WriterShape, NotWriting
  <2>2. /\ stream' = stream
        /\ \/ writer' = [writer EXCEPT ![Dispatcher] = [NotWriting EXCEPT !.ok = FALSE \/ Dispatcher # Dispatcher]]
           \/ writer' = [writer EXCEPT ![Dispatcher] = [writer[Dispatcher] EXCEPT !.pc = "deliver"]]
    BY <1>5 DEF Ask, Goto, Leave
  <2>. QED BY <1>0, <1>4, <2>1, <2>2
<1>6. ASSUME NEW t \in Writers, NEW c \in Conns, PushMessage(t, c) PROVE Waits'
  <2>1. t \in Threads /\ [NotWriting EXCEPT !.pc = "deliver", !.conn = c].pc # "waiting"
    BY DEF Writers, NotWriting
  <2>. QED BY <1>4, <1>6, <2>1 DEF PushMessage, Calls
<1>7. CASE UNCHANGED vars
  BY <1>1, <1>7 DEF vars, SameWaits, Waiters
<1>8. ASSUME NEW c \in Conns, StepAt(c) PROVE Waits'
  BY <1>1, <1>8, StepAtWaits
<1>. QED BY <1>3, <1>5, <1>6, <1>7, <1>8 DEF Next, StepAt

-----------------------------------------------------------------------------
(* A record counts the messages that it has passed up and not got back.        *)

\* Until the record is gone, it counts the messages in the queue and the one in
\* the hands of the dispatcher.
Receipts(d) ==
  /\ ardp[d].rcv >= 0 /\ ardp[d].rcv + ardp[d].left <= MaxRcv
  /\ ardp[d].state = "none" => ardp[d].rcv = 0
  /\ ardp[d].state # "gone" =>
       ardp[d].rcv = Waiting(queue, "RECV_CB", d) + IF DispAt(d, {"received", "routed"}) THEN 1 ELSE 0

\* At first nothing has been received.
LEMMA ReceiptsInit == ASSUME Init, NEW d \in Conns PROVE Receipts(d)
<1>1. ardp[d].rcv = 0 /\ ardp[d].left = MaxRcv /\ queue = << >> /\ disp.conn # d
  BY EndpointAssumption DEF Init, Idle
<1>. QED BY <1>1, EmptyQueue, EndpointAssumption DEF Receipts, DispAt

\* A step that passes no message up and takes none back.
SameReceipts(d) ==
  /\ ardp'[d].rcv = ardp[d].rcv /\ ardp'[d].left = ardp[d].left
  /\ ardp'[d].state = "none" => ardp[d].state = "none"
  /\ ardp'[d].state # "gone" =>
       /\ ardp[d].state # "gone"
       /\ Waiting(queue', "RECV_CB", d) = Waiting(queue, "RECV_CB", d)
       /\ DispAt(d, {"received", "routed"})' <=> DispAt(d, {"received", "routed"})

\* Then the count is still right.
LEMMA ReceiptsSame ==
  ASSUME NEW d \in Conns, Receipts(d), SameReceipts(d)
  PROVE  Receipts(d)'
  BY DEF Receipts, SameReceipts

\* ARDP_Disconnect() never reopens a record.
LEMMA DisconnectReceipts ==
  ASSUME Shape, NEW d \in Conns, NEW sudden, NEW status, StreamDisconnect(d, sudden, status)
  PROVE  /\ ardp'[d].rcv = ardp[d].rcv /\ ardp'[d].left = ardp[d].left
         /\ ardp'[d].state = ardp[d].state \/ (Valid(d) /\ ardp'[d].state = "LOCAL")
<1>0. ardp \in [Conns -> RecordShape] /\ ardp[d] \in RecordShape
  BY DEF Shape
<1>1. PICK r \in IF AsksArdp(stream[d], sudden) THEN ARDP_Disconnect(d)
                 ELSE {[status |-> "OK", conn |-> ardp[d]]} : ardp'[d] = r.conn
  BY <1>0 DEF StreamDisconnect
<1>2. r.conn = ardp[d] \/ (Valid(d) /\ r.conn = [ardp[d] EXCEPT !.state = "LOCAL"])
  BY <1>1 DEF ARDP_Disconnect
<1>. QED BY <1>0, <1>1, <1>2 DEF RecordShape

\* The steps at the connection itself.
LEMMA ReceiptsStepAt ==
  ASSUME Shape, Threading, NEW d \in Conns, Receipts(d), StepAt(d)
  PROVE  Receipts(d)'
<1>0. /\ ardp \in [Conns -> RecordShape] /\ ardp[d] \in RecordShape /\ queue \in Seq(Commands)
      /\ ardp[d].rcv \in Int /\ ardp[d].left \in 0 .. MaxRcv /\ MaxRcv \in Nat
      /\ \A cmd : Waiting(queue, cmd, d) \in Nat
  BY EndpointAssumption, WaitingIsNat DEF Shape, RecordShape
<1>. DEFINE Count == Waiting(queue, "RECV_CB", d)
            Held  == DispAt(d, {"received", "routed"})
<1>1. ASSUME NEW cmd, cmd # "RECV_CB", Cmd(cmd, d), queue' = Tail(queue)
      PROVE  Waiting(queue', "RECV_CB", d) = Count /\ ~Held
  <2>1. Taken(cmd, d)
    BY <1>1, TakeCommand
  <2>. QED BY <1>1, <2>1 DEF Taken, DispAt
<1>2. ASSUME NEW pc, pc \notin {"received", "routed"}, Then(pc, d)
      PROVE  ~DispAt(d, {"received", "routed"})'
  BY <1>2 DEF Then, Idle, DispAt
<1>3. ASSUME NEW pc, pc \notin {"received", "routed"}, At(pc, d)
      PROVE  ~Held
  BY <1>3 DEF At, DispAt
<1>4. ASSUME ardp' = ardp, queue' = queue, disp' = disp PROVE Receipts(d)'
  BY <1>4, ReceiptsSame DEF SameReceipts, DispAt
<1>5. ASSUME ardp' = ardp, Waiting(queue', "RECV_CB", d) = Count, ~Held, ~DispAt(d, {"received", "routed"})'
      PROVE  Receipts(d)'
  BY <1>5, ReceiptsSame DEF SameReceipts
<1>6. ASSUME NEW bufs \in SUBSET Bufs, NEW status \in {"OK", "REMOTE", "SOCKET"},
             FlushedTo(queue, d, bufs, status, queue')
      PROVE  Waiting(queue', "RECV_CB", d) = Count
  <2>1. FlushAdds(queue, d, bufs, status, queue')
    BY <1>0, <1>6, QueueFlush
  <2>. QED BY <2>1 DEF FlushAdds
<1>7. CASE AcceptCb(d)
  <2>1. /\ ardp[d].state = "none" /\ queue' = queue /\ disp' = disp
        /\ \E x \in {"gone", "SYN"} : ardp' = [ardp EXCEPT ![d].state = x]
    BY <1>7 DEF AcceptCb
  <2>2. ardp'[d].state \in {"gone", "SYN"} /\ ardp'[d].rcv = ardp[d].rcv /\ ardp'[d].left = ardp[d].left
    BY <1>0, <2>1 DEF RecordShape
  <2>. QED BY <2>1, <2>2, ReceiptsSame DEF SameReceipts, DispAt
<1>8. CASE Connect(d)
  <2>1. ardp[d].state = "none" /\ queue' = queue /\ disp' = disp /\ ardp' = [ardp EXCEPT ![d].state = "SYN"]
    BY <1>8 DEF Connect
  <2>2. ardp'[d].state = "SYN" /\ ardp'[d].rcv = ardp[d].rcv /\ ardp'[d].left = ardp[d].left
    BY <1>0, <2>1 DEF RecordShape
  <2>. QED BY <2>1, <2>2, ReceiptsSame DEF SameReceipts, DispAt
<1>9. CASE ConnectTimesOut(d) \/ ConnectReturns(d) \/ Stop(d) \/ StopWake(d) \/ AuthTimeout(d) \/ RemoveEndpoint(d)
  BY <1>4, <1>9 DEF ConnectTimesOut, ConnectReturns, Stop, StopWake, AuthTimeout, RemoveEndpoint
<1>10. CASE JoinAndExit(d)
  <2>1. [cmd |-> "EXIT", conn |-> d] \in Commands /\ [cmd |-> "EXIT", conn |-> d].cmd = "EXIT"
    BY CommandsShape
  <2>2. Waiting(queue', "RECV_CB", d) = Count
    BY <1>0, <1>10, <2>1, QueueAppend DEF JoinAndExit
  <2>3. ardp' = ardp /\ disp' = disp
    BY <1>10 DEF JoinAndExit
  <2>. QED BY <2>2, <2>3, ReceiptsSame DEF SameReceipts, DispAt
<1>11. ASSUME NEW ok \in BOOLEAN, HandshakeEnds(d, ok) PROVE Receipts(d)'
  <2>. DEFINE x == [cmd |-> "CONNECT_CB", conn |-> d, ok |-> ok]
  <2>1. x \in Commands /\ x.cmd = "CONNECT_CB"
    BY CommandsShape
  <2>2. Waiting(queue', "RECV_CB", d) = Count
    BY <1>0, <1>11, <2>1, QueueAppend DEF HandshakeEnds
  <2>3. ardp[d].state = "SYN" /\ disp' = disp /\ \E y \in {"OPEN", "CLOSED"} : ardp' = [ardp EXCEPT ![d].state = y]
    BY <1>11 DEF HandshakeEnds
  <2>4. ardp'[d].state \in {"OPEN", "CLOSED"} /\ ardp'[d].rcv = ardp[d].rcv /\ ardp'[d].left = ardp[d].left
    BY <1>0, <2>3 DEF RecordShape
  <2>. QED BY <2>2, <2>3, <2>4, ReceiptsSame DEF SameReceipts, DispAt
<1>12. ASSUME NEW b \in Bufs, Acknowledged(d, b) PROVE Receipts(d)'
  <2>. DEFINE x == [cmd |-> "SEND_CB", conn |-> d, buf |-> b]
  <2>1. x \in Commands /\ x.cmd = "SEND_CB"
    BY CommandsShape
  <2>2. Waiting(queue', "RECV_CB", d) = Count
    BY <1>0, <1>12, <2>1, QueueAppend DEF Acknowledged
  <2>3. disp' = disp /\ ardp' = [ardp EXCEPT ![d].held = @ \ {b}]
    BY <1>12 DEF Acknowledged
  <2>4. ardp'[d].state = ardp[d].state /\ ardp'[d].rcv = ardp[d].rcv /\ ardp'[d].left = ardp[d].left
    BY <1>0, <2>3 DEF RecordShape
  <2>. QED BY <2>2, <2>3, <2>4, ReceiptsSame DEF SameReceipts, DispAt
<1>13. CASE Received(d)
  <2>. DEFINE x == [cmd |-> "RECV_CB", conn |-> d]
  <2>1. x \in Commands /\ x.cmd = "RECV_CB" /\ x.conn = d
    BY CommandsShape
  <2>2. Waiting(queue', "RECV_CB", d) = Count + 1
    BY <1>0, <1>13, <2>1, QueueAppend DEF Received
  <2>3. ardp[d].state = "OPEN" /\ disp' = disp /\ ardp' = [ardp EXCEPT ![d].rcv = @ + 1, ![d].left = @ - 1]
    BY <1>13 DEF Received
  <2>4. ardp'[d].state = ardp[d].state /\ ardp'[d].rcv = ardp[d].rcv + 1 /\ ardp'[d].left = ardp[d].left - 1
    BY <1>0, <2>3 DEF RecordShape
  <2>. HIDE DEF x
  <2>. QED BY <1>0, <2>2, <2>3, <2>4 DEF Receipts, DispAt
<1>14. CASE ConnectionLost(d) \/ DisconnectTimer(d)
  <2>0. ardp[d].held \in SUBSET Bufs
    BY <1>0 DEF RecordShape
  <2>1. queue' = queue \/ \E st \in {"OK", "REMOTE", "SOCKET"} : FlushedTo(queue, d, ardp[d].held, st, queue')
    BY <1>14 DEF ConnectionLost, DisconnectTimer, FlushedTo
  <2>2. Waiting(queue', "RECV_CB", d) = Count
    BY <1>6, <2>0, <2>1
  <2>3. disp' = disp /\ \E y \in {"CLOSING", "gone"} : ardp' = [ardp EXCEPT ![d].state = y, ![d].held = {}]
    BY <1>14 DEF ConnectionLost, DisconnectTimer
  <2>4. ardp'[d].state \in {"CLOSING", "gone"} /\ ardp'[d].rcv = ardp[d].rcv /\ ardp'[d].left = ardp[d].left
    BY <1>0, <2>3 DEF RecordShape
  <2>5. ardp[d].state # "gone"
    BY <1>14 DEF ConnectionLost, DisconnectTimer
  <2>. QED BY <2>2, <2>3, <2>4, <2>5, ReceiptsSame DEF SameReceipts, DispAt
<1>15. ASSUME NEW sudden, NEW status, StreamDisconnect(d, sudden, status), Waiting(queue', "RECV_CB", d) = Count,
              DispAt(d, {"received", "routed"})' <=> Held
       PROVE  Receipts(d)'
  <2>1. /\ ardp'[d].rcv = ardp[d].rcv /\ ardp'[d].left = ardp[d].left
        /\ ardp'[d].state = ardp[d].state \/ (Valid(d) /\ ardp'[d].state = "LOCAL")
    BY <1>15, DisconnectReceipts
  <2>. QED BY <1>15, <2>1, ReceiptsSame DEF SameReceipts, Valid
<1>16. CASE StopDisconnect(d)
  BY <1>15, <1>16 DEF StopDisconnect, DispAt
<1>17. CASE DispatcherStep(d)
  <2>. HIDE DEF Count, Held
  <2>1. CASE DoConnectCbPassive(d)
    <3>1. /\ Cmd("CONNECT_CB", d) /\ queue' = Tail(queue)
          /\ ardp' = ardp \/ \E r \in ARDP_Disconnect(d) : ardp' = [ardp EXCEPT ![d] = r.conn]
          /\ \E pc \in {"start", "release", "idle"} : Then(pc, d)
      BY <2>1 DEF DoConnectCbPassive
    <3>2. Waiting(queue', "RECV_CB", d) = Count /\ ~Held /\ ~DispAt(d, {"received", "routed"})'
      BY <1>1, <1>2, <3>1
    <3>3. ASSUME NEW r \in ARDP_Disconnect(d), ardp' = [ardp EXCEPT ![d] = r.conn]
          PROVE  /\ ardp'[d].rcv = ardp[d].rcv /\ ardp'[d].left = ardp[d].left
                 /\ ardp'[d].state = ardp[d].state \/ (Valid(d) /\ ardp'[d].state = "LOCAL")
      <4>1. r.conn = ardp[d] \/ (Valid(d) /\ r.conn = [ardp[d] EXCEPT !.state = "LOCAL"])
        BY DEF ARDP_Disconnect
      <4>. QED BY <1>0, <3>3, <4>1 DEF RecordShape
    <3>. QED BY <3>1, <3>2, <3>3, ReceiptsSame DEF SameReceipts, Valid, Held, Count
  <2>2. ASSUME NEW good \in BOOLEAN, DoConnectCbActive(d, good) PROVE Receipts(d)'
    <3>1. /\ Cmd("CONNECT_CB", d) /\ queue' = Tail(queue) /\ ardp' = ardp
          /\ \E pc \in {"start", "release"} : Then(pc, d)
      BY <2>2 DEF DoConnectCbActive
    <3>2. Waiting(queue', "RECV_CB", d) = Count /\ ~Held /\ ~DispAt(d, {"received", "routed"})'
      BY <1>1, <1>2, <3>1
    <3>. QED BY <1>5, <3>1, <3>2
  <2>3. CASE ARDP_ReleaseConnection(d)
    <3>1. ardp' = [ardp EXCEPT ![d].state = "gone", ![d].rcv = 0]
      BY <2>3 DEF ARDP_ReleaseConnection
    <3>2. ardp'[d].state = "gone" /\ ardp'[d].rcv = 0 /\ ardp'[d].left = ardp[d].left
      BY <1>0, <3>1 DEF RecordShape
    <3>. QED BY <1>0, <3>2 DEF Receipts
  <2>4. CASE Start(d) \/ RegisterEndpoint(d) \/ Registered(d) \/ DispatcherWakes(d) \/ SendCbWakes(d) \/ ExitDone(d)
    <3>1. /\ ardp' = ardp /\ queue' = queue
          /\ \E pc \in {"start", "register", "registered", "wake", "sent", "exit"} : At(pc, d)
          /\ \E pc \in {"register", "registered", "woken", "idle", "disconnect"} : Then(pc, d)
      BY <2>4 DEF Start, RegisterEndpoint, Registered, DispatcherWakes, SendCbWakes, ExitDone
    <3>2. ~Held /\ ~DispAt(d, {"received", "routed"})'
      BY <1>2, <1>3, <3>1
    <3>. QED BY <1>5, <3>1, <3>2 DEF Count
  <2>5. CASE DoConnectCbWakes(d) \/ DisconnectCbStops(d)
    <3>1. /\ ardp' = ardp /\ queue' = queue
          /\ \E pc \in {"woken", "lost"} : At(pc, d)
          /\ \E pc \in {"wake", "idle"} : Then(pc, d)
      BY <2>5 DEF DoConnectCbWakes, DisconnectCbStops, DispatcherStop
    <3>2. ~Held /\ ~DispAt(d, {"received", "routed"})'
      BY <1>2, <1>3, <3>1
    <3>. QED BY <1>5, <3>1, <3>2 DEF Count
  <2>6. CASE DispatcherDisconnects(d)
    <3>1. At("disconnect", d) /\ Then("idle", d) /\ queue' = queue /\ StreamDisconnect(d, FALSE, "LOCAL_DISCONNECT")
      BY <2>6 DEF DispatcherDisconnects
    <3>2. ~Held /\ ~DispAt(d, {"received", "routed"})'
      BY <1>2, <1>3, <3>1
    <3>. QED BY <1>15, <3>1, <3>2 DEF Count
  <2>7. CASE SendCb(d) \/ Exit(d)
    <3>1. /\ ardp' = ardp /\ queue' = Tail(queue)
          /\ \E cmd \in {"SEND_CB", "EXIT"} : Cmd(cmd, d)
          /\ \E pc \in {"sent", "exit", "idle"} : Then(pc, d)
      BY <2>7 DEF SendCb, Exit
    <3>2. Waiting(queue', "RECV_CB", d) = Count /\ ~Held /\ ~DispAt(d, {"received", "routed"})'
      BY <1>1, <1>2, <3>1
    <3>. QED BY <1>5, <3>1, <3>2
  <2>8. CASE DisconnectCb(d)
    <3>1. Cmd("DISCONNECT_CB", d) /\ queue' = Tail(queue) /\ \E pc \in {"lost", "idle"} : Then(pc, d)
      BY <2>8 DEF DisconnectCb
    <3>2. Waiting(queue', "RECV_CB", d) = Count /\ ~Held /\ ~DispAt(d, {"received", "routed"})'
      BY <1>1, <1>2, <3>1
    <3>3. (\E sudden, status : StreamDisconnect(d, sudden, status)) \/ ardp' = ardp
      BY <2>8 DEF DisconnectCb
    <3>. QED BY <1>5, <1>15, <3>2, <3>3
  <2>9. CASE RecvCb(d)
    <3>1. Cmd("RECV_CB", d) /\ queue' = Tail(queue)
      BY <2>9 DEF RecvCb
    <3>2. Count > 0 /\ Waiting(queue', "RECV_CB", d) = Count - 1 /\ ~Held
      <4>1. Taken("RECV_CB", d)
        BY <3>1, TakeCommand
      <4>. QED BY <4>1 DEF Taken, Count, Held, DispAt
    <3>3. CASE Then("received", d) /\ ardp' = ardp
      <4>1. DispAt(d, {"received", "routed"})'
        BY <3>3 DEF Then, DispAt
      <4>. QED BY <1>0, <3>2, <3>3, <4>1 DEF Receipts, Count, Held
    <3>4. CASE Then("idle", d) /\ ARDP_RecvReady(d)
      <4>1. ~DispAt(d, {"received", "routed"})'
        BY <1>2, <3>4
      <4>2. /\ ardp'[d].state = ardp[d].state /\ ardp'[d].left = ardp[d].left
            /\ ardp'[d].rcv = IF Valid(d) THEN ardp[d].rcv - 1 ELSE ardp[d].rcv
        BY <1>0, <3>4 DEF ARDP_RecvReady, RecordShape
      <4>3. ardp[d].state # "none"
        BY <1>0, <3>2 DEF Receipts, Count, Held
      <4>4. CASE ardp[d].state = "gone"
        BY <1>0, <4>2, <4>4 DEF Receipts, Valid
      <4>5. CASE ardp[d].state # "gone"
        <5>1. ardp[d].rcv = Count /\ ardp'[d].rcv = ardp[d].rcv - 1
          BY <1>0, <3>2, <4>2, <4>3, <4>5 DEF Receipts, Count, Held, Valid
        <5>. QED BY <1>0, <3>2, <4>1, <4>2, <4>3, <5>1 DEF Receipts, Count
      <4>. QED BY <4>4, <4>5
    <3>. QED BY <2>9, <3>3, <3>4 DEF RecvCb
  <2>10. CASE RecvCbReturns(d)
    <3>1. Held /\ ~DispAt(d, {"received", "routed"})' /\ queue' = queue
      BY <1>2, <2>10 DEF RecvCbReturns, At, DispAt, Held
    <3>2. /\ ardp'[d].state = ardp[d].state /\ ardp'[d].left = ardp[d].left
          /\ ardp'[d].rcv = IF Valid(d) THEN ardp[d].rcv - 1 ELSE ardp[d].rcv
      BY <1>0, <2>10 DEF RecvCbReturns, ARDP_RecvReady, RecordShape
    <3>3. ardp[d].state # "none"
      BY <1>0, <3>1 DEF Receipts, Held
    <3>4. CASE ardp[d].state = "gone"
      BY <1>0, <3>2, <3>4 DEF Receipts, Valid
    <3>5. CASE ardp[d].state # "gone"
      <4>1. ardp[d].rcv = Count + 1 /\ ardp'[d].rcv = ardp[d].rcv - 1
        BY <1>0, <3>1, <3>2, <3>3, <3>5 DEF Receipts, Count, Held, Valid
      <4>. QED BY <1>0, <3>1, <3>2, <3>3, <4>1 DEF Receipts, Count
    <3>. QED BY <3>4, <3>5
  <2>11. ASSUME NEW c \in Conns, Route(d, c) PROVE Receipts(d)'
    <3>1. Held /\ DispAt(d, {"received", "routed"})' /\ queue' = queue /\ ardp' = ardp
      BY <2>11 DEF Route, At, Then, DispAt, Held
    <3>. QED BY <3>1, ReceiptsSame DEF SameReceipts, Held
  <2>. QED BY <1>17, <2>1, <2>2, <2>3, <2>4, <2>5, <2>6, <2>7, <2>8, <2>9, <2>10, <2>11 DEF DispatcherStep
<1>. QED BY <1>7, <1>8, <1>9, <1>10, <1>11, <1>12, <1>13, <1>14, <1>16, <1>17 DEF StepAt, NetworkStep, ManageEndpoints

\* With EndpointInv, it is inductive.
LEMMA ReceiptsStep ==
  ASSUME EndpointInv, [Next]_vars, NEW d \in Conns, Receipts(d)
  PROVE  Receipts(d)'
<1>0. /\ Shape /\ Threading /\ (\A e \in Conns : Local(e)) /\ queue \in Seq(Commands)
      /\ ardp \in [Conns -> RecordShape] /\ ardp[d] \in RecordShape
  BY DEF EndpointInv, Shape
<1>1. ASSUME NEW c \in Conns, StepAt(c) PROVE Receipts(d)'
  <2>1. CASE c = d
    BY <1>0, <1>1, <2>1, ReceiptsStepAt
  <2>2. CASE c # d /\ ~Route(c, d)
    <3>1. Untouched(d)
      BY <1>0, <1>1, <2>2, OthersUntouched
    <3>2. SameReceipts(d)
      BY <3>1 DEF Untouched, SameQueue, SameReceipts, DispAt
    <3>. QED BY <3>2, ReceiptsSame
  <2>3. CASE c # d /\ Route(c, d)
    <3>1. SameReceipts(d)
      BY <2>3 DEF Route, At, Then, SameReceipts, DispAt
    <3>. QED BY <3>1, ReceiptsSame
  <2>. QED BY <2>1, <2>2, <2>3
<1>2. ASSUME ardp' = ardp, queue' = queue, disp' = disp PROVE Receipts(d)'
  BY <1>2, ReceiptsSame DEF SameReceipts, DispAt
<1>3. ASSUME NEW t \in Threads, WriterStep(t) PROVE Receipts(d)'
  <2>. DEFINE c == writer[t].conn
  <2>1. disp' = disp
    BY <1>3 DEF WriterStep, FindDisc, Enter, SendBytes, Sent, Blocked, Woken
  <2>2. CASE SendBytes(t) /\ ardp' # ardp
    <3>1. c \in Conns /\ writer[t].buf \in Bufs /\ ardp[c].held \subseteq Bufs
      <4>1. writer[t].pc = "send" /\ writer[t] \in WriterShape
        BY <1>0, <2>2 DEF SendBytes, Shape
      <4>2. c \in Conns /\ writer[t].buf \in Bufs
        BY <1>0, <4>1 DEF Threading, WriterShape, Holding
      <4>. QED BY <1>0, <4>2 DEF RecordShape
    <3>2. CASE ardp' = [ardp EXCEPT ![c].held = @ \cup {writer[t].buf}] /\ queue' = queue
      <4>1. ardp'[d].state = ardp[d].state /\ ardp'[d].rcv = ardp[d].rcv /\ ardp'[d].left = ardp[d].left
        BY <1>0, <3>1, <3>2 DEF RecordShape
      <4>. QED BY <2>1, <3>2, <4>1, ReceiptsSame DEF SameReceipts, DispAt
    <3>3. CASE /\ ardp' = [ardp EXCEPT ![c].state = "CLOSING", ![c].held = {}] /\ ardp[c].state = "OPEN"
               /\ \E own \in SUBSET {writer[t].buf} : FlushedTo(queue, c, ardp[c].held \cup own, "SOCKET", queue')
      <4>1. /\ ardp'[d].rcv = ardp[d].rcv /\ ardp'[d].left = ardp[d].left
            /\ ardp'[d].state = ardp[d].state \/ (ardp[d].state = "OPEN" /\ ardp'[d].state = "CLOSING")
        BY <1>0, <3>1, <3>3 DEF RecordShape
      <4>2. PICK own \in SUBSET {writer[t].buf} : FlushedTo(queue, c, ardp[c].held \cup own, "SOCKET", queue')
        BY <3>3
      <4>3. FlushAdds(queue, c, ardp[c].held \cup own, "SOCKET", queue')
        <5>1. ardp[c].held \cup own \in SUBSET Bufs
          BY <3>1
        <5>. QED BY <1>0, <3>1, <4>2, <5>1, QueueFlush
      <4>4. Waiting(queue', "RECV_CB", d) = Waiting(queue, "RECV_CB", d)
        BY <4>3 DEF FlushAdds
      <4>. QED BY <2>1, <4>1, <4>4, ReceiptsSame DEF SameReceipts, DispAt
    <3>. QED BY <2>2, <3>2, <3>3 DEF SendBytes, FlushedTo
  <2>3. CASE ~(SendBytes(t) /\ ardp' # ardp)
    <3>1. ardp' = ardp /\ queue' = queue
      <4>1. CASE SendBytes(t)
        <5>1. ardp' = ardp
          BY <2>3, <4>1
        <5>2. CASE queue' = queue
          BY <5>1, <5>2
        <5>3. CASE queue' # queue
          <6>1. /\ ardp' = [ardp EXCEPT ![c].state = "CLOSING", ![c].held = {}] /\ ardp[c].state = "OPEN"
                /\ writer[t].pc = "send"
            BY <4>1, <5>3 DEF SendBytes
          <6>2. c \in Conns
            BY <1>0, <6>1 DEF Threading, Shape, WriterShape
          <6>3. ardp[c] \in RecordShape
            BY <1>0, <6>2
          <6>. QED BY <1>0, <5>1, <6>1, <6>2, <6>3 DEF RecordShape
        <5>. QED BY <5>2, <5>3
      <4>2. CASE ~SendBytes(t)
        BY <1>3, <4>2 DEF WriterStep, FindDisc, Enter, Sent, Blocked, Woken
      <4>. QED BY <4>1, <4>2
    <3>. QED BY <1>2, <2>1, <3>1
  <2>. QED BY <2>2, <2>3
<1>4. CASE Ask
  BY <1>2, <1>4 DEF Ask
<1>5. ASSUME NEW t \in Writers, NEW c \in Conns, PushMessage(t, c) PROVE Receipts(d)'
  BY <1>2, <1>5 DEF PushMessage
<1>6. CASE UNCHANGED vars
  BY <1>2, <1>6 DEF vars
<1>. QED BY <1>1, <1>3, <1>4, <1>5, <1>6 DEF Next, StepAt

-----------------------------------------------------------------------------
(* The theorems.                                                              *)

\* The inductive invariant.  No property of UdpEndpoint.tla is inductive by
\* itself: each depends on where the dispatcher and the other threads are.
UdpInv ==
  /\ EndpointInv /\ Buffers /\ Counters /\ Waits
  /\ \A d \in Conns : Receipts(d)
  /\ fault = {}

\* Every step of every thread keeps the invariant.
THEOREM UdpInvariant == Spec => []UdpInv
<1>1. Init => UdpInv
  <2>1. Init => fault = {}
    BY DEF Init
  <2>. QED BY <2>1, EndpointInvInit, BuffersInit, CountersInit, WaitsInit, ReceiptsInit DEF UdpInv
<1>2. ASSUME UdpInv, [Next]_vars PROVE UdpInv'
  <2>1. EndpointInv' /\ Buffers' /\ fault' = {}
    BY <1>2, EndpointInvStep, BuffersStep, FaultStep DEF UdpInv
  <2>2. Counters' /\ Waits'
    BY <1>2, CountersStep, WaitsStep DEF UdpInv, EndpointInv
  <2>3. \A d \in Conns : Receipts(d)'
    BY <1>2, ReceiptsStep DEF UdpInv
  <2>. QED BY <2>1, <2>2, <2>3 DEF UdpInv
<1>. QED BY <1>1, <1>2, PTL DEF Spec

\* Every field keeps its type; in particular m_currAuth, m_currConn, the count
\* of waiting writers and the count of messages that ARDP has passed up, all of
\* which are decremented without a test, never go below zero.
THEOREM TypesHold == Spec => []TypeOK
<1>1. UdpInv => TypeOK
  <2>. SUFFICES ASSUME UdpInv PROVE TypeOK
    OBVIOUS
  <2>0. Shape
    BY DEF UdpInv, EndpointInv
  <2>1. stream \in [Conns -> Stream]
    <3>1. ASSUME NEW d \in Conns PROVE stream[d] \in Stream
      <4>1. stream[d] \in StreamShape /\ stream[d].writeWaits \in Nat
        BY <2>0, FS_CardinalityType DEF UdpInv, Waits, Shape
      <4>. QED BY <4>1 DEF StreamShape, Stream
    <3>. QED BY <2>0, <3>1 DEF Shape
  <2>2. ardp \in [Conns -> ConnRecord]
    <3>1. ASSUME NEW d \in Conns PROVE ardp[d] \in ConnRecord
      <4>1. ardp[d] \in RecordShape /\ Receipts(d) /\ MaxRcv \in Nat
        BY <2>0, EndpointAssumption DEF UdpInv, Shape
      <4>2. ardp[d].rcv \in 0 .. MaxRcv
        BY <4>1 DEF Receipts, RecordShape
      <4>. QED BY <4>1, <4>2 DEF RecordShape, ConnRecord
    <3>. QED BY <2>0, <3>1 DEF Shape
  <2>3. currAuth \in Nat /\ currConn \in Nat
    <3>1. Cardinality(OnList("auth")) \in Nat /\ Cardinality(OnList("endpoint")) \in Nat
      BY FS_CardinalityType DEF UdpInv, Counters
    <3>. QED BY <2>0, <3>1 DEF UdpInv, Counters, Shape
  <2>. QED BY <2>0, <2>1, <2>2, <2>3 DEF TypeOK, Shape, WriterShape, ConnectorPcs
<1>. QED BY <1>1, UdpInvariant, PTL

\* The assertions of Start(), Stop(), SetEpDone(), the destructor, Disconnect(),
\* DoConnectCb() and SendCb() hold for any number of connections, threads and
\* buffers, whatever the order in which the threads get the locks.
THEOREM AssertionsAreSafe == Spec => []AssertionsHold
<1>1. UdpInv => AssertionsHold
  BY DEF UdpInv, EndpointInv, Local, Stopping, AssertionsHold
<1>. QED BY <1>1, UdpInvariant, PTL

\* ManageEndpoints() destroys an endpoint only when the daemon has let go of it
\* and no thread is in any of its methods or in its stream.
THEOREM RemovalIsSafe == Spec => []RemovedIsUnused
<1>1. UdpInv => RemovedIsUnused
  <2>. SUFFICES ASSUME UdpInv, NEW c \in Conns, ep[c].list = "gone"
                PROVE  ~ep[c].known /\ ThreadSetEmpty(stream[c]) /\ disp.conn # c /\ ep[c].stopper = "none"
                       /\ \A t \in Threads : writer[t].conn # c
    BY DEF RemovedIsUnused
  <2>0. Local(c) /\ stream[c].threads \subseteq Threads
    BY DEF UdpInv, EndpointInv, Shape, StreamShape
  <2>1. ~ep[c].known /\ disp.conn # c /\ ep[c].stopper = "none"
    BY <2>0 DEF Local, Life, Stopping
  <2>2. \A t \in Threads : writer[t].conn # c /\ t \notin stream[c].threads
    BY <2>0 DEF Local, Writing
  <2>3. ThreadSetEmpty(stream[c])
    BY <2>0, <2>2 DEF ThreadSetEmpty
  <2>. QED BY <2>1, <2>2, <2>3
<1>. QED BY <1>1, UdpInvariant, PTL

\* m_currAuth is the length of m_authList and m_currConn at least that of
\* m_endpointList: AcceptCb(), which only compares the counters with m_maxAuth
\* and m_maxConn, never takes a full list for one with room.
THEOREM CountersAreRight == Spec => []CountersCover
<1>1. UdpInv => CountersCover
  BY DEF UdpInv, Counters, CountersCover, OnList, Listed
<1>. QED BY <1>1, UdpInvariant, PTL

\* A deleted buffer is neither in ARDP's queue nor in m_sentSet.
THEOREM FreedBuffersAreUnused == Spec => []FreedIsUnused
<1>1. UdpInv => FreedIsUnused
  BY DEF UdpInv, Buffers, StoredBufs, FreedIsUnused
<1>. QED BY <1>1, UdpInvariant, PTL

\* Connect() returns only an endpoint that the daemon has been told of.
THEOREM ConnectFindsRegistered == Spec => []FoundIsRegistered
<1>1. UdpInv => FoundIsRegistered
  BY DEF UdpInv, EndpointInv, Local, Life, FoundIsRegistered
<1>. QED BY <1>1, UdpInvariant, PTL
=============================================================================
