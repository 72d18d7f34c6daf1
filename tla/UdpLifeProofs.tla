--------------------------- MODULE UdpLifeProofs ----------------------------
(* The life of an endpoint, from the first SYN to its destruction, as an       *)
(* inductive invariant: what its list, its state, its stream, its ARDP record, *)
(* the commands in the queue and the threads that are at it have to do with    *)
(* each other.  A step at one connection leaves the others alone, so what is   *)
(* said is said of one connection, and shown action by action.  Before that,   *)
(* what the operations on the dispatcher's queue do to the commands in it, and *)
(* the parts of the invariant that each step keeps by itself: the shape of the *)
(* state, and which thread can be where.                                       *)
EXTENDS UdpEndpoint, Integers, SequenceTheorems, FiniteSetTheorems, TLAPS

-----------------------------------------------------------------------------
(* The queue.                                                                 *)

\* The places of a connection's commands of one kind in a queue, and their
\* number.
Places(q, cmd, d) == {i \in DOMAIN q : q[i].cmd = cmd /\ q[i].conn = d}
Waiting(q, cmd, d) == Cardinality(Places(q, cmd, d))
InQueue(q, x) == \E i \in DOMAIN q : q[i] = x

\* A queue has finitely many places.
LEMMA WaitingIsNat ==
  ASSUME NEW q \in Seq(Commands), NEW cmd, NEW d
  PROVE  IsFiniteSet(Places(q, cmd, d)) /\ Waiting(q, cmd, d) \in Nat
<1>1. DOMAIN q = 1 .. Len(q) /\ Len(q) \in Nat
  BY LenProperties
<1>2. IsFiniteSet(1 .. Len(q))
  BY <1>1, FS_Interval
<1>3. Places(q, cmd, d) \subseteq 1 .. Len(q)
  BY <1>1 DEF Places
<1>4. IsFiniteSet(Places(q, cmd, d))
  BY <1>2, <1>3, FS_Subset
<1>. QED BY <1>4, FS_CardinalityType DEF Waiting

\* Append adds one command.
LEMMA QueueAppend ==
  ASSUME NEW q \in Seq(Commands), NEW x \in Commands
  PROVE  /\ Append(q, x) \in Seq(Commands)
         /\ \A cmd, d : Waiting(Append(q, x), cmd, d) =
              Waiting(q, cmd, d) + IF x.cmd = cmd /\ x.conn = d THEN 1 ELSE 0
         /\ \A y : InQueue(Append(q, x), y) <=> InQueue(q, y) \/ y = x
<1>. DEFINE a == Append(q, x)
            n == Len(q)
<1>1. /\ a \in Seq(Commands) /\ n \in Nat /\ DOMAIN q = 1 .. n /\ DOMAIN a = 1 .. n + 1
      /\ \A i \in 1 .. n : a[i] = q[i]
      /\ a[n + 1] = x
  BY AppendProperties, LenProperties
<1>2. ASSUME NEW cmd, NEW d
      PROVE  Waiting(a, cmd, d) = Waiting(q, cmd, d) + IF x.cmd = cmd /\ x.conn = d THEN 1 ELSE 0
  <2>. DEFINE S == Places(q, cmd, d)
              T == Places(a, cmd, d)
  <2>1. IsFiniteSet(S) /\ Cardinality(S) \in Nat
    BY WaitingIsNat DEF Waiting
  <2>2. n + 1 \notin S
    BY <1>1 DEF Places
  <2>3. T = IF x.cmd = cmd /\ x.conn = d THEN S \cup {n + 1} ELSE S
    <3>1. DOMAIN a = DOMAIN q \cup {n + 1}
      BY <1>1
    <3>. QED BY <1>1, <3>1 DEF Places
  <2>. HIDE DEF S, T
  <2>4. Cardinality(T) = Cardinality(S) + IF x.cmd = cmd /\ x.conn = d THEN 1 ELSE 0
    <3>1. Cardinality(S \cup {n + 1}) = Cardinality(S) + 1
      BY <2>1, <2>2, FS_AddElement
    <3>. QED BY <2>1, <2>3, <3>1
  <2>. QED BY <2>4 DEF Waiting, S, T
<1>3. \A y : InQueue(a, y) <=> InQueue(q, y) \/ y = x
  BY <1>1 DEF InQueue
<1>. QED BY <1>1, <1>2, <1>3

\* Tail takes the head away.
LEMMA QueueTail ==
  ASSUME NEW q \in Seq(Commands), q # << >>
  PROVE  /\ Tail(q) \in Seq(Commands) /\ Head(q) \in Commands
         /\ \A cmd, d : Waiting(Tail(q), cmd, d) =
              Waiting(q, cmd, d) - IF Head(q).cmd = cmd /\ Head(q).conn = d THEN 1 ELSE 0
         /\ \A y : InQueue(q, y) <=> InQueue(Tail(q), y) \/ y = Head(q)
<1>. DEFINE t == Tail(q)
            x == Head(q)
            n == Len(q)
<1>1. /\ t \in Seq(Commands) /\ n \in Nat \ {0} /\ DOMAIN q = 1 .. n /\ DOMAIN t = 1 .. n - 1
      /\ \A i \in 1 .. n - 1 : t[i] = q[i + 1]
      /\ q[1] = x /\ x \in Commands
  BY HeadTailProperties, LenProperties, EmptySeq
<1>2. ASSUME NEW cmd, NEW d
      PROVE  Waiting(t, cmd, d) = Waiting(q, cmd, d) - IF x.cmd = cmd /\ x.conn = d THEN 1 ELSE 0
  <2>. DEFINE S == Places(q, cmd, d)
              T == Places(t, cmd, d)
              f == [i \in T |-> i + 1]
  <2>1. IsFiniteSet(S) /\ Cardinality(S) \in Nat /\ IsFiniteSet(T)
    BY <1>1, WaitingIsNat DEF Waiting
  <2>2. 1 \in S <=> x.cmd = cmd /\ x.conn = d
    BY <1>1 DEF Places
  <2>3. f \in Bijection(T, S \ {1})
    <3>1. f \in [T -> S \ {1}]
      BY <1>1 DEF Places
    <3>2. \A i, j \in T : f[i] = f[j] => i = j
      BY <1>1 DEF Places
    <3>3. \A k \in S \ {1} : \E i \in T : f[i] = k
      <4>. SUFFICES ASSUME NEW k \in S \ {1} PROVE k - 1 \in T /\ f[k - 1] = k
        OBVIOUS
      <4>1. k - 1 \in 1 .. n - 1 /\ t[k - 1] = q[k]
        BY <1>1 DEF Places
      <4>. QED BY <1>1, <4>1 DEF Places
    <3>. QED BY <3>1, <3>2, <3>3 DEF Bijection, Injection, Surjection, IsInjective
  <2>. HIDE DEF S, T, f
  <2>4. Cardinality(T) = Cardinality(S \ {1})
    BY <2>1, <2>3, FS_Bijection DEF ExistsBijection
  <2>5. Cardinality(T) = Cardinality(S) - IF x.cmd = cmd /\ x.conn = d THEN 1 ELSE 0
    <3>1. Cardinality(S \ {1}) = IF 1 \in S THEN Cardinality(S) - 1 ELSE Cardinality(S)
      BY <2>1, FS_RemoveElement
    <3>. QED BY <2>1, <2>2, <2>4, <3>1
  <2>. QED BY <2>5 DEF Waiting, S, T
<1>3. \A y : InQueue(q, y) <=> InQueue(t, y) \/ y = x
  <2>1. ASSUME NEW y, InQueue(q, y) PROVE InQueue(t, y) \/ y = x
    <3>1. PICK i \in 1 .. n : q[i] = y
      BY <1>1, <2>1 DEF InQueue
    <3>2. CASE i = 1
      BY <1>1, <3>1, <3>2
    <3>3. CASE i # 1
      <4>1. i - 1 \in 1 .. n - 1 /\ t[i - 1] = q[i]
        BY <1>1, <3>3
      <4>. QED BY <1>1, <3>1, <4>1 DEF InQueue
    <3>. QED BY <3>2, <3>3
  <2>2. ASSUME NEW y, InQueue(t, y) \/ y = x PROVE InQueue(q, y)
    <3>1. CASE InQueue(t, y)
      BY <1>1, <3>1 DEF InQueue
    <3>. QED BY <1>1, <2>2, <3>1 DEF InQueue
  <2>. QED BY <2>1, <2>2
<1>. QED BY <1>1, <1>2, <1>3

\* A command that is in the queue is counted.
LEMMA QueuedIsWaiting ==
  ASSUME NEW q \in Seq(Commands), NEW x, InQueue(q, x)
  PROVE  Waiting(q, x.cmd, x.conn) > 0
<1>. DEFINE S == Places(q, x.cmd, x.conn)
<1>1. S # {}
  BY DEF InQueue, Places
<1>2. IsFiniteSet(S) /\ Cardinality(S) \in Nat
  BY WaitingIsNat DEF Waiting
<1>. HIDE DEF S
<1>3. Cardinality(S) # 0
  BY <1>1, <1>2, FS_EmptySet
<1>. QED BY <1>2, <1>3 DEF Waiting, S

\* The commands that a flush puts into the queue.
SendCmd(c, b) == [cmd |-> "SEND_CB", conn |-> c, buf |-> b]
DiscCmd(c, status) == [cmd |-> "DISCONNECT_CB", conn |-> c, status |-> status]

\* r is the queue q after a flush of bufs and the DisconnectCb.
FlushedTo(q, c, bufs, status, r) ==
  \E sends \in Flushed(c, bufs) :
    r = q \o sends \o <<[cmd |-> "DISCONNECT_CB", conn |-> c, status |-> status]>>

\* What a flush adds to the queue.
FlushAdds(q, c, bufs, status, r) ==
  /\ \A cmd, d : cmd \notin {"SEND_CB", "DISCONNECT_CB"} => Waiting(r, cmd, d) = Waiting(q, cmd, d)
  /\ \A y : InQueue(r, y) =>
       InQueue(q, y) \/ y = DiscCmd(c, status) \/ \E b \in bufs : y = SendCmd(c, b)

\* FlushSendQueue and the DisconnectCb after it add nothing else.
LEMMA QueueFlush ==
  ASSUME NEW q \in Seq(Commands), NEW c \in Conns, NEW bufs \in SUBSET Bufs,
         NEW status \in {"OK", "REMOTE", "SOCKET"}, NEW r, FlushedTo(q, c, bufs, status, r)
  PROVE  r \in Seq(Commands) /\ FlushAdds(q, c, bufs, status, r)
<1>0. PICK sends \in Flushed(c, bufs) : r = q \o sends \o <<DiscCmd(c, status)>>
  BY DEF DiscCmd, FlushedTo
<1>. DEFINE x == DiscCmd(c, status)
            p == q \o sends
            n == Cardinality(bufs)
<1>1. IsFiniteSet(bufs) /\ n \in Nat
  BY EndpointAssumption, FS_Subset, FS_CardinalityType
<1>2. PICK f \in [1 .. n -> bufs] : sends = [i \in DOMAIN f |-> SendCmd(c, f[i])]
  BY DEF Flushed, SendCmd
<1>3. /\ DOMAIN sends = 1 .. n
      /\ \A i \in 1 .. n : f[i] \in bufs /\ sends[i] = SendCmd(c, f[i])
  BY <1>2
<1>4. \A b \in bufs : SendCmd(c, b) \in Commands
  BY DEF SendCmd, Commands
<1>5. sends \in Seq(Commands) /\ Len(sends) = n
  <2>1. sends \in [1 .. n -> Commands]
    BY <1>2, <1>3, <1>4
  <2>2. sends \in Seq(Commands)
    BY <1>1, <2>1, SeqDef
  <2>. QED BY <1>1, <1>3, <2>2, LenProperties
<1>6. x \in Commands /\ x.cmd = "DISCONNECT_CB"
  BY DEF DiscCmd, Commands
<1>7. /\ p \in Seq(Commands) /\ DOMAIN p = 1 .. Len(q) + n /\ DOMAIN q = 1 .. Len(q) /\ Len(q) \in Nat
      /\ \A i \in 1 .. Len(q) + n : p[i] = IF i <= Len(q) THEN q[i] ELSE sends[i - Len(q)]
  <2>1. p \in Seq(Commands) /\ Len(p) = Len(q) + n
    BY <1>5, ConcatProperties
  <2>. QED BY <1>1, <1>5, <2>1, ConcatProperties, LenProperties
<1>8. \A i \in DOMAIN p : i \notin DOMAIN q => \E b \in bufs : p[i] = SendCmd(c, b)
  <2>. SUFFICES ASSUME NEW i \in DOMAIN p, i \notin DOMAIN q
                PROVE  \E b \in bufs : p[i] = SendCmd(c, b)
    OBVIOUS
  <2>1. i - Len(q) \in 1 .. n /\ p[i] = sends[i - Len(q)]
    BY <1>1, <1>7
  <2>. QED BY <1>3, <2>1
<1>9. DOMAIN q \subseteq DOMAIN p /\ \A i \in DOMAIN q : p[i] = q[i]
  BY <1>1, <1>7
<1>10. \A cmd, d : cmd # "SEND_CB" => Waiting(p, cmd, d) = Waiting(q, cmd, d)
  <2>1. \A b \in bufs : SendCmd(c, b).cmd = "SEND_CB"
    BY DEF SendCmd
  <2>2. \A cmd, d : cmd # "SEND_CB" => Places(p, cmd, d) = Places(q, cmd, d)
    BY <1>8, <1>9, <2>1 DEF Places
  <2>. QED BY <2>2 DEF Waiting
<1>11. \A y : InQueue(p, y) => InQueue(q, y) \/ \E b \in bufs : y = SendCmd(c, b)
  BY <1>8, <1>9 DEF InQueue
<1>12. p \o <<x>> = Append(p, x)
  BY <1>6, <1>7, AppendIsConcat
<1>. HIDE DEF p, x
<1>13. \A cmd, d : Waiting(Append(p, x), cmd, d) =
         Waiting(p, cmd, d) + IF x.cmd = cmd /\ x.conn = d THEN 1 ELSE 0
  BY <1>6, <1>7, QueueAppend
<1>14. \A cmd, d : Waiting(p, cmd, d) \in Nat
  BY <1>7, WaitingIsNat
<1>15. \A cmd, d : cmd \notin {"SEND_CB", "DISCONNECT_CB"} =>
         Waiting(Append(p, x), cmd, d) = Waiting(q, cmd, d)
  BY <1>6, <1>10, <1>13, <1>14
<1>16. Append(p, x) \in Seq(Commands) /\ \A y : InQueue(Append(p, x), y) <=> InQueue(p, y) \/ y = x
  BY <1>6, <1>7, QueueAppend
<1>. QED BY <1>0, <1>11, <1>12, <1>15, <1>16 DEF p, x, FlushAdds

\* The types that follow from each step alone: the counters are integers here,
\* that they are never negative needs the rest of the invariant.
StreamShape == [disc : BOOLEAN, discSent : BOOLEAN, discStatus : Statuses, conn : BOOLEAN,
                writeEvent : BOOLEAN, writesOutstanding : Nat, writeWaits : Int,
                sentSet : SUBSET Bufs, threads : SUBSET Threads, fault : SUBSET StreamAsserts]

RecordShape == [state : {"none", "SYN", "OPEN", "LOCAL", "CLOSING", "CLOSED", "gone"},
                held : SUBSET Bufs, rcv : Int, left : 0 .. MaxRcv]

WriterShape == [pc : WriterPcs, conn : Conns \cup {NoConn}, buf : Bufs \cup {NoBuf}, ok : BOOLEAN]

ConnectorPcs == {"idle", "waiting", "woken", "timed out", "found", "empty", "failed"}

\* What has a shape whatever the order of the steps.
Shape ==
  /\ ep \in [Conns -> Endpoint] /\ stream \in [Conns -> StreamShape] /\ ardp \in [Conns -> RecordShape]
  /\ queue \in Seq(Commands)
  /\ disp \in [pc : DispPcs, conn : Conns \cup {NoConn}]
  /\ writer \in [Threads -> WriterShape]
  /\ connector \in [Conns -> ConnectorPcs]
  /\ currAuth \in Int /\ currConn \in Int
  /\ used \in SUBSET Bufs /\ freed \in SUBSET Bufs /\ fault \in SUBSET EpAsserts

\* The eight cases of Disconnect() assign statuses and flags.
LEMMA DisconnectShape ==
  ASSUME NEW s \in StreamShape, NEW sudden \in BOOLEAN, NEW status \in Statuses, NEW r \in Statuses
  PROVE  Disconnect(s, sudden, status, r) \in StreamShape
<1>1. ASSUME NEW name \in StreamAsserts, NEW holds
      PROVE  StreamAssert(s, name, holds) \in StreamShape
  BY <1>1 DEF StreamAssert, StreamShape
<1>2. ASSUME NEW u \in StreamShape, NEW st \in Statuses, NEW a \in BOOLEAN, NEW b \in BOOLEAN, NEW e \in BOOLEAN
      PROVE  [u EXCEPT !.disc = a, !.conn = b, !.discSent = e, !.discStatus = st] \in StreamShape
  BY <1>2 DEF StreamShape
<1>3. CASE AsksArdp(s, sudden)
  <2>1. StreamAssert(s, "NewLocal", status = "LOCAL_DISCONNECT") \in StreamShape
    BY <1>1 DEF StreamAsserts
  <2>. DEFINE u == StreamAssert(s, "NewLocal", status = "LOCAL_DISCONNECT")
  <2>2. [u EXCEPT !.discSent = TRUE, !.discStatus = "LOCAL_DISCONNECT"] \in StreamShape
    BY <2>1 DEF StreamShape, Statuses
  <2>3. [u EXCEPT !.disc = TRUE, !.conn = FALSE, !.discSent = TRUE, !.discStatus = r] \in StreamShape
    BY <2>1 DEF StreamShape
  <2>4. Disconnect(s, sudden, status, r) = IF r = "OK"
              THEN [u EXCEPT !.discSent = TRUE, !.discStatus = "LOCAL_DISCONNECT"]
              ELSE [u EXCEPT !.disc = TRUE, !.conn = FALSE, !.discSent = TRUE, !.discStatus = r]
    BY <1>3 DEF Disconnect, AsksArdp
  <2>. QED BY <2>2, <2>3, <2>4
<1>4. CASE ~sudden /\ ~s.disc /\ s.discSent
  <2>1. StreamAssert(s, "LocalDone", status = "OK" /\ s.discStatus = "LOCAL_DISCONNECT") \in StreamShape
    BY <1>1 DEF StreamAsserts
  <2>. QED BY <1>4, <2>1 DEF Disconnect, StreamShape, AsksArdp
<1>5. CASE s.disc
  BY <1>1, <1>5 DEF Disconnect, StreamShape, AsksArdp, StreamAsserts
<1>6. CASE sudden /\ ~s.disc
  BY <1>6 DEF Disconnect, StreamShape, AsksArdp
<1>. QED BY <1>3, <1>4, <1>5, <1>6 DEF AsksArdp, StreamShape

\* So do the other calls of the stream.
LEMMA StreamOpsShape ==
  ASSUME NEW s \in StreamShape
  PROVE  /\ \A t \in Threads : AddCurrentThread(s, t) \in StreamShape
         /\ \A t : RemoveCurrentThread(s, t) \in StreamShape
         /\ WakeThreadSet(s) \in StreamShape /\ EarlyExit(s) \in StreamShape
         /\ \A b \in Bufs : NoteSent(s, b) \in StreamShape
         /\ BeginWait(s) \in StreamShape /\ EndWait(s) \in StreamShape
         /\ \A b : ForgetSent(s, b) \in StreamShape
         /\ SetWriteEvent(s) \in StreamShape
<1>1. \A t \in Threads : AddCurrentThread(s, t) \in StreamShape
  BY DEF StreamShape, AddCurrentThread
<1>2. \A t : RemoveCurrentThread(s, t) \in StreamShape
  BY DEF StreamShape, RemoveCurrentThread
<1>3. WakeThreadSet(s) \in StreamShape /\ SetWriteEvent(s) \in StreamShape
  BY DEF StreamShape, WakeThreadSet, SetWriteEvent
<1>4. EarlyExit(s) \in StreamShape
  BY DEF StreamShape, EarlyExit, Statuses
<1>5. \A b \in Bufs : NoteSent(s, b) \in StreamShape
  <2>1. s.writesOutstanding + 1 \in Nat
    BY DEF StreamShape
  <2>. QED BY <2>1 DEF StreamShape, NoteSent
<1>6. BeginWait(s) \in StreamShape /\ EndWait(s) \in StreamShape
  <2>1. s.writeWaits + 1 \in Int /\ s.writeWaits - 1 \in Int
    BY DEF StreamShape
  <2>. QED BY <2>1 DEF StreamShape, BeginWait, EndWait
<1>7. \A b : ForgetSent(s, b) \in StreamShape
  BY DEF StreamShape, ForgetSent
<1>. QED BY <1>1, <1>2, <1>3, <1>4, <1>5, <1>6, <1>7

\* ARDP_Disconnect() leaves the record alone or closes it.
LEMMA ArdpDisconnectShape ==
  ASSUME Shape, NEW c \in Conns, NEW r \in ARDP_Disconnect(c)
  PROVE  r.status \in Statuses /\ r.conn \in {ardp[c], [ardp[c] EXCEPT !.state = "LOCAL"]}
         /\ r.conn \in RecordShape
<1>1. r.status \in {"OK", "SOCKET", "INVALID_CONNECTION"} /\ r.conn \in {ardp[c], [ardp[c] EXCEPT !.state = "LOCAL"]}
  BY DEF ARDP_Disconnect
<1>2. ardp[c] \in RecordShape /\ [ardp[c] EXCEPT !.state = "LOCAL"] \in RecordShape
  BY DEF Shape, RecordShape
<1>. QED BY <1>1, <1>2 DEF Statuses

\* ArdpStream::Disconnect() with its call of ARDP.
LEMMA StreamDisconnectShape ==
  ASSUME Shape, NEW c \in Conns, NEW sudden \in BOOLEAN, NEW status \in Statuses,
         StreamDisconnect(c, sudden, status)
  PROVE  stream' \in [Conns -> StreamShape] /\ ardp' \in [Conns -> RecordShape]
<1>1. PICK r \in IF AsksArdp(stream[c], sudden) THEN ARDP_Disconnect(c)
                 ELSE {[status |-> "OK", conn |-> ardp[c]]} :
        /\ stream' = [stream EXCEPT ![c] = Disconnect(@, sudden, status, r.status)]
        /\ ardp' = [ardp EXCEPT ![c] = r.conn]
  BY DEF StreamDisconnect
<1>2. r.status \in Statuses /\ r.conn \in RecordShape
  BY ArdpDisconnectShape DEF Shape, Statuses
<1>. QED BY <1>1, <1>2, DisconnectShape DEF Shape

\* The initial states have the shape.
LEMMA ShapeInit == Init => Shape
<1>. SUFFICES ASSUME Init PROVE Shape
  OBVIOUS
<1>1. NoEndpoint \in Endpoint
  BY DEF NoEndpoint, NewEndpoint, Endpoint, EpStates, Lists
<1>2. NewStream \in StreamShape
  BY DEF NewStream, StreamShape, Statuses
<1>3. [state |-> "none", held |-> {}, rcv |-> 0, left |-> MaxRcv] \in RecordShape
  BY EndpointAssumption DEF RecordShape
<1>4. Idle \in [pc : DispPcs, conn : Conns \cup {NoConn}] /\ NotWriting \in WriterShape
  BY DEF Idle, DispPcs, NotWriting, WriterShape, WriterPcs
<1>5. << >> \in Seq(Commands) /\ OtherConns \subseteq Int
  BY EndpointAssumption, EmptySeq
<1>. QED BY <1>1, <1>2, <1>3, <1>4, <1>5 DEF Init, Shape, ConnectorPcs

\* An endpoint keeps its shape when one of its fields is assigned.
LEMMA EndpointShape ==
  ASSUME NEW e \in Endpoint
  PROVE  /\ \A l \in Lists : NewEndpoint(l) \in Endpoint /\ [e EXCEPT !.list = l] \in Endpoint
         /\ \A s \in EpStates : [e EXCEPT !.state = s] \in Endpoint
         /\ StoppedEp(e) \in Endpoint
         /\ \A s \in {"none", "wake", "disconnect"} : [e EXCEPT !.stopper = s] \in Endpoint
         /\ \A s \in EpStates, b \in BOOLEAN : [e EXCEPT !.state = s, !.exitScheduled = b] \in Endpoint
         /\ [e EXCEPT !.known = TRUE] \in Endpoint /\ [e EXCEPT !.conn = FALSE] \in Endpoint
         /\ \A b \in BOOLEAN : [e EXCEPT !.registered = b] \in Endpoint
         /\ [e EXCEPT !.known = FALSE, !.exited = TRUE, !.registered = FALSE] \in Endpoint
<1>. USE DEF Endpoint, EpStates, Lists
<1>1. \A l \in Lists : NewEndpoint(l) \in Endpoint /\ [e EXCEPT !.list = l] \in Endpoint
  BY DEF NewEndpoint
<1>2. \A s \in EpStates : [e EXCEPT !.state = s] \in Endpoint
  OBVIOUS
<1>3. StoppedEp(e) \in Endpoint
  BY DEF StoppedEp
<1>4. \A s \in {"none", "wake", "disconnect"} : [e EXCEPT !.stopper = s] \in Endpoint
  OBVIOUS
<1>5. \A s \in EpStates, b \in BOOLEAN : [e EXCEPT !.state = s, !.exitScheduled = b] \in Endpoint
  OBVIOUS
<1>6. [e EXCEPT !.known = TRUE] \in Endpoint /\ [e EXCEPT !.conn = FALSE] \in Endpoint
  OBVIOUS
<1>7. \A b \in BOOLEAN : [e EXCEPT !.registered = b] \in Endpoint
  OBVIOUS
<1>8. [e EXCEPT !.known = FALSE, !.exited = TRUE, !.registered = FALSE] \in Endpoint
  OBVIOUS
<1>. QED BY <1>1, <1>2, <1>3, <1>4, <1>5, <1>6, <1>7, <1>8

\* A record keeps its shape when ARDP assigns its fields.
LEMMA RecordUpdates ==
  ASSUME NEW a \in RecordShape
  PROVE  /\ \A s \in {"none", "SYN", "OPEN", "LOCAL", "CLOSING", "CLOSED", "gone"} :
              /\ [a EXCEPT !.state = s] \in RecordShape
              /\ [a EXCEPT !.state = s, !.held = {}] \in RecordShape
              /\ [a EXCEPT !.state = s, !.rcv = 0] \in RecordShape
         /\ \A b : [a EXCEPT !.held = @ \ {b}] \in RecordShape
         /\ \A b \in Bufs : [a EXCEPT !.held = @ \cup {b}] \in RecordShape
         /\ [a EXCEPT !.rcv = @ - 1] \in RecordShape
         /\ a.left > 0 => [a EXCEPT !.rcv = @ + 1, !.left = @ - 1] \in RecordShape
<1>1. a.rcv - 1 \in Int /\ a.rcv + 1 \in Int /\ (a.left > 0 => a.left - 1 \in 0 .. MaxRcv)
  BY EndpointAssumption DEF RecordShape
<1>2. \A s \in {"none", "SYN", "OPEN", "LOCAL", "CLOSING", "CLOSED", "gone"} :
        /\ [a EXCEPT !.state = s] \in RecordShape
        /\ [a EXCEPT !.state = s, !.held = {}] \in RecordShape
        /\ [a EXCEPT !.state = s, !.rcv = 0] \in RecordShape
  <2>. SUFFICES ASSUME NEW s \in {"none", "SYN", "OPEN", "LOCAL", "CLOSING", "CLOSED", "gone"}
                PROVE  /\ [a EXCEPT !.state = s] \in RecordShape
                       /\ [a EXCEPT !.state = s, !.held = {}] \in RecordShape
                       /\ [a EXCEPT !.state = s, !.rcv = 0] \in RecordShape
    OBVIOUS
  <2>1. [a EXCEPT !.state = s] \in RecordShape
    BY DEF RecordShape
  <2>2. [a EXCEPT !.state = s, !.held = {}] \in RecordShape
    BY DEF RecordShape
  <2>3. [a EXCEPT !.state = s, !.rcv = 0] \in RecordShape
    <3>1. 0 \in Int
      OBVIOUS
    <3>. QED BY <3>1 DEF RecordShape
  <2>. QED BY <2>1, <2>2, <2>3
<1>3. \A b : [a EXCEPT !.held = @ \ {b}] \in RecordShape
  BY DEF RecordShape
<1>4. \A b \in Bufs : [a EXCEPT !.held = @ \cup {b}] \in RecordShape
  BY DEF RecordShape
<1>5. [a EXCEPT !.rcv = @ - 1] \in RecordShape
  BY <1>1 DEF RecordShape
<1>6. a.left > 0 => [a EXCEPT !.rcv = @ + 1, !.left = @ - 1] \in RecordShape
  BY <1>1 DEF RecordShape
<1>. QED BY <1>2, <1>3, <1>4, <1>5, <1>6

\* A writer keeps its shape when it moves on, leaves or calls.
LEMMA WriterUpdates ==
  ASSUME NEW w \in WriterShape
  PROVE  /\ NotWriting \in WriterShape
         /\ \A p \in WriterPcs : [w EXCEPT !.pc = p] \in WriterShape
         /\ \A b \in BOOLEAN : [NotWriting EXCEPT !.ok = b] \in WriterShape
         /\ \A p \in WriterPcs, c \in Conns : [NotWriting EXCEPT !.pc = p, !.conn = c] \in WriterShape
         /\ \A p \in WriterPcs, b \in Bufs : [w EXCEPT !.pc = p, !.buf = b] \in WriterShape
  BY DEF WriterShape, WriterPcs, NotWriting

\* What is appended to the queue is a command.
LEMMA CommandsShape ==
  ASSUME NEW c \in Conns
  PROVE  /\ \A ok \in BOOLEAN : [cmd |-> "CONNECT_CB", conn |-> c, ok |-> ok] \in Commands
         /\ \A b \in Bufs : [cmd |-> "SEND_CB", conn |-> c, buf |-> b] \in Commands
         /\ [cmd |-> "RECV_CB", conn |-> c] \in Commands /\ [cmd |-> "EXIT", conn |-> c] \in Commands
  BY DEF Commands

\* What the head of the queue carries.
LEMMA HeadShape ==
  ASSUME Shape, queue # << >>
  PROVE  /\ Tail(queue) \in Seq(Commands)
         /\ Head(queue).cmd = "CONNECT_CB" => Head(queue).ok \in BOOLEAN
         /\ Head(queue).cmd = "DISCONNECT_CB" => Head(queue).status \in {"OK", "REMOTE", "SOCKET"}
         /\ Head(queue).cmd = "SEND_CB" => Head(queue).buf \in Bufs
<1>1. Head(queue) \in Commands /\ Tail(queue) \in Seq(Commands)
  BY QueueTail DEF Shape
<1>. QED BY <1>1 DEF Commands

\* What the network and ARDP's timers do keeps the shape.
LEMMA NetworkShape ==
  ASSUME Shape, NEW c \in Conns, NetworkStep(c) \/ DisconnectTimer(c)
  PROVE  Shape'
<1>0. ardp[c] \in RecordShape /\ ardp[c].held \in SUBSET Bufs
  BY DEF Shape, RecordShape
<1>1. ASSUME NEW ok \in BOOLEAN, HandshakeEnds(c, ok) PROVE Shape'
  <2>1. queue' \in Seq(Commands)
    BY <1>1, QueueAppend, CommandsShape DEF HandshakeEnds, Shape
  <2>2. ardp' \in [Conns -> RecordShape]
    BY <1>0, <1>1, RecordUpdates DEF HandshakeEnds, Shape
  <2>. QED BY <1>1, <2>1, <2>2 DEF HandshakeEnds, Shape
<1>2. ASSUME NEW b \in Bufs, Acknowledged(c, b) PROVE Shape'
  <2>1. queue' \in Seq(Commands)
    BY <1>2, QueueAppend, CommandsShape DEF Acknowledged, Shape
  <2>2. ardp' \in [Conns -> RecordShape]
    BY <1>0, <1>2, RecordUpdates DEF Acknowledged, Shape
  <2>. QED BY <1>2, <2>1, <2>2 DEF Acknowledged, Shape
<1>3. CASE Received(c)
  <2>1. queue' \in Seq(Commands)
    BY <1>3, QueueAppend, CommandsShape DEF Received, Shape
  <2>2. ardp' \in [Conns -> RecordShape]
    BY <1>0, <1>3, RecordUpdates DEF Received, Shape
  <2>. QED BY <1>3, <2>1, <2>2 DEF Received, Shape
<1>4. CASE ConnectionLost(c)
  <2>1. queue' \in Seq(Commands)
    BY <1>0, <1>4, QueueFlush DEF ConnectionLost, FlushedTo, Shape
  <2>2. ardp' \in [Conns -> RecordShape]
    BY <1>0, <1>4, RecordUpdates DEF ConnectionLost, Shape
  <2>. QED BY <1>4, <2>1, <2>2 DEF ConnectionLost, Shape
<1>5. CASE DisconnectTimer(c)
  <2>1. queue' \in Seq(Commands)
    <3>1. CASE ardp[c].state = "LOCAL"
      BY <1>0, <1>5, <3>1, QueueFlush DEF DisconnectTimer, FlushedTo, Shape
    <3>. QED BY <1>5, <3>1 DEF DisconnectTimer, Shape
  <2>2. ardp' \in [Conns -> RecordShape]
    BY <1>0, <1>5, RecordUpdates DEF DisconnectTimer, Shape
  <2>. QED BY <1>5, <2>1, <2>2 DEF DisconnectTimer, Shape
<1>. QED BY <1>1, <1>2, <1>3, <1>4, <1>5 DEF NetworkStep

\* What Connect(), AcceptCb(), ManageEndpoints() and Stop() do keeps the shape.
LEMMA MainShape ==
  ASSUME Shape, NEW c \in Conns,
         \/ AcceptCb(c) \/ Connect(c) \/ ConnectTimesOut(c) \/ ConnectReturns(c)
         \/ ManageEndpoints(c) \/ Stop(c) \/ StopWake(c) \/ StopDisconnect(c)
  PROVE  Shape'
<1>0. ardp[c] \in RecordShape /\ ep[c] \in Endpoint /\ stream[c] \in StreamShape
  BY DEF Shape
<1>1. CASE AcceptCb(c)
  <2>1. NewEndpoint("auth") \in Endpoint
    BY <1>0, EndpointShape DEF Lists
  <2>2. ep' \in [Conns -> Endpoint]
    BY <1>1, <2>1 DEF AcceptCb, Shape
  <2>3. ardp' \in [Conns -> RecordShape]
    BY <1>0, <1>1, RecordUpdates DEF AcceptCb, Shape
  <2>4. currAuth' \in Int /\ currConn' \in Int
    BY <1>1 DEF AcceptCb, Shape
  <2>. QED BY <1>1, <2>2, <2>3, <2>4 DEF AcceptCb, Shape
<1>2. CASE Connect(c)
  <2>1. ardp' \in [Conns -> RecordShape]
    BY <1>0, <1>2, RecordUpdates DEF Connect, Shape
  <2>. QED BY <1>2, <2>1 DEF Connect, Shape, ConnectorPcs
<1>3. CASE ConnectTimesOut(c)
  BY <1>3 DEF ConnectTimesOut, Shape, ConnectorPcs
<1>4. CASE ConnectReturns(c)
  BY <1>4 DEF ConnectReturns, ConnectResult, Shape, ConnectorPcs
<1>5. CASE AuthTimeout(c)
  <2>1. [ep[c] EXCEPT !.list = "endpoint"] \in Endpoint
    BY <1>0, EndpointShape DEF Lists
  <2>2. StoppedEp([ep[c] EXCEPT !.list = "endpoint"]) \in Endpoint
    BY <2>1, EndpointShape
  <2>3. StoppedStream(ep[c], stream[c]) \in StreamShape
    BY <1>0, StreamOpsShape DEF StoppedStream
  <2>4. ep' \in [Conns -> Endpoint] /\ stream' \in [Conns -> StreamShape]
    BY <1>5, <2>2, <2>3 DEF AuthTimeout, Shape
  <2>. QED BY <1>5, <2>4 DEF AuthTimeout, Moved, Shape
<1>6. CASE JoinAndExit(c)
  <2>1. (ep[c].exitScheduled \/ ExitDue(ep[c])) \in BOOLEAN
    OBVIOUS
  <2>2. [ep[c] EXCEPT !.state = "JOINED", !.exitScheduled = @ \/ ExitDue(ep[c])] \in Endpoint
    BY <1>0, <2>1, EndpointShape DEF EpStates
  <2>3. queue' \in Seq(Commands)
    BY <1>6, CommandsShape, QueueAppend DEF JoinAndExit, Shape
  <2>. QED BY <1>6, <2>2, <2>3 DEF JoinAndExit, Shape
<1>7. CASE RemoveEndpoint(c)
  <2>1. [ep[c] EXCEPT !.list = "gone"] \in Endpoint
    BY <1>0, EndpointShape DEF Lists
  <2>2. ep' \in [Conns -> Endpoint] /\ currConn' \in Int
    BY <1>7, <2>1 DEF RemoveEndpoint, Shape
  <2>3. fault' \in SUBSET EpAsserts
    BY <1>7 DEF RemoveEndpoint, Shape, Failing, EpAsserts
  <2>. QED BY <1>7, <2>2, <2>3 DEF RemoveEndpoint, Shape
<1>8. CASE Stop(c)
  <2>1. StoppedEp(ep[c]) \in Endpoint
    BY <1>0, EndpointShape
  <2>2. [StoppedEp(ep[c]) EXCEPT !.stopper = "wake"] \in Endpoint
    BY <2>1, EndpointShape
  <2>3. fault' \in SUBSET EpAsserts
    BY <1>8 DEF Stop, StopFaults, Shape, Failing, EpAsserts
  <2>. QED BY <1>8, <2>2, <2>3 DEF Stop, Shape
<1>9. CASE StopWake(c)
  <2>1. WakeThreadSet(stream[c]) \in StreamShape
    BY <1>0, StreamOpsShape
  <2>2. [ep[c] EXCEPT !.stopper = "disconnect"] \in Endpoint
    BY <1>0, EndpointShape
  <2>. QED BY <1>9, <2>1, <2>2 DEF StopWake, Shape
<1>10. CASE StopDisconnect(c)
  <2>1. stream' \in [Conns -> StreamShape] /\ ardp' \in [Conns -> RecordShape]
    BY <1>10, StreamDisconnectShape DEF StopDisconnect, Statuses
  <2>2. [ep[c] EXCEPT !.stopper = "none"] \in Endpoint
    BY <1>0, EndpointShape
  <2>. QED BY <1>10, <2>1, <2>2 DEF StopDisconnect, Shape
<1>. QED BY <1>1, <1>2, <1>3, <1>4, <1>5, <1>6, <1>7, <1>8, <1>9, <1>10 DEF ManageEndpoints

\* Where a thread has a buffer.
Holding == {"send", "sent", "blocked", "waiting"}

\* A thread that is nowhere is at no endpoint, and the dispatcher writes only
\* when it registers an endpoint or routes a message.
Threading ==
  /\ disp.pc = "idle" <=> disp.conn = NoConn
  /\ \A t \in Threads : /\ writer[t].pc = "idle" <=> writer[t].conn = NoConn
                        /\ writer[t].pc \in Holding => writer[t].buf \in Bufs
  /\ writer[Dispatcher].pc # "idle" => disp.pc \in {"registered", "routed"}

\* What a writer does keeps the shape.
LEMMA WriterShapeStep ==
  ASSUME Shape, Threading, NEW t \in Threads, WriterStep(t) \/ Ask
  PROVE  Shape'
<1>. DEFINE w == writer[t]
            c == writer[t].conn
            b == writer[t].buf
<1>1. w \in WriterShape /\ writer \in [Threads -> WriterShape]
  BY DEF Shape
<1>2. \A u \in Threads, ok \in BOOLEAN : Leave(u, ok) => writer' \in [Threads -> WriterShape]
  <2>. SUFFICES ASSUME NEW u \in Threads, NEW ok \in BOOLEAN, Leave(u, ok)
                PROVE  writer' \in [Threads -> WriterShape]
    OBVIOUS
  <2>1. (ok \/ u # Dispatcher) \in BOOLEAN
    OBVIOUS
  <2>2. [NotWriting EXCEPT !.ok = ok \/ u # Dispatcher] \in WriterShape
    BY <1>1, <2>1, WriterUpdates
  <2>. QED BY <2>2 DEF Leave, Shape
<1>3. \A u \in Threads, p \in WriterPcs : Goto(u, p) => writer' \in [Threads -> WriterShape]
  <2>. SUFFICES ASSUME NEW u \in Threads, NEW p \in WriterPcs, Goto(u, p)
                PROVE  writer' \in [Threads -> WriterShape]
    OBVIOUS
  <2>1. [writer[u] EXCEPT !.pc = p] \in WriterShape
    BY <1>1, WriterUpdates
  <2>. QED BY <1>1, <2>1 DEF Goto
<1>4. w.pc # "idle" => /\ c \in Conns /\ stream[c] \in StreamShape
                       /\ ardp[c] \in RecordShape /\ ardp[c].held \in SUBSET Bufs
  BY DEF Shape, RecordShape, Threading, WriterShape
<1>5. \A s \in StreamShape : GiveUp(t, s) /\ b \in Bufs =>
         stream' \in [Conns -> StreamShape] /\ writer' \in [Threads -> WriterShape] /\ freed' \in SUBSET Bufs
  <2>. SUFFICES ASSUME NEW s \in StreamShape, GiveUp(t, s), b \in Bufs
                PROVE  stream' \in [Conns -> StreamShape] /\ writer' \in [Threads -> WriterShape]
                       /\ freed' \in SUBSET Bufs
    OBVIOUS
  <2>1. RemoveCurrentThread(s, t) \in StreamShape
    BY StreamOpsShape
  <2>. QED BY <1>2, <2>1 DEF GiveUp, Shape
<1>6. w.pc \in Holding => b \in Bufs
  BY DEF Threading
<1>7. CASE FindDisc(t)
  <2>1. writer' \in [Threads -> WriterShape]
    BY <1>2, <1>3, <1>7 DEF FindDisc, WriterPcs
  <2>. QED BY <1>7, <2>1 DEF FindDisc, Shape
<1>8. CASE Enter(t)
  <2>1. CASE used = Bufs
    <3>1. writer' \in [Threads -> WriterShape]
      BY <1>2, <1>8, <2>1 DEF Enter
    <3>. QED BY <1>8, <2>1, <3>1 DEF Enter, Shape
  <2>2. CASE used # Bufs
    <3>. DEFINE x == CHOOSE x \in Bufs \ used : TRUE
    <3>1. x \in Bufs
      BY <2>2 DEF Shape
    <3>. HIDE DEF x
    <3>2. /\ stream' = [stream EXCEPT ![c] = AddCurrentThread(@, t)]
          /\ used' = used \cup {x}
          /\ writer' = [writer EXCEPT ![t].pc = "send", ![t].buf = x]
          /\ w.pc # "idle"
      BY <1>8, <2>2 DEF Enter, x
    <3>3. AddCurrentThread(stream[c], t) \in StreamShape
      BY <1>4, <3>2, StreamOpsShape
    <3>4. [w EXCEPT !.pc = "send", !.buf = x] \in WriterShape
      BY <1>1, <3>1, WriterUpdates DEF WriterPcs
    <3>5. writer' \in [Threads -> WriterShape]
      BY <1>1, <3>2, <3>4
    <3>6. stream' \in [Conns -> StreamShape] /\ used' \in SUBSET Bufs
      BY <3>1, <3>2, <3>3 DEF Shape
    <3>. QED BY <1>8, <3>5, <3>6 DEF Enter, Shape
  <2>. QED BY <2>1, <2>2
<1>9. CASE SendBytes(t)
  <2>0. w.pc = "send" /\ b \in Bufs
    BY <1>6, <1>9 DEF SendBytes, Holding
  <2>1. CASE ~stream[c].conn \/ ardp[c].state # "OPEN"
    <3>1. GiveUp(t, stream[c]) /\ UNCHANGED <<ardp, queue>>
      BY <1>9, <2>1 DEF SendBytes
    <3>2. stream' \in [Conns -> StreamShape] /\ writer' \in [Threads -> WriterShape] /\ freed' \in SUBSET Bufs
      BY <1>4, <1>5, <2>0, <3>1
    <3>. QED BY <1>9, <3>1, <3>2 DEF SendBytes, Shape
  <2>2. CASE Goto(t, "blocked") /\ UNCHANGED <<stream, ardp, queue, freed>>
    <3>1. writer' \in [Threads -> WriterShape]
      BY <1>3, <2>2 DEF WriterPcs
    <3>. QED BY <1>9, <2>2, <3>1 DEF SendBytes, Shape
  <2>3. CASE /\ ardp' = [ardp EXCEPT ![c].held = @ \cup {b}]
             /\ Goto(t, "sent") /\ UNCHANGED <<stream, queue, freed>>
    <3>1. writer' \in [Threads -> WriterShape]
      BY <1>3, <2>3 DEF WriterPcs
    <3>2. ardp' \in [Conns -> RecordShape]
      BY <1>4, <2>0, <2>3, RecordUpdates DEF Shape
    <3>. QED BY <1>9, <2>3, <3>1, <3>2 DEF SendBytes, Shape
  <2>4. ASSUME NEW own \in SUBSET {b},
               \E sends \in Flushed(c, ardp[c].held \cup own) :
                 queue' = queue \o sends \o <<[cmd |-> "DISCONNECT_CB", conn |-> c, status |-> "SOCKET"]>>,
               ardp' = [ardp EXCEPT ![c].state = "CLOSING", ![c].held = {}],
               GiveUp(t, stream[c])
        PROVE  Shape'
    <3>1. stream' \in [Conns -> StreamShape] /\ writer' \in [Threads -> WriterShape] /\ freed' \in SUBSET Bufs
      BY <1>4, <1>5, <2>0, <2>4
    <3>2. ardp[c].held \cup own \in SUBSET Bufs /\ c \in Conns
      BY <1>4, <2>0
    <3>3. queue' \in Seq(Commands)
      BY <2>4, <3>2, QueueFlush DEF FlushedTo, Shape
    <3>4. ardp' \in [Conns -> RecordShape]
      BY <1>4, <2>0, <2>4, RecordUpdates DEF Shape
    <3>. QED BY <1>9, <3>1, <3>3, <3>4 DEF SendBytes, Shape
  <2>. QED BY <1>9, <2>1, <2>2, <2>3, <2>4 DEF SendBytes
<1>10. CASE Sent(t)
  <2>1. w.pc = "sent" /\ b \in Bufs
    BY <1>6, <1>10 DEF Sent, Holding
  <2>2. RemoveCurrentThread(NoteSent(stream[c], b), t) \in StreamShape
    BY <1>4, <2>1, StreamOpsShape
  <2>3. stream' \in [Conns -> StreamShape]
    BY <1>10, <2>2 DEF Sent, Shape
  <2>4. writer' \in [Threads -> WriterShape]
    BY <1>2, <1>10 DEF Sent
  <2>. QED BY <1>10, <2>3, <2>4 DEF Sent, Shape
<1>11. CASE Blocked(t)
  <2>1. writer' \in [Threads -> WriterShape]
    BY <1>3, <1>11 DEF Blocked, WriterPcs
  <2>2. BeginWait(stream[c]) \in StreamShape
    BY <1>4, <1>11, StreamOpsShape DEF Blocked
  <2>3. stream' \in [Conns -> StreamShape]
    BY <1>11, <2>2 DEF Blocked, Shape
  <2>. QED BY <1>11, <2>1, <2>3 DEF Blocked, Shape
<1>12. ASSUME NEW late \in BOOLEAN, Woken(t, late) PROVE Shape'
  <2>1. w.pc = "waiting" /\ b \in Bufs
    BY <1>6, <1>12 DEF Woken, Holding
  <2>2. EndWait(stream[c]) \in StreamShape
    BY <1>4, <2>1, StreamOpsShape
  <2>3. stream' \in [Conns -> StreamShape] /\ writer' \in [Threads -> WriterShape] /\ freed' \in SUBSET Bufs
    <3>1. CASE GiveUp(t, EndWait(stream[c]))
      BY <1>5, <2>1, <2>2, <3>1
    <3>2. CASE stream' = [stream EXCEPT ![c] = EndWait(@)] /\ Goto(t, "send") /\ UNCHANGED freed
      BY <1>3, <2>2, <3>2 DEF Shape, WriterPcs
    <3>. QED BY <1>12, <3>1, <3>2 DEF Woken
  <2>. QED BY <1>12, <2>3 DEF Woken, Shape
<1>13. CASE Ask
  <2>1. writer' \in [Threads -> WriterShape]
    BY <1>2, <1>3, <1>13, EndpointAssumption DEF Ask, WriterPcs
  <2>. QED BY <1>13, <2>1 DEF Ask, Shape
<1>. QED BY <1>7, <1>8, <1>9, <1>10, <1>11, <1>12, <1>13 DEF WriterStep

\* What the dispatcher does keeps the shape.
LEMMA DispatcherShape ==
  ASSUME Shape, NEW c \in Conns, DispatcherStep(c)
  PROVE  Shape'
<1>0. /\ ardp[c] \in RecordShape /\ ep[c] \in Endpoint /\ stream[c] \in StreamShape
      /\ writer \in [Threads -> WriterShape] /\ Dispatcher \in Threads
  BY EndpointAssumption DEF Shape
<1>1. \A pc \in DispPcs : Then(pc, c) => disp' \in [pc : DispPcs, conn : Conns \cup {NoConn}]
  BY DEF Then, Idle, DispPcs
<1>2. \A cmd : Cmd(cmd, c) => Head(queue).cmd = cmd /\ queue # << >> /\ Tail(queue) \in Seq(Commands)
  BY HeadShape DEF Cmd
<1>3. NotWriting \in WriterShape /\ [NotWriting EXCEPT !.pc = "ask", !.conn = c] \in WriterShape
  BY <1>0, WriterUpdates DEF WriterPcs
<1>4. CASE DoConnectCbPassive(c)
  <2>1. queue' \in Seq(Commands)
    BY <1>2, <1>4 DEF DoConnectCbPassive
  <2>2. CASE ep[c].list = "auth"
    <3>1. [ep[c] EXCEPT !.list = "endpoint"] \in Endpoint
      BY <1>0, EndpointShape DEF Lists
    <3>2. disp' \in [pc : DispPcs, conn : Conns \cup {NoConn}]
      BY <1>1, <1>4, <2>2 DEF DoConnectCbPassive, DispPcs
    <3>3. stream' \in [Conns -> StreamShape] /\ ardp' \in [Conns -> RecordShape]
      <4>1. CASE UNCHANGED <<stream, ardp>>
        BY <4>1 DEF Shape
      <4>2. ASSUME NEW r \in ARDP_Disconnect(c),
                   stream' = [stream EXCEPT ![c] =
                                EarlyExit(Disconnect(@, FALSE, "LOCAL_DISCONNECT", r.status))],
                   ardp' = [ardp EXCEPT ![c] = r.conn]
            PROVE  stream' \in [Conns -> StreamShape] /\ ardp' \in [Conns -> RecordShape]
        <5>1. r.status \in Statuses /\ r.conn \in RecordShape
          BY ArdpDisconnectShape
        <5>2. EarlyExit(Disconnect(stream[c], FALSE, "LOCAL_DISCONNECT", r.status)) \in StreamShape
          BY <1>0, <5>1, DisconnectShape, StreamOpsShape DEF Statuses
        <5>. QED BY <4>2, <5>1, <5>2 DEF Shape
      <4>. QED BY <1>4, <2>2, <4>1, <4>2 DEF DoConnectCbPassive
    <3>4. ep' \in [Conns -> Endpoint] /\ currAuth' \in Int /\ currConn' \in Int
      BY <1>4, <2>2, <3>1 DEF DoConnectCbPassive, Moved, Shape
    <3>. QED BY <1>4, <2>1, <3>2, <3>3, <3>4 DEF DoConnectCbPassive, Shape
  <2>3. CASE ep[c].list # "auth"
    <3>1. disp' \in [pc : DispPcs, conn : Conns \cup {NoConn}]
      BY <1>1, <1>4, <2>3 DEF DoConnectCbPassive, DispPcs
    <3>. QED BY <1>4, <2>1, <2>3, <3>1 DEF DoConnectCbPassive, Shape
  <2>. QED BY <2>2, <2>3
<1>5. ASSUME NEW good \in BOOLEAN, DoConnectCbActive(c, good) PROVE Shape'
  <2>1. queue' \in Seq(Commands)
    BY <1>2, <1>5 DEF DoConnectCbActive
  <2>2. disp' \in [pc : DispPcs, conn : Conns \cup {NoConn}]
    BY <1>1, <1>5 DEF DoConnectCbActive, DispPcs
  <2>3. connector' \in [Conns -> ConnectorPcs]
    BY <1>5 DEF DoConnectCbActive, SetEvent, Shape, ConnectorPcs
  <2>4. NewEndpoint("endpoint") \in Endpoint
    BY <1>0, EndpointShape DEF Lists
  <2>5. ep' \in [Conns -> Endpoint] /\ currConn' \in Int
    BY <1>5, <2>4 DEF DoConnectCbActive, Shape
  <2>6. fault' \in SUBSET EpAsserts
    BY <1>5 DEF DoConnectCbActive, Shape, Failing, EpAsserts
  <2>. QED BY <1>5, <2>1, <2>2, <2>3, <2>5, <2>6 DEF DoConnectCbActive, Shape
<1>6. CASE ARDP_ReleaseConnection(c)
  <2>1. ardp' \in [Conns -> RecordShape]
    BY <1>0, <1>6, RecordUpdates DEF ARDP_ReleaseConnection, Shape
  <2>2. disp' \in [pc : DispPcs, conn : Conns \cup {NoConn}]
    BY <1>1, <1>6 DEF ARDP_ReleaseConnection, DispPcs
  <2>. QED BY <1>6, <2>1, <2>2 DEF ARDP_ReleaseConnection, Shape
<1>7. CASE Start(c)
  <2>1. [ep[c] EXCEPT !.state = "STARTED"] \in Endpoint
    BY <1>0, EndpointShape DEF EpStates
  <2>2. disp' \in [pc : DispPcs, conn : Conns \cup {NoConn}]
    BY <1>1, <1>7 DEF Start, DispPcs
  <2>3. fault' \in SUBSET EpAsserts
    BY <1>7 DEF Start, Shape, Failing, EpAsserts
  <2>. QED BY <1>7, <2>1, <2>2, <2>3 DEF Start, Shape
<1>8. CASE RegisterEndpoint(c)
  <2>1. [ep[c] EXCEPT !.known = TRUE] \in Endpoint
    BY <1>0, EndpointShape
  <2>2. disp' \in [pc : DispPcs, conn : Conns \cup {NoConn}]
    BY <1>1, <1>8 DEF RegisterEndpoint, DispPcs
  <2>3. writer' \in [Threads -> WriterShape]
    BY <1>0, <1>3, <1>8 DEF RegisterEndpoint, Calls
  <2>. QED BY <1>8, <2>1, <2>2, <2>3 DEF RegisterEndpoint, Shape
<1>9. CASE Registered(c)
  <2>0. writer[Dispatcher].ok \in BOOLEAN
    BY <1>0 DEF WriterShape
  <2>1. [ep[c] EXCEPT !.registered = writer[Dispatcher].ok] \in Endpoint
    BY <1>0, <2>0, EndpointShape
  <2>2. disp' \in [pc : DispPcs, conn : Conns \cup {NoConn}]
    BY <1>1, <1>9 DEF Registered, DispPcs
  <2>3. writer' \in [Threads -> WriterShape]
    BY <1>0, <1>3, <1>9 DEF Registered
  <2>. QED BY <1>9, <2>1, <2>2, <2>3 DEF Registered, Shape
<1>10. DispatcherStop(c) => /\ ep' \in [Conns -> Endpoint] /\ stream' \in [Conns -> StreamShape]
                            /\ fault' \in SUBSET EpAsserts
                            /\ disp' \in [pc : DispPcs, conn : Conns \cup {NoConn}]
  <2>. SUFFICES ASSUME DispatcherStop(c)
                PROVE  /\ ep' \in [Conns -> Endpoint] /\ stream' \in [Conns -> StreamShape]
                       /\ fault' \in SUBSET EpAsserts
                       /\ disp' \in [pc : DispPcs, conn : Conns \cup {NoConn}]
    OBVIOUS
  <2>1. StoppedEp(ep[c]) \in Endpoint
    BY <1>0, EndpointShape
  <2>2. StoppedStream(ep[c], stream[c]) \in StreamShape
    BY <1>0, StreamOpsShape DEF StoppedStream
  <2>3. fault' \in SUBSET EpAsserts
    BY DEF DispatcherStop, StopFaults, Failing, EpAsserts, Shape
  <2>4. disp' \in [pc : DispPcs, conn : Conns \cup {NoConn}]
    BY <1>1 DEF DispatcherStop, DispPcs
  <2>. QED BY <2>1, <2>2, <2>3, <2>4 DEF DispatcherStop, Shape
<1>11. CASE DoConnectCbWakes(c)
  <2>1. CASE HasEntry(c)
    <3>1. disp' \in [pc : DispPcs, conn : Conns \cup {NoConn}]
      BY <1>1, <1>11, <2>1 DEF DoConnectCbWakes, DispPcs
    <3>2. connector' \in [Conns -> ConnectorPcs]
      BY <1>11, <2>1 DEF DoConnectCbWakes, SetEvent, Shape, ConnectorPcs
    <3>. QED BY <1>11, <2>1, <3>1, <3>2 DEF DoConnectCbWakes, Shape
  <2>2. CASE ~HasEntry(c)
    BY <1>10, <1>11, <2>2 DEF DoConnectCbWakes, Shape
  <2>. QED BY <2>1, <2>2
<1>12. CASE DispatcherWakes(c)
  <2>1. WakeThreadSet(stream[c]) \in StreamShape
    BY <1>0, StreamOpsShape
  <2>2. disp' \in [pc : DispPcs, conn : Conns \cup {NoConn}]
    BY <1>1, <1>12 DEF DispatcherWakes, DispPcs
  <2>. QED BY <1>12, <2>1, <2>2 DEF DispatcherWakes, Shape
<1>13. CASE DispatcherDisconnects(c)
  <2>1. stream' \in [Conns -> StreamShape] /\ ardp' \in [Conns -> RecordShape]
    BY <1>13, StreamDisconnectShape DEF DispatcherDisconnects, Statuses
  <2>2. disp' \in [pc : DispPcs, conn : Conns \cup {NoConn}]
    BY <1>1, <1>13 DEF DispatcherDisconnects, DispPcs
  <2>. QED BY <1>13, <2>1, <2>2 DEF DispatcherDisconnects, Shape
<1>14. CASE SendCb(c)
  <2>0. Head(queue).buf \in Bufs /\ queue' \in Seq(Commands)
    BY <1>2, <1>14, HeadShape DEF SendCb
  <2>1. ForgetSent(stream[c], Head(queue).buf) \in StreamShape
    BY <1>0, StreamOpsShape
  <2>2. disp' \in [pc : DispPcs, conn : Conns \cup {NoConn}]
    BY <1>1, <1>14 DEF SendCb, DispPcs
  <2>3. stream' \in [Conns -> StreamShape] /\ freed' \in SUBSET Bufs
    BY <1>14, <2>0, <2>1 DEF SendCb, Shape
  <2>4. fault' \in SUBSET EpAsserts
    BY <1>14 DEF SendCb, Failing, EpAsserts, Shape
  <2>. QED BY <1>14, <2>0, <2>2, <2>3, <2>4 DEF SendCb, Shape
<1>15. CASE SendCbWakes(c)
  <2>1. SetWriteEvent(stream[c]) \in StreamShape
    BY <1>0, StreamOpsShape
  <2>2. disp' \in [pc : DispPcs, conn : Conns \cup {NoConn}]
    BY <1>1, <1>15 DEF SendCbWakes, DispPcs
  <2>. QED BY <1>15, <2>1, <2>2 DEF SendCbWakes, Shape
<1>16. ARDP_RecvReady(c) => ardp' \in [Conns -> RecordShape]
  <2>1. CASE Valid(c)
    <3>1. [ardp[c] EXCEPT !.rcv = @ - 1] \in RecordShape
      BY <1>0, RecordUpdates
    <3>. QED BY <2>1, <3>1 DEF ARDP_RecvReady, Shape
  <2>2. CASE ~Valid(c)
    <3>1. [ardp[c] EXCEPT !.rcv = @] = ardp[c]
      BY <1>0 DEF RecordShape
    <3>. QED BY <1>0, <2>2, <3>1 DEF ARDP_RecvReady, Shape
  <2>. QED BY <2>1, <2>2
<1>17. CASE RecvCb(c)
  <2>1. queue' \in Seq(Commands)
    BY <1>2, <1>17 DEF RecvCb
  <2>2. ardp' \in [Conns -> RecordShape]
    BY <1>16, <1>17 DEF RecvCb, Shape
  <2>3. disp' \in [pc : DispPcs, conn : Conns \cup {NoConn}]
    BY <1>1, <1>17 DEF RecvCb, DispPcs
  <2>. QED BY <1>17, <2>1, <2>2, <2>3 DEF RecvCb, Shape
<1>18. CASE RecvCbReturns(c)
  <2>1. disp' \in [pc : DispPcs, conn : Conns \cup {NoConn}]
    BY <1>1, <1>18 DEF RecvCbReturns, DispPcs
  <2>2. writer' \in [Threads -> WriterShape] /\ ardp' \in [Conns -> RecordShape]
    BY <1>0, <1>3, <1>16, <1>18 DEF RecvCbReturns
  <2>. QED BY <1>18, <2>1, <2>2 DEF RecvCbReturns, Shape
<1>19. ASSUME NEW d \in Conns, Route(c, d) PROVE Shape'
  <2>1. disp' \in [pc : DispPcs, conn : Conns \cup {NoConn}]
    BY <1>1, <1>19 DEF Route, DispPcs
  <2>2. [NotWriting EXCEPT !.pc = "ask", !.conn = d] \in WriterShape
    BY <1>0, WriterUpdates DEF WriterPcs
  <2>3. writer' \in [Threads -> WriterShape]
    BY <1>0, <1>19, <2>2 DEF Route, Calls
  <2>. QED BY <1>19, <2>1, <2>3 DEF Route, Shape
<1>20. CASE DisconnectCb(c)
  <2>0. queue' \in Seq(Commands)
    BY <1>2, <1>20 DEF DisconnectCb
  <2>1. disp' \in [pc : DispPcs, conn : Conns \cup {NoConn}]
    BY <1>1, <1>20 DEF DisconnectCb, DispPcs
  <2>2. CASE Listed(c)
    <3>1. Head(queue).status \in Statuses /\ (Head(queue).status # "OK") \in BOOLEAN
      BY <1>2, <1>20, HeadShape DEF DisconnectCb, Statuses
    <3>2. stream' \in [Conns -> StreamShape] /\ ardp' \in [Conns -> RecordShape]
      BY <1>20, <2>2, <3>1, StreamDisconnectShape DEF DisconnectCb
    <3>3. [ep[c] EXCEPT !.conn = FALSE] \in Endpoint
      BY <1>0, EndpointShape
    <3>4. ep' \in [Conns -> Endpoint]
      BY <1>20, <2>2, <3>3 DEF DisconnectCb, Shape
    <3>. QED BY <1>20, <2>0, <2>1, <3>2, <3>4 DEF DisconnectCb, Shape
  <2>3. CASE ~Listed(c)
    BY <1>20, <2>0, <2>1, <2>3 DEF DisconnectCb, Shape
  <2>. QED BY <2>2, <2>3
<1>21. CASE DisconnectCbStops(c)
  BY <1>10, <1>21 DEF DisconnectCbStops, Shape
<1>22. CASE Exit(c)
  <2>1. [ep[c] EXCEPT !.known = FALSE, !.exited = TRUE, !.registered = FALSE] \in Endpoint
    BY <1>0, EndpointShape
  <2>2. ep' \in [Conns -> Endpoint] /\ queue' \in Seq(Commands)
    BY <1>2, <1>22, <2>1 DEF Exit, Shape
  <2>3. disp' \in [pc : DispPcs, conn : Conns \cup {NoConn}]
    BY <1>1, <1>22 DEF Exit, DispPcs
  <2>. QED BY <1>22, <2>2, <2>3 DEF Exit, Shape
<1>23. CASE ExitDone(c)
  <2>1. [ep[c] EXCEPT !.state = "DONE"] \in Endpoint
    BY <1>0, EndpointShape DEF EpStates
  <2>2. disp' \in [pc : DispPcs, conn : Conns \cup {NoConn}]
    BY <1>1, <1>23 DEF ExitDone, DispPcs
  <2>3. fault' \in SUBSET EpAsserts
    BY <1>23 DEF ExitDone, Shape, Failing, EpAsserts
  <2>. QED BY <1>23, <2>1, <2>2, <2>3 DEF ExitDone, Shape
<1>. QED BY <1>4, <1>5, <1>6, <1>7, <1>8, <1>9, <1>11, <1>12, <1>13, <1>14, <1>15, <1>17, <1>18, <1>19,
            <1>20, <1>21, <1>22, <1>23 DEF DispatcherStep

\* Every step keeps the shape.
LEMMA ShapeStep ==
  ASSUME Shape, Threading, [Next]_vars
  PROVE  Shape'
<1>1. ASSUME NEW t \in Writers, NEW c \in Conns, PushMessage(t, c) PROVE Shape'
  <2>1. t \in Threads
    BY DEF Writers
  <2>2. [NotWriting EXCEPT !.pc = "deliver", !.conn = c] \in WriterShape
    BY <2>1, WriterUpdates DEF Shape, WriterPcs
  <2>. QED BY <1>1, <2>1, <2>2 DEF PushMessage, Calls, Shape
<1>2. CASE UNCHANGED vars
  BY <1>2 DEF vars, Shape
<1>. QED BY <1>1, <1>2, NetworkShape, MainShape, DispatcherShape, WriterShapeStep, EndpointAssumption DEF Next

\* At first no thread is anywhere.
LEMMA ThreadingInit == Init => Threading
  BY EndpointAssumption DEF Init, Threading, Idle, NotWriting, Holding

\* Every step keeps what is said of the threads.
LEMMA ThreadingStep ==
  ASSUME Shape, Threading, [Next]_vars
  PROVE  Threading'
<1>0. /\ writer \in [Threads -> WriterShape] /\ Dispatcher \in Threads /\ NoConn \notin Conns
      /\ \A t \in Threads : writer[t] \in WriterShape
  BY EndpointAssumption DEF Shape
<1>1. ASSUME NEW t \in Threads, NEW ok, Leave(t, ok)
      PROVE  /\ writer'[t].pc = "idle" /\ writer'[t].conn = NoConn
             /\ \A u \in Threads \ {t} : writer'[u] = writer[u]
  BY <1>0, <1>1 DEF Leave, NotWriting
<1>2. ASSUME NEW t \in Threads, NEW pc, Goto(t, pc)
      PROVE  /\ writer'[t].pc = pc /\ writer'[t].conn = writer[t].conn /\ writer'[t].buf = writer[t].buf
             /\ \A u \in Threads \ {t} : writer'[u] = writer[u]
  BY <1>0, <1>2 DEF Goto, WriterShape
<1>3. ASSUME NEW t \in Threads, NEW c \in Conns, NEW pc, Calls(t, c, pc)
      PROVE  /\ writer'[t].pc = pc /\ writer'[t].conn = c
             /\ \A u \in Threads \ {t} : writer'[u] = writer[u]
  BY <1>0, <1>3 DEF Calls, NotWriting
<1>4. ASSUME NEW c \in Conns, NEW pc, Then(pc, c)
      PROVE  disp'.pc = pc /\ (disp'.pc = "idle" <=> disp'.conn = NoConn)
  BY <1>0, <1>4 DEF Then, Idle
<1>5. ASSUME writer' = writer, disp' = disp PROVE Threading'
  BY <1>5 DEF Threading
<1>6. ASSUME writer' = writer, writer[Dispatcher].pc = "idle", NEW c \in Conns, NEW pc, Then(pc, c)
      PROVE  Threading'
  BY <1>4, <1>6 DEF Threading
<1>7. \A c \in Conns : \A pc : At(pc, c) /\ pc \notin {"registered", "routed"} => writer[Dispatcher].pc = "idle"
  BY DEF At, Threading
<1>8. \A c \in Conns : \A cmd : Cmd(cmd, c) => writer[Dispatcher].pc = "idle"
  BY DEF Cmd, Threading
<1>9. ASSUME NEW t \in Threads, disp' = disp, \A u \in Threads \ {t} : writer'[u] = writer[u],
             writer'[t].pc = "idle" /\ writer'[t].conn = NoConn
      PROVE  Threading'
  BY <1>0, <1>9 DEF Threading, Holding
<1>10. ASSUME NEW t \in Threads, disp' = disp, \A u \in Threads \ {t} : writer'[u] = writer[u],
              writer[t].pc # "idle" \/ t # Dispatcher,
              writer'[t].pc # "idle" /\ writer'[t].conn # NoConn,
              writer'[t].pc \in Holding => writer'[t].buf \in Bufs
       PROVE  Threading'
  BY <1>0, <1>10 DEF Threading
<1>11. ASSUME NEW t \in Threads, writer[t].pc # "idle" PROVE writer[t].conn # NoConn
  BY <1>11 DEF Threading
<1>12. ASSUME NEW c \in Conns, NetworkStep(c) \/ DisconnectTimer(c) PROVE Threading'
  BY <1>5, <1>12 DEF NetworkStep, HandshakeEnds, Acknowledged, Received, ConnectionLost, DisconnectTimer
<1>13. ASSUME NEW c \in Conns,
              \/ AcceptCb(c) \/ Connect(c) \/ ConnectTimesOut(c) \/ ConnectReturns(c)
              \/ ManageEndpoints(c) \/ Stop(c) \/ StopWake(c) \/ StopDisconnect(c)
       PROVE  Threading'
  BY <1>5, <1>13 DEF AcceptCb, Connect, ConnectTimesOut, ConnectReturns, ManageEndpoints, AuthTimeout,
       JoinAndExit, RemoveEndpoint, Stop, StopWake, StopDisconnect
<1>14. ASSUME NEW t \in Writers, NEW c \in Conns, PushMessage(t, c) PROVE Threading'
  <2>1. t \in Threads /\ t # Dispatcher
    BY DEF Writers
  <2>2. /\ writer'[t].pc = "deliver" /\ writer'[t].conn = c /\ disp' = disp
        /\ \A u \in Threads \ {t} : writer'[u] = writer[u]
    BY <1>3, <1>14, <2>1 DEF PushMessage
  <2>. QED BY <1>0, <1>10, <2>1, <2>2 DEF Holding
<1>15. CASE Ask
  <2>1. disp' = disp /\ writer[Dispatcher].pc = "ask"
    BY <1>15 DEF Ask
  <2>2. CASE Goto(Dispatcher, "deliver")
    BY <1>0, <1>2, <1>10, <1>11, <2>1, <2>2 DEF Holding
  <2>3. CASE Leave(Dispatcher, FALSE)
    BY <1>0, <1>1, <1>9, <2>1, <2>3
  <2>. QED BY <1>15, <2>2, <2>3 DEF Ask
<1>16. ASSUME NEW t \in Threads, WriterStep(t) PROVE Threading'
  <2>1. disp' = disp
    BY <1>16 DEF WriterStep, FindDisc, Enter, SendBytes, Sent, Blocked, Woken
  <2>2. ASSUME NEW ok, Leave(t, ok) PROVE Threading'
    BY <1>1, <1>9, <2>1, <2>2
  <2>3. ASSUME NEW pc, Goto(t, pc), pc # "idle", writer[t].pc # "idle",
               pc \in Holding => writer[t].pc \in Holding
        PROVE  Threading'
    <3>1. writer[t].pc \in Holding => writer[t].buf \in Bufs
      BY DEF Threading
    <3>. QED BY <1>2, <1>10, <1>11, <2>1, <2>3, <3>1
  <2>4. CASE FindDisc(t)
    BY <2>2, <2>3, <2>4 DEF FindDisc, Holding
  <2>5. CASE Enter(t)
    <3>1. CASE used = Bufs
      BY <2>2, <2>5, <3>1 DEF Enter
    <3>2. CASE used # Bufs
      <4>. DEFINE x == CHOOSE x \in Bufs \ used : TRUE
      <4>1. x \in Bufs
        BY <3>2 DEF Shape
      <4>. HIDE DEF x
      <4>2. writer' = [writer EXCEPT ![t].pc = "send", ![t].buf = x] /\ writer[t].pc = "enter"
        BY <2>5, <3>2 DEF Enter, x
      <4>3. /\ writer'[t].pc = "send" /\ writer'[t].buf = x /\ writer'[t].conn = writer[t].conn
            /\ \A u \in Threads \ {t} : writer'[u] = writer[u]
        BY <1>0, <4>2 DEF WriterShape
      <4>. QED BY <1>10, <1>11, <2>1, <4>1, <4>2, <4>3
    <3>. QED BY <3>1, <3>2
  <2>6. CASE SendBytes(t)
    <3>1. writer[t].pc = "send"
      BY <2>6 DEF SendBytes
    <3>2. Goto(t, "blocked") \/ Goto(t, "sent") \/ Leave(t, FALSE)
      BY <2>6 DEF SendBytes, GiveUp
    <3>. QED BY <2>2, <2>3, <3>1, <3>2 DEF Holding
  <2>7. CASE Sent(t)
    BY <2>2, <2>7 DEF Sent
  <2>8. CASE Blocked(t)
    BY <2>3, <2>8 DEF Blocked, Holding
  <2>9. ASSUME NEW late \in BOOLEAN, Woken(t, late) PROVE Threading'
    BY <2>2, <2>3, <2>9 DEF Woken, GiveUp, Holding
  <2>. QED BY <1>16, <2>4, <2>5, <2>6, <2>7, <2>8, <2>9 DEF WriterStep
<1>17. ASSUME NEW c \in Conns, DispatcherStep(c) PROVE Threading'
  <2>1. ASSUME writer' = [writer EXCEPT ![Dispatcher] = NotWriting], NEW pc, Then(pc, c)
        PROVE  Threading'
    <3>1. /\ writer'[Dispatcher].pc = "idle" /\ writer'[Dispatcher].conn = NoConn
          /\ \A u \in Threads \ {Dispatcher} : writer'[u] = writer[u]
      BY <1>0, <2>1 DEF NotWriting
    <3>. QED BY <1>4, <2>1, <3>1 DEF Threading, Holding
  <2>2. ASSUME NEW d \in Conns, Calls(Dispatcher, d, "ask"), NEW pc \in {"registered", "routed"}, Then(pc, c)
        PROVE  Threading'
    <3>1. /\ writer'[Dispatcher].pc = "ask" /\ writer'[Dispatcher].conn = d
          /\ \A u \in Threads \ {Dispatcher} : writer'[u] = writer[u]
      BY <1>0, <1>3, <2>2
    <3>2. disp'.pc = pc /\ (disp'.pc = "idle" <=> disp'.conn = NoConn)
      BY <1>4, <2>2
    <3>. QED BY <1>0, <3>1, <3>2 DEF Threading, Holding
  <2>3. CASE DoConnectCbPassive(c)
    BY <1>6, <1>8, <2>3 DEF DoConnectCbPassive
  <2>4. ASSUME NEW good \in BOOLEAN, DoConnectCbActive(c, good) PROVE Threading'
    BY <1>6, <1>8, <2>4 DEF DoConnectCbActive
  <2>5. CASE ARDP_ReleaseConnection(c) \/ Start(c)
    BY <1>6, <1>7, <2>5 DEF ARDP_ReleaseConnection, Start
  <2>6. CASE RegisterEndpoint(c)
    BY <2>2, <2>6 DEF RegisterEndpoint
  <2>7. CASE Registered(c)
    BY <2>1, <2>7 DEF Registered
  <2>8. CASE DoConnectCbWakes(c)
    BY <1>6, <1>7, <2>8 DEF DoConnectCbWakes, DispatcherStop
  <2>9. CASE DispatcherWakes(c) \/ DispatcherDisconnects(c) \/ SendCbWakes(c)
    BY <1>6, <1>7, <2>9 DEF DispatcherWakes, DispatcherDisconnects, SendCbWakes
  <2>10. CASE SendCb(c)
    BY <1>6, <1>8, <2>10 DEF SendCb
  <2>11. CASE RecvCb(c)
    BY <1>6, <1>8, <2>11 DEF RecvCb
  <2>12. CASE RecvCbReturns(c)
    BY <2>1, <2>12 DEF RecvCbReturns
  <2>13. ASSUME NEW d \in Conns, Route(c, d) PROVE Threading'
    BY <2>2, <2>13 DEF Route
  <2>14. CASE DisconnectCb(c)
    BY <1>6, <1>8, <2>14 DEF DisconnectCb
  <2>15. CASE DisconnectCbStops(c)
    BY <1>6, <1>7, <2>15 DEF DisconnectCbStops, DispatcherStop
  <2>16. CASE Exit(c)
    BY <1>6, <1>8, <2>16 DEF Exit
  <2>17. CASE ExitDone(c)
    BY <1>6, <1>7, <2>17 DEF ExitDone
  <2>. QED BY <1>17, <2>3, <2>4, <2>5, <2>6, <2>7, <2>8, <2>9, <2>10, <2>11, <2>12, <2>13, <2>14, <2>15,
              <2>16, <2>17 DEF DispatcherStep
<1>18. CASE UNCHANGED vars
  BY <1>5, <1>18 DEF vars
<1>. QED BY <1>12, <1>13, <1>14, <1>15, <1>16, <1>17, <1>18 DEF Next


-----------------------------------------------------------------------------
(* The life of one endpoint.  Each part below is about one connection d and    *)
(* says what its endpoint, its stream, its ARDP record, the queue and the      *)
(* threads that are at it have to do with each other.                          *)

\* The dispatcher is at connection d, in one of pcs.
DispAt(d, pcs) == disp.conn = d /\ disp.pc \in pcs

\* The ConnectCb has not been taken from the queue.
Early(d) == ardp[d].state \in {"none", "SYN"} \/ Waiting(queue, "CONNECT_CB", d) > 0

\* Before Start(), and before anyone has stopped it.
Unstarted(d) == ep[d].state \in {"NONE", "INITIALIZED"}
Running(d)   == ep[d].state \in {"NONE", "INITIALIZED", "STARTED"}

\* The ConnectCb comes once, and nothing that follows from it comes before it.
Order(d) ==
  /\ Waiting(queue, "CONNECT_CB", d) \in {0, 1}
  /\ ardp[d].state \in {"none", "SYN"} => Waiting(queue, "CONNECT_CB", d) = 0
  /\ ardp[d].state = "none" => ep[d].list = "none" /\ connector[d] = "idle"
  /\ Early(d) => /\ Unstarted(d)
                 /\ disp.conn = d => disp.pc \in {"sent", "lost"}
                 /\ connector[d] \notin {"woken", "found", "empty"}
                 /\ Active(d) => ep[d].list = "none"
  /\ Active(d) => /\ ep[d].list # "auth"
                  /\ InQueue(queue, [cmd |-> "CONNECT_CB", conn |-> d, ok |-> TRUE]) =>
                         ardp[d].state \in {"OPEN", "CLOSING"}
                  /\ InQueue(queue, [cmd |-> "CONNECT_CB", conn |-> d, ok |-> FALSE]) =>
                         ardp[d].state = "CLOSED"

\* Lists, states and what the daemon knows go together, and Connect() learns of
\* an endpoint after the daemon.
Life(d) ==
  /\ ep[d].list = "none" <=> ep[d].state = "NONE"
  /\ ep[d].list = "auth" => ep[d].state = "INITIALIZED"
  /\ ep[d].list = "gone" => ep[d].state = "DONE"
  /\ Unstarted(d) => /\ ~ep[d].known /\ ~ep[d].exited
                     /\ ~DispAt(d, {"register", "registered", "woken", "wake", "disconnect", "exit"})
  /\ DispAt(d, {"start"}) => ep[d].state = "INITIALIZED" /\ ep[d].list = "endpoint"
  /\ DispAt(d, {"sent", "lost"}) => ep[d].list = "endpoint"
  /\ DispAt(d, {"register"}) => ep[d].state = "STARTED" /\ ~ep[d].known /\ ~ep[d].exited
  /\ DispAt(d, {"registered"}) => ep[d].known
  /\ ep[d].known => ~ep[d].exited /\ ep[d].list = "endpoint"
  /\ ep[d].state = "DONE" => ep[d].exited
  /\ DispAt(d, {"start", "register", "registered"}) =>
        ~ep[d].registered /\ connector[d] \notin {"woken", "found", "empty"}
  /\ DispAt(d, {"woken"}) => ep[d].known \/ ep[d].exited
  /\ connector[d] = "woken" => ep[d].known \/ ep[d].exited \/ ep[d].list = "none"
  /\ connector[d] = "found" => ep[d].known \/ ep[d].exited

\* EXIT is queued once, for a registered endpoint that is joined.
Leaving(d) ==
  /\ ep[d].registered => ep[d].known
  /\ ep[d].exitScheduled => /\ ep[d].state \in {"JOINED", "DONE"}
                            /\ ~DispAt(d, {"start", "register", "registered"})
  /\ Waiting(queue, "EXIT", d) \in {0, 1}
  /\ Waiting(queue, "EXIT", d) = 1 => ep[d].exitScheduled /\ ep[d].state = "JOINED" /\ ~ep[d].exited
  /\ DispAt(d, {"exit"}) => ep[d].exitScheduled /\ ep[d].state = "JOINED" /\ ep[d].exited
  /\ ep[d].exited => ep[d].exitScheduled

\* One thread does the second half of Stop(), and the stream is disconnected
\* locally by that thread only.
Stopping(d) ==
  /\ ep[d].stopper # "none" => ~Running(d) /\ ~DispAt(d, {"wake", "disconnect"})
  /\ DispAt(d, {"wake", "disconnect"}) => ~Running(d)
  /\ stream[d].disc => ~stream[d].conn
  /\ stream[d].discSent /\ ~stream[d].disc =>
       /\ stream[d].discStatus = "LOCAL_DISCONNECT" /\ ~Running(d)
       /\ ep[d].stopper = "none" /\ ~DispAt(d, {"wake", "disconnect"})
  /\ ep[d].state \in {"JOINED", "DONE"} => stream[d].disc
  /\ ep[d].list \in {"none", "auth"} => ~stream[d].disc /\ ~stream[d].discSent
  /\ ardp[d].state = "LOCAL" => stream[d].discSent
  /\ InQueue(queue, DiscCmd(d, "OK")) => stream[d].discSent
  /\ ep[d].list = "gone" => ep[d].stopper = "none" /\ disp.conn # d
  /\ stream[d].fault = {}

\* Threads are at endpoints that the daemon has known and has not destroyed.
Writing(d) ==
  \A t \in Threads :
    /\ writer[t].conn = d => (ep[d].known \/ ep[d].exited) /\ ep[d].list # "gone"
    /\ t \in stream[d].threads => writer[t].conn = d /\ writer[t].pc \in Holding

\* All of it.
Local(d) == Order(d) /\ Life(d) /\ Leaving(d) /\ Stopping(d) /\ Writing(d)

\* What a step at another connection leaves of this one.
SameQueue(d) ==
  /\ \A cmd \in {"CONNECT_CB", "RECV_CB", "EXIT"} : Waiting(queue', cmd, d) = Waiting(queue, cmd, d)
  /\ \A x : x.conn = d /\ InQueue(queue', x) => InQueue(queue, x)

\* The fields, the threads at it and its commands are what they were.
Untouched(d) ==
  /\ ep'[d] = ep[d] /\ stream'[d] = stream[d] /\ ardp'[d] = ardp[d] /\ connector'[d] = connector[d]
  /\ disp' = disp \/ (disp.conn # d /\ disp'.conn # d)
  /\ \A t \in Threads : writer'[t] = writer[t] \/ (writer[t].conn # d /\ writer'[t].conn # d)
  /\ SameQueue(d)

\* Then what holds of the connection still holds.
LEMMA UntouchedLocal ==
  ASSUME NEW d \in Conns, Local(d), Untouched(d)
  PROVE  Local(d)'
<1>1. /\ \A b \in BOOLEAN : [cmd |-> "CONNECT_CB", conn |-> d, ok |-> b].conn = d
      /\ DiscCmd(d, "OK").conn = d
  BY DEF DiscCmd
<1>2. Order(d)'
  BY <1>1 DEF Local, Untouched, SameQueue, Order, Early, Unstarted, Active
<1>3. Life(d)'
  BY DEF Local, Untouched, Life, Unstarted, DispAt
<1>4. Leaving(d)'
  BY DEF Local, Untouched, SameQueue, Leaving, DispAt
<1>5. Stopping(d)'
  BY <1>1 DEF Local, Untouched, SameQueue, Stopping, Running, DispAt
<1>6. Writing(d)'
  BY DEF Local, Untouched, Writing
<1>. QED BY <1>2, <1>3, <1>4, <1>5, <1>6 DEF Local

\* What is done to the queue for one connection leaves the others' commands.
LEMMA QueueOthers ==
  ASSUME Shape, NEW c \in Conns, NEW d \in Conns, c # d
  PROVE  /\ queue' = queue => SameQueue(d)
         /\ \A x \in Commands : x.conn = c /\ queue' = Append(queue, x) => SameQueue(d)
         /\ \A cmd : Cmd(cmd, c) /\ queue' = Tail(queue) => SameQueue(d)
         /\ \A bufs \in SUBSET Bufs, status \in {"OK", "REMOTE", "SOCKET"} :
              FlushedTo(queue, c, bufs, status, queue') => SameQueue(d)
<1>0. queue \in Seq(Commands) /\ \A cmd : Waiting(queue, cmd, d) \in Nat
  BY WaitingIsNat DEF Shape
<1>1. queue' = queue => SameQueue(d)
  BY DEF SameQueue
<1>2. ASSUME NEW x \in Commands, x.conn = c, queue' = Append(queue, x) PROVE SameQueue(d)
  BY <1>0, <1>2, QueueAppend DEF SameQueue
<1>3. ASSUME NEW cmd, Cmd(cmd, c), queue' = Tail(queue) PROVE SameQueue(d)
  <2>1. queue # << >> /\ Head(queue).conn = c
    BY <1>3 DEF Cmd
  <2>. QED BY <1>0, <1>3, <2>1, QueueTail DEF SameQueue
<1>4. ASSUME NEW bufs \in SUBSET Bufs, NEW status \in {"OK", "REMOTE", "SOCKET"},
             FlushedTo(queue, c, bufs, status, queue')
      PROVE  SameQueue(d)
  <2>1. /\ \A cmd, e : cmd \notin {"SEND_CB", "DISCONNECT_CB"} =>
              Waiting(queue', cmd, e) = Waiting(queue, cmd, e)
        /\ \A y : InQueue(queue', y) =>
              InQueue(queue, y) \/ y = DiscCmd(c, status) \/ \E b \in bufs : y = SendCmd(c, b)
    <3>1. FlushAdds(queue, c, bufs, status, queue')
      BY <1>0, <1>4, QueueFlush
    <3>. QED BY <3>1 DEF FlushAdds
  <2>2. DiscCmd(c, status).conn = c /\ \A b \in bufs : SendCmd(c, b).conn = c
    BY DEF DiscCmd, SendCmd
  <2>. QED BY <2>1, <2>2 DEF SameQueue
<1>. QED BY <1>1, <1>2, <1>3, <1>4

\* The steps at connection c: all of the next-state relation but the writers'.
StepAt(c) ==
  \/ AcceptCb(c) \/ Connect(c) \/ ConnectTimesOut(c) \/ ConnectReturns(c)
  \/ NetworkStep(c) \/ DisconnectTimer(c) \/ DispatcherStep(c) \/ ManageEndpoints(c)
  \/ Stop(c) \/ StopWake(c) \/ StopDisconnect(c)

\* A step at one connection leaves the others alone, except that the router
\* may go from what it has received on c to an endpoint d.
LEMMA OthersUntouched ==
  ASSUME Shape, Threading, NEW c \in Conns, NEW d \in Conns, c # d, StepAt(c), ~Route(c, d)
  PROVE  Untouched(d)
<1>0. /\ ep \in [Conns -> Endpoint] /\ stream \in [Conns -> StreamShape] /\ ardp \in [Conns -> RecordShape]
      /\ connector \in [Conns -> ConnectorPcs] /\ writer \in [Threads -> WriterShape]
      /\ ardp[c].held \in SUBSET Bufs /\ Dispatcher \in Threads /\ NoConn \notin Conns
  BY EndpointAssumption DEF Shape, RecordShape
<1>. DEFINE Fields == /\ ep'[d] = ep[d] /\ stream'[d] = stream[d] /\ ardp'[d] = ardp[d]
                      /\ connector'[d] = connector[d]
            Thread == disp' = disp \/ (disp.conn # d /\ disp'.conn # d)
            Others == \A t \in Threads : writer'[t] = writer[t] \/ (writer[t].conn # d /\ writer'[t].conn # d)
<1>1. ASSUME disp' = disp, writer' = writer PROVE Thread /\ Others
  BY <1>1
<1>2. ASSUME NEW pc, (\E cmd : Cmd(cmd, c)) \/ (\E p : At(p, c)), Then(pc, c)
      PROVE  Thread
  BY <1>0, <1>2 DEF Cmd, At, Then, Idle, Threading
<1>3. SameQueue(d) /\ Fields /\ Thread /\ Others => Untouched(d)
  BY DEF Untouched
<1>. HIDE DEF Fields, Thread, Others
<1>4. ASSUME NEW x \in Commands, x.conn = c, queue' = Append(queue, x) PROVE SameQueue(d)
  BY <1>4, QueueOthers
<1>5. ASSUME queue' = queue PROVE SameQueue(d)
  BY <1>5 DEF SameQueue
<1>6. ASSUME NEW cmd, Cmd(cmd, c), queue' = Tail(queue) PROVE SameQueue(d)
  BY <1>6, QueueOthers
<1>7. ASSUME NEW bufs \in SUBSET Bufs, NEW status \in {"OK", "REMOTE", "SOCKET"},
             FlushedTo(queue, c, bufs, status, queue')
      PROVE  SameQueue(d)
  BY <1>7, QueueOthers
<1>8. ASSUME NEW sudden, NEW status, StreamDisconnect(c, sudden, status)
      PROVE  stream'[d] = stream[d] /\ ardp'[d] = ardp[d]
  BY <1>0, <1>8 DEF StreamDisconnect
<1>9. CASE AcceptCb(c) \/ Connect(c) \/ ConnectTimesOut(c) \/ ConnectReturns(c)
  <2>1. Fields
    BY <1>0, <1>9 DEF AcceptCb, Connect, ConnectTimesOut, ConnectReturns, Fields
  <2>2. queue' = queue /\ disp' = disp /\ writer' = writer
    BY <1>9 DEF AcceptCb, Connect, ConnectTimesOut, ConnectReturns
  <2>. QED BY <1>1, <1>3, <1>5, <2>1, <2>2
<1>10. CASE NetworkStep(c) \/ DisconnectTimer(c)
  <2>1. Fields
    BY <1>0, <1>10 DEF NetworkStep, DisconnectTimer, HandshakeEnds, Acknowledged, Received, ConnectionLost, Fields
  <2>2. disp' = disp /\ writer' = writer
    BY <1>10 DEF NetworkStep, DisconnectTimer, HandshakeEnds, Acknowledged, Received, ConnectionLost
  <2>3. ASSUME NEW ok \in BOOLEAN, HandshakeEnds(c, ok) PROVE SameQueue(d)
    BY <1>4, <2>3, CommandsShape DEF HandshakeEnds
  <2>4. ASSUME NEW b \in Bufs, Acknowledged(c, b) PROVE SameQueue(d)
    BY <1>4, <2>4, CommandsShape DEF Acknowledged
  <2>5. ASSUME Received(c) PROVE SameQueue(d)
    <3>1. [cmd |-> "RECV_CB", conn |-> c] \in Commands /\ [cmd |-> "RECV_CB", conn |-> c].conn = c
      BY CommandsShape
    <3>. QED BY <1>4, <2>5, <3>1 DEF Received
  <2>6. ASSUME ConnectionLost(c) PROVE SameQueue(d)
    <3>1. FlushedTo(queue, c, ardp[c].held, "REMOTE", queue')
      BY <2>6 DEF ConnectionLost, FlushedTo
    <3>. QED BY <1>0, <1>7, <3>1
  <2>7. ASSUME DisconnectTimer(c) PROVE SameQueue(d)
    <3>1. queue' = queue \/ FlushedTo(queue, c, ardp[c].held, "OK", queue')
      BY <2>7 DEF DisconnectTimer, FlushedTo
    <3>. QED BY <1>0, <1>5, <1>7, <3>1
  <2>. QED BY <1>1, <1>3, <1>10, <2>1, <2>2, <2>3, <2>4, <2>5, <2>6, <2>7 DEF NetworkStep
<1>11. CASE ManageEndpoints(c)
  <2>1. Fields
    BY <1>0, <1>11 DEF ManageEndpoints, AuthTimeout, JoinAndExit, RemoveEndpoint, Fields
  <2>2. disp' = disp /\ writer' = writer
    BY <1>11 DEF ManageEndpoints, AuthTimeout, JoinAndExit, RemoveEndpoint
  <2>3. SameQueue(d)
    BY <1>4, <1>5, <1>11, CommandsShape DEF ManageEndpoints, AuthTimeout, JoinAndExit, RemoveEndpoint
  <2>. QED BY <1>1, <1>3, <2>1, <2>2, <2>3
<1>12. CASE Stop(c) \/ StopWake(c) \/ StopDisconnect(c)
  <2>1. Fields
    BY <1>0, <1>8, <1>12 DEF Stop, StopWake, StopDisconnect, Fields
  <2>2. disp' = disp /\ writer' = writer /\ queue' = queue
    BY <1>12 DEF Stop, StopWake, StopDisconnect
  <2>. QED BY <1>1, <1>3, <1>5, <2>1, <2>2
<1>13. CASE DispatcherStep(c)
  <2>1. Fields
    <3>1. CASE DoConnectCbPassive(c)
      BY <1>0, <3>1 DEF DoConnectCbPassive, Fields
    <3>2. ASSUME NEW good \in BOOLEAN, DoConnectCbActive(c, good) PROVE Fields
      BY <1>0, <3>2 DEF DoConnectCbActive, SetEvent, Fields
    <3>3. CASE ARDP_ReleaseConnection(c) \/ Start(c) \/ RegisterEndpoint(c) \/ Registered(c)
      BY <1>0, <3>3 DEF ARDP_ReleaseConnection, Start, RegisterEndpoint, Registered, Fields
    <3>4. CASE DoConnectCbWakes(c) \/ DispatcherWakes(c) \/ DispatcherDisconnects(c)
      BY <1>0, <1>8, <3>4 DEF DoConnectCbWakes, DispatcherStop, SetEvent, DispatcherWakes, DispatcherDisconnects, Fields
    <3>5. CASE SendCb(c) \/ SendCbWakes(c) \/ RecvCb(c) \/ RecvCbReturns(c) \/ (\E x \in Conns : Route(c, x))
      BY <1>0, <3>5 DEF SendCb, SendCbWakes, RecvCb, RecvCbReturns, ARDP_RecvReady, Route, Fields
    <3>6. CASE DisconnectCb(c) \/ DisconnectCbStops(c) \/ Exit(c) \/ ExitDone(c)
      BY <1>0, <1>8, <3>6 DEF DisconnectCb, DisconnectCbStops, DispatcherStop, Exit, ExitDone, Fields
    <3>. QED BY <1>13, <3>1, <3>2, <3>3, <3>4, <3>5, <3>6 DEF DispatcherStep
  <2>2. Thread
    <3>1. CASE DoConnectCbPassive(c)
      BY <1>2, <3>1 DEF DoConnectCbPassive
    <3>2. ASSUME NEW good \in BOOLEAN, DoConnectCbActive(c, good) PROVE Thread
      BY <1>2, <3>2 DEF DoConnectCbActive
    <3>3. CASE ARDP_ReleaseConnection(c) \/ Start(c) \/ RegisterEndpoint(c) \/ Registered(c)
      BY <1>2, <3>3 DEF ARDP_ReleaseConnection, Start, RegisterEndpoint, Registered
    <3>4. CASE DoConnectCbWakes(c) \/ DispatcherWakes(c) \/ DispatcherDisconnects(c)
      BY <1>2, <3>4 DEF DoConnectCbWakes, DispatcherStop, DispatcherWakes, DispatcherDisconnects
    <3>5. CASE SendCb(c) \/ SendCbWakes(c) \/ RecvCb(c) \/ RecvCbReturns(c) \/ (\E x \in Conns : Route(c, x))
      BY <1>2, <3>5 DEF SendCb, SendCbWakes, RecvCb, RecvCbReturns, Route
    <3>6. CASE DisconnectCb(c) \/ DisconnectCbStops(c) \/ Exit(c) \/ ExitDone(c)
      BY <1>2, <3>6 DEF DisconnectCb, DisconnectCbStops, DispatcherStop, Exit, ExitDone
    <3>. QED BY <1>13, <3>1, <3>2, <3>3, <3>4, <3>5, <3>6 DEF DispatcherStep
  <2>3. Others
    <3>1. ASSUME writer[Dispatcher].conn # d, NEW w, w.conn # d, writer' = [writer EXCEPT ![Dispatcher] = w]
          PROVE  Others
      BY <1>0, <3>1 DEF Others
    <3>2. ASSUME writer' = writer PROVE Others
      BY <3>2 DEF Others
    <3>3. NotWriting.conn # d /\ [NotWriting EXCEPT !.pc = "ask", !.conn = c].conn # d
      BY <1>0 DEF NotWriting
    <3>4. writer[Dispatcher].pc = "idle" => writer[Dispatcher].conn # d
      BY <1>0 DEF Threading
    <3>5. CASE RegisterEndpoint(c)
      <4>1. writer[Dispatcher].pc = "idle"
        BY <3>5 DEF RegisterEndpoint, At, Threading
      <4>. QED BY <3>1, <3>3, <3>4, <3>5, <4>1 DEF RegisterEndpoint, Calls
    <3>6. CASE Registered(c) \/ RecvCbReturns(c)
      BY <3>1, <3>3, <3>4, <3>6 DEF Registered, RecvCbReturns
    <3>7. ASSUME NEW x \in Conns, Route(c, x) PROVE Others
      <4>1. x # d
        BY <3>7
      <4>2. [NotWriting EXCEPT !.pc = "ask", !.conn = x].conn # d
        BY <4>1 DEF NotWriting
      <4>. QED BY <3>1, <3>4, <3>7, <4>2 DEF Route, Calls
    <3>8. CASE ~(RegisterEndpoint(c) \/ Registered(c) \/ RecvCbReturns(c) \/ \E x \in Conns : Route(c, x))
      BY <1>13, <3>2, <3>8 DEF DispatcherStep, DoConnectCbPassive, DoConnectCbActive, ARDP_ReleaseConnection,
           Start, DoConnectCbWakes, DispatcherWakes, DispatcherDisconnects, SendCb, SendCbWakes, RecvCb,
           DisconnectCb, DisconnectCbStops, Exit, ExitDone
    <3>. QED BY <3>5, <3>6, <3>7, <3>8
  <2>4. SameQueue(d)
    <3>1. CASE queue' = queue
      BY <1>5, <3>1
    <3>2. CASE queue' # queue
      <4>1. (\E cmd : Cmd(cmd, c)) /\ queue' = Tail(queue)
        BY <1>13, <3>2 DEF DispatcherStep, DoConnectCbPassive, DoConnectCbActive, ARDP_ReleaseConnection,
           Start, RegisterEndpoint, Registered, DoConnectCbWakes, DispatcherWakes, DispatcherDisconnects,
           SendCb, SendCbWakes, RecvCb, RecvCbReturns, Route, DisconnectCb, DisconnectCbStops, Exit, ExitDone
      <4>. QED BY <1>6, <4>1
    <3>. QED BY <3>1, <3>2
  <2>. QED BY <1>3, <2>1, <2>2, <2>3, <2>4
<1>. QED BY <1>9, <1>10, <1>11, <1>12, <1>13 DEF StepAt

\* What Disconnect() does to the fields that the invariants speak of.
Disconnected(s, sudden, status, r, n) ==
  /\ n.threads = s.threads /\ n.sentSet = s.sentSet /\ n.writeWaits = s.writeWaits
  /\ AsksArdp(s, sudden) =>
       /\ n.discSent
       /\ r = "OK" => ~n.disc /\ n.conn = s.conn /\ n.discStatus = "LOCAL_DISCONNECT"
       /\ r # "OK" => n.disc /\ ~n.conn
       /\ status = "LOCAL_DISCONNECT" => n.fault = s.fault
  /\ ~AsksArdp(s, sudden) /\ ~s.disc =>
       /\ n.disc /\ ~n.conn /\ n.discSent = s.discSent
       /\ sudden \/ (status = "OK" /\ s.discStatus = "LOCAL_DISCONNECT") => n.fault = s.fault
  /\ s.disc =>
       /\ n.disc /\ n.conn = s.conn /\ n.discSent = s.discSent
       /\ ~s.conn => n.fault = s.fault

\* The eight cases do what Disconnected says.
LEMMA DisconnectEffect ==
  ASSUME NEW s \in StreamShape, NEW sudden \in BOOLEAN, NEW status \in Statuses, NEW r \in Statuses
  PROVE  Disconnected(s, sudden, status, r, Disconnect(s, sudden, status, r))
<1>1. CASE AsksArdp(s, sudden)
  BY <1>1 DEF Disconnected, Disconnect, AsksArdp, StreamAssert, StreamShape
<1>2. CASE ~sudden /\ ~s.disc /\ s.discSent
  BY <1>2 DEF Disconnected, Disconnect, AsksArdp, StreamAssert, StreamShape
<1>3. CASE s.disc
  BY <1>3 DEF Disconnected, Disconnect, AsksArdp, StreamAssert, StreamShape
<1>4. CASE sudden /\ ~s.disc
  BY <1>4 DEF Disconnected, Disconnect, AsksArdp, StreamAssert, StreamShape
<1>. QED BY <1>1, <1>2, <1>3, <1>4 DEF AsksArdp, StreamShape

\* The second half of Stop() has been done: the stream is disconnected, or ARDP
\* will answer.
LocalDisconnect(d) ==
  /\ stream'[d].threads = stream[d].threads /\ stream'[d].fault = {}
  /\ stream'[d].disc \/ stream'[d].discSent
  /\ stream'[d].disc => ~stream'[d].conn
  /\ stream[d].disc => stream'[d].disc
  /\ stream[d].discSent => stream'[d].discSent
  /\ ~stream'[d].disc => stream'[d].discStatus = "LOCAL_DISCONNECT"
  /\ \/ ardp'[d] = ardp[d]
     \/ /\ ardp[d].state \notin {"none", "gone", "LOCAL", "CLOSING", "CLOSED"}
        /\ ardp'[d].state = "LOCAL" /\ stream'[d].discSent

\* The thread that has the rest of Stop() before it finds the stream as the
\* assertions of Disconnect() want it.
LEMMA LocalDisconnects ==
  ASSUME Shape, NEW d \in Conns, StreamDisconnect(d, FALSE, "LOCAL_DISCONNECT"),
         ~(stream[d].discSent /\ ~stream[d].disc), stream[d].disc => ~stream[d].conn, stream[d].fault = {}
  PROVE  LocalDisconnect(d)
<1>0. stream \in [Conns -> StreamShape] /\ ardp \in [Conns -> RecordShape]
      /\ stream[d] \in StreamShape /\ ardp[d] \in RecordShape
  BY DEF Shape
<1>1. PICK r \in IF AsksArdp(stream[d], FALSE) THEN ARDP_Disconnect(d)
                 ELSE {[status |-> "OK", conn |-> ardp[d]]} :
        /\ stream'[d] = Disconnect(stream[d], FALSE, "LOCAL_DISCONNECT", r.status)
        /\ ardp'[d] = r.conn
  BY <1>0 DEF StreamDisconnect
<1>2. CASE AsksArdp(stream[d], FALSE)
  <2>1. r \in ARDP_Disconnect(d)
    BY <1>1, <1>2
  <2>2. r.status \in Statuses
    BY <2>1, ArdpDisconnectShape
  <2>3. \/ r.conn = ardp[d]
        \/ ardp[d].state \notin {"none", "gone", "LOCAL", "CLOSING", "CLOSED"} /\ r.conn.state = "LOCAL"
    BY <1>0, <2>1 DEF ARDP_Disconnect, Valid, RecordShape
  <2>4. "LOCAL_DISCONNECT" \in Statuses /\ FALSE \in BOOLEAN
    BY DEF Statuses
  <2>5. /\ stream'[d].threads = stream[d].threads /\ stream'[d].discSent /\ stream'[d].fault = stream[d].fault
        /\ r.status = "OK" => ~stream'[d].disc /\ stream'[d].discStatus = "LOCAL_DISCONNECT"
        /\ r.status # "OK" => stream'[d].disc /\ ~stream'[d].conn
    <3>1. Disconnected(stream[d], FALSE, "LOCAL_DISCONNECT", r.status, stream'[d])
      BY <1>0, <1>1, <2>2, <2>4, DisconnectEffect
    <3>. QED BY <1>2, <3>1 DEF Disconnected
  <2>. QED BY <1>1, <1>2, <2>3, <2>5 DEF LocalDisconnect, AsksArdp
<1>3. CASE ~AsksArdp(stream[d], FALSE)
  <2>1. stream[d].disc /\ ~stream[d].conn /\ r = [status |-> "OK", conn |-> ardp[d]]
    BY <1>1, <1>3 DEF AsksArdp
  <2>2. stream'[d] = Disconnect(stream[d], FALSE, "LOCAL_DISCONNECT", "OK") /\ ardp'[d] = ardp[d]
    BY <1>1, <2>1
  <2>3. "LOCAL_DISCONNECT" \in Statuses /\ FALSE \in BOOLEAN /\ "OK" \in Statuses
    BY DEF Statuses
  <2>4. /\ stream'[d].threads = stream[d].threads /\ stream'[d].fault = stream[d].fault
        /\ stream'[d].disc /\ ~stream'[d].conn /\ stream'[d].discSent = stream[d].discSent
    <3>1. Disconnected(stream[d], FALSE, "LOCAL_DISCONNECT", "OK", stream'[d])
      BY <1>0, <2>2, <2>3, DisconnectEffect
    <3>. QED BY <2>1, <3>1 DEF Disconnected
  <2>. QED BY <2>2, <2>4 DEF LocalDisconnect
<1>. QED BY <1>2, <1>3

\* The network's steps.
LEMMA LocalNetwork ==
  ASSUME Shape, Threading, NEW d \in Conns, Local(d), NetworkStep(d) \/ DisconnectTimer(d)
  PROVE  Local(d)'
<1>0. /\ ardp \in [Conns -> RecordShape] /\ ardp[d] \in RecordShape /\ ardp[d].held \in SUBSET Bufs
      /\ queue \in Seq(Commands) /\ \A cmd : Waiting(queue, cmd, d) \in Nat
  BY WaitingIsNat DEF Shape, RecordShape
<1>1. ep' = ep /\ stream' = stream /\ disp' = disp /\ writer' = writer /\ connector' = connector
  BY DEF NetworkStep, HandshakeEnds, Acknowledged, Received, ConnectionLost, DisconnectTimer
<1>2. Life(d)' /\ Writing(d)'
  BY <1>1 DEF Local, Life, Writing, Unstarted, DispAt
<1>3. ASSUME Waiting(queue', "EXIT", d) = Waiting(queue, "EXIT", d) PROVE Leaving(d)'
  BY <1>1, <1>3 DEF Local, Leaving, DispAt
<1>4. ASSUME ardp'[d].state = "LOCAL" => ardp[d].state = "LOCAL",
             InQueue(queue', DiscCmd(d, "OK")) => InQueue(queue, DiscCmd(d, "OK")) \/ ardp[d].state = "LOCAL"
      PROVE  Stopping(d)'
  BY <1>1, <1>4 DEF Local, Stopping, Running, DispAt
<1>5. ASSUME Waiting(queue', "CONNECT_CB", d) = Waiting(queue, "CONNECT_CB", d),
             ardp'[d].state \in {"none", "SYN"} => ardp'[d].state = ardp[d].state,
             ardp[d].state = "CLOSED" => ardp'[d].state = "CLOSED",
             \A ok \in BOOLEAN : InQueue(queue', [cmd |-> "CONNECT_CB", conn |-> d, ok |-> ok]) =>
                                   InQueue(queue, [cmd |-> "CONNECT_CB", conn |-> d, ok |-> ok]),
             InQueue(queue', [cmd |-> "CONNECT_CB", conn |-> d, ok |-> TRUE]) =>
                (ardp[d].state \in {"OPEN", "CLOSING"} => ardp'[d].state \in {"OPEN", "CLOSING"})
      PROVE  Order(d)'
  BY <1>1, <1>5 DEF Local, Order, Early, Unstarted, Active
<1>6. ASSUME NEW ok \in BOOLEAN, HandshakeEnds(d, ok) PROVE Local(d)'
  <2>. DEFINE x == [cmd |-> "CONNECT_CB", conn |-> d, ok |-> ok]
  <2>1. /\ ardp[d].state = "SYN" /\ ardp'[d].state = IF ok THEN "OPEN" ELSE "CLOSED"
        /\ queue' = Append(queue, x) /\ x \in Commands /\ x.cmd = "CONNECT_CB"
    BY <1>0, <1>6, CommandsShape DEF HandshakeEnds, RecordShape
  <2>2. /\ Waiting(queue', "CONNECT_CB", d) = Waiting(queue, "CONNECT_CB", d) + 1
        /\ Waiting(queue', "EXIT", d) = Waiting(queue, "EXIT", d)
    BY <1>0, <2>1, QueueAppend
  <2>3. \A y : InQueue(queue', y) <=> InQueue(queue, y) \/ y = x
    BY <1>0, <2>1, QueueAppend
  <2>4. ~InQueue(queue', [cmd |-> "CONNECT_CB", conn |-> d, ok |-> ~ok])
    <3>1. Waiting(queue, "CONNECT_CB", d) = 0
      BY <2>1 DEF Local, Order
    <3>2. ~InQueue(queue, [cmd |-> "CONNECT_CB", conn |-> d, ok |-> ~ok])
      BY <1>0, <3>1, QueuedIsWaiting
    <3>3. [cmd |-> "CONNECT_CB", conn |-> d, ok |-> ~ok].ok # x.ok
      BY <1>6
    <3>. QED BY <2>3, <3>2, <3>3
  <2>5. Order(d)'
    <3>1. Waiting(queue', "CONNECT_CB", d) = 1
      BY <1>0, <2>1, <2>2 DEF Local, Order
    <3>. QED BY <1>1, <2>1, <2>4, <3>1 DEF Local, Order, Early, Unstarted, Active
  <2>6. Stopping(d)'
    <3>1. DiscCmd(d, "OK").cmd # x.cmd
      BY DEF DiscCmd
    <3>. QED BY <1>4, <2>1, <2>3, <3>1
  <2>. QED BY <1>2, <1>3, <2>2, <2>5, <2>6 DEF Local
<1>7. ASSUME NEW x \in Commands, x.cmd \in {"SEND_CB", "RECV_CB"}, queue' = Append(queue, x),
             ardp'[d].state = ardp[d].state
      PROVE  Local(d)'
  <2>1. /\ Waiting(queue', "CONNECT_CB", d) = Waiting(queue, "CONNECT_CB", d)
        /\ Waiting(queue', "EXIT", d) = Waiting(queue, "EXIT", d)
    BY <1>0, <1>7, QueueAppend
  <2>2. \A y : y.cmd \in {"CONNECT_CB", "DISCONNECT_CB"} /\ InQueue(queue', y) => InQueue(queue, y)
    BY <1>0, <1>7, QueueAppend
  <2>3. \A ok \in BOOLEAN : [cmd |-> "CONNECT_CB", conn |-> d, ok |-> ok].cmd = "CONNECT_CB"
    OBVIOUS
  <2>4. Order(d)'
    BY <1>5, <1>7, <2>1, <2>2, <2>3
  <2>5. Stopping(d)'
    <3>1. DiscCmd(d, "OK").cmd = "DISCONNECT_CB"
      BY DEF DiscCmd
    <3>. QED BY <1>4, <1>7, <2>2, <3>1
  <2>. QED BY <1>2, <1>3, <2>1, <2>4, <2>5 DEF Local
<1>8. ASSUME NEW b \in Bufs, Acknowledged(d, b) PROVE Local(d)'
  <2>1. ardp'[d].state = ardp[d].state
    BY <1>0, <1>8 DEF Acknowledged, RecordShape
  <2>. QED BY <1>7, <1>8, <2>1, CommandsShape DEF Acknowledged
<1>9. CASE Received(d)
  <2>1. ardp'[d].state = ardp[d].state
    BY <1>0, <1>9 DEF Received, RecordShape
  <2>. QED BY <1>7, <1>9, <2>1, CommandsShape DEF Received
<1>10. ASSUME NEW status \in {"OK", "REMOTE", "SOCKET"},
              FlushedTo(queue, d, ardp[d].held, status, queue')
       PROVE  /\ Waiting(queue', "CONNECT_CB", d) = Waiting(queue, "CONNECT_CB", d)
              /\ Waiting(queue', "EXIT", d) = Waiting(queue, "EXIT", d)
              /\ \A ok \in BOOLEAN : InQueue(queue', [cmd |-> "CONNECT_CB", conn |-> d, ok |-> ok]) =>
                                   InQueue(queue, [cmd |-> "CONNECT_CB", conn |-> d, ok |-> ok])
              /\ status # "OK" /\ InQueue(queue', DiscCmd(d, "OK")) => InQueue(queue, DiscCmd(d, "OK"))
  <2>1. FlushAdds(queue, d, ardp[d].held, status, queue')
    BY <1>0, <1>10, QueueFlush
  <2>2. /\ \A ok \in BOOLEAN : [cmd |-> "CONNECT_CB", conn |-> d, ok |-> ok].cmd = "CONNECT_CB"
        /\ DiscCmd(d, "OK").cmd = "DISCONNECT_CB" /\ DiscCmd(d, "OK").status = "OK"
        /\ DiscCmd(d, status).cmd = "DISCONNECT_CB" /\ DiscCmd(d, status).status = status
        /\ \A b : SendCmd(d, b).cmd = "SEND_CB"
    BY DEF DiscCmd, SendCmd
  <2>. QED BY <2>1, <2>2 DEF FlushAdds
<1>11. CASE ConnectionLost(d)
  <2>1. /\ ardp[d].state \in {"SYN", "OPEN"} /\ ardp'[d].state = "CLOSING"
        /\ FlushedTo(queue, d, ardp[d].held, "REMOTE", queue')
    BY <1>0, <1>11 DEF ConnectionLost, RecordShape, FlushedTo
  <2>2. Order(d)' /\ Stopping(d)' /\ Leaving(d)'
    BY <1>3, <1>4, <1>5, <1>10, <2>1
  <2>. QED BY <1>2, <2>2 DEF Local
<1>12. CASE DisconnectTimer(d)
  <2>1. /\ ardp'[d].state \in {"gone", "CLOSING"}
        /\ \/ ardp[d].state = "LOCAL" /\ FlushedTo(queue, d, ardp[d].held, "OK", queue')
           \/ ardp[d].state = "CLOSING" /\ TimeWaitOver(d) /\ queue' = queue
    BY <1>0, <1>12 DEF DisconnectTimer, RecordShape, FlushedTo
  <2>2. CASE ardp[d].state = "LOCAL"
    <3>1. FlushedTo(queue, d, ardp[d].held, "OK", queue')
      BY <2>1, <2>2
    <3>2. Order(d)' /\ Stopping(d)' /\ Leaving(d)'
      BY <1>3, <1>4, <1>5, <1>10, <2>1, <2>2, <3>1
    <3>. QED BY <1>2, <3>2 DEF Local
  <2>3. CASE ardp[d].state = "CLOSING"
    <3>1. ~InQueue(queue, [cmd |-> "CONNECT_CB", conn |-> d, ok |-> TRUE]) /\ queue' = queue
      BY <2>1, <2>3 DEF TimeWaitOver, InQueue
    <3>2. Order(d)' /\ Stopping(d)' /\ Leaving(d)'
      BY <1>3, <1>4, <1>5, <2>1, <2>3, <3>1
    <3>. QED BY <1>2, <3>2 DEF Local
  <2>. QED BY <2>1, <2>2, <2>3
<1>. QED BY <1>6, <1>8, <1>9, <1>11, <1>12 DEF NetworkStep

\* The steps of the main thread and of the threads in Connect() and Stop().
LEMMA LocalMain ==
  ASSUME Shape, Threading, NEW d \in Conns, Local(d),
         \/ AcceptCb(d) \/ Connect(d) \/ ConnectTimesOut(d) \/ ConnectReturns(d)
         \/ ManageEndpoints(d) \/ Stop(d) \/ StopWake(d) \/ StopDisconnect(d)
  PROVE  Local(d)'
<1>0. /\ ep \in [Conns -> Endpoint] /\ stream \in [Conns -> StreamShape] /\ ardp \in [Conns -> RecordShape]
      /\ connector \in [Conns -> ConnectorPcs] /\ queue \in Seq(Commands)
      /\ ep[d] \in Endpoint /\ stream[d] \in StreamShape /\ ardp[d] \in RecordShape
      /\ \A cmd : Waiting(queue, cmd, d) \in Nat
  BY WaitingIsNat DEF Shape
<1>1. disp' = disp /\ writer' = writer
  BY DEF AcceptCb, Connect, ConnectTimesOut, ConnectReturns, ManageEndpoints, AuthTimeout, JoinAndExit,
         RemoveEndpoint, Stop, StopWake, StopDisconnect
<1>2. CASE AcceptCb(d)
  <2>1. /\ ardp[d].state = "none" /\ ardp'[d].state \in {"SYN", "gone"}
        /\ queue' = queue /\ stream' = stream /\ connector' = connector
        /\ ep[d].list = "none" /\ ep[d].state = "NONE" /\ connector[d] = "idle"
    BY <1>0, <1>2 DEF AcceptCb, RecordShape, Local, Order, Life
  <2>2. CASE ep' = ep
    <3>1. Order(d)'
      BY <2>1, <2>2, <1>1 DEF Local, Order, Early, Unstarted, Active
    <3>2. Life(d)' /\ Leaving(d)' /\ Writing(d)'
      BY <2>1, <2>2, <1>1 DEF Local, Life, Leaving, Writing, Unstarted, DispAt
    <3>3. Stopping(d)'
      BY <2>1, <2>2, <1>1 DEF Local, Stopping, Running, DispAt
    <3>. QED BY <3>1, <3>2, <3>3 DEF Local
  <2>3. CASE ep' # ep
    <3>1. ep'[d] = NewEndpoint("auth") /\ ardp'[d].state = "SYN"
      BY <1>0, <1>2, <2>3 DEF AcceptCb, RecordShape
    <3>2. /\ ep'[d].state = "INITIALIZED" /\ ep'[d].list = "auth" /\ ~ep'[d].known /\ ~ep'[d].registered
          /\ ~ep'[d].exitScheduled /\ ~ep'[d].exited /\ ep'[d].stopper = "none"
      BY <3>1 DEF NewEndpoint
    <3>3. disp.conn = d => disp.pc \in {"sent", "lost"}
      BY <2>1 DEF Local, Order, Early
    <3>4. Order(d)'
      BY <1>1, <2>1, <3>1, <3>2 DEF Local, Order, Early, Unstarted, Active
    <3>5. Life(d)'
      BY <1>1, <2>1, <3>2, <3>3 DEF Local, Life, Unstarted, DispAt
    <3>6. ~ep[d].known /\ ~ep[d].exited /\ ~ep[d].exitScheduled /\ ep[d].state = "NONE"
      BY <2>1 DEF Local, Life, Leaving, Unstarted
    <3>7. Leaving(d)' /\ Writing(d)'
      BY <1>1, <2>1, <3>2, <3>3, <3>6 DEF Local, Leaving, Writing, DispAt
    <3>8. Stopping(d)'
      BY <1>1, <2>1, <3>1, <3>2, <3>3, <3>6 DEF Local, Stopping, Running, DispAt
    <3>. QED BY <3>4, <3>5, <3>7, <3>8 DEF Local
  <2>. QED BY <2>2, <2>3
<1>3. CASE Connect(d) \/ ConnectTimesOut(d) \/ ConnectReturns(d)
  <2>1. ep' = ep /\ stream' = stream /\ queue' = queue
    BY <1>3 DEF Connect, ConnectTimesOut, ConnectReturns
  <2>2. ardp'[d].state \in {ardp[d].state, "SYN"} /\ (ardp'[d].state # ardp[d].state => ardp[d].state = "none")
    BY <1>0, <1>3 DEF Connect, ConnectTimesOut, ConnectReturns, RecordShape
  <2>3. Leaving(d)' /\ Stopping(d)' /\ Writing(d)'
    BY <1>1, <2>1, <2>2 DEF Local, Leaving, Stopping, Writing, Running, DispAt
  <2>4. CASE Connect(d)
    <3>1. /\ ardp[d].state = "none" /\ ardp'[d].state = "SYN" /\ connector'[d] = "waiting"
          /\ ep[d].list = "none" /\ ep[d].state = "NONE" /\ Waiting(queue, "CONNECT_CB", d) = 0
      BY <1>0, <2>4 DEF Connect, RecordShape, Local, Order, Life
    <3>2. \A ok \in BOOLEAN : ~InQueue(queue, [cmd |-> "CONNECT_CB", conn |-> d, ok |-> ok])
      BY <1>0, <3>1, QueuedIsWaiting
    <3>3. Order(d)'
      BY <1>1, <2>1, <3>1, <3>2 DEF Local, Order, Early, Unstarted, Active
    <3>4. Life(d)'
      BY <1>1, <2>1, <3>1 DEF Local, Life, Unstarted, DispAt
    <3>. QED BY <2>3, <3>3, <3>4 DEF Local
  <2>5. CASE ConnectTimesOut(d)
    <3>1. connector'[d] = "timed out" /\ ardp' = ardp /\ connector[d] = "waiting"
      BY <1>0, <2>5 DEF ConnectTimesOut
    <3>2. Order(d)' /\ Life(d)'
      BY <1>1, <2>1, <3>1 DEF Local, Order, Life, Early, Active, Unstarted, DispAt
    <3>. QED BY <2>3, <3>2 DEF Local
  <2>6. CASE ConnectReturns(d)
    <3>1. /\ ardp' = ardp /\ connector[d] \in {"woken", "timed out"}
          /\ connector[d] = "timed out" => connector'[d] = "failed"
          /\ connector[d] = "woken" => connector'[d] \in {"found", "empty"}
          /\ connector'[d] = "found" => ep[d].list = "endpoint"
      BY <1>0, <2>6 DEF ConnectReturns, ConnectResult, Listed
    <3>2. Order(d)'
      BY <1>1, <2>1, <3>1 DEF Local, Order, Early, Active, Unstarted
    <3>3. Life(d)'
      BY <1>1, <2>1, <3>1 DEF Local, Life, Unstarted, DispAt
    <3>. QED BY <2>3, <3>2, <3>3 DEF Local
  <2>. QED BY <1>3, <2>4, <2>5, <2>6
<1>4. CASE AuthTimeout(d)
  <2>1. /\ ep[d].list = "auth" /\ ep[d].state = "INITIALIZED" /\ connector[d] = "idle"
        /\ queue' = queue /\ ardp' = ardp /\ connector' = connector
    BY <1>4 DEF AuthTimeout, Local, Life, Order, Active
  <2>2. ep'[d] = [ep[d] EXCEPT !.list = "endpoint"] /\ stream'[d] = EarlyExit(stream[d])
    BY <1>0, <1>4, <2>1 DEF AuthTimeout, StoppedEp, StoppedStream, Endpoint
  <2>3. /\ ep'[d].list = "endpoint" /\ ep'[d].state = ep[d].state /\ ep'[d].known = ep[d].known
        /\ ep'[d].exited = ep[d].exited /\ ep'[d].registered = ep[d].registered
        /\ ep'[d].exitScheduled = ep[d].exitScheduled /\ ep'[d].stopper = ep[d].stopper
    BY <1>0, <2>2 DEF Endpoint
  <2>4. /\ stream'[d].disc /\ ~stream'[d].conn /\ stream'[d].discSent = stream[d].discSent
        /\ stream'[d].threads = stream[d].threads /\ stream'[d].fault = stream[d].fault
    BY <1>0, <2>2 DEF EarlyExit, StreamShape
  <2>5. Order(d)'
    BY <1>1, <2>1, <2>3 DEF Local, Order, Early, Active, Unstarted
  <2>6. Life(d)'
    BY <1>1, <2>1, <2>3 DEF Local, Life, Unstarted, DispAt
  <2>7. Leaving(d)'
    BY <1>1, <2>1, <2>3 DEF Local, Leaving, DispAt
  <2>8. Stopping(d)'
    BY <1>1, <2>1, <2>3, <2>4 DEF Local, Stopping, Running, DispAt
  <2>9. Writing(d)'
    BY <1>1, <2>3, <2>4 DEF Local, Writing
  <2>. QED BY <2>5, <2>6, <2>7, <2>8, <2>9 DEF Local
<1>5. CASE JoinAndExit(d)
  <2>. DEFINE x == [cmd |-> "EXIT", conn |-> d]
  <2>1. /\ ep[d].list = "endpoint" /\ ep[d].state \in {"STOPPING", "JOINED"} /\ stream[d].disc
        /\ stream' = stream /\ ardp' = ardp /\ connector' = connector
        /\ ep' = [ep EXCEPT ![d].state = "JOINED", ![d].exitScheduled = @ \/ ExitDue(ep[d])]
        /\ queue' = IF ExitDue(ep[d]) THEN Append(queue, x) ELSE queue
    BY <1>5 DEF JoinAndExit, Listed, Joinable
  <2>2. /\ ep'[d].list = "endpoint" /\ ep'[d].state = "JOINED" /\ ep'[d].known = ep[d].known
        /\ ep'[d].exited = ep[d].exited /\ ep'[d].registered = ep[d].registered
        /\ ep'[d].exitScheduled <=> ep[d].exitScheduled \/ ExitDue(ep[d])
        /\ ep'[d].stopper = ep[d].stopper
    BY <1>0, <2>1 DEF Endpoint
  <2>3. /\ Waiting(queue', "CONNECT_CB", d) = Waiting(queue, "CONNECT_CB", d)
        /\ Waiting(queue', "EXIT", d) = Waiting(queue, "EXIT", d) + IF ExitDue(ep[d]) THEN 1 ELSE 0
        /\ \A y : y.cmd # "EXIT" /\ InQueue(queue', y) => InQueue(queue, y)
    <3>1. CASE ExitDue(ep[d])
      <4>1. x \in Commands /\ x.cmd = "EXIT" /\ x.conn = d /\ queue' = Append(queue, x)
        BY <2>1, <3>1, CommandsShape
      <4>2. \A cmd, e : Waiting(queue', cmd, e) = Waiting(queue, cmd, e) + IF x.cmd = cmd /\ x.conn = e THEN 1 ELSE 0
        BY <1>0, <4>1, QueueAppend
      <4>3. \A y : InQueue(queue', y) <=> InQueue(queue, y) \/ y = x
        BY <1>0, <4>1, QueueAppend
      <4>. HIDE DEF x
      <4>4. /\ Waiting(queue', "CONNECT_CB", d) = Waiting(queue, "CONNECT_CB", d)
            /\ Waiting(queue', "EXIT", d) = Waiting(queue, "EXIT", d) + 1
        BY <1>0, <4>1, <4>2
      <4>. QED BY <3>1, <4>1, <4>3, <4>4
    <3>2. CASE ~ExitDue(ep[d])
      BY <1>0, <2>1, <3>2
    <3>. QED BY <3>1, <3>2
  <2>4. ExitDue(ep[d]) => ep[d].registered /\ ~ep[d].exitScheduled
    BY DEF ExitDue
  <2>5. /\ \A ok \in BOOLEAN : [cmd |-> "CONNECT_CB", conn |-> d, ok |-> ok].cmd # "EXIT"
        /\ DiscCmd(d, "OK").cmd # "EXIT"
    BY DEF DiscCmd
  <2>6. Order(d)'
    BY <1>1, <2>1, <2>2, <2>3, <2>5 DEF Local, Order, Early, Active, Unstarted
  <2>7. Life(d)'
    BY <1>1, <2>1, <2>2 DEF Local, Life, Unstarted, DispAt
  <2>8. Leaving(d)'
    <3>1. Waiting(queue', "EXIT", d) \in {0, 1}
      BY <1>0, <2>3, <2>4 DEF Local, Leaving
    <3>2. Waiting(queue', "EXIT", d) = 1 => ep'[d].exitScheduled /\ ~ep'[d].exited
      BY <1>0, <2>2, <2>3, <2>4 DEF Local, Leaving
    <3>3. ep'[d].exitScheduled => ~DispAt(d, {"start", "register", "registered"})
      BY <2>2, <2>4 DEF Local, Life, Leaving
    <3>. QED BY <1>1, <2>1, <2>2, <3>1, <3>2, <3>3 DEF Local, Leaving, DispAt
  <2>9. Stopping(d)'
    BY <1>1, <2>1, <2>2, <2>3, <2>5 DEF Local, Stopping, Running, DispAt
  <2>10. Writing(d)'
    BY <1>1, <2>1, <2>2 DEF Local, Writing
  <2>. QED BY <2>6, <2>7, <2>8, <2>9, <2>10 DEF Local
<1>6. CASE RemoveEndpoint(d)
  <2>1. /\ ep[d].state = "DONE" /\ ep[d].exited /\ ep[d].list = "endpoint" /\ ~Inside(d)
        /\ stream' = stream /\ ardp' = ardp /\ connector' = connector /\ queue' = queue
        /\ ep' = [ep EXCEPT ![d].list = "gone"]
    BY <1>6 DEF RemoveEndpoint, Listed
  <2>2. /\ ep'[d].list = "gone" /\ ep'[d].state = ep[d].state /\ ep'[d].known = ep[d].known
        /\ ep'[d].exited = ep[d].exited /\ ep'[d].registered = ep[d].registered
        /\ ep'[d].exitScheduled = ep[d].exitScheduled /\ ep'[d].stopper = ep[d].stopper
    BY <1>0, <2>1 DEF Endpoint
  <2>3. disp.conn # d /\ ep[d].stopper = "none" /\ \A t \in Threads : writer[t].conn # d
    BY <2>1 DEF Inside
  <2>4. Order(d)'
    BY <1>1, <2>1, <2>2 DEF Local, Order, Early, Active, Unstarted
  <2>5. Life(d)' /\ Leaving(d)'
    BY <1>1, <2>1, <2>2, <2>3 DEF Local, Life, Leaving, Unstarted, DispAt
  <2>6. Stopping(d)'
    BY <1>1, <2>1, <2>2, <2>3 DEF Local, Stopping, Running, DispAt
  <2>7. Writing(d)'
    BY <1>1, <2>1, <2>3 DEF Local, Writing
  <2>. QED BY <2>4, <2>5, <2>6, <2>7 DEF Local
<1>7. CASE Stop(d)
  <2>1. /\ ep[d].state = "STARTED" /\ ep[d].known
        /\ stream' = stream /\ ardp' = ardp /\ connector' = connector /\ queue' = queue
        /\ ep'[d] = [ep[d] EXCEPT !.state = "STOPPING", !.stopper = "wake"]
    BY <1>0, <1>7 DEF Stop, StoppedEp, Endpoint
  <2>2. /\ ep'[d].list = ep[d].list /\ ep'[d].state = "STOPPING" /\ ep'[d].known = ep[d].known
        /\ ep'[d].exited = ep[d].exited /\ ep'[d].registered = ep[d].registered
        /\ ep'[d].exitScheduled = ep[d].exitScheduled /\ ep'[d].stopper = "wake"
    BY <1>0, <2>1 DEF Endpoint
  <2>3. Order(d)'
    BY <1>1, <2>1, <2>2 DEF Local, Order, Early, Active, Unstarted
  <2>4. Life(d)'
    BY <1>1, <2>1, <2>2 DEF Local, Life, Unstarted, DispAt
  <2>5. Leaving(d)' /\ Writing(d)'
    BY <1>1, <2>1, <2>2 DEF Local, Leaving, Writing, DispAt
  <2>6. Stopping(d)'
    BY <1>1, <2>1, <2>2 DEF Local, Life, Stopping, Running, DispAt
  <2>. QED BY <2>3, <2>4, <2>5, <2>6 DEF Local
<1>8. CASE StopWake(d)
  <2>1. /\ ep[d].stopper = "wake" /\ stream'[d] = WakeThreadSet(stream[d])
        /\ ardp' = ardp /\ connector' = connector /\ queue' = queue
        /\ ep' = [ep EXCEPT ![d].stopper = "disconnect"]
    BY <1>0, <1>8 DEF StopWake
  <2>2. /\ ep'[d].list = ep[d].list /\ ep'[d].state = ep[d].state /\ ep'[d].known = ep[d].known
        /\ ep'[d].exited = ep[d].exited /\ ep'[d].registered = ep[d].registered
        /\ ep'[d].exitScheduled = ep[d].exitScheduled /\ ep'[d].stopper = "disconnect"
    BY <1>0, <2>1 DEF Endpoint
  <2>3. /\ stream'[d].disc = stream[d].disc /\ stream'[d].conn = stream[d].conn
        /\ stream'[d].discSent = stream[d].discSent /\ stream'[d].discStatus = stream[d].discStatus
        /\ stream'[d].threads = stream[d].threads /\ stream'[d].fault = stream[d].fault
    BY <1>0, <2>1 DEF WakeThreadSet, StreamShape
  <2>4. Order(d)'
    BY <1>1, <2>1, <2>2 DEF Local, Order, Early, Active, Unstarted
  <2>5. Life(d)' /\ Leaving(d)' /\ Writing(d)'
    BY <1>1, <2>1, <2>2, <2>3 DEF Local, Life, Leaving, Writing, Unstarted, DispAt
  <2>6. Stopping(d)'
    BY <1>1, <2>1, <2>2, <2>3 DEF Local, Stopping, Running, DispAt
  <2>. QED BY <2>4, <2>5, <2>6 DEF Local
<1>9. CASE StopDisconnect(d)
  <2>1. /\ ep[d].stopper = "disconnect" /\ StreamDisconnect(d, FALSE, "LOCAL_DISCONNECT")
        /\ connector' = connector /\ queue' = queue /\ ep' = [ep EXCEPT ![d].stopper = "none"]
    BY <1>9 DEF StopDisconnect
  <2>2. /\ ep'[d].list = ep[d].list /\ ep'[d].state = ep[d].state /\ ep'[d].known = ep[d].known
        /\ ep'[d].exited = ep[d].exited /\ ep'[d].registered = ep[d].registered
        /\ ep'[d].exitScheduled = ep[d].exitScheduled /\ ep'[d].stopper = "none"
    BY <1>0, <2>1 DEF Endpoint
  <2>3. /\ ~Running(d) /\ ~Early(d) /\ ~(stream[d].discSent /\ ~stream[d].disc)
        /\ ~DispAt(d, {"wake", "disconnect"}) /\ (stream[d].disc => ~stream[d].conn) /\ stream[d].fault = {}
        /\ ep[d].list \notin {"none", "auth"}
    BY <2>1 DEF Local, Order, Life, Stopping, Running, Unstarted
  <2>4. LocalDisconnect(d)
    BY <2>1, <2>3, LocalDisconnects
  <2>5. Order(d)'
    <3>1. Waiting(queue, "CONNECT_CB", d) = 0
      BY <2>3 DEF Early, Local, Order
    <3>2. \A ok \in BOOLEAN : ~InQueue(queue, [cmd |-> "CONNECT_CB", conn |-> d, ok |-> ok])
      BY <1>0, <3>1, QueuedIsWaiting
    <3>3. ardp'[d].state \notin {"none", "SYN"}
      BY <2>3, <2>4 DEF LocalDisconnect, Early
    <3>4. ~Early(d)'
      BY <2>1, <3>1, <3>3 DEF Early
    <3>5. /\ ~InQueue(queue, [cmd |-> "CONNECT_CB", conn |-> d, ok |-> TRUE])
          /\ ~InQueue(queue, [cmd |-> "CONNECT_CB", conn |-> d, ok |-> FALSE])
      BY <3>2
    <3>. QED BY <2>1, <2>2, <3>1, <3>3, <3>4, <3>5 DEF Local, Order, Active
  <2>6. Life(d)' /\ Leaving(d)'
    BY <1>1, <2>1, <2>2 DEF Local, Life, Leaving, Unstarted, DispAt
  <2>7. Writing(d)'
    BY <1>1, <2>1, <2>2, <2>4 DEF LocalDisconnect, Local, Writing
  <2>8. Stopping(d)'
    BY <1>1, <2>1, <2>2, <2>3, <2>4 DEF LocalDisconnect, Local, Stopping, Running, DispAt
  <2>. QED BY <2>5, <2>6, <2>7, <2>8 DEF Local
<1>. QED BY <1>2, <1>3, <1>4, <1>5, <1>6, <1>7, <1>8, <1>9 DEF ManageEndpoints

\* The dispatcher has taken a command of connection d.
Taken(cmd, d) ==
  /\ disp.pc = "idle" /\ disp.conn # d
  /\ Waiting(queue, cmd, d) > 0
  /\ Waiting(queue', cmd, d) = Waiting(queue, cmd, d) - 1
  /\ \A k : k # cmd => Waiting(queue', k, d) = Waiting(queue, k, d)
  /\ \A y : InQueue(queue', y) => InQueue(queue, y)
  /\ InQueue(queue, Head(queue))

\* The head of the queue is taken.
LEMMA TakeCommand ==
  ASSUME Shape, Threading, NEW d \in Conns, NEW cmd, Cmd(cmd, d), queue' = Tail(queue)
  PROVE  Taken(cmd, d)
<1>1. queue \in Seq(Commands) /\ queue # << >> /\ Head(queue).cmd = cmd /\ Head(queue).conn = d
      /\ disp.pc = "idle" /\ disp.conn # d
  BY EndpointAssumption DEF Shape, Cmd, Threading
<1>2. \A k : Waiting(queue, k, d) \in Nat
  BY <1>1, WaitingIsNat
<1>3. /\ \A k, e : Waiting(queue', k, e) =
              Waiting(queue, k, e) - IF Head(queue).cmd = k /\ Head(queue).conn = e THEN 1 ELSE 0
      /\ \A y : InQueue(queue, y) <=> InQueue(queue', y) \/ y = Head(queue)
  BY <1>1, QueueTail
<1>4. InQueue(queue, Head(queue))
  BY <1>3
<1>5. Waiting(queue, cmd, d) > 0
  BY <1>1, <1>4, QueuedIsWaiting
<1>. QED BY <1>1, <1>2, <1>3, <1>4, <1>5 DEF Taken

\* DoConnectCb() for an accepted connection.
LEMMA LocalConnectPassive ==
  ASSUME Shape, Threading, NEW d \in Conns, Local(d), DoConnectCbPassive(d)
  PROVE  Local(d)'
<1>0. /\ ep \in [Conns -> Endpoint] /\ stream \in [Conns -> StreamShape] /\ ardp \in [Conns -> RecordShape]
      /\ queue \in Seq(Commands)
      /\ ep[d] \in Endpoint /\ stream[d] \in StreamShape /\ ardp[d] \in RecordShape
      /\ \A cmd : Waiting(queue, cmd, d) \in Nat
  BY WaitingIsNat DEF Shape
<1>1. /\ connector[d] = "idle" /\ connector' = connector /\ writer' = writer /\ Cmd("CONNECT_CB", d)
      /\ queue' = Tail(queue)
  BY DEF DoConnectCbPassive, Active
<1>2. Taken("CONNECT_CB", d)
  BY <1>1, TakeCommand
<1>3. /\ disp.conn # d /\ Waiting(queue, "CONNECT_CB", d) = 1 /\ Waiting(queue', "CONNECT_CB", d) = 0
      /\ Waiting(queue', "EXIT", d) = Waiting(queue, "EXIT", d)
      /\ InQueue(queue', DiscCmd(d, "OK")) => InQueue(queue, DiscCmd(d, "OK"))
  BY <1>0, <1>2 DEF Taken, Local, Order
<1>4. /\ ardp[d].state \notin {"none", "SYN"} /\ Unstarted(d) /\ ~ep[d].known /\ ~ep[d].exited
      /\ ~ep[d].exitScheduled /\ ~ep[d].registered
  BY <1>3 DEF Local, Order, Early, Life, Leaving, Unstarted
<1>5. CASE ep[d].list = "auth"
  <2>1. ep[d].state = "INITIALIZED" /\ ~stream[d].disc /\ ~stream[d].discSent
    BY <1>5 DEF Local, Life, Stopping
  <2>2. ep' = [ep EXCEPT ![d].list = "endpoint"]
    BY <1>5 DEF DoConnectCbPassive
  <2>3. /\ ep'[d].list = "endpoint" /\ ep'[d].state = ep[d].state /\ ep'[d].known = ep[d].known
        /\ ep'[d].exited = ep[d].exited /\ ep'[d].registered = ep[d].registered
        /\ ep'[d].exitScheduled = ep[d].exitScheduled /\ ep'[d].stopper = ep[d].stopper
    BY <1>0, <2>2 DEF Endpoint
  <2>4. disp' \in {[pc |-> "start", conn |-> d], [pc |-> "release", conn |-> d]}
    BY <1>5 DEF DoConnectCbPassive, Then
  <2>5. disp'.conn = d /\ disp'.pc \in {"start", "release"}
    BY <2>4
  <2>6. /\ stream'[d].threads = stream[d].threads /\ stream'[d].fault = {}
        /\ stream'[d].disc => ~stream'[d].conn
        /\ stream'[d].discSent => stream'[d].disc
        /\ stream[d].discSent => stream'[d].discSent
        /\ \/ ardp'[d].state = ardp[d].state
           \/ ardp'[d].state = "LOCAL" /\ stream'[d].discSent
    <3>1. stream[d].fault = {}
      BY DEF Local, Stopping
    <3>2. CASE UNCHANGED <<stream, ardp>>
      BY <2>1, <3>1, <3>2
    <3>3. ASSUME NEW r \in ARDP_Disconnect(d),
                 stream' = [stream EXCEPT ![d] =
                              EarlyExit(Disconnect(@, FALSE, "LOCAL_DISCONNECT", r.status))],
                 ardp' = [ardp EXCEPT ![d] = r.conn]
          PROVE  /\ stream'[d].threads = stream[d].threads /\ stream'[d].fault = {}
                 /\ stream'[d].disc /\ ~stream'[d].conn /\ stream'[d].discSent
                 /\ ardp'[d].state \in {ardp[d].state, "LOCAL"}
      <4>. DEFINE n == Disconnect(stream[d], FALSE, "LOCAL_DISCONNECT", r.status)
      <4>1. /\ r.status \in Statuses /\ r.conn \in {ardp[d], [ardp[d] EXCEPT !.state = "LOCAL"]}
            /\ "LOCAL_DISCONNECT" \in Statuses /\ FALSE \in BOOLEAN
        BY ArdpDisconnectShape DEF Statuses
      <4>2. Disconnected(stream[d], FALSE, "LOCAL_DISCONNECT", r.status, n) /\ n \in StreamShape
        BY <1>0, <4>1, DisconnectEffect, DisconnectShape
      <4>3. AsksArdp(stream[d], FALSE)
        BY <2>1 DEF AsksArdp
      <4>. HIDE DEF n
      <4>4. n.discSent /\ n.threads = stream[d].threads /\ n.fault = {}
        BY <3>1, <4>2, <4>3 DEF Disconnected
      <4>5. stream'[d] = EarlyExit(n)
        BY <1>0, <3>3 DEF n
      <4>6. ardp'[d].state \in {ardp[d].state, "LOCAL"}
        BY <1>0, <3>3, <4>1 DEF RecordShape
      <4>. QED BY <4>2, <4>4, <4>5, <4>6 DEF EarlyExit, StreamShape
    <3>. QED BY <1>5, <2>1, <3>2, <3>3 DEF DoConnectCbPassive
  <2>7. Order(d)'
    BY <1>1, <1>3, <1>4, <2>3, <2>6 DEF Order, Early, Active
  <2>8. Life(d)'
    BY <1>1, <1>4, <2>1, <2>3, <2>5 DEF Life, Unstarted, DispAt
  <2>9. Leaving(d)'
    BY <1>3, <1>4, <2>3, <2>5 DEF Local, Leaving, DispAt
  <2>10. Stopping(d)'
    <3>1. ep[d].stopper = "none" /\ Running(d)
      BY <2>1 DEF Local, Stopping, Running
    <3>. QED BY <1>3, <2>1, <2>3, <2>5, <2>6, <3>1 DEF Local, Stopping, Running, DispAt
  <2>11. Writing(d)'
    BY <1>1, <2>3, <2>6 DEF Local, Writing
  <2>. QED BY <2>7, <2>8, <2>9, <2>10, <2>11 DEF Local
<1>6. CASE ep[d].list # "auth"
  <2>1. ep' = ep /\ stream' = stream /\ ardp' = ardp /\ disp' = Idle
    BY <1>6 DEF DoConnectCbPassive, Then
  <2>2. disp'.pc = "idle" /\ disp'.conn # d
    BY <2>1, EndpointAssumption DEF Idle
  <2>3. Order(d)'
    BY <1>1, <1>3, <1>4, <2>1, <2>2 DEF Order, Early, Active
  <2>4. Life(d)' /\ Leaving(d)'
    BY <1>1, <1>3, <2>1, <2>2 DEF Local, Life, Leaving, Unstarted, DispAt
  <2>5. Stopping(d)' /\ Writing(d)'
    BY <1>1, <1>3, <2>1, <2>2 DEF Local, Stopping, Writing, Running, DispAt
  <2>. QED BY <2>3, <2>4, <2>5 DEF Local
<1>. QED BY <1>5, <1>6

\* DoConnectCb() for a connection that this side has opened.
LEMMA LocalConnectActive ==
  ASSUME Shape, Threading, NEW d \in Conns, Local(d), NEW good \in BOOLEAN, DoConnectCbActive(d, good)
  PROVE  Local(d)' /\ Valid(d)
<1>0. /\ ep \in [Conns -> Endpoint] /\ connector \in [Conns -> ConnectorPcs]
      /\ queue \in Seq(Commands) /\ ep[d] \in Endpoint
      /\ \A cmd : Waiting(queue, cmd, d) \in Nat
  BY WaitingIsNat DEF Shape
<1>1. /\ connector[d] # "idle" /\ writer' = writer /\ stream' = stream /\ ardp' = ardp /\ Cmd("CONNECT_CB", d)
      /\ queue' = Tail(queue)
  BY DEF DoConnectCbActive, Active
<1>2. Taken("CONNECT_CB", d)
  BY <1>1, TakeCommand
<1>3. /\ disp.conn # d /\ Waiting(queue, "CONNECT_CB", d) = 1 /\ Waiting(queue', "CONNECT_CB", d) = 0
      /\ Waiting(queue', "EXIT", d) = Waiting(queue, "EXIT", d)
      /\ InQueue(queue', DiscCmd(d, "OK")) => InQueue(queue, DiscCmd(d, "OK"))
  BY <1>0, <1>2 DEF Taken, Local, Order
<1>4. /\ ardp[d].state \notin {"none", "SYN"} /\ ep[d].list = "none" /\ ep[d].state = "NONE"
      /\ ~ep[d].known /\ ~ep[d].exited /\ ~ep[d].exitScheduled /\ ~ep[d].registered
      /\ connector[d] \notin {"woken", "found", "empty"} /\ Waiting(queue, "EXIT", d) = 0
      /\ ~stream[d].disc /\ ~stream[d].discSent /\ ep[d].stopper = "none"
  BY <1>1, <1>3 DEF Local, Order, Early, Active, Life, Leaving, Stopping, Unstarted, Running
<1>5. Valid(d) /\ \A ok \in BOOLEAN : ~InQueue(queue', [cmd |-> "CONNECT_CB", conn |-> d, ok |-> ok])
  <2>1. Head(queue) \in Commands /\ Head(queue).cmd = "CONNECT_CB" /\ Head(queue).conn = d
    BY <1>0, <1>1, QueueTail DEF Cmd
  <2>2. PICK ok \in BOOLEAN : Head(queue) = [cmd |-> "CONNECT_CB", conn |-> d, ok |-> ok]
    BY <2>1 DEF Commands
  <2>3. InQueue(queue, [cmd |-> "CONNECT_CB", conn |-> d, ok |-> ok])
    BY <1>2, <2>2 DEF Taken
  <2>4. Valid(d)
    BY <1>1, <2>3 DEF Local, Order, Active, Valid
  <2>5. queue' \in Seq(Commands)
    BY <1>0, <1>1, QueueTail DEF Cmd
  <2>6. \A o \in BOOLEAN : ~InQueue(queue', [cmd |-> "CONNECT_CB", conn |-> d, ok |-> o])
    BY <1>3, <2>5, QueuedIsWaiting
  <2>. QED BY <2>4, <2>6
<1>6. /\ ~InQueue(queue', [cmd |-> "CONNECT_CB", conn |-> d, ok |-> TRUE])
      /\ ~InQueue(queue', [cmd |-> "CONNECT_CB", conn |-> d, ok |-> FALSE])
  BY <1>5
<1>7. CASE ep' = ep
  <2>1. disp' = [pc |-> "release", conn |-> d] /\ connector'[d] \in {connector[d], "woken"}
    <3>1. ep'[d] # NewEndpoint("endpoint")
      BY <1>4, <1>7 DEF NewEndpoint
    <3>. QED BY <1>0, <3>1 DEF DoConnectCbActive, Then, SetEvent
  <2>2. disp'.conn = d /\ disp'.pc = "release"
    BY <2>1
  <2>3. Order(d)'
    BY <1>1, <1>3, <1>4, <1>6, <1>7 DEF Order, Early, Active
  <2>4. Life(d)'
    BY <1>4, <1>7, <2>1, <2>2 DEF Local, Life, Unstarted, DispAt
  <2>5. Leaving(d)' /\ Stopping(d)' /\ Writing(d)'
    BY <1>1, <1>3, <1>4, <1>7, <2>2 DEF Local, Leaving, Stopping, Writing, Running, DispAt
  <2>. QED BY <1>5, <2>3, <2>4, <2>5 DEF Local
<1>8. CASE ep' # ep
  <2>1. ep' = [ep EXCEPT ![d] = NewEndpoint("endpoint")] /\ disp' = [pc |-> "start", conn |-> d]
        /\ connector' = connector
    BY <1>8 DEF DoConnectCbActive, Then
  <2>2. /\ ep'[d].state = "INITIALIZED" /\ ep'[d].list = "endpoint" /\ ~ep'[d].known /\ ~ep'[d].registered
        /\ ~ep'[d].exitScheduled /\ ~ep'[d].exited /\ ep'[d].stopper = "none"
    BY <1>0, <2>1 DEF NewEndpoint
  <2>3. disp'.conn = d /\ disp'.pc = "start"
    BY <2>1
  <2>4. Order(d)'
    BY <1>1, <1>3, <1>4, <1>6, <2>2 DEF Order, Early, Active
  <2>5. Life(d)'
    BY <1>4, <2>1, <2>2, <2>3 DEF Life, Unstarted, DispAt
  <2>6. Leaving(d)' /\ Stopping(d)'
    BY <1>1, <1>3, <1>4, <2>2, <2>3 DEF Local, Leaving, Stopping, Running, DispAt
  <2>7. Writing(d)'
    BY <1>1, <1>4, <2>2 DEF Local, Writing
  <2>. QED BY <1>5, <2>4, <2>5, <2>6, <2>7 DEF Local
<1>. QED BY <1>7, <1>8

\* The locked half of a Stop() by the dispatcher.
LEMMA LocalDispatcherStop ==
  ASSUME Shape, Threading, NEW d \in Conns, Local(d), DispatcherStop(d),
         DispAt(d, {"woken"}) \/ DispAt(d, {"lost"}),
         ardp' = ardp, queue' = queue, writer' = writer, connector' = connector
  PROVE  Local(d)'
<1>0. /\ ep \in [Conns -> Endpoint] /\ stream \in [Conns -> StreamShape]
      /\ ep[d] \in Endpoint /\ stream[d] \in StreamShape /\ NoConn # d
  BY EndpointAssumption DEF Shape
<1>1. CASE ep[d].state = "STARTED"
  <2>1. ep'[d] = [ep[d] EXCEPT !.state = "STOPPING"] /\ stream'[d] = stream[d]
        /\ disp' = [pc |-> "wake", conn |-> d]
    BY <1>0, <1>1 DEF DispatcherStop, StoppedEp, StoppedStream, Then
  <2>2. /\ ep'[d].list = ep[d].list /\ ep'[d].state = "STOPPING" /\ ep'[d].known = ep[d].known
        /\ ep'[d].exited = ep[d].exited /\ ep'[d].registered = ep[d].registered
        /\ ep'[d].exitScheduled = ep[d].exitScheduled /\ ep'[d].stopper = ep[d].stopper
        /\ disp'.conn = d /\ disp'.pc = "wake"
    BY <1>0, <2>1 DEF Endpoint
  <2>3. ~Early(d)
    BY <1>1 DEF Local, Order, Unstarted
  <2>4. Order(d)'
    BY <2>2, <2>3 DEF Local, Order, Early, Active
  <2>5. Life(d)'
    BY <1>1, <2>2 DEF Local, Life, Unstarted, DispAt
  <2>6. Leaving(d)' /\ Writing(d)'
    BY <1>1, <2>1, <2>2 DEF Local, Leaving, Writing, DispAt
  <2>7. Stopping(d)'
    BY <1>1, <2>1, <2>2 DEF Local, Life, Stopping, Running, DispAt
  <2>. QED BY <2>4, <2>5, <2>6, <2>7 DEF Local
<1>2. CASE ep[d].state # "STARTED"
  <2>1. ep'[d] = ep[d] /\ disp' = Idle
        /\ stream'[d] = IF ep[d].state = "INITIALIZED" THEN EarlyExit(stream[d]) ELSE stream[d]
    BY <1>0, <1>2 DEF DispatcherStop, StoppedEp, StoppedStream, Then
  <2>2. disp'.conn # d
    BY <1>0, <2>1 DEF Idle
  <2>3. ep[d].state = "INITIALIZED" => ep[d].list = "endpoint"
    BY DEF Local, Life, Unstarted, DispAt
  <2>4. /\ stream'[d].disc => ~stream'[d].conn
        /\ stream[d].disc => stream'[d].disc
        /\ stream'[d].discSent = stream[d].discSent
        /\ ~stream'[d].disc => stream'[d].discStatus = stream[d].discStatus
        /\ stream'[d].disc /\ ~stream[d].disc => ep[d].list = "endpoint"
        /\ stream'[d].threads = stream[d].threads /\ stream'[d].fault = stream[d].fault
    BY <1>0, <2>1, <2>3 DEF EarlyExit, StreamShape, Local, Stopping
  <2>5. Order(d)'
    BY <2>1, <2>2 DEF Local, Order, Early, Active, Unstarted
  <2>6. Life(d)' /\ Leaving(d)'
    BY <2>1, <2>2 DEF Local, Life, Leaving, Unstarted, DispAt
  <2>7. Stopping(d)'
    BY <2>1, <2>2, <2>4 DEF Local, Stopping, Running, DispAt
  <2>8. Writing(d)'
    BY <2>1, <2>4 DEF Local, Writing
  <2>. QED BY <2>5, <2>6, <2>7, <2>8 DEF Local
<1>. QED BY <1>1, <1>2

\* The steps with which the dispatcher starts, registers, stops and releases.
LEMMA LocalStart ==
  ASSUME Shape, Threading, NEW d \in Conns, Local(d),
         \/ ARDP_ReleaseConnection(d) \/ Start(d) \/ RegisterEndpoint(d) \/ Registered(d)
         \/ DoConnectCbWakes(d) \/ DispatcherWakes(d) \/ DispatcherDisconnects(d)
  PROVE  Local(d)'
<1>0. /\ ep \in [Conns -> Endpoint] /\ stream \in [Conns -> StreamShape] /\ ardp \in [Conns -> RecordShape]
      /\ connector \in [Conns -> ConnectorPcs] /\ writer \in [Threads -> WriterShape] /\ queue \in Seq(Commands)
      /\ ep[d] \in Endpoint /\ stream[d] \in StreamShape /\ ardp[d] \in RecordShape /\ NoConn # d
      /\ Dispatcher \in Threads
  BY EndpointAssumption DEF Shape
<1>1. Idle.conn # d /\ Idle.pc = "idle"
  BY <1>0 DEF Idle
<1>2. ASSUME disp.conn = d, disp.pc \notin {"sent", "lost"}
      PROVE  /\ ~Early(d) /\ Waiting(queue, "CONNECT_CB", d) = 0
             /\ ~InQueue(queue, [cmd |-> "CONNECT_CB", conn |-> d, ok |-> TRUE])
             /\ ~InQueue(queue, [cmd |-> "CONNECT_CB", conn |-> d, ok |-> FALSE])
  <2>1. ~Early(d)
    BY <1>2 DEF Local, Order
  <2>2. Waiting(queue, "CONNECT_CB", d) = 0
    BY <2>1 DEF Early, Local, Order
  <2>3. \A ok \in BOOLEAN : ~InQueue(queue, [cmd |-> "CONNECT_CB", conn |-> d, ok |-> ok])
    BY <1>0, <2>2, QueuedIsWaiting
  <2>. QED BY <2>1, <2>2, <2>3
<1>3. CASE ARDP_ReleaseConnection(d)
  <2>1. /\ ep' = ep /\ stream' = stream /\ queue' = queue /\ writer' = writer /\ connector' = connector
        /\ ardp'[d].state = "gone" /\ disp' = Idle /\ disp.conn = d /\ disp.pc = "release"
    BY <1>0, <1>3 DEF ARDP_ReleaseConnection, Then, At, RecordShape
  <2>2. Order(d)'
    BY <1>1, <1>2, <2>1 DEF Local, Order, Early, Active
  <2>3. Life(d)' /\ Leaving(d)'
    BY <1>1, <2>1 DEF Local, Life, Leaving, Unstarted, DispAt
  <2>4. Stopping(d)' /\ Writing(d)'
    BY <1>1, <2>1 DEF Local, Stopping, Writing, Running, DispAt
  <2>. QED BY <2>2, <2>3, <2>4 DEF Local
<1>4. CASE Start(d)
  <2>1. /\ stream' = stream /\ ardp' = ardp /\ queue' = queue /\ writer' = writer /\ connector' = connector
        /\ ep' = [ep EXCEPT ![d].state = "STARTED"]
        /\ disp' = [pc |-> "register", conn |-> d] /\ disp.conn = d /\ disp.pc = "start"
    BY <1>4 DEF Start, Then, At
  <2>2. /\ ep'[d].list = ep[d].list /\ ep'[d].state = "STARTED" /\ ep'[d].known = ep[d].known
        /\ ep'[d].exited = ep[d].exited /\ ep'[d].registered = ep[d].registered
        /\ ep'[d].exitScheduled = ep[d].exitScheduled /\ ep'[d].stopper = ep[d].stopper
        /\ disp'.conn = d /\ disp'.pc = "register"
    BY <1>0, <2>1 DEF Endpoint
  <2>3. ep[d].state = "INITIALIZED" /\ ep[d].list = "endpoint" /\ ~ep[d].known /\ ~ep[d].exited
    BY <2>1 DEF Local, Life, Unstarted, DispAt
  <2>4. Order(d)'
    BY <1>2, <2>1, <2>2 DEF Local, Order, Early, Active
  <2>5. Life(d)'
    BY <2>1, <2>2, <2>3 DEF Local, Life, Unstarted, DispAt
  <2>6. Leaving(d)' /\ Writing(d)'
    BY <2>1, <2>2, <2>3 DEF Local, Leaving, Writing, DispAt
  <2>7. Stopping(d)'
    BY <2>1, <2>2, <2>3 DEF Local, Stopping, Running, DispAt
  <2>. QED BY <2>4, <2>5, <2>6, <2>7 DEF Local
<1>5. CASE RegisterEndpoint(d)
  <2>1. /\ stream' = stream /\ ardp' = ardp /\ queue' = queue /\ connector' = connector
        /\ ep' = [ep EXCEPT ![d].known = TRUE]
        /\ writer' = [writer EXCEPT ![Dispatcher] = [NotWriting EXCEPT !.pc = "ask", !.conn = d]]
        /\ disp' = [pc |-> "registered", conn |-> d] /\ disp.conn = d /\ disp.pc = "register"
    BY <1>5 DEF RegisterEndpoint, Then, At, Calls
  <2>2. /\ ep'[d].list = ep[d].list /\ ep'[d].state = ep[d].state /\ ep'[d].known
        /\ ep'[d].exited = ep[d].exited /\ ep'[d].registered = ep[d].registered
        /\ ep'[d].exitScheduled = ep[d].exitScheduled /\ ep'[d].stopper = ep[d].stopper
        /\ disp'.conn = d /\ disp'.pc = "registered"
    BY <1>0, <2>1 DEF Endpoint
  <2>3. ep[d].state = "STARTED" /\ ep[d].list = "endpoint" /\ ~ep[d].exited
    <3>1. ep[d].state = "STARTED" /\ ~ep[d].exited
      BY <2>1 DEF Local, Life, DispAt
    <3>. QED BY <1>0, <3>1 DEF Local, Life, Endpoint, Lists
  <2>4. Order(d)'
    BY <1>2, <2>1, <2>2 DEF Local, Order, Early, Active
  <2>5. Life(d)'
    BY <2>1, <2>2, <2>3 DEF Local, Life, Unstarted, DispAt
  <2>6. Leaving(d)'
    BY <2>1, <2>2, <2>3 DEF Local, Leaving, DispAt
  <2>7. Stopping(d)'
    BY <2>1, <2>2, <2>3 DEF Local, Stopping, Running, DispAt
  <2>8. Writing(d)'
    <3>1. writer[Dispatcher].conn # d
      BY <1>0, <2>1 DEF Threading
    <3>2. Dispatcher \notin stream[d].threads
      BY <1>0, <3>1 DEF Local, Writing
    <3>3. \A t \in Threads \ {Dispatcher} : writer'[t] = writer[t]
      BY <1>0, <2>1
    <3>. QED BY <2>1, <2>2, <2>3, <3>2, <3>3 DEF Local, Writing
  <2>. QED BY <2>4, <2>5, <2>6, <2>7, <2>8 DEF Local
<1>6. CASE Registered(d)
  <2>1. /\ stream' = stream /\ ardp' = ardp /\ queue' = queue /\ connector' = connector
        /\ ep' = [ep EXCEPT ![d].registered = writer[Dispatcher].ok]
        /\ writer' = [writer EXCEPT ![Dispatcher] = NotWriting]
        /\ writer[Dispatcher].pc = "idle"
        /\ disp' = IF Active(d) THEN [pc |-> "woken", conn |-> d] ELSE Idle
        /\ disp.conn = d /\ disp.pc = "registered"
    BY <1>6 DEF Registered, Then, At
  <2>2. /\ ep'[d].list = ep[d].list /\ ep'[d].state = ep[d].state /\ ep'[d].known = ep[d].known
        /\ ep'[d].exited = ep[d].exited
        /\ ep'[d].exitScheduled = ep[d].exitScheduled /\ ep'[d].stopper = ep[d].stopper
    BY <1>0, <2>1 DEF Endpoint
  <2>3. disp'.conn = d => disp'.pc = "woken"
    BY <1>1, <2>1
  <2>4. ep[d].known
    BY <2>1 DEF Local, Life, DispAt
  <2>5. Order(d)'
    BY <1>2, <2>1, <2>2 DEF Local, Order, Early, Active
  <2>6. Life(d)'
    BY <2>1, <2>2, <2>3, <2>4 DEF Local, Life, Unstarted, DispAt
  <2>7. Leaving(d)'
    BY <2>1, <2>2, <2>3, <2>4 DEF Local, Leaving, DispAt
  <2>8. Stopping(d)'
    BY <2>1, <2>2, <2>3, <2>4 DEF Local, Life, Stopping, Running, DispAt
  <2>9. Writing(d)'
    <3>1. writer[Dispatcher].conn # d
      BY <1>0, <2>1 DEF Threading
    <3>2. Dispatcher \notin stream[d].threads
      BY <1>0, <3>1 DEF Local, Writing
    <3>3. writer'[Dispatcher].conn # d /\ \A t \in Threads \ {Dispatcher} : writer'[t] = writer[t]
      BY <1>0, <2>1 DEF NotWriting
    <3>. QED BY <2>1, <2>2, <3>2, <3>3 DEF Local, Writing
  <2>. QED BY <2>5, <2>6, <2>7, <2>8, <2>9 DEF Local
<1>7. CASE DoConnectCbWakes(d)
  <2>1. /\ ardp' = ardp /\ queue' = queue /\ writer' = writer
        /\ disp.conn = d /\ disp.pc = "woken"
    BY <1>7 DEF DoConnectCbWakes, At
  <2>2. CASE HasEntry(d)
    <3>1. /\ ep' = ep /\ stream' = stream /\ disp' = Idle
          /\ connector'[d] = IF connector[d] = "waiting" THEN "woken" ELSE connector[d]
          /\ connector[d] # "idle"
      BY <1>0, <1>7, <2>2 DEF DoConnectCbWakes, SetEvent, Then, HasEntry, Entered
    <3>2. Order(d)'
      BY <1>1, <1>2, <2>1, <3>1 DEF Local, Order, Early, Active
    <3>3. Life(d)' /\ Leaving(d)'
      BY <1>1, <2>1, <3>1 DEF Local, Life, Leaving, Unstarted, DispAt
    <3>4. Stopping(d)' /\ Writing(d)'
      BY <1>1, <2>1, <3>1 DEF Local, Stopping, Writing, Running, DispAt
    <3>. QED BY <3>2, <3>3, <3>4 DEF Local
  <2>3. CASE ~HasEntry(d)
    BY <1>7, <2>1, <2>3, LocalDispatcherStop DEF DoConnectCbWakes, DispAt
  <2>. QED BY <2>2, <2>3
<1>8. CASE DispatcherWakes(d)
  <2>1. /\ ep' = ep /\ ardp' = ardp /\ queue' = queue /\ connector' = connector /\ writer' = writer
        /\ stream'[d] = WakeThreadSet(stream[d])
        /\ disp' = [pc |-> "disconnect", conn |-> d] /\ disp.conn = d /\ disp.pc = "wake"
    BY <1>0, <1>8 DEF DispatcherWakes, Then, At
  <2>2. /\ stream'[d].disc = stream[d].disc /\ stream'[d].conn = stream[d].conn
        /\ stream'[d].discSent = stream[d].discSent /\ stream'[d].discStatus = stream[d].discStatus
        /\ stream'[d].threads = stream[d].threads /\ stream'[d].fault = stream[d].fault
    BY <1>0, <2>1 DEF WakeThreadSet, StreamShape
  <2>3. disp'.conn = d /\ disp'.pc = "disconnect"
    BY <2>1
  <2>4. Order(d)'
    BY <1>2, <2>1, <2>3 DEF Local, Order, Early, Active
  <2>5. Life(d)' /\ Leaving(d)'
    BY <2>1, <2>3 DEF Local, Life, Leaving, Unstarted, DispAt
  <2>6. Stopping(d)' /\ Writing(d)'
    BY <2>1, <2>2, <2>3 DEF Local, Stopping, Writing, Running, DispAt
  <2>. QED BY <2>4, <2>5, <2>6 DEF Local
<1>9. CASE DispatcherDisconnects(d)
  <2>1. /\ ep' = ep /\ queue' = queue /\ connector' = connector /\ writer' = writer
        /\ StreamDisconnect(d, FALSE, "LOCAL_DISCONNECT")
        /\ disp' = Idle /\ disp.conn = d /\ disp.pc = "disconnect"
    BY <1>9 DEF DispatcherDisconnects, Then, At
  <2>2. /\ ~Running(d) /\ ~(stream[d].discSent /\ ~stream[d].disc) /\ ep[d].stopper = "none"
        /\ (stream[d].disc => ~stream[d].conn) /\ stream[d].fault = {}
        /\ ep[d].list \notin {"none", "auth"}
    BY <2>1 DEF Local, Life, Stopping, Running, DispAt
  <2>3. LocalDisconnect(d)
    BY <2>1, <2>2, LocalDisconnects
  <2>4. Order(d)'
    <3>1. ardp'[d].state \notin {"none", "SYN"}
      BY <1>2, <2>1, <2>3 DEF LocalDisconnect, Early
    <3>. QED BY <1>1, <1>2, <2>1, <3>1 DEF Local, Order, Early, Active
  <2>5. Life(d)' /\ Leaving(d)'
    BY <1>1, <2>1 DEF Local, Life, Leaving, Unstarted, DispAt
  <2>6. Stopping(d)'
    BY <1>1, <2>1, <2>2, <2>3 DEF LocalDisconnect, Local, Stopping, Running, DispAt
  <2>7. Writing(d)'
    BY <2>1, <2>3 DEF LocalDisconnect, Local, Writing
  <2>. QED BY <2>4, <2>5, <2>6, <2>7 DEF Local
<1>. QED BY <1>3, <1>4, <1>5, <1>6, <1>7, <1>8, <1>9

\* The callbacks that the dispatcher works off.
LEMMA LocalCallbacks ==
  ASSUME Shape, Threading, NEW d \in Conns, Local(d),
         \/ SendCb(d) \/ SendCbWakes(d) \/ RecvCb(d) \/ RecvCbReturns(d)
         \/ DisconnectCb(d) \/ DisconnectCbStops(d) \/ Exit(d) \/ ExitDone(d)
  PROVE  Local(d)'
<1>0. /\ ep \in [Conns -> Endpoint] /\ stream \in [Conns -> StreamShape] /\ ardp \in [Conns -> RecordShape]
      /\ writer \in [Threads -> WriterShape] /\ queue \in Seq(Commands)
      /\ ep[d] \in Endpoint /\ stream[d] \in StreamShape /\ ardp[d] \in RecordShape /\ NoConn # d
      /\ Dispatcher \in Threads /\ \A cmd : Waiting(queue, cmd, d) \in Nat
  BY EndpointAssumption, WaitingIsNat DEF Shape
<1>1. Idle.conn # d /\ Idle.pc = "idle"
  BY <1>0 DEF Idle
\* Steps that change no more than the queue, the dispatcher and other fields.
<1>2. ASSUME \/ queue' = queue
             \/ \E cmd \in {"SEND_CB", "RECV_CB", "DISCONNECT_CB"} : Taken(cmd, d)
      PROVE  /\ Waiting(queue', "CONNECT_CB", d) = Waiting(queue, "CONNECT_CB", d)
             /\ Waiting(queue', "EXIT", d) = Waiting(queue, "EXIT", d)
             /\ \A y : InQueue(queue', y) => InQueue(queue, y)
  BY <1>2 DEF Taken
<1>3. CASE SendCb(d) \/ SendCbWakes(d)
  <2>1. /\ ep' = ep /\ ardp' = ardp /\ writer' = writer /\ connector' = connector
        /\ disp'.conn = d => disp'.pc = "sent" /\ ep[d].list = "endpoint"
    BY <1>1, <1>3 DEF SendCb, SendCbWakes, Then, Listed
  <2>2. queue' = queue \/ Taken("SEND_CB", d)
    BY <1>3, TakeCommand DEF SendCb, SendCbWakes
  <2>3. stream'[d] = stream[d] \/ stream'[d] = SetWriteEvent(stream[d])
        \/ \E b : stream'[d] = ForgetSent(stream[d], b)
    BY <1>0, <1>3 DEF SendCb, SendCbWakes
  <2>4. /\ stream'[d].disc = stream[d].disc /\ stream'[d].conn = stream[d].conn
        /\ stream'[d].discSent = stream[d].discSent /\ stream'[d].discStatus = stream[d].discStatus
        /\ stream'[d].threads = stream[d].threads /\ stream'[d].fault = stream[d].fault
    BY <1>0, <2>3 DEF SetWriteEvent, ForgetSent, StreamShape
  <2>5. Order(d)'
    BY <1>2, <2>1, <2>2 DEF Local, Order, Early, Active, Unstarted
  <2>6. Life(d)' /\ Leaving(d)'
    BY <1>2, <2>1, <2>2 DEF Local, Life, Leaving, Unstarted, DispAt
  <2>7. Stopping(d)'
    BY <1>2, <2>1, <2>2, <2>4 DEF Local, Stopping, Running, DispAt
  <2>8. Writing(d)'
    BY <2>1, <2>4 DEF Local, Writing
  <2>. QED BY <2>5, <2>6, <2>7, <2>8 DEF Local
<1>4. CASE RecvCb(d) \/ RecvCbReturns(d)
  <2>1. /\ ep' = ep /\ stream' = stream /\ connector' = connector
        /\ disp'.conn = d => disp'.pc = "received" /\ ep[d].list = "endpoint" /\ ep[d].state = "STARTED"
    BY <1>1, <1>4 DEF RecvCb, RecvCbReturns, Then, Listed
  <2>2. ardp'[d].state = ardp[d].state
    <3>1. ARDP_RecvReady(d) => ardp'[d].state = ardp[d].state
      BY <1>0 DEF ARDP_RecvReady, RecordShape
    <3>. QED BY <1>4, <3>1 DEF RecvCb, RecvCbReturns
  <2>3. queue' = queue \/ Taken("RECV_CB", d)
    BY <1>4, TakeCommand DEF RecvCb, RecvCbReturns
  <2>4. Order(d)'
    BY <1>2, <2>1, <2>2, <2>3 DEF Local, Order, Early, Active, Unstarted
  <2>5. Life(d)' /\ Leaving(d)'
    BY <1>2, <2>1, <2>3 DEF Local, Life, Leaving, Unstarted, DispAt
  <2>6. Stopping(d)'
    BY <1>2, <2>1, <2>2, <2>3 DEF Local, Stopping, Running, DispAt
  <2>7. Writing(d)'
    <3>1. CASE writer' = writer
      BY <2>1, <3>1 DEF Local, Writing
    <3>2. CASE writer' # writer
      <4>1. writer' = [writer EXCEPT ![Dispatcher] = NotWriting] /\ writer[Dispatcher].pc = "idle"
        BY <1>4, <3>2 DEF RecvCb, RecvCbReturns
      <4>2. writer[Dispatcher].conn # d
        BY <1>0, <4>1 DEF Threading
      <4>3. writer'[Dispatcher].conn # d /\ \A t \in Threads \ {Dispatcher} : writer'[t] = writer[t]
        BY <1>0, <4>1 DEF NotWriting
      <4>4. Dispatcher \notin stream[d].threads
        BY <1>0, <4>2 DEF Local, Writing
      <4>. QED BY <2>1, <4>3, <4>4 DEF Local, Writing
    <3>. QED BY <3>1, <3>2
  <2>. QED BY <2>4, <2>5, <2>6, <2>7 DEF Local
<1>5. CASE DisconnectCb(d)
  <2>1. /\ writer' = writer /\ connector' = connector /\ Cmd("DISCONNECT_CB", d) /\ queue' = Tail(queue)
    BY <1>5 DEF DisconnectCb
  <2>2. Taken("DISCONNECT_CB", d)
    BY <2>1, TakeCommand
  <2>3. CASE ~Listed(d)
    <3>1. ep' = ep /\ stream' = stream /\ ardp' = ardp /\ disp' = Idle
      BY <1>5, <2>3 DEF DisconnectCb, Then
    <3>2. Order(d)'
      BY <1>1, <1>2, <2>1, <2>2, <3>1 DEF Local, Order, Early, Active, Unstarted
    <3>3. Life(d)' /\ Leaving(d)'
      BY <1>1, <1>2, <2>1, <2>2, <3>1 DEF Local, Life, Leaving, Unstarted, DispAt
    <3>4. Stopping(d)' /\ Writing(d)'
      BY <1>1, <1>2, <2>1, <2>2, <3>1 DEF Local, Stopping, Writing, Running, DispAt
    <3>. QED BY <3>2, <3>3, <3>4 DEF Local
  <2>4. CASE Listed(d)
    <3>. DEFINE st == Head(queue).status
    <3>1. /\ StreamDisconnect(d, st # "OK", st) /\ ep' = [ep EXCEPT ![d].conn = FALSE]
          /\ disp' = [pc |-> "lost", conn |-> d] /\ ep[d].list = "endpoint"
      BY <1>5, <2>4 DEF DisconnectCb, Then, Listed
    <3>2. /\ ep'[d].list = ep[d].list /\ ep'[d].state = ep[d].state /\ ep'[d].known = ep[d].known
          /\ ep'[d].exited = ep[d].exited /\ ep'[d].registered = ep[d].registered
          /\ ep'[d].exitScheduled = ep[d].exitScheduled /\ ep'[d].stopper = ep[d].stopper
          /\ disp'.conn = d /\ disp'.pc = "lost"
      BY <1>0, <3>1 DEF Endpoint
    <3>3. st \in {"OK", "REMOTE", "SOCKET"} /\ Head(queue) = DiscCmd(d, st)
      <4>1. Head(queue) \in Commands /\ Head(queue).cmd = "DISCONNECT_CB" /\ Head(queue).conn = d
        BY <1>0, <2>1, QueueTail DEF Cmd
      <4>. QED BY <4>1 DEF Commands, DiscCmd
    <3>4. st = "OK" => stream[d].discSent
      <4>1. st = "OK" => InQueue(queue, DiscCmd(d, "OK"))
        BY <2>2, <3>3 DEF Taken
      <4>. QED BY <4>1 DEF Local, Stopping
    <3>. HIDE DEF st
    <3>5. ~AsksArdp(stream[d], st # "OK")
      BY <3>4 DEF AsksArdp
    <3>6. ardp'[d] = ardp[d] /\ stream'[d] = Disconnect(stream[d], st # "OK", st, "OK")
      BY <1>0, <3>1, <3>5 DEF StreamDisconnect
    <3>7. Disconnected(stream[d], st # "OK", st, "OK", stream'[d])
      <4>1. (st # "OK") \in BOOLEAN /\ st \in Statuses /\ "OK" \in Statuses
        BY <3>3 DEF Statuses
      <4>. QED BY <1>0, <3>6, <4>1, DisconnectEffect
    <3>8. /\ stream'[d].disc /\ ~stream'[d].conn /\ stream'[d].discSent = stream[d].discSent
          /\ stream'[d].threads = stream[d].threads /\ stream'[d].fault = {}
      BY <3>4, <3>5, <3>7 DEF Disconnected, Local, Stopping, AsksArdp
    <3>9. Order(d)'
      BY <1>2, <2>1, <2>2, <3>2, <3>6 DEF Local, Order, Early, Active, Unstarted
    <3>10. Life(d)' /\ Leaving(d)'
      BY <1>2, <2>1, <2>2, <3>1, <3>2 DEF Local, Life, Leaving, Unstarted, DispAt
    <3>11. Stopping(d)'
      BY <1>2, <2>1, <2>2, <3>1, <3>2, <3>6, <3>8 DEF Local, Stopping, Running, DispAt
    <3>12. Writing(d)'
      BY <2>1, <3>2, <3>8 DEF Local, Writing
    <3>. QED BY <3>9, <3>10, <3>11, <3>12 DEF Local
  <2>. QED BY <2>3, <2>4
<1>6. CASE DisconnectCbStops(d)
  BY <1>6, LocalDispatcherStop DEF DisconnectCbStops, At, DispAt
<1>7. CASE Exit(d)
  <2>1. /\ stream' = stream /\ ardp' = ardp /\ writer' = writer /\ connector' = connector
        /\ Cmd("EXIT", d) /\ queue' = Tail(queue)
    BY <1>7 DEF Exit
  <2>2. Taken("EXIT", d)
    BY <2>1, TakeCommand
  <2>3. /\ Waiting(queue', "CONNECT_CB", d) = Waiting(queue, "CONNECT_CB", d)
        /\ Waiting(queue, "EXIT", d) = 1 /\ Waiting(queue', "EXIT", d) = 0
        /\ \A y : InQueue(queue', y) => InQueue(queue, y)
    BY <1>0, <2>2 DEF Taken, Local, Leaving
  <2>4. ep[d].exitScheduled /\ ep[d].state = "JOINED" /\ ~ep[d].exited /\ ep[d].list = "endpoint"
    <3>1. ep[d].exitScheduled /\ ep[d].state = "JOINED" /\ ~ep[d].exited
      BY <2>3 DEF Local, Leaving
    <3>. QED BY <1>0, <3>1 DEF Local, Life, Endpoint, Lists
  <2>5. /\ ep' = [ep EXCEPT ![d].known = FALSE, ![d].exited = TRUE, ![d].registered = FALSE]
        /\ disp' = [pc |-> "exit", conn |-> d]
    BY <1>7, <2>4 DEF Exit, Then, Listed
  <2>6. /\ ep'[d].list = ep[d].list /\ ep'[d].state = ep[d].state /\ ~ep'[d].known
        /\ ep'[d].exited /\ ~ep'[d].registered
        /\ ep'[d].exitScheduled = ep[d].exitScheduled /\ ep'[d].stopper = ep[d].stopper
        /\ disp'.conn = d /\ disp'.pc = "exit"
    BY <1>0, <2>5 DEF Endpoint
  <2>7. ~Early(d)
    BY <2>4 DEF Local, Order, Unstarted
  <2>8. Order(d)'
    BY <2>1, <2>3, <2>6, <2>7 DEF Local, Order, Early, Active
  <2>9. Life(d)'
    BY <2>1, <2>4, <2>6 DEF Local, Life, Unstarted, DispAt
  <2>10. Leaving(d)'
    BY <2>3, <2>4, <2>6 DEF Local, Leaving, DispAt
  <2>11. Stopping(d)' /\ Writing(d)'
    BY <2>1, <2>3, <2>4, <2>6 DEF Local, Stopping, Writing, Running, DispAt
  <2>. QED BY <2>8, <2>9, <2>10, <2>11 DEF Local
<1>8. CASE ExitDone(d)
  <2>1. /\ stream' = stream /\ ardp' = ardp /\ writer' = writer /\ connector' = connector /\ queue' = queue
        /\ disp.conn = d /\ disp.pc = "exit" /\ disp' = Idle /\ ep' = [ep EXCEPT ![d].state = "DONE"]
    BY <1>8 DEF ExitDone, Then, At
  <2>2. /\ ep'[d].list = ep[d].list /\ ep'[d].state = "DONE" /\ ep'[d].known = ep[d].known
        /\ ep'[d].exited = ep[d].exited /\ ep'[d].registered = ep[d].registered
        /\ ep'[d].exitScheduled = ep[d].exitScheduled /\ ep'[d].stopper = ep[d].stopper
    BY <1>0, <2>1 DEF Endpoint
  <2>3. ep[d].exitScheduled /\ ep[d].state = "JOINED" /\ ep[d].exited
    BY <2>1 DEF Local, Leaving, DispAt
  <2>4. ~Early(d)
    BY <2>3 DEF Local, Order, Unstarted
  <2>5. Order(d)'
    BY <1>1, <2>1, <2>2, <2>4 DEF Local, Order, Early, Active
  <2>6. Life(d)'
    BY <1>1, <2>1, <2>2, <2>3 DEF Local, Life, Unstarted, DispAt
  <2>7. Leaving(d)'
    BY <1>1, <2>1, <2>2, <2>3 DEF Local, Leaving, DispAt
  <2>8. Stopping(d)' /\ Writing(d)'
    BY <1>1, <2>1, <2>2, <2>3 DEF Local, Stopping, Writing, Running, DispAt
  <2>. QED BY <2>5, <2>6, <2>7, <2>8 DEF Local
<1>. QED BY <1>3, <1>4, <1>5, <1>6, <1>7, <1>8

\* The router goes to an endpoint that the daemon knows.
LEMMA LocalRoute ==
  ASSUME Shape, Threading, NEW d \in Conns, Local(d), NEW c \in Conns, Route(c, d)
  PROVE  Local(d)'
<1>0. writer \in [Threads -> WriterShape] /\ Dispatcher \in Threads /\ NoConn # d
  BY EndpointAssumption DEF Shape
<1>1. /\ ep' = ep /\ stream' = stream /\ ardp' = ardp /\ queue' = queue /\ connector' = connector
      /\ ep[d].known /\ writer[Dispatcher].pc = "idle"
      /\ writer' = [writer EXCEPT ![Dispatcher] = [NotWriting EXCEPT !.pc = "ask", !.conn = d]]
      /\ disp' = [pc |-> "routed", conn |-> c] /\ disp.conn = c /\ disp.pc = "received"
  BY DEF Route, Calls, Then, At
<1>2. disp'.conn = disp.conn /\ disp'.pc = "routed"
  BY <1>1
<1>3. Order(d)'
  BY <1>1, <1>2 DEF Local, Order, Early, Active, Unstarted
<1>4. Life(d)' /\ Leaving(d)'
  BY <1>1, <1>2 DEF Local, Life, Leaving, Unstarted, DispAt
<1>5. Stopping(d)'
  BY <1>1, <1>2 DEF Local, Stopping, Running, DispAt
<1>6. Writing(d)'
  <2>1. writer[Dispatcher].conn # d
    BY <1>0, <1>1 DEF Threading
  <2>2. Dispatcher \notin stream[d].threads
    BY <1>0, <2>1 DEF Local, Writing
  <2>3. \A t \in Threads \ {Dispatcher} : writer'[t] = writer[t]
    BY <1>0, <1>1
  <2>4. ep[d].list # "gone"
    BY <1>1 DEF Local, Life
  <2>. QED BY <1>1, <2>2, <2>3, <2>4 DEF Local, Writing
<1>. QED BY <1>3, <1>4, <1>5, <1>6 DEF Local

\* What a step of a writer at connection c does to what Local speaks of.
Wrote(t, c) ==
  /\ ep' = ep /\ connector' = connector /\ disp' = disp
  /\ \A u \in Threads \ {t} : writer'[u] = writer[u]
  /\ writer'[t].conn \in {c, NoConn}
  /\ \A d \in Conns \ {c} : stream'[d] = stream[d] /\ ardp'[d] = ardp[d]
  /\ stream'[c].disc = stream[c].disc /\ stream'[c].conn = stream[c].conn
  /\ stream'[c].discSent = stream[c].discSent /\ stream'[c].discStatus = stream[c].discStatus
  /\ stream'[c].fault = stream[c].fault
  /\ \A u \in Threads \ {t} : u \in stream'[c].threads <=> u \in stream[c].threads
  /\ t \in stream'[c].threads =>
       /\ writer'[t].conn = c /\ writer'[t].pc \in Holding
       /\ writer[t].pc \in Holding => t \in stream[c].threads
  /\ \/ queue' = queue /\ ardp'[c].state = ardp[c].state
     \/ /\ ardp[c].state = "OPEN" /\ ardp'[c].state = "CLOSING"
        /\ \E bufs \in SUBSET Bufs : FlushedTo(queue, c, bufs, "SOCKET", queue')

\* Every step of a writer, and the dispatcher's question before it writes.
LEMMA WriterStepWrote ==
  ASSUME Shape, Threading, NEW t \in Threads, writer[t].pc # "idle",
         t \in stream[writer[t].conn].threads => writer[t].pc \in Holding,
         WriterStep(t) \/ (Ask /\ t = Dispatcher)
  PROVE  writer[t].conn \in Conns /\ Wrote(t, writer[t].conn)
<1>. DEFINE c == writer[t].conn
            b == writer[t].buf
<1>0. /\ writer \in [Threads -> WriterShape] /\ writer[t] \in WriterShape
      /\ stream \in [Conns -> StreamShape] /\ ardp \in [Conns -> RecordShape]
  BY DEF Shape
<1>1. /\ c \in Conns /\ stream[c] \in StreamShape /\ ardp[c] \in RecordShape
      /\ (writer[t].pc \in Holding => b \in Bufs)
  BY <1>0 DEF Threading, WriterShape
<1>2. ep' = ep /\ connector' = connector /\ disp' = disp
  BY DEF WriterStep, Ask, FindDisc, Enter, SendBytes, Sent, Blocked, Woken
<1>3. ASSUME NEW ok, Leave(t, ok)
      PROVE  writer'[t].conn = NoConn /\ \A u \in Threads \ {t} : writer'[u] = writer[u]
  BY <1>0, <1>3 DEF Leave, NotWriting
<1>4. ASSUME NEW pc, Goto(t, pc)
      PROVE  /\ writer'[t].conn = c /\ writer'[t].pc = pc
             /\ \A u \in Threads \ {t} : writer'[u] = writer[u]
  BY <1>0, <1>4 DEF Goto, WriterShape
\* The stream stays or loses and gains no one but t.
<1>. DEFINE Keeps(s) == /\ s.disc = stream[c].disc /\ s.conn = stream[c].conn
                        /\ s.discSent = stream[c].discSent /\ s.discStatus = stream[c].discStatus
                        /\ s.fault = stream[c].fault
                        /\ \A u \in Threads \ {t} : u \in s.threads <=> u \in stream[c].threads
<1>5. /\ Keeps(stream[c]) /\ Keeps(AddCurrentThread(stream[c], t)) /\ Keeps(RemoveCurrentThread(stream[c], t))
      /\ Keeps(RemoveCurrentThread(NoteSent(stream[c], b), t)) /\ Keeps(BeginWait(stream[c]))
      /\ Keeps(EndWait(stream[c])) /\ Keeps(RemoveCurrentThread(EndWait(stream[c]), t))
  BY <1>1 DEF StreamShape, AddCurrentThread, RemoveCurrentThread, NoteSent, BeginWait, EndWait
<1>6. /\ t \notin RemoveCurrentThread(stream[c], t).threads
      /\ t \notin RemoveCurrentThread(NoteSent(stream[c], b), t).threads
      /\ t \notin RemoveCurrentThread(EndWait(stream[c]), t).threads
      /\ BeginWait(stream[c]).threads = stream[c].threads /\ EndWait(stream[c]).threads = stream[c].threads
  BY <1>1 DEF StreamShape, RemoveCurrentThread, NoteSent, BeginWait, EndWait
<1>. HIDE DEF Keeps
<1>7. ASSUME NEW s, Keeps(s), stream' = [stream EXCEPT ![c] = s], ardp' = ardp, queue' = queue,
             \/ writer'[t].conn = NoConn /\ t \notin s.threads
             \/ /\ writer'[t].conn = c
                /\ t \in s.threads => writer'[t].pc \in Holding /\ (writer[t].pc \in Holding => t \in stream[c].threads),
             \A u \in Threads \ {t} : writer'[u] = writer[u]
      PROVE  Wrote(t, c)
  BY <1>0, <1>1, <1>2, <1>7 DEF Wrote, Keeps
<1>8. stream = [stream EXCEPT ![c] = stream[c]]
  BY <1>0, <1>1
<1>9. CASE FindDisc(t) \/ (Ask /\ t = Dispatcher)
  <2>1. stream' = stream /\ ardp' = ardp /\ queue' = queue /\ writer[t].pc \in {"deliver", "ask"}
    BY <1>9 DEF FindDisc, Ask
  <2>2. t \notin stream[c].threads
    BY <2>1 DEF Holding
  <2>3. Leave(t, FALSE) \/ Goto(t, "enter") \/ Goto(t, "deliver")
    BY <1>9 DEF FindDisc, Ask
  <2>. QED BY <1>1, <1>3, <1>4, <1>5, <1>7, <1>8, <2>1, <2>2, <2>3
<1>10. CASE Enter(t)
  <2>1. ardp' = ardp /\ queue' = queue /\ writer[t].pc = "enter"
    BY <1>10 DEF Enter
  <2>2. t \notin stream[c].threads
    BY <2>1 DEF Holding
  <2>3. CASE used = Bufs
    <3>1. Leave(t, TRUE) /\ stream' = stream
      BY <1>10, <2>3 DEF Enter
    <3>. QED BY <1>1, <1>3, <1>5, <1>7, <1>8, <2>1, <2>2, <3>1
  <2>4. CASE used # Bufs
    <3>1. /\ stream' = [stream EXCEPT ![c] = AddCurrentThread(stream[c], t)]
          /\ \E x : writer' = [writer EXCEPT ![t].pc = "send", ![t].buf = x]
      BY <1>0, <1>1, <1>10, <2>4 DEF Enter
    <3>2. /\ writer'[t].conn = c /\ writer'[t].pc = "send"
          /\ \A u \in Threads \ {t} : writer'[u] = writer[u]
      BY <1>0, <3>1 DEF WriterShape
    <3>. QED BY <1>1, <1>5, <1>7, <2>1, <2>2, <3>1, <3>2 DEF Holding
  <2>. QED BY <2>3, <2>4
<1>11. CASE SendBytes(t)
  <2>0. writer[t].pc = "send" /\ b \in Bufs
    BY <1>1, <1>11 DEF SendBytes, Holding
  <2>1. CASE GiveUp(t, stream[c]) /\ UNCHANGED <<ardp, queue>>
    <3>1. stream' = [stream EXCEPT ![c] = RemoveCurrentThread(stream[c], t)] /\ Leave(t, FALSE)
      BY <2>1 DEF GiveUp
    <3>. QED BY <1>1, <1>3, <1>5, <1>6, <1>7, <2>1, <3>1
  <2>2. CASE Goto(t, "blocked") /\ UNCHANGED <<stream, ardp, queue, freed>>
    BY <1>1, <1>4, <1>5, <1>7, <1>8, <2>2 DEF Holding
  <2>3. CASE /\ ardp' = [ardp EXCEPT ![c].held = @ \cup {b}]
             /\ Goto(t, "sent") /\ UNCHANGED <<stream, queue, freed>>
    <3>1. ardp'[c].state = ardp[c].state /\ \A d \in Conns \ {c} : ardp'[d] = ardp[d]
      BY <1>0, <1>1, <2>3 DEF RecordShape
    <3>. QED BY <1>1, <1>2, <1>4, <2>0, <2>3, <3>1 DEF Wrote, Holding
  <2>4. ASSUME stream[c].conn, ardp[c].state = "OPEN", NEW own \in SUBSET {b},
               \E sends \in Flushed(c, ardp[c].held \cup own) :
                 queue' = queue \o sends \o <<[cmd |-> "DISCONNECT_CB", conn |-> c, status |-> "SOCKET"]>>,
               ardp' = [ardp EXCEPT ![c].state = "CLOSING", ![c].held = {}],
               GiveUp(t, stream[c])
        PROVE  Wrote(t, c)
    <3>1. /\ ardp[c].held \cup own \in SUBSET Bufs
          /\ FlushedTo(queue, c, ardp[c].held \cup own, "SOCKET", queue')
      BY <1>1, <2>0, <2>4 DEF RecordShape, FlushedTo
    <3>2. ardp'[c].state = "CLOSING" /\ \A d \in Conns \ {c} : ardp'[d] = ardp[d]
      BY <1>0, <1>1, <2>4 DEF RecordShape
    <3>3. stream' = [stream EXCEPT ![c] = RemoveCurrentThread(stream[c], t)] /\ Leave(t, FALSE)
      BY <2>4 DEF GiveUp
    <3>4. stream'[c] = RemoveCurrentThread(stream[c], t) /\ \A d \in Conns \ {c} : stream'[d] = stream[d]
      BY <1>0, <1>1, <3>3
    <3>. QED BY <1>2, <1>3, <1>5, <1>6, <2>4, <3>1, <3>2, <3>3, <3>4 DEF Wrote, Keeps
  <2>. QED BY <1>1, <1>11, <2>1, <2>2, <2>3, <2>4 DEF SendBytes
<1>12. CASE Sent(t)
  <2>1. /\ stream' = [stream EXCEPT ![c] = RemoveCurrentThread(NoteSent(stream[c], b), t)]
        /\ Leave(t, TRUE) /\ ardp' = ardp /\ queue' = queue
    BY <1>0, <1>1, <1>12 DEF Sent
  <2>. QED BY <1>1, <1>3, <1>5, <1>6, <1>7, <2>1
<1>13. CASE Blocked(t)
  <2>0. ardp' = ardp /\ queue' = queue /\ writer[t].pc = "blocked"
    BY <1>13 DEF Blocked
  <2>1. CASE Goto(t, "send") /\ stream' = stream
    BY <1>1, <1>4, <1>5, <1>7, <1>8, <2>0, <2>1 DEF Holding
  <2>2. CASE Goto(t, "waiting") /\ stream' = [stream EXCEPT ![c] = BeginWait(stream[c])]
    BY <1>1, <1>4, <1>5, <1>6, <1>7, <2>0, <2>2 DEF Holding
  <2>. QED BY <1>0, <1>1, <1>13, <2>1, <2>2 DEF Blocked
<1>14. ASSUME NEW late \in BOOLEAN, Woken(t, late) PROVE Wrote(t, c)
  <2>0. ardp' = ardp /\ queue' = queue /\ writer[t].pc = "waiting"
    BY <1>14 DEF Woken
  <2>1. CASE GiveUp(t, EndWait(stream[c]))
    <3>1. stream' = [stream EXCEPT ![c] = RemoveCurrentThread(EndWait(stream[c]), t)] /\ Leave(t, FALSE)
      BY <2>1 DEF GiveUp
    <3>. QED BY <1>3, <1>5, <1>6, <1>7, <2>0, <3>1
  <2>2. CASE Goto(t, "send") /\ stream' = [stream EXCEPT ![c] = EndWait(stream[c])]
    BY <1>4, <1>5, <1>6, <1>7, <2>0, <2>2 DEF Holding
  <2>. QED BY <1>0, <1>1, <1>14, <2>1, <2>2 DEF Woken
<1>. QED BY <1>1, <1>9, <1>10, <1>11, <1>12, <1>13, <1>14 DEF WriterStep

\* Writers disturb no endpoint, their own included.
LEMMA LocalWriter ==
  ASSUME Shape, Threading, NEW t \in Threads, NEW c \in Conns, writer[t].conn = c, Wrote(t, c),
         NEW d \in Conns, Local(d)
  PROVE  Local(d)'
<1>0. queue \in Seq(Commands) /\ NoConn # d
  BY EndpointAssumption DEF Shape
<1>1. CASE d # c
  <2>1. SameQueue(d)
    BY <1>1, QueueOthers DEF Wrote
  <2>2. Untouched(d)
    BY <1>0, <1>1, <2>1 DEF Wrote, Untouched
  <2>. QED BY <2>2, UntouchedLocal
<1>2. CASE d = c
  <2>1. /\ Waiting(queue', "CONNECT_CB", d) = Waiting(queue, "CONNECT_CB", d)
        /\ Waiting(queue', "EXIT", d) = Waiting(queue, "EXIT", d)
        /\ InQueue(queue', [cmd |-> "CONNECT_CB", conn |-> d, ok |-> TRUE]) =>
             InQueue(queue, [cmd |-> "CONNECT_CB", conn |-> d, ok |-> TRUE])
        /\ InQueue(queue', [cmd |-> "CONNECT_CB", conn |-> d, ok |-> FALSE]) =>
             InQueue(queue, [cmd |-> "CONNECT_CB", conn |-> d, ok |-> FALSE])
        /\ InQueue(queue', DiscCmd(d, "OK")) => InQueue(queue, DiscCmd(d, "OK"))
    <3>1. CASE queue' = queue
      BY <3>1
    <3>2. ASSUME NEW bufs \in SUBSET Bufs, FlushedTo(queue, d, bufs, "SOCKET", queue')
          PROVE  FlushAdds(queue, d, bufs, "SOCKET", queue')
      BY <1>0, <3>2, QueueFlush
    <3>3. /\ [cmd |-> "CONNECT_CB", conn |-> d, ok |-> TRUE].cmd = "CONNECT_CB"
          /\ [cmd |-> "CONNECT_CB", conn |-> d, ok |-> FALSE].cmd = "CONNECT_CB"
          /\ DiscCmd(d, "OK").cmd = "DISCONNECT_CB" /\ DiscCmd(d, "OK").status = "OK"
          /\ DiscCmd(d, "SOCKET").cmd = "DISCONNECT_CB" /\ DiscCmd(d, "SOCKET").status = "SOCKET"
          /\ \A b : SendCmd(d, b).cmd = "SEND_CB"
      BY DEF DiscCmd, SendCmd
    <3>4. CASE queue' # queue
      <4>1. PICK bufs \in SUBSET Bufs : FlushAdds(queue, d, bufs, "SOCKET", queue')
        BY <1>2, <3>2, <3>4 DEF Wrote
      <4>. QED BY <3>3, <4>1 DEF FlushAdds
    <3>. QED BY <3>1, <3>4
  <2>2. /\ ep'[d] = ep[d] /\ connector'[d] = connector[d] /\ disp' = disp
        /\ ardp'[d].state = ardp[d].state \/ (ardp[d].state = "OPEN" /\ ardp'[d].state = "CLOSING")
        /\ stream'[d].disc = stream[d].disc /\ stream'[d].conn = stream[d].conn
        /\ stream'[d].discSent = stream[d].discSent /\ stream'[d].discStatus = stream[d].discStatus
        /\ stream'[d].fault = stream[d].fault
    BY <1>2 DEF Wrote
  <2>3. Order(d)'
    BY <2>1, <2>2 DEF Local, Order, Early, Unstarted, Active
  <2>4. Life(d)' /\ Leaving(d)'
    BY <2>1, <2>2 DEF Local, Life, Leaving, Unstarted, DispAt
  <2>5. Stopping(d)'
    BY <2>1, <2>2 DEF Local, Stopping, Running, DispAt
  <2>6. Writing(d)'
    <3>1. ep[d].known \/ ep[d].exited
      BY <1>2 DEF Local, Writing
    <3>2. ep[d].list # "gone"
      BY <1>2 DEF Local, Writing
    <3>. QED BY <1>2, <2>2, <3>1, <3>2 DEF Local, Writing, Wrote
  <2>. QED BY <2>3, <2>4, <2>5, <2>6 DEF Local
<1>. QED BY <1>1, <1>2

\* The endpoint on which a message came that goes to another one.
LEMMA LocalRouteAway ==
  ASSUME Shape, Threading, NEW d \in Conns, Local(d), NEW c \in Conns, c # d, Route(d, c)
  PROVE  Local(d)'
<1>0. writer \in [Threads -> WriterShape] /\ Dispatcher \in Threads /\ NoConn # d
  BY EndpointAssumption DEF Shape
<1>1. /\ ep' = ep /\ stream' = stream /\ ardp' = ardp /\ queue' = queue /\ connector' = connector
      /\ writer[Dispatcher].pc = "idle"
      /\ writer' = [writer EXCEPT ![Dispatcher] = [NotWriting EXCEPT !.pc = "ask", !.conn = c]]
      /\ disp' = [pc |-> "routed", conn |-> d] /\ disp.conn = d /\ disp.pc = "received"
  BY DEF Route, Calls, Then, At
<1>2. disp'.conn = d /\ disp'.pc = "routed"
  BY <1>1
<1>3. Order(d)'
  BY <1>1, <1>2 DEF Local, Order, Early, Active, Unstarted
<1>4. Life(d)' /\ Leaving(d)'
  BY <1>1, <1>2 DEF Local, Life, Leaving, Unstarted, DispAt
<1>5. Stopping(d)'
  BY <1>1, <1>2 DEF Local, Stopping, Running, DispAt
<1>6. Writing(d)'
  <2>1. writer[Dispatcher].conn # d
    BY <1>0, <1>1 DEF Threading
  <2>2. Dispatcher \notin stream[d].threads
    BY <1>0, <2>1 DEF Local, Writing
  <2>3. writer'[Dispatcher].conn # d /\ \A t \in Threads \ {Dispatcher} : writer'[t] = writer[t]
    BY <1>0, <1>1 DEF NotWriting
  <2>. QED BY <1>1, <2>2, <2>3 DEF Local, Writing
<1>. QED BY <1>3, <1>4, <1>5, <1>6 DEF Local

\* A thread of the daemon goes to an endpoint that can take a message.
LEMMA LocalPushMessage ==
  ASSUME Shape, Threading, NEW d \in Conns, Local(d), NEW t \in Writers, NEW c \in Conns, PushMessage(t, c)
  PROVE  Local(d)'
<1>0. writer \in [Threads -> WriterShape] /\ t \in Threads /\ NoConn # d
  BY EndpointAssumption DEF Shape, Writers
<1>1. /\ ep' = ep /\ stream' = stream /\ ardp' = ardp /\ queue' = queue /\ connector' = connector /\ disp' = disp
      /\ writer[t].pc = "idle" /\ ep[c].known
      /\ writer' = [writer EXCEPT ![t] = [NotWriting EXCEPT !.pc = "deliver", !.conn = c]]
  BY DEF PushMessage, Calls, Deliverable
<1>2. Order(d)'
  BY <1>1 DEF Local, Order, Early, Active, Unstarted
<1>3. Life(d)' /\ Leaving(d)'
  BY <1>1 DEF Local, Life, Leaving, Unstarted, DispAt
<1>4. Stopping(d)'
  BY <1>1 DEF Local, Stopping, Running, DispAt
<1>5. Writing(d)'
  <2>1. writer[t].conn # d
    BY <1>0, <1>1 DEF Threading
  <2>2. t \notin stream[d].threads
    BY <1>0, <2>1 DEF Local, Writing
  <2>3. writer'[t].conn = c /\ \A u \in Threads \ {t} : writer'[u] = writer[u]
    BY <1>0, <1>1 DEF NotWriting
  <2>4. c = d => ep[d].known /\ ep[d].list # "gone"
    BY <1>1 DEF Local, Life
  <2>. QED BY <1>1, <2>2, <2>3, <2>4 DEF Local, Writing
<1>. QED BY <1>2, <1>3, <1>4, <1>5 DEF Local

\* The invariant of the lives of all endpoints.
EndpointInv == Shape /\ Threading /\ \A d \in Conns : Local(d)

\* An empty queue has no commands.
LEMMA EmptyQueue == \A cmd, d : Waiting(<< >>, cmd, d) = 0 /\ \A x : ~InQueue(<< >>, x)
<1>1. DOMAIN << >> = {}
  OBVIOUS
<1>2. \A cmd, d : Places(<< >>, cmd, d) = {}
  BY <1>1 DEF Places
<1>. QED BY <1>1, <1>2, FS_EmptySet DEF Waiting, InQueue

\* It holds at first.
LEMMA EndpointInvInit == Init => EndpointInv
<1>. SUFFICES ASSUME Init, NEW d \in Conns PROVE Local(d)
  BY ShapeInit, ThreadingInit DEF EndpointInv
<1>1. /\ ep[d].state = "NONE" /\ ep[d].list = "none" /\ ~ep[d].known /\ ~ep[d].registered
      /\ ~ep[d].exitScheduled /\ ~ep[d].exited /\ ep[d].stopper = "none"
  BY DEF Init, NoEndpoint, NewEndpoint
<1>2. /\ ~stream[d].disc /\ ~stream[d].discSent /\ stream[d].conn /\ stream[d].threads = {}
      /\ stream[d].fault = {}
  BY DEF Init, NewStream
<1>3. /\ ardp[d].state = "none" /\ connector[d] = "idle" /\ queue = << >>
      /\ \A t \in Threads : writer[t].conn = NoConn
      /\ disp.conn = NoConn /\ NoConn # d
  BY EndpointAssumption DEF Init, Idle, NotWriting
<1>4. Order(d)
  BY <1>1, <1>3, EmptyQueue DEF Order, Early, Unstarted, Active
<1>5. Life(d) /\ Leaving(d)
  BY <1>1, <1>3, EmptyQueue DEF Life, Leaving, Unstarted, DispAt
<1>6. Stopping(d) /\ Writing(d)
  BY <1>1, <1>2, <1>3, EmptyQueue DEF Stopping, Writing, Running, DispAt
<1>. QED BY <1>4, <1>5, <1>6 DEF Local

\* It is inductive.
LEMMA EndpointInvStep ==
  ASSUME EndpointInv, [Next]_vars
  PROVE  EndpointInv'
<1>0. Shape /\ Threading /\ \A d \in Conns : Local(d)
  BY DEF EndpointInv
<1>1. Shape' /\ Threading'
  BY <1>0, ShapeStep, ThreadingStep
<1>2. ASSUME NEW d \in Conns PROVE Local(d)'
  <2>0. Local(d)
    BY <1>0
  <2>1. ASSUME NEW c \in Conns, StepAt(c) PROVE Local(d)'
    <3>1. CASE c # d /\ ~Route(c, d)
      BY <1>0, <2>0, <2>1, <3>1, OthersUntouched, UntouchedLocal
    <3>2. CASE Route(c, d)
      BY <1>0, <2>0, <3>2, LocalRoute
    <3>3. CASE c = d /\ ~Route(d, d)
      <4>1. CASE NetworkStep(d) \/ DisconnectTimer(d)
        BY <1>0, <2>0, <4>1, LocalNetwork
      <4>2. CASE \/ AcceptCb(d) \/ Connect(d) \/ ConnectTimesOut(d) \/ ConnectReturns(d)
                 \/ ManageEndpoints(d) \/ Stop(d) \/ StopWake(d) \/ StopDisconnect(d)
        BY <1>0, <2>0, <4>2, LocalMain
      <4>3. CASE DispatcherStep(d)
        <5>1. CASE DoConnectCbPassive(d)
          BY <1>0, <2>0, <5>1, LocalConnectPassive
        <5>2. ASSUME NEW good \in BOOLEAN, DoConnectCbActive(d, good) PROVE Local(d)'
          BY <1>0, <2>0, <5>2, LocalConnectActive
        <5>3. CASE \/ ARDP_ReleaseConnection(d) \/ Start(d) \/ RegisterEndpoint(d) \/ Registered(d)
                   \/ DoConnectCbWakes(d) \/ DispatcherWakes(d) \/ DispatcherDisconnects(d)
          BY <1>0, <2>0, <5>3, LocalStart
        <5>4. CASE \/ SendCb(d) \/ SendCbWakes(d) \/ RecvCb(d) \/ RecvCbReturns(d)
                   \/ DisconnectCb(d) \/ DisconnectCbStops(d) \/ Exit(d) \/ ExitDone(d)
          BY <1>0, <2>0, <5>4, LocalCallbacks
        <5>5. ASSUME NEW x \in Conns, Route(d, x) PROVE Local(d)'
          <6>1. CASE x = d
            BY <1>0, <2>0, <5>5, <6>1, LocalRoute
          <6>2. CASE x # d
            BY <1>0, <2>0, <5>5, <6>2, LocalRouteAway
          <6>. QED BY <6>1, <6>2
        <5>. QED BY <4>3, <5>1, <5>2, <5>3, <5>4, <5>5 DEF DispatcherStep
      <4>. QED BY <2>1, <3>3, <4>1, <4>2, <4>3 DEF StepAt
    <3>. QED BY <3>1, <3>2, <3>3
  <2>2. ASSUME NEW t \in Threads, WriterStep(t) \/ (Ask /\ t = Dispatcher) PROVE Local(d)'
    <3>1. writer[t].pc # "idle"
      BY <2>2 DEF WriterStep, Ask, FindDisc, Enter, SendBytes, Sent, Blocked, Woken
    <3>2. writer[t].conn \in Conns
      BY <1>0, <3>1 DEF Shape, Threading, WriterShape
    <3>3. t \in stream[writer[t].conn].threads => writer[t].pc \in Holding
      BY <1>0, <3>2 DEF Local, Writing
    <3>4. Wrote(t, writer[t].conn)
      BY <1>0, <2>2, <3>1, <3>3, WriterStepWrote
    <3>. QED BY <1>0, <2>0, <3>2, <3>4, LocalWriter
  <2>3. ASSUME NEW t \in Writers, NEW c \in Conns, PushMessage(t, c) PROVE Local(d)'
    BY <1>0, <2>0, <2>3, LocalPushMessage
  <2>4. CASE UNCHANGED vars
    <3>1. Untouched(d)
      BY <2>4 DEF vars, Untouched, SameQueue
    <3>. QED BY <2>0, <3>1, UntouchedLocal
  <2>5. CASE Next
    <3>1. CASE \E c \in Conns : StepAt(c)
      BY <2>1, <3>1
    <3>2. CASE \E t \in Threads : WriterStep(t)
      BY <2>2, <3>2
    <3>3. CASE Ask
      BY <2>2, <3>3, EndpointAssumption
    <3>. QED BY <2>3, <2>5, <3>1, <3>2, <3>3 DEF Next, StepAt
  <2>. QED BY <2>4, <2>5
<1>. QED BY <1>1, <1>2 DEF EndpointInv
=============================================================================
