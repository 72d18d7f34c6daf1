-------------------------------- MODULE Ardp --------------------------------
(***************************************************************************)
(* Two routing nodes that speak ARDP to each other over UDP.  Each keeps a *)
(* list of connection records (ArdpHandle.conns); the actions are the API  *)
(* calls of the UDP transport, the two halves of ARDP_Run (timers and one  *)
(* received datagram) and what the network does to datagrams in flight.    *)
(* Every call is made under the transport's m_ardpLock and is one step.    *)
(***************************************************************************)
EXTENDS ArdpConn

CONSTANTS
  \* the role of each node
  Connectors,        \* nodes whose transport opens a connection
  Accepting,         \* nodes whose transport listens for connections
  Quota,             \* how many messages each transport sends on a connection
  Closers,           \* nodes whose transport closes connections
  \* choices the environment makes
  ISSs,              \* initial sequence numbers drawn at random
  FreshPorts,        \* TRUE: a random port is never drawn twice
  AcceptAnswers,     \* what AcceptCb may return
  FragCounts,        \* numbers of fragments a message may need
  Ttls,              \* times to live a message may have
  Socks,             \* results the UDP socket may give
  Elapsed,           \* ages of the last segment a probe may find
  PatientRTO,        \* TRUE: no retransmission while an answer is on its way
  \* the network: which nodes' inbound datagrams may be reordered, and bounds
  Reorder, MaxLoss, MaxDup, MaxNet,
  MaxConns,          \* records a node may allocate
  MaxConnects        \* ... and how many of them by ARDP_Connect

Nodes == {"A", "B"}
Peer(n) == IF n = "A" THEN "B" ELSE "A"
ConnIds == 1 .. MaxConns

ASSUME ArdpAssumption ==
  /\ Connectors \subseteq Nodes /\ Accepting \subseteq Nodes
  /\ Quota \in [Nodes -> 0 .. MaxMsgs] /\ Closers \subseteq Nodes /\ Reorder \subseteq Nodes
  /\ ISSs \subseteq SeqNums /\ PatientRTO \in BOOLEAN /\ FreshPorts \in BOOLEAN /\ AcceptAnswers \subseteq BOOLEAN
  /\ FragCounts \subseteq 1 .. SegMax /\ Ttls \subseteq {"infinite", "live"}
  /\ Socks \subseteq SockStatus /\ Elapsed \subseteq {"recent", "probe", "dead"}
  /\ MaxLoss \in Nat /\ MaxDup \in Nat /\ MaxNet \in Nat /\ MaxConns \in Nat \ {0}
  /\ MaxConnects \in Nat

VARIABLES conns,     \* conns[n][i]: the i-th record node n allocated
          accepting, \* the nodes with handle->accepting
          net,       \* net[n]: the datagrams on their way to node n
          lost, dups \* how often the network has dropped or repeated one

vars == <<conns, accepting, net, lost, dups>>

\* IsConnValid
IsConnValid(c) == c.state \notin {"UNUSED", "FREED"}

\* A node runs until one of its assertions fails.
Running(n) == \A i \in ConnIds : ~Halted(conns[n][i])

\* The index of the next record on the list, and a port for it.
NextId(n) == CHOOSE i \in ConnIds : conns[n][i].state = "UNUSED"
                      /\ \A j \in 1 .. i - 1 : conns[n][j].state # "UNUSED"
HasRoom(n) == \E i \in ConnIds : conns[n][i].state = "UNUSED"

\* InitConnRecord draws the port at random; its test for a port in use looks
\* at conn->local, which is still 0, and so never finds one.
PortChoices(n) ==
  IF FreshPorts THEN {p \in Ports : \A i \in ConnIds :
                        conns[n][i].state # "UNUSED" => conns[n][i].local # p}
  ELSE Ports

\* FindConn: the first record on the list with this pair of ports.
Matches(n, local, foreign) ==
  {i \in ConnIds : /\ IsConnValid(conns[n][i])
                   /\ conns[n][i].local = local /\ conns[n][i].foreign = foreign}

\* Mutant: the sender's port alone decides.
TargetsByPeer(n, seg) ==
  LET is == {i \in ConnIds : IsConnValid(conns[n][i]) /\ conns[n][i].foreign \in {seg.SRC, 0}}
  IN  IF is = {} THEN {} ELSE {Min(is)}

\* The record ARDP_Run hands a segment to: an established connection, else a
\* half-open one; none if both are missing.
Targets(n, seg) ==
  IF Matches(n, seg.DST, seg.SRC) # {} THEN {Min(Matches(n, seg.DST, seg.SRC))}
  ELSE IF Matches(n, seg.DST, 0) # {} THEN {Min(Matches(n, seg.DST, 0))}
  ELSE {}

\* A channel holds MaxNet datagrams; what is sent beyond that is lost.
Fit(channel) == SubSeq(channel, 1, Min({Len(channel), MaxNet}))

\* Node n replaces record i by the outcome of a handler; what it sent goes on
\* the wire behind inbox, the channels without the datagram this step has
\* taken.  (The quantifier has TLC evaluate the handler once.)
Commit(n, i, outcome, inbox) ==
  \E c \in {outcome} :
    /\ conns' = [conns EXCEPT ![n][i] = [c EXCEPT !.out = << >>]]
    /\ net' = [inbox EXCEPT ![Peer(n)] = Fit(@ \o c.out)]

Call(n, i, c) == Running(n) /\ Commit(n, i, c, net) /\ UNCHANGED <<accepting, lost, dups>>

----------------------------------------------------------------------------
(* The transport's calls *)

ARDP_Connect(n) ==
  /\ n \in Connectors /\ HasRoom(n)
  /\ Cardinality({i \in ConnIds : conns[n][i].state # "UNUSED"}) < MaxConnects
  /\ \E p \in PortChoices(n), iss \in ISSs, status \in Socks :
       Call(n, NextId(n), Connect(NewConn(p, 0, iss), status))

ARDP_StartPassive(n) ==
  /\ n \in Accepting \ accepting /\ Running(n)
  /\ accepting' = accepting \cup {n}
  /\ UNCHANGED <<conns, net, lost, dups>>

ARDP_Send(n, i) ==
  /\ conns[n][i].up = "using" /\ Len(conns[n][i].sent) < Quota[n]
  /\ \E fcnt \in FragCounts :
       /\ CanSend(conns[n][i], fcnt)
       /\ \E ttl \in Ttls, late \in BOOLEAN, st \in [1 .. fcnt -> Socks], status \in Socks :
            /\ late => ttl = "live"
            /\ Call(n, i, SendData(conns[n][i], fcnt, ttl, late, st, status))

\* The dispatcher gives the buffers back in the order in which it got them.
ARDP_RecvReady(n, i) ==
  LET c == conns[n][i]
      age(s) == Minus(c.rcv[s].seq, c.RLCS)
  IN  /\ IsConnValid(c)
      /\ \E s \in c.upq :
           /\ \A t \in c.upq : age(s) <= age(t)
           /\ Call(n, i, [UpdateRcvBuffers(c, s) EXCEPT !.upq = @ \ {s}, !.nread = @ + 1])

ARDP_Disconnect(n, i) ==
  /\ n \in Closers /\ conns[n][i].up = "using"
  /\ conns[n][i].state \notin {"CLOSE_WAIT", "CLOSED", "FREED"}
  /\ \E status \in Socks : Call(n, i, Disconnect(conns[n][i], "OK", status))

\* DoConnectCb, on the dispatcher thread: the endpoint starts to use the
\* connection, or the record is released with ARDP_ReleaseConnection: always
\* after an error, and by the active side when the BusHello reply is no good.
DoConnectCb(n, i) ==
  LET c == conns[n][i]
  IN  /\ c.up \in {"connected", "failed"} /\ IsConnValid(c)
      /\ \/ c.up = "connected" /\ Call(n, i, [c EXCEPT !.up = "using"])
         \/ c.up = "failed" /\ Call(n, i, DelConnRecord([c EXCEPT !.up = "idle"]))
         \/ c.up = "connected" /\ ~c.passive /\ FALSE \in AcceptAnswers
            /\ Call(n, i, DelConnRecord([c EXCEPT !.up = "idle"]))

----------------------------------------------------------------------------
(* ARDP_Run *)

\* Everything sent has arrived, been read and been acknowledged, or is lost.
AtRest(n) == /\ \A m \in Nodes : net[m] = << >>
             /\ \A i \in ConnIds : conns[Peer(n)][i].ackT = 0 /\ conns[Peer(n)][i].upq = {}

\* CheckTimers, for one record of the list: the timers due and those of the
\* slots resend have run out.
FireTimers(n, i, due, resend) ==
  LET c == conns[n][i]
  IN  /\ IsConnValid(c)
      /\ \A t \in due : TimerOn(c, t)
      /\ resend \subseteq DataTimers(c) /\ (c.connT # 0 => resend = {})
      /\ PatientRTO /\ resend # {} => AtRest(n)
      /\ \E status \in Socks, elapsed \in IF "probe" \in due THEN Elapsed ELSE {"recent"},
            late \in SUBSET {s \in resend : c.snd[s].ttl = "live"}, st \in [resend -> Socks] :
           Call(n, i, CheckConnTimers(c, due, resend, elapsed, late, status, st))

CheckTimers(n, i) ==
  \E due \in SUBSET {t \in TimerNames : TimerOn(conns[n][i], t)},
     resend \in SUBSET DataTimers(conns[n][i]) :
    /\ due # {} \/ resend # {}
    /\ FireTimers(n, i, due, resend)

\* SendRst: the answer to port 0 of a node that does not accept.
RstSeg(seg) == [ControlSeg(UnusedConn, {"RST"}, 0, 0, 0) EXCEPT !.DST = seg.SRC]

\* The datagram seg has come in; inbox are the channels without it.
HandleSegment(n, seg, inbox) ==
  \/ /\ seg.DST = 0 /\ n \in accepting
     /\ HasRoom(n)
     /\ \E p \in PortChoices(n), iss \in ISSs, accept \in AcceptAnswers, status \in Socks :
          Commit(n, NextId(n), Accept(NewConn(p, seg.SRC, iss), seg, accept, status), inbox)
  \/ /\ seg.DST = 0 /\ n \notin accepting
     /\ net' = [inbox EXCEPT ![Peer(n)] = Fit(Append(@, RstSeg(seg)))]
     /\ UNCHANGED conns
  \/ /\ seg.DST # 0
     /\ \E i \in Targets(n, seg) :
          \E lapsed \in SUBSET {s \in Slots : conns[n][i].rcv[s].ttl = "live"
                                             \/ (seg.TTL = "live" /\ s = Slot(seg.SEQ))},
             status \in Socks :
            Commit(n, i, Receive(conns[n][i], seg, TRUE, lapsed, status), inbox)
  \/ /\ seg.DST # 0 /\ Targets(n, seg) = {}
     /\ net' = inbox /\ UNCHANGED conns

Deliverable(n) == IF n \in Reorder THEN 1 .. Len(net[n]) ELSE 1 .. (IF net[n] = << >> THEN 0 ELSE 1)

\* The receiving half of ARDP_Run.  The network may keep a copy.
ARDP_Run(n, k) ==
  /\ Running(n) /\ k \in Deliverable(n)
  /\ \/ /\ HandleSegment(n, net[n][k], [net EXCEPT ![n] = RemoveAt(@, k)])
        /\ UNCHANGED <<accepting, lost, dups>>
     \/ /\ dups < MaxDup /\ dups' = dups + 1
        /\ HandleSegment(n, net[n][k], net)
        /\ UNCHANGED <<accepting, lost>>

Lose(n, k) ==
  /\ lost < MaxLoss /\ k \in 1 .. Len(net[n])
  /\ lost' = lost + 1
  /\ net' = [net EXCEPT ![n] = RemoveAt(@, k)]
  /\ UNCHANGED <<conns, accepting, dups>>

----------------------------------------------------------------------------

Next ==
  \E n \in Nodes :
    \/ ARDP_Connect(n)
    \/ ARDP_StartPassive(n)
    \/ \E i \in ConnIds : \/ ARDP_Send(n, i)
                          \/ ARDP_RecvReady(n, i)
                          \/ ARDP_Disconnect(n, i)
                          \/ DoConnectCb(n, i)
                          \/ CheckTimers(n, i)
    \/ \E k \in 1 .. Len(net[n]) : ARDP_Run(n, k) \/ Lose(n, k)

Init ==
  /\ conns = [n \in Nodes |-> [i \in ConnIds |-> UnusedConn]]
  /\ accepting = {}
  /\ net = [n \in Nodes |-> << >>]
  /\ lost = 0 /\ dups = 0

Spec == Init /\ [][Next]_vars

(***************************************************************************)
(* The state after a handshake in which nothing went wrong: the starting   *)
(* point of the runs that study an open connection.                        *)
(***************************************************************************)
OpenPair(portA, portB, issA, issB) ==
  LET sent(c) == c.out[Len(c.out)]
      a0 == Connect(NewConn(portA, 0, issA), "ok")
      b0 == Accept(NewConn(portB, portA, issB), sent(a0), TRUE, "ok")
      a1 == Receive(a0, sent(b0), TRUE, {}, "ok")
      b1 == Receive(b0, sent(a1), TRUE, {}, "ok")
      using(c) == [c EXCEPT !.up = "using", !.out = << >>]
  IN  [n \in Nodes |-> [i \in ConnIds |-> IF i # 1 THEN UnusedConn
                          ELSE IF n = "A" THEN using(a1) ELSE using(b1)]]

InitOpen ==
  /\ \E pA \in Ports, pB \in Ports, issA \in ISSs, issB \in ISSs :
       conns = OpenPair(pA, pB, issA, issB)
  /\ accepting = Accepting
  /\ net = [n \in Nodes |-> << >>]
  /\ lost = 0 /\ dups = 0

SpecOpen == InitOpen /\ [][Next]_vars

(***************************************************************************)
(* Fairness.  The transport's main loop calls ARDP_Run again and again, so *)
(* that every timer that stays on runs out and every datagram that arrives *)
(* is read; its dispatcher thread works off the queued callbacks and gives *)
(* received buffers back.  Deadlines differ, so that each timer has a call  *)
(* to itself.  Nothing makes a user listen, send, connect or close, or the *)
(* network lose or repeat a datagram.                                      *)
(***************************************************************************)
\* The conditions under which the calls below change something.
CanReceive(n) == /\ Running(n) /\ net[n] # << >>
                 /\ (net[n][1].DST = 0 /\ n \in accepting => HasRoom(n))
CanCallBack(n, i) == /\ Running(n) /\ IsConnValid(conns[n][i])
                     /\ conns[n][i].up \in {"connected", "failed"}
CanRelease(n, i) == Running(n) /\ IsConnValid(conns[n][i]) /\ conns[n][i].upq # {}
CanTimeOut(n, i, t) ==
  LET c == conns[n][i]
  IN  /\ Running(n) /\ IsConnValid(c) /\ TimerOn(c, t) /\ t # "probe"
      /\ t = "persist" => c.window < MinSendWindow
      /\ t = "connect" => c.connH = "connect" \/ c.state # "CLOSED" \/ IsRcvQueueEmpty(c)
CanRetransmit(n, i, s) ==
  LET c == conns[n][i]
  IN  Running(n) /\ IsConnValid(c) /\ c.connT = 0 /\ c.snd[s].retry # 0

Fairness ==
  \A n \in Nodes :
    /\ []<>(~CanReceive(n)) \/ []<><<ARDP_Run(n, 1)>>_vars
    /\ \A i \in ConnIds :
         /\ []<>(~CanCallBack(n, i)) \/ []<><<DoConnectCb(n, i)>>_vars
         /\ []<>(~CanRelease(n, i)) \/ []<><<ARDP_RecvReady(n, i)>>_vars
         /\ \A t \in TimerNames :
              []<>(~CanTimeOut(n, i, t)) \/ []<><<FireTimers(n, i, {t}, {})>>_vars
         /\ \A s \in Slots :
              []<>(~CanRetransmit(n, i, s)) \/ []<><<FireTimers(n, i, {}, {s})>>_vars

FairSpec == Spec /\ Fairness
FairSpecOpen == SpecOpen /\ Fairness
----------------------------------------------------------------------------
(* Properties *)

(***************************************************************************)
(* The type invariant: every field of a record and of a datagram stays in  *)
(* its range, counters of the send queue, slots and timers included.       *)
(***************************************************************************)
TypeOK ==
  /\ conns \in [Nodes -> [ConnIds -> Conn]]
  /\ accepting \subseteq Accepting
  /\ net \in [Nodes -> Seq(Segment)]
  /\ lost \in 0 .. MaxLoss /\ dups \in 0 .. MaxDup

Every(P(_)) == \A n \in Nodes, i \in ConnIds : P(conns[n][i])

\* The two ends of one connection, both past the handshake.
Ends(c, d) == /\ c.openCb > 0 /\ d.openCb > 0
              /\ c.local = d.foreign /\ c.foreign = d.local

EveryPair(P(_, _)) ==
  \A n \in Nodes, i \in ConnIds, j \in ConnIds :
    Ends(conns[n][i], conns[Peer(n)][j]) => P(conns[n][i], conns[Peer(n)][j])

Message(c, m) == [j \in 1 .. c.sent[m].fcnt |-> <<m, j>>]

\* A message may be dropped on its way: it has a time to live, or it may be
\* sent from a slot that has held a segment with one.  (SendMsgData writes
\* the ttl of the header only for a finite time to live, so that the mark of
\* an expired segment stays in a slot; see stale_ttl.cfg.)
SegmentsOf(c, ms) == UNION {{m} \X (1 .. c.sent[m].fcnt) : m \in ms}
MayExpire(c, m) ==
  \/ c.sent[m].ttl # "infinite"
  \/ \E x \in 1 .. m - 1 : /\ c.sent[x].ttl # "infinite"
                           /\ Cardinality(SegmentsOf(c, x .. m)) > SegMax

(***************************************************************************)
(* Sequenced delivery (ARDP_FLAG_SDM): what RecvCb has handed up are whole *)
(* messages that the other side's ARDP_Send accepted, in order and none    *)
(* twice; a message missing in between had a time to live, its own or its  *)
(* slot's.                                                                 *)
(***************************************************************************)
InOrder ==
  EveryPair(LAMBDA c, d :
    \A k \in 1 .. Len(d.got) :
      LET m == d.got[k][1][1]
      IN  /\ m \in 1 .. Len(c.sent) /\ d.got[k] = Message(c, m)
          /\ k > 1 => d.got[k - 1][1][1] < m
          /\ \A x \in (IF k = 1 THEN 1 ELSE d.got[k - 1][1][1] + 1) .. m - 1 :
               MayExpire(c, x))

(***************************************************************************)
(* SendCb(ER_OK) is a receipt: UpdateSndSegments hands a buffer back as    *)
(* delivered only after the other side's upper layer has given the message *)
(* back with ARDP_RecvReady, or ARDP has dropped it there because its time *)
(* to live ran out; a message sent "forever" is not dropped, unless from a *)
(* slot that an earlier message with a time to live has used.              *)
(***************************************************************************)
ReceiptMeansConsumed ==
  EveryPair(LAMBDA c, d :
    \A m \in c.okCb :
      LET up == {k \in 1 .. Len(d.got) : d.got[k][1][1] = m}
      IN  IF up = {} THEN MayExpire(c, m) ELSE \A k \in up : k <= d.nread)

(***************************************************************************)
(* The receive buffers are filled and released as AddRcvBuffer and         *)
(* UpdateRcvBuffers assert (1709-1732, 1788): no segment lands in a        *)
(* buffer that holds another one, and what ARDP_RecvReady gives back is    *)
(* the first message after RCV.LCS, at its place and delivered whole.      *)
(* Only if the other side has sent a fragmented message with a time to     *)
(* live need it not hold: its fragments may expire one by one.             *)
(***************************************************************************)
ReceiveAssertions == {"Overwrite", "ReleaseOrder", "ReleaseSlot", "ReleaseUndelivered"}
ReleasedInOrder ==
  EveryPair(LAMBDA c, d :
    \/ d.fault \cap ReceiveAssertions = {}
    \/ \E m \in 1 .. Len(c.sent) : c.sent[m].fcnt > 1 /\ c.sent[m].ttl # "infinite")

\* Segment q has reached the receiver d.
Received(d, q) == \/ SEQ32_LET(q, d.CUR)
                  \/ d.rcv[Slot(q)].inUse /\ d.rcv[Slot(q)].seq = q

(***************************************************************************)
(* No segment is forgotten: while a connection is open, a queued segment   *)
(* whose retransmit timer is off (stopped by an ACK in UpdateSndSegments   *)
(* or by an EACK in CancelEackedSegments) has reached the other side.      *)
(* It is claimed for a sender n whose inbound datagrams keep their order:  *)
(* an EACK that a newer ACK has overtaken is read against the wrong        *)
(* SND.UNA (stale_eack.cfg).                                               *)
(***************************************************************************)
LossCovered ==
  \A n \in Nodes \ Reorder, i \in ConnIds, j \in ConnIds :
    LET c == conns[n][i]  d == conns[Peer(n)][j]
    IN  Ends(c, d) /\ c.state = "OPEN" /\ d.state = "OPEN" =>
          \A s \in Slots : c.snd[s].inUse /\ c.snd[s].retry = 0 => Received(d, c.snd[s].seq)

(***************************************************************************)
(* Flow control: SendData takes a message only if all its segments fit in  *)
(* the receive buffers of the other side, so that a segment sent for the   *)
(* first time is never outside [RCV.LCS + 1, RCV.LCS + RCV.MAX].           *)
(***************************************************************************)
WindowRespected ==
  EveryPair(LAMBDA c, d :
    c.state = "OPEN" /\ d.state = "OPEN" => Minus(c.NXT, Plus(d.RLCS, 1)) <= SegMax)

\* The slots that hold fragments of message m.
Queued(c, m) == {s \in Slots : c.snd[s].inUse /\ c.snd[s].pay[1] = m}

(***************************************************************************)
(* The send queue and the upper layer's buffers: pending counts the slots  *)
(* in use, a message holds all its slots or none, and SendCb is called     *)
(* exactly once per accepted message: not while the message is queued, and *)
(* at the latest when the record goes away (FlushMessage, FlushSendQueue). *)
(* Not claimed once a fragmented message can be queued in part: if it has  *)
(* a time to live, or if the socket has failed (a socket error in SendData *)
(* leaves the loop over the fragments).                                    *)
(***************************************************************************)
QueuedInPart(c) == \E m \in 1 .. Len(c.sent) :
  c.sent[m].fcnt > 1 /\ (c.sent[m].ttl # "infinite" \/ c.reason = "SOCKET")
BuffersReturnedOnce ==
  Every(LAMBDA c :
    QueuedInPart(c) \/
      /\ IsConnValid(c) => c.pending = Cardinality({s \in Slots : c.snd[s].inUse})
      /\ \A m \in 1 .. Len(c.sent) :
           /\ c.sendCb[m] = IF Queued(c, m) = {} THEN 1 ELSE 0
           /\ Cardinality(Queued(c, m)) \in {0, c.sent[m].fcnt})

(***************************************************************************)
(* CheckConnTimers asserts it where it bites: the persist timer is on only *)
(* while no segment waits for a retransmission.  SendData, OpenWindow and  *)
(* the handlers that stop timers maintain it together.                     *)
(***************************************************************************)
PersistExcludesRetransmit ==
  Every(LAMBDA c : c.persistT # 0 => DataTimers(c) = {})

(***************************************************************************)
(* A flushed buffer belongs to the upper layer again, but FlushMessage     *)
(* leaves its retransmit timer on the list.  Such a timer can never fire,  *)
(* because from then on the disconnect timer masks it.                     *)
(***************************************************************************)
FlushedNeverResent ==
  Every(LAMBDA c : \A s \in DataTimers(c) : c.snd[s].inUse \/ c.connT # 0)

(***************************************************************************)
(* What the transport is told about a connection: at most one successful   *)
(* ConnectCb and at most one DisconnectCb, never a failed ConnectCb beside *)
(* either of them, and no record that the transport uses disappears        *)
(* without its DisconnectCb.                                               *)
(***************************************************************************)
NoticesConsistent ==
  Every(LAMBDA c :
    /\ c.openCb <= 1 /\ c.discCb <= 1
    /\ c.failCb > 0 => c.openCb = 0 /\ c.discCb = 0
    /\ c.state = "FREED" /\ c.up = "using" => c.discCb = 1)

(***************************************************************************)
(* The handshake: a side that has told its transport that the connection   *)
(* is open has a partner at the other node that knows it by its ports and  *)
(* whose initial sequence number it has (the roles of ISS and IRS          *)
(* swapped), and a SYN that arrives twice, as a retry or a copy, does not  *)
(* open two connections.                                                   *)
(***************************************************************************)
HandshakeAgrees ==
  \A n \in Nodes, i \in ConnIds :
    LET c == conns[n][i]
    IN  c.openCb > 0 =>
          /\ \E j \in ConnIds :
               LET d == conns[Peer(n)][j]
               IN  /\ d.local = c.foreign /\ d.foreign \in {c.local, 0}
                   /\ c.IRS = d.ISS /\ (d.passive => d.IRS = c.ISS)
          /\ \A k \in ConnIds \ {i} :
               conns[n][k].openCb > 0 => conns[n][k].foreign # c.foreign

(***************************************************************************)
(* However the network behaves, an attempt to connect or to accept comes   *)
(* to an end: ConnectTimerHandler counts the retries of the SYN down.      *)
(***************************************************************************)
HandshakeEnds ==
  \A n \in Nodes, i \in ConnIds :
    conns[n][i].state \in {"SYN_SENT", "SYN_RCVD"} ~>
      conns[n][i].state \notin {"SYN_SENT", "SYN_RCVD"} \/ ~Running(n)

(***************************************************************************)
(* A connection that was closed, by either side or by an error, is removed *)
(* once the upper layer has given its buffers back: Disconnect has started *)
(* the timer whose DisconnectTimerHandler deletes the record.              *)
(***************************************************************************)
TeardownEnds ==
  \A n \in Nodes, i \in ConnIds :
    conns[n][i].state = "CLOSE_WAIT" ~> conns[n][i].state = "FREED" \/ ~Running(n)

\* ARDP_Connect gets its answer: ConnectCb, with success or ER_TIMEOUT, or
\* DisconnectCb when the other side refused (SendRst, AcceptCb).
ConnectAnswered ==
  \A i \in ConnIds :
    conns["A"][i].state = "SYN_SENT" ~>
      conns["A"][i].openCb + conns["A"][i].failCb + conns["A"][i].discCb > 0

(***************************************************************************)
(* A message that ARDP_Send accepted is handed up by RecvCb on the other   *)
(* side, or the sender's transport learns that the connection is gone.     *)
(***************************************************************************)
MessagesArrive ==
  \A i \in ConnIds, m \in 1 .. MaxMsgs :
    Len(conns["A"][i].sent) >= m ~>
      \/ conns["A"][i].discCb > 0
      \/ \E j \in ConnIds : /\ Ends(conns["A"][i], conns["B"][j])
                            /\ Len(conns["B"][j].got) >= m
=============================================================================
