----------------------------- MODULE SlapProofs -----------------------------
(***************************************************************************)
(* The packet buffers of both ends of a serial link, for any modulus,      *)
(* windows, quotas, faults and length of the line.                         *)
(***************************************************************************)
EXTENDS Slap, SequenceTheorems, NaturalsInduction, WellFoundedInduction, TLAPS

----------------------------------------------------------------------------
(* The invariant *)

Configs == {"NEGO", "NRSP"}

\* A packet that an end has sent names a life of that end.
Sent(p) == p \in Packets /\ p.type # "NONE" /\ p.pay[1] > 0

\* The daemon never announces less than the client's window; the client
\* announces its own.
FromBus == {p \in Packets : Sent(p) /\ (p.type \in Configs => p.win >= DevWindow)}
FromDev == {p \in Packets : Sent(p) /\ (p.type \in Configs => p.win = DevWindow)}

Pays == Nat \X Nat

BusType ==
  [link : LinkStates, win : 1 .. BusWindow, cfg : 0 .. BusWindow, vers : BOOLEAN,
   ctrl : FromBus \cup {NoPacket}, txq : Seq(FromBus), sent : Seq(FromBus), free : Nat,
   rxFree : Nat, rxq : Seq(Pays), exp : SeqNums, seq : SeqNums, ack : SeqNums, pend : BOOLEAN,
   sendAlarm : BOOLEAN, resendAlarm : BOOLEAN, ackAlarm : BOOLEAN,
   inc : Nat \ {0}, pushed : Nat, peer : Nat, got : Seq(Pays), out : Seq(FromBus)]

\* The daemon has no buffers before it knows the window, and then as many as
\* the window has, on both sides.
BusInv(b) ==
  /\ b \in BusType /\ b.win >= DevWindow
  /\ b.link = "INITIALIZED" => b.cfg >= DevWindow
  /\ b.peer = 0 => b.free = 0 /\ b.rxFree = 0 /\ b.txq = << >> /\ b.sent = << >> /\ b.rxq = << >>
  /\ b.peer # 0 => /\ b.link \notin {"UNINITIALIZED", "INITIALIZED"} /\ b.win = DevWindow
                   /\ b.free + Len(b.txq) + Len(b.sent) = b.win
                   /\ b.rxFree + Len(b.rxq) = b.win
  /\ b.link = "ACTIVE" => b.peer # 0

DevType ==
  [link : LinkStates, win : {DevWindow}, dataSent : BOOLEAN,
   ctrl : FromDev \cup {NoPacket}, txq : Seq(FromDev), sent : Seq(FromDev), free : Nat, txbuf : Seq(FromDev),
   rxFree : Nat, rxq : Seq(Pays), exp : SeqNums, seq : SeqNums, ack : SeqNums, pend : Nat,
   resendTime : BOOLEAN, resendPrimed : BOOLEAN, ackTime : BOOLEAN, linkTime : BOOLEAN,
   inc : Nat \ {0}, pushed : Nat, peer : Nat, got : Seq(Pays), dropped : Nat, closing : BOOLEAN,
   fault : {FALSE}]

\* The client has the buffers of its window from the start, and hands no more
\* to the UART.  ResendPackets may lose some of them, but not the last.
DevInv(d) ==
  /\ d \in DevType
  /\ d.free + Len(d.txq) + Len(d.sent) + d.dropped = DevWindow /\ d.dropped < DevWindow
  /\ d.rxFree + Len(d.rxq) = DevWindow
  /\ Len(d.txbuf) <= DevWindow

SlapInv ==
  /\ BusInv(bus) /\ bus.out = << >> /\ DevInv(dev)
  /\ toBus \in Seq(FromDev) /\ toDev \in Seq(FromBus) /\ left \in 0 .. MaxFaults

----------------------------------------------------------------------------
(* Packets and queues *)

\* The constants' ranges.
LEMMA Windows ==
  /\ Modulus \in Nat /\ Modulus > 2 /\ BusWindow \in Nat /\ DevWindow \in Nat /\ 1 <= DevWindow
  /\ DevWindow <= BusWindow /\ 0 \in SeqNums /\ 0 \in 0 .. BusWindow
  BY SlapAssumption DEF SeqNums

\* Sequence numbers stay below the modulus.
LEMMA IncrType ==
  ASSUME NEW s \in SeqNums
  PROVE  Incr(s) \in SeqNums
  BY Windows DEF Incr, SeqNums

\* What the daemon sends.
LEMMA BusPackets ==
  ASSUME NEW b, b.inc \in Nat \ {0}, b.seq \in SeqNums, b.ack \in SeqNums, b.pushed \in Nat
  PROVE  /\ \A t \in CtrlTypes \ Configs : Ctrl(b, t) \in FromBus
         /\ \A t \in Configs, w \in DevWindow .. BusWindow : Config(b, t, w) \in FromBus
         /\ Data(b) \in FromBus /\ Ack(b) \in FromBus
  BY Windows DEF FromBus, Sent, Packets, CtrlTypes, Configs, Ctrl, Config, Data, Ack, Packet

\* ... and what the client does.
LEMMA DevPackets ==
  ASSUME NEW d, d.inc \in Nat \ {0}, d.seq \in SeqNums, d.ack \in SeqNums, d.pushed \in Nat
  PROVE  /\ \A t \in CtrlTypes \ Configs : Ctrl(d, t) \in FromDev
         /\ \A t \in Configs : Config(d, t, DevWindow) \in FromDev
         /\ Data(d) \in FromDev /\ Ack(d) \in FromDev
  BY Windows DEF FromDev, Sent, Packets, CtrlTypes, Configs, Ctrl, Config, Data, Ack, Packet

\* A new ACK number leaves a packet a packet of its sender.
LEMMA SameButAck ==
  ASSUME NEW a \in SeqNums
  PROVE  /\ \A p \in FromBus : [p EXCEPT !.ack = a] \in FromBus
         /\ \A p \in FromDev : [p EXCEPT !.ack = a] \in FromDev
  BY DEF FromBus, FromDev, Sent, Packets

\* A function on an initial segment of the numbers is a sequence.
LEMMA FunctionSeq ==
  ASSUME NEW S, NEW n \in Nat, NEW f \in [1 .. n -> S]
  PROVE  f \in Seq(S)
  BY SeqDef, Zenon

\* Queued is a sequence of packets of the same length.
LEMMA QueuedType ==
  ASSUME NEW a \in SeqNums
  PROVE  /\ \A q \in Seq(FromBus) : Queued(q, a) \in Seq(FromBus)
         /\ \A q \in Seq(FromDev) : Queued(q, a) \in Seq(FromDev)
<1>1. ASSUME NEW S, NEW q \in Seq(S), \A p \in S : [p EXCEPT !.ack = a] \in S
      PROVE  Queued(q, a) \in Seq(S)
  <2>1. Len(q) \in Nat /\ DOMAIN q = 1 .. Len(q) /\ \A i \in 1 .. Len(q) : q[i] \in S
    BY LenProperties
  <2>2. Queued(q, a) = [i \in 1 .. Len(q) |-> [q[i] EXCEPT !.ack = a]]
    BY <2>1 DEF Queued
  <2>3. \A i \in 1 .. Len(q) : [q[i] EXCEPT !.ack = a] \in S
    BY <2>1, <1>1
  <2>. DEFINE e(i) == [q[i] EXCEPT !.ack = a]
              n == Len(q)
  <2>4. n \in Nat /\ \A i \in 1 .. n : e(i) \in S
    BY <2>1, <2>3
  <2>5. Queued(q, a) = [i \in 1 .. n |-> e(i)]
    BY <2>2
  <2>. HIDE DEF e, n
  <2>6. Queued(q, a) \in [1 .. n -> S]
    BY <2>4, <2>5, Zenon
  <2>. QED BY <2>4, <2>6, FunctionSeq, Zenon
<1>2. /\ \A p \in FromBus : [p EXCEPT !.ack = a] \in FromBus
      /\ \A p \in FromDev : [p EXCEPT !.ack = a] \in FromDev
  BY SameButAck
<1>. QED BY <1>1, <1>2

\* What the head of a queue loses the rest keeps.
LEMMA DropType ==
  ASSUME NEW S, NEW q \in Seq(S), NEW n \in 0 .. Len(q)
  PROVE  /\ Drop(q, n) \in Seq(S) /\ Len(Drop(q, n)) = Len(q) - n
         /\ SubSeq(q, 1, n) \in Seq(S) /\ Len(SubSeq(q, 1, n)) = n
<1>1. Len(q) \in Nat
  BY LenProperties
<1>2. Drop(q, n) \in Seq(S) /\ Len(Drop(q, n)) = Len(q) - n
  BY <1>1 DEF Drop
<1>3. SubSeq(q, 1, n) \in Seq(S) /\ Len(SubSeq(q, 1, n)) = n
  BY <1>1
<1>. QED BY <1>2, <1>3

\* A set of numbers has a smallest one.
LEMMA SmallestNat ==
  ASSUME NEW T, T \subseteq Nat, T # {}
  PROVE  \E m \in T : \A i \in T : m <= i
<1>1. PICK m \in T : \A y \in T : ~ (<<y, m>> \in OpToRel(<, Nat))
  BY WFMin, NatLessThanWellFounded
<1>2. \A y \in T : ~(y < m)
  BY <1>1 DEF OpToRel
<1>3. \A y \in T : m <= y
  BY <1>2
<1>. QED BY <1>3

\* There is a first packet that an ACK number does not acknowledge.
LEMMA AckedType ==
  ASSUME NEW S, NEW q \in Seq(S), NEW ack, NEW window
  PROVE  Acked(q, ack, window) \in 0 .. Len(q)
<1>. DEFINE P(i) == SEQ_GT(ack, q[i].seq, window)
            R(n) == (\A i \in 1 .. n : P(i)) /\ (n < Len(q) => ~P(n + 1))
            bad == {i \in 1 .. Len(q) : ~P(i)}
<1>1. Len(q) \in Nat
  BY LenProperties
<1>2. Acked(q, ack, window) = CHOOSE n \in 0 .. Len(q) : R(n)
  BY DEF Acked
<1>. HIDE DEF P
<1>3. \E n \in 0 .. Len(q) : R(n)
  <2>1. CASE bad = {}
    <3>1. R(Len(q))
      BY <2>1, <1>1
    <3>. QED BY <3>1, <1>1
  <2>2. CASE bad # {}
    <3>1. bad \subseteq Nat
      BY <1>1
    <3>2. PICK m \in bad : \A i \in bad : m <= i
      BY <2>2, <3>1, SmallestNat
    <3>3. m \in 1 .. Len(q) /\ ~P(m)
      OBVIOUS
    <3>4. m - 1 \in 0 .. Len(q) /\ (m - 1) + 1 = m /\ \A i \in 1 .. m - 1 : i \in 1 .. Len(q) /\ ~(m <= i)
      BY <3>3, <1>1
    <3>5. \A i \in 1 .. m - 1 : P(i)
      BY <3>2, <3>4
    <3>6. R(m - 1)
      BY <3>3, <3>4, <3>5
    <3>. QED BY <3>4, <3>6
  <2>. QED BY <2>1, <2>2
<1>. HIDE DEF R
<1>. QED BY <1>2, <1>3


----------------------------------------------------------------------------
(* The daemon's handlers *)

\* A control packet waits in m_txCtrl.
LEMMA EnqueueCtrlInv ==
  ASSUME NEW b, BusInv(b), NEW pkt \in FromBus
  PROVE  BusInv(EnqueueCtrl(b, pkt))
<1>1. EnqueueCtrl(b, pkt) \in BusType
  BY DEF BusInv, BusType, EnqueueCtrl
<1>. QED BY <1>1 DEF BusInv, BusType, EnqueueCtrl

\* The packets a stream can send.
LEMMA BusSends ==
  ASSUME NEW b, BusInv(b)
  PROVE  /\ \A t \in CtrlTypes \ Configs : Ctrl(b, t) \in FromBus
         /\ \A t \in Configs, w \in DevWindow .. BusWindow : Config(b, t, w) \in FromBus
         /\ Data(b) \in FromBus /\ Ack(b) \in FromBus
<1>1. b.inc \in Nat \ {0} /\ b.seq \in SeqNums /\ b.ack \in SeqNums /\ b.pushed \in Nat
  BY DEF BusInv, BusType
<1>. QED BY <1>1, BusPackets

\* The control packet that the state of the link calls for.
LEMMA ScheduleLinkControlPacketInv ==
  ASSUME NEW b, BusInv(b)
  PROVE  BusInv(ScheduleLinkControlPacket(b))
<1>1. {"CONN", "DISC"} \subseteq CtrlTypes \ Configs /\ "NEGO" \in Configs
  BY DEF CtrlTypes, Configs
<1>2. Ctrl(b, "CONN") \in FromBus /\ Ctrl(b, "DISC") \in FromBus
  BY <1>1, BusSends
<1>3. b.link = "INITIALIZED" => b.cfg \in DevWindow .. BusWindow
  BY Windows DEF BusInv, BusType
<1>4. b.link = "INITIALIZED" => Config(b, "NEGO", b.cfg) \in FromBus
  BY <1>1, <1>3, BusSends
<1>. QED BY <1>2, <1>4, EnqueueCtrlInv DEF ScheduleLinkControlPacket

\* What is transmitted moves from m_txQueue to m_txSent.
LEMMA TransmitToLinkInv ==
  ASSUME NEW b, BusInv(b)
  PROVE  BusInv(TransmitToLink(b))
<1>. DEFINE head == IF b.ctrl = NoPacket THEN << >>
                    ELSE <<IF b.ctrl.type = "ACK" THEN [b.ctrl EXCEPT !.ack = b.ack] ELSE b.ctrl>>
            settles == b.txq # << >> \/ b.ctrl.type = "ACK"
            q == Queued(b.txq, b.ack)
            pend == b.pend /\ ~settles
            ackAlarm == b.ackAlarm /\ ~(settles /\ b.pend)
            resendAlarm == b.resendAlarm \/ b.sent \o b.txq # << >>
            out == b.out \o head \o q
            sent == b.sent \o b.txq
            c == TransmitToLink(b)
<1>1. /\ b \in BusType /\ b.ack \in SeqNums /\ b.txq \in Seq(FromBus) /\ b.sent \in Seq(FromBus) /\ b.out \in Seq(FromBus)
      /\ b.ctrl \in FromBus \cup {NoPacket}
  BY DEF BusInv, BusType
<1>2. head \in Seq(FromBus)
  BY <1>1, SameButAck
<1>3. q \in Seq(FromBus)
  BY <1>1, QueuedType
<1>4. out \in Seq(FromBus)
  <2>. HIDE DEF head, q
  <2>. QED BY <1>1, <1>2, <1>3
<1>5. sent \in Seq(FromBus) /\ Len(sent) = Len(b.sent) + Len(b.txq)
  BY <1>1
<1>6. c = [b EXCEPT !.out = out, !.ctrl = NoPacket, !.txq = << >>, !.sent = sent,
                !.pend = pend, !.ackAlarm = ackAlarm, !.resendAlarm = resendAlarm]
  BY DEF TransmitToLink
<1>7. pend \in BOOLEAN /\ ackAlarm \in BOOLEAN /\ resendAlarm \in BOOLEAN
  BY Zenon
<1>11. b.txq = << >> /\ b.sent = << >> => sent = << >>
  BY <1>1
<1>. HIDE DEF head, q, c, settles, pend, ackAlarm, resendAlarm, out, sent
<1>8. c \in BusType
  <2>1. << >> \in Seq(FromBus)
    OBVIOUS
  <2>. QED BY <1>1, <1>4, <1>5, <1>6, <1>7, <2>1 DEF BusType
<1>9. /\ c.link = b.link /\ c.win = b.win /\ c.cfg = b.cfg /\ c.peer = b.peer /\ c.free = b.free /\ c.rxFree = b.rxFree
      /\ c.rxq = b.rxq /\ c.txq = << >> /\ c.sent = sent
  BY <1>1, <1>6 DEF BusType
<1>10. c.free + Len(c.txq) + Len(c.sent) = b.free + Len(b.txq) + Len(b.sent)
  <2>1. Len(b.txq) \in Nat /\ Len(b.sent) \in Nat /\ b.free \in Nat /\ Len(<< >>) = 0
    BY <1>1, LenProperties DEF BusType
  <2>2. Len(c.txq) = 0 /\ Len(c.sent) = Len(b.sent) + Len(b.txq) /\ c.free = b.free
    BY <1>5, <1>9, <2>1
  <2>3. \A x, y, z \in Nat : x + 0 + (z + y) = x + y + z
    OBVIOUS
  <2>4. b.free + 0 + (Len(b.sent) + Len(b.txq)) = b.free + Len(b.txq) + Len(b.sent)
    BY <2>1, <2>3
  <2>. QED BY <2>2, <2>4
<1>12. BusInv(c)
  BY <1>8, <1>9, <1>10, <1>11 DEF BusInv
<1>. QED BY <1>12 DEF c

\* A data packet to be acknowledged.
LEMMA ProcessDataSeqNumInv ==
  ASSUME NEW b, BusInv(b), NEW seq \in SeqNums
  PROVE  BusInv(ProcessDataSeqNum(b, seq))
<1>. DEFINE ack == IF SEQ_GT(b.ack, seq, b.win) THEN b.ack ELSE Incr(seq)
            c == ProcessDataSeqNum(b, seq)
<1>1. ack \in SeqNums
  BY IncrType DEF BusInv, BusType
<1>2. c = [b EXCEPT !.ack = ack, !.pend = TRUE, !.ackAlarm = TRUE]
  BY DEF ProcessDataSeqNum
<1>. HIDE DEF ack, c
<1>3. c \in BusType
  BY <1>1, <1>2 DEF BusInv, BusType
<1>4. BusInv(c)
  BY <1>2, <1>3 DEF BusInv, BusType
<1>. QED BY <1>4 DEF c

\* Acknowledged packets go from m_txSent to m_txFreeList.
LEMMA ProcessAckNumInv ==
  ASSUME NEW b, BusInv(b), NEW ack
  PROVE  BusInv(ProcessAckNum(b, ack))
<1>. DEFINE n == Acked(b.sent, ack, b.win)
            sent == Drop(b.sent, n)
            alarm == n < Len(b.sent)
            c == ProcessAckNum(b, ack)
<1>1. b \in BusType /\ b.sent \in Seq(FromBus) /\ b.txq \in Seq(FromBus) /\ b.free \in Nat
  BY DEF BusInv, BusType
<1>2. n \in 0 .. Len(b.sent)
  BY <1>1, AckedType
<1>3. Len(b.sent) \in Nat /\ Len(b.txq) \in Nat /\ n \in Nat /\ n <= Len(b.sent)
  BY <1>1, <1>2, LenProperties
<1>4. sent \in Seq(FromBus) /\ Len(sent) = Len(b.sent) - n
  BY <1>1, <1>2, DropType
<1>5. c = [b EXCEPT !.sent = sent, !.free = b.free + n, !.resendAlarm = alarm]
  BY DEF ProcessAckNum
<1>6. alarm \in BOOLEAN /\ b.free + n \in Nat
  BY <1>1, <1>3
<1>7. b.sent = << >> => n = 0 /\ sent = << >>
  BY <1>1, <1>3, <1>4, EmptySeq
<1>. HIDE DEF n, sent, alarm, c
<1>8. c \in BusType
  BY <1>1, <1>4, <1>5, <1>6 DEF BusType
<1>9. /\ c.link = b.link /\ c.win = b.win /\ c.cfg = b.cfg /\ c.peer = b.peer /\ c.rxFree = b.rxFree
      /\ c.rxq = b.rxq /\ c.txq = b.txq /\ c.free = b.free + n /\ c.sent = sent
  BY <1>1, <1>5 DEF BusType
<1>10. c.free + Len(c.txq) + Len(c.sent) = b.free + Len(b.txq) + Len(b.sent)
  <2>1. \A x, y, z, m \in Nat : m <= z => (x + m) + y + (z - m) = x + y + z
    OBVIOUS
  <2>2. (b.free + n) + Len(b.txq) + (Len(b.sent) - n) = b.free + Len(b.txq) + Len(b.sent)
    BY <1>1, <1>3, <2>1
  <2>. QED BY <1>4, <1>9, <2>2
<1>11. b.free = 0 /\ n = 0 => c.free = 0
  BY <1>9
<1>12. BusInv(c)
  BY <1>7, <1>8, <1>9, <1>10, <1>11 DEF BusInv
<1>. QED BY <1>12 DEF c

\* A buffer of a packet received moves from m_rxFreeList to m_rxQueue.
LEMMA ReceiveDataInv ==
  ASSUME NEW b0, BusInv(b0), NEW pkt \in FromDev
  PROVE  BusInv(ReceiveData(b0, pkt))
<1>. DEFINE b == ProcessAckNum(b0, pkt.ack)
            e == ProcessDataSeqNum(b, pkt.seq)
            c == [e EXCEPT !.exp = Incr(e.exp), !.rxq = Append(e.rxq, pkt.pay), !.rxFree = e.rxFree - 1]
<1>1. BusInv(b)
  BY ProcessAckNumInv
<1>2. pkt.seq \in SeqNums /\ pkt.pay \in Pays
  BY DEF FromDev, Packets, Pays
<1>3. ReceiveData(b0, pkt) \in {b, e} \/ (b.rxFree # 0 /\ ReceiveData(b0, pkt) = c)
  BY DEF ReceiveData
<1>. HIDE DEF b
<1>4. BusInv(e) /\ e.rxFree = b.rxFree
  <2>1. e.rxFree = b.rxFree
    BY <1>1 DEF ProcessDataSeqNum, BusInv, BusType
  <2>. QED BY <1>1, <1>2, <2>1, ProcessDataSeqNumInv
<1>. HIDE DEF e
<1>5. ASSUME e.rxFree # 0 PROVE BusInv(c)
  <2>1. e \in BusType /\ e.rxFree \in Nat /\ e.rxq \in Seq(Pays) /\ e.peer # 0 /\ Len(e.rxq) \in Nat /\ e.exp \in SeqNums
    BY <1>4, <1>5, LenProperties DEF BusInv, BusType
  <2>2. Append(e.rxq, pkt.pay) \in Seq(Pays) /\ Len(Append(e.rxq, pkt.pay)) = Len(e.rxq) + 1
    BY <1>2, <2>1
  <2>3. Incr(e.exp) \in SeqNums /\ e.rxFree - 1 \in Nat
    BY <1>5, <2>1, IncrType
  <2>4. c \in BusType
    BY <2>1, <2>2, <2>3 DEF BusType
  <2>5. /\ c.link = e.link /\ c.win = e.win /\ c.cfg = e.cfg /\ c.peer = e.peer /\ c.free = e.free
        /\ c.txq = e.txq /\ c.sent = e.sent /\ c.rxFree = e.rxFree - 1 /\ c.rxq = Append(e.rxq, pkt.pay)
    BY <2>1 DEF BusType
  <2>6. c.rxFree + Len(c.rxq) = e.rxFree + Len(e.rxq)
    BY <2>1, <2>2, <2>5
  <2>. HIDE DEF c
  <2>. QED BY <1>4, <2>1, <2>4, <2>5, <2>6 DEF BusInv
<1>. HIDE DEF c
<1>. QED BY <1>1, <1>3, <1>4, <1>5

\* The window is known: the buffers are allocated.
LEMMA ConfigureInv ==
  ASSUME NEW b, BusInv(b), b.link = "INITIALIZED", NEW pkt \in FromDev, pkt.type = "NRSP"
  PROVE  BusInv(Configure(b, pkt))
<1>. DEFINE c == [b EXCEPT !.win = DevWindow, !.vers = TRUE, !.free = DevWindow, !.rxFree = DevWindow,
                           !.link = "ACTIVE", !.peer = pkt.pay[1]]
<1>1. pkt.win = DevWindow /\ pkt.pay[1] \in Nat /\ pkt.pay[1] # 0
  BY DEF FromDev, Sent, Packets, Configs
<1>2. b \in BusType
  BY DEF BusInv
<1>3. Configure(b, pkt) = c
  <2>1. ~(DevWindow > BusWindow)
    BY Windows
  <2>2. Configure(b, pkt) = [[b EXCEPT !.win = DevWindow, !.vers = TRUE]
            EXCEPT !.free = DevWindow, !.rxFree = DevWindow, !.link = "ACTIVE", !.peer = pkt.pay[1]]
    BY <1>1, <2>1 DEF Configure
  <2>. QED BY <1>2, <2>2 DEF BusType
<1>4. DevWindow \in 1 .. BusWindow /\ DevWindow \in Nat /\ DevWindow >= DevWindow
  BY Windows
<1>5. c \in BusType
  BY <1>1, <1>2, <1>4 DEF BusType, LinkStates
<1>6. /\ c.link = "ACTIVE" /\ c.win = DevWindow /\ c.peer = pkt.pay[1] /\ c.free = DevWindow /\ c.rxFree = DevWindow
      /\ c.txq = b.txq /\ c.sent = b.sent /\ c.rxq = b.rxq
  BY <1>2 DEF BusType
<1>7. b.txq = << >> /\ b.sent = << >> /\ b.rxq = << >>
  BY DEF BusInv
<1>8. Len(c.txq) = 0 /\ Len(c.sent) = 0 /\ Len(c.rxq) = 0
  BY <1>6, <1>7
<1>9. DevWindow + 0 + 0 = DevWindow /\ DevWindow + 0 = DevWindow
  BY <1>4
<1>. HIDE DEF c
<1>10. BusInv(c)
  BY <1>1, <1>4, <1>5, <1>6, <1>8, <1>9 DEF BusInv
<1>. QED BY <1>3, <1>10

\* The other end's configuration.
LEMMA AgreeInv ==
  ASSUME NEW b, BusInv(b), b.link = "INITIALIZED"
  PROVE  BusInv(Agree(b, DevWindow))
<1>. DEFINE agreed == IF DevWindow < BusWindow THEN DevWindow ELSE BusWindow
            c == [b EXCEPT !.win = agreed, !.vers = TRUE, !.cfg = agreed]
<1>1. agreed \in DevWindow .. BusWindow /\ agreed \in 1 .. BusWindow /\ agreed \in 0 .. BusWindow /\ agreed >= DevWindow
  BY Windows
<1>2. "NRSP" \in Configs
  BY DEF Configs
<1>3. Config(b, "NRSP", agreed) \in FromBus
  BY <1>1, <1>2, BusSends
<1>4. Agree(b, DevWindow) = EnqueueCtrl(c, Config(b, "NRSP", agreed))
  BY DEF Agree
<1>5. BusInv(c)
  <2>. HIDE DEF agreed
  <2>1. c \in BusType
    BY <1>1 DEF BusInv, BusType
  <2>. QED BY <1>1, <2>1 DEF BusInv, BusType
<1>. HIDE DEF c, agreed
<1>. QED BY <1>3, <1>4, <1>5, EnqueueCtrlInv

\* A change of the link's state that is no step of the handshake.
LEMMA BusLinkInv ==
  ASSUME NEW b, BusInv(b), NEW s \in {"DYING", "DEAD"}
  PROVE  BusInv([b EXCEPT !.link = s])
<1>1. [b EXCEPT !.link = s] \in BusType
  BY DEF BusInv, BusType, LinkStates
<1>. QED BY <1>1 DEF BusInv, BusType

\* A control packet, in each state of the link.
LEMMA ProcessControlPacketInv ==
  ASSUME NEW b, BusInv(b), NEW pkt \in FromDev
  PROVE  BusInv(ProcessControlPacket(b, pkt))
<1>. DEFINE c == ProcessControlPacket(b, pkt)
            initialized == [b EXCEPT !.link = "INITIALIZED", !.cfg = BusWindow]
            configured == [b EXCEPT !.cfg = b.win]
            dead == [b EXCEPT !.link = "DEAD"]
<1>1. {"ACPT", "DRSP"} \subseteq CtrlTypes \ Configs /\ {"NEGO", "NRSP"} \subseteq Configs
  BY DEF CtrlTypes, Configs
<1>2. Ctrl(b, "ACPT") \in FromBus /\ Ctrl(b, "DRSP") \in FromBus
  BY <1>1, BusSends
<1>3. BusWindow \in DevWindow .. BusWindow /\ BusWindow \in 0 .. BusWindow /\ BusWindow >= DevWindow
      /\ b.win \in DevWindow .. BusWindow /\ b.win \in 0 .. BusWindow /\ b.win >= DevWindow
  BY Windows DEF BusInv, BusType
<1>4. Config(b, "NEGO", BusWindow) \in FromBus /\ Config(b, "NRSP", b.win) \in FromBus
  BY <1>1, <1>3, BusSends
<1>5. b.link = "UNINITIALIZED" => BusInv(initialized)
  <2>. SUFFICES ASSUME b.link = "UNINITIALIZED" PROVE BusInv(initialized)
    OBVIOUS
  <2>1. initialized \in BusType
    BY <1>3 DEF BusInv, BusType, LinkStates
  <2>. QED BY <1>3, <2>1 DEF BusInv, BusType
<1>6. BusInv(configured)
  <2>1. configured \in BusType
    BY <1>3 DEF BusInv, BusType
  <2>. QED BY <1>3, <2>1 DEF BusInv, BusType
<1>7. BusInv(dead)
  BY BusLinkInv
<1>8. pkt.type = "NEGO" => pkt.win = DevWindow
  BY DEF FromDev, Configs
<1>9. \/ c \in {EnqueueCtrl(b, Ctrl(b, "ACPT")), EnqueueCtrl(b, Ctrl(b, "DRSP")), dead, b}
      \/ c \in {EnqueueCtrl(configured, Config(b, "NRSP", b.win)), EnqueueCtrl(dead, Ctrl(b, "DRSP"))}
      \/ b.link = "UNINITIALIZED" /\ c = EnqueueCtrl(initialized, Config(b, "NEGO", BusWindow))
      \/ b.link = "INITIALIZED" /\ pkt.type = "NRSP" /\ c = Configure(b, pkt)
      \/ b.link = "INITIALIZED" /\ pkt.type = "NEGO" /\ c = Agree(b, pkt.win)
  BY DEF ProcessControlPacket
<1>. HIDE DEF c, initialized, configured, dead
<1>10. BusInv(c)
  BY <1>2, <1>4, <1>5, <1>6, <1>7, <1>8, <1>9, EnqueueCtrlInv, ConfigureInv, AgreeInv
<1>. QED BY <1>10 DEF c

\* Whatever arrives on the line.
LEMMA ReadEventTriggeredInv ==
  ASSUME NEW b, BusInv(b), NEW pkt \in FromDev
  PROVE  BusInv(ReadEventTriggered(b, pkt))
  BY ReceiveDataInv, ProcessAckNumInv, ProcessControlPacketInv DEF ReadEventTriggered

\* SEND_DATA_ALARM transmits what is queued.
LEMMA SendDataAlarmInv ==
  ASSUME NEW b, BusInv(b)
  PROVE  BusInv(SendDataAlarm(b))
<1>. DEFINE c == [b EXCEPT !.sendAlarm = FALSE]
<1>1. c \in BusType
  BY DEF BusInv, BusType
<1>2. BusInv(c)
  BY <1>1 DEF BusInv, BusType
<1>. QED BY <1>2, TransmitToLinkInv DEF SendDataAlarm

\* All of m_txSent goes back to m_txQueue, and out again.
LEMMA ResendDataAlarmInv ==
  ASSUME NEW b0, BusInv(b0)
  PROVE  BusInv(ResendDataAlarm(b0))
<1>. DEFINE b == [b0 EXCEPT !.resendAlarm = FALSE]
            txq == b.sent \o b.txq
            c == [b EXCEPT !.txq = txq, !.sent = << >>]
<1>1. BusInv(b)
  <2>1. b \in BusType
    BY DEF BusInv, BusType
  <2>. QED BY <2>1 DEF BusInv, BusType
<1>2. ResendDataAlarm(b0) \in {b, TransmitToLink(c)}
  BY DEF ResendDataAlarm
<1>. HIDE DEF b
<1>3. b \in BusType /\ b.sent \in Seq(FromBus) /\ b.txq \in Seq(FromBus) /\ b.free \in Nat
  BY <1>1 DEF BusInv, BusType
<1>4. Len(b.sent) \in Nat /\ Len(b.txq) \in Nat
  BY <1>3, LenProperties
<1>5. /\ txq \in Seq(FromBus) /\ Len(txq) = Len(b.sent) + Len(b.txq)
      /\ b.sent = << >> /\ b.txq = << >> => txq = << >>
  BY <1>3
<1>. HIDE DEF txq
<1>6. c \in BusType
  <2>1. << >> \in Seq(FromBus)
    OBVIOUS
  <2>. QED BY <1>3, <1>5, <2>1 DEF BusType
<1>7. /\ c.link = b.link /\ c.win = b.win /\ c.cfg = b.cfg /\ c.peer = b.peer /\ c.rxFree = b.rxFree
      /\ c.rxq = b.rxq /\ c.txq = txq /\ c.free = b.free /\ c.sent = << >>
  BY <1>3 DEF BusType
<1>8. c.free + Len(c.txq) + Len(c.sent) = b.free + Len(b.txq) + Len(b.sent)
  <2>1. \A x, y, z \in Nat : x + (z + y) + 0 = x + y + z
    OBVIOUS
  <2>2. b.free + (Len(b.sent) + Len(b.txq)) + 0 = b.free + Len(b.txq) + Len(b.sent)
    BY <1>3, <1>4, <2>1
  <2>. QED BY <1>5, <1>7, <2>2
<1>. HIDE DEF c
<1>9. BusInv(c)
  BY <1>1, <1>5, <1>6, <1>7, <1>8 DEF BusInv
<1>. QED BY <1>1, <1>2, <1>9, TransmitToLinkInv

\* ACK_ALARM sends the ACK that is due.
LEMMA AckAlarmInv ==
  ASSUME NEW b0, BusInv(b0)
  PROVE  BusInv(AckAlarm(b0))
<1>. DEFINE b == [b0 EXCEPT !.ackAlarm = FALSE]
            c == [b EXCEPT !.pend = FALSE, !.ctrl = Ack(b)]
            acked == IF ~b.pend THEN b ELSE TransmitToLink(c)
<1>1. BusInv(b)
  <2>1. b \in BusType
    BY DEF BusInv, BusType
  <2>. QED BY <2>1 DEF BusInv, BusType
<1>2. AckAlarm(b0) = ScheduleLinkControlPacket(acked)
  BY DEF AckAlarm
<1>. HIDE DEF b
<1>3. Ack(b) \in FromBus
  BY <1>1, BusSends
<1>4. BusInv(c)
  <2>. DEFINE a == Ack(b)
  <2>. HIDE DEF a
  <2>1. a \in FromBus /\ c = [b EXCEPT !.pend = FALSE, !.ctrl = a]
    BY <1>3 DEF a
  <2>. HIDE DEF c
  <2>2. c \in BusType
    BY <1>1, <2>1 DEF BusInv, BusType
  <2>. QED BY <1>1, <2>1, <2>2 DEF BusInv, BusType
<1>. HIDE DEF c
<1>5. BusInv(acked)
  BY <1>1, <1>4, TransmitToLinkInv
<1>. QED BY <1>2, <1>5, ScheduleLinkControlPacketInv

\* A packet is written to a buffer of m_txFreeList and queued.
LEMMA PushPacketInv ==
  ASSUME NEW b, BusInv(b), b.free > 0
  PROVE  BusInv(PushPacket(b))
<1>. DEFINE txq == Append(b.txq, Data(b))
            c == PushPacket(b)
<1>1. b \in BusType /\ b.txq \in Seq(FromBus) /\ b.sent \in Seq(FromBus) /\ b.free \in Nat
      /\ b.seq \in SeqNums /\ b.pushed \in Nat
  BY DEF BusInv, BusType
<1>2. Len(b.sent) \in Nat /\ Len(b.txq) \in Nat
  BY <1>1, LenProperties
<1>3. txq \in Seq(FromBus) /\ Len(txq) = Len(b.txq) + 1
  BY <1>1, BusSends
<1>4. c = [b EXCEPT !.free = b.free - 1, !.seq = Incr(b.seq), !.pushed = b.pushed + 1,
                    !.txq = txq, !.sendAlarm = TRUE]
  BY DEF PushPacket
<1>5. b.free - 1 \in Nat /\ Incr(b.seq) \in SeqNums /\ b.pushed + 1 \in Nat /\ b.free # 0
  BY <1>1, IncrType
<1>. HIDE DEF c, txq
<1>6. c \in BusType
  BY <1>1, <1>3, <1>4, <1>5 DEF BusType
<1>7. /\ c.link = b.link /\ c.win = b.win /\ c.cfg = b.cfg /\ c.peer = b.peer /\ c.rxFree = b.rxFree
      /\ c.rxq = b.rxq /\ c.txq = txq /\ c.free = b.free - 1 /\ c.sent = b.sent
  BY <1>1, <1>4 DEF BusType
<1>8. c.free + Len(c.txq) + Len(c.sent) = b.free + Len(b.txq) + Len(b.sent)
  <2>1. \A x, y, z \in Nat : (x - 1) + (y + 1) + z = x + y + z
    OBVIOUS
  <2>2. (b.free - 1) + (Len(b.txq) + 1) + Len(b.sent) = b.free + Len(b.txq) + Len(b.sent)
    BY <1>1, <1>2, <2>1
  <2>. QED BY <1>3, <1>7, <2>2
<1>9. BusInv(c)
  BY <1>5, <1>6, <1>7, <1>8 DEF BusInv
<1>. QED BY <1>9 DEF c

\* A packet that is read gives its buffer back to m_rxFreeList.
LEMMA PullPacketInv ==
  ASSUME NEW b, BusInv(b), b.rxq # << >>
  PROVE  BusInv(PullPacket(b))
<1>. DEFINE c == PullPacket(b)
            rxq == Tail(b.rxq)
            got == Append(b.got, Head(b.rxq))
<1>1. b \in BusType /\ b.rxq \in Seq(Pays) /\ b.rxFree \in Nat /\ b.got \in Seq(Pays)
  BY DEF BusInv, BusType
<1>2. rxq \in Seq(Pays) /\ Len(rxq) = Len(b.rxq) - 1 /\ Head(b.rxq) \in Pays /\ Len(b.rxq) \in Nat
  BY <1>1
<1>3. got \in Seq(Pays) /\ b.rxFree + 1 \in Nat
  BY <1>1, <1>2
<1>4. c = [b EXCEPT !.rxq = rxq, !.rxFree = b.rxFree + 1, !.got = got]
  BY DEF PullPacket
<1>. HIDE DEF c, got
<1>5. c \in BusType
  BY <1>1, <1>2, <1>3, <1>4 DEF BusType
<1>6. /\ c.link = b.link /\ c.win = b.win /\ c.cfg = b.cfg /\ c.peer = b.peer /\ c.rxFree = b.rxFree + 1
      /\ c.rxq = rxq /\ c.txq = b.txq /\ c.free = b.free /\ c.sent = b.sent
  BY <1>1, <1>4 DEF BusType
<1>7. c.rxFree + Len(c.rxq) = b.rxFree + Len(b.rxq)
  BY <1>1, <1>2, <1>6
<1>. HIDE DEF rxq
<1>8. BusInv(c)
  BY <1>5, <1>6, <1>7 DEF BusInv
<1>. QED BY <1>8 DEF c

\* The user closes the link.
LEMMA CloseInv ==
  ASSUME NEW b, BusInv(b), NEW versionFound
  PROVE  BusInv(Close(b, versionFound))
  BY BusLinkInv, ScheduleLinkControlPacketInv DEF Close

\* A stream that is opened has no buffers yet.
LEMMA NewStreamInv ==
  ASSUME NEW inc \in Nat \ {0}
  PROVE  BusInv(NewStream(inc))
<1>. DEFINE c == NewStream(inc)
<1>1. BusWindow \in 1 .. BusWindow /\ 0 \in 0 .. BusWindow /\ 0 \in SeqNums /\ 0 \in Nat /\ BusWindow >= DevWindow
  BY Windows
<1>2. << >> \in Seq(FromBus) /\ << >> \in Seq(Pays)
  OBVIOUS
<1>3. c \in BusType
  BY <1>1, <1>2 DEF NewStream, BusType, LinkStates
<1>. QED BY <1>1, <1>3 DEF BusInv, NewStream

\* What a handler wrote to the UART leaves the stream.
LEMMA OutInv ==
  ASSUME NEW b, BusInv(b)
  PROVE  /\ BusInv([b EXCEPT !.out = << >>]) /\ [b EXCEPT !.out = << >>].out = << >>
         /\ b.out \in Seq(FromBus)
<1>1. [b EXCEPT !.out = << >>] \in BusType
  <2>1. << >> \in Seq(FromBus)
    OBVIOUS
  <2>. QED BY <2>1 DEF BusInv, BusType
<1>. QED BY <1>1 DEF BusInv, BusType

----------------------------------------------------------------------------
(* The client's functions *)

\* The packets the client can send.
LEMMA DevSends ==
  ASSUME NEW d, DevInv(d)
  PROVE  /\ \A t \in CtrlTypes \ Configs : Ctrl(d, t) \in FromDev
         /\ \A t \in Configs : Config(d, t, DevWindow) \in FromDev
         /\ Data(d) \in FromDev /\ Ack(d) \in FromDev
<1>1. d.inc \in Nat \ {0} /\ d.seq \in SeqNums /\ d.ack \in SeqNums /\ d.pushed \in Nat
  BY DEF DevInv, DevType
<1>. QED BY <1>1, DevPackets

\* A control packet waits in txUnreliable.
LEMMA DevCtrlInv ==
  ASSUME NEW d, DevInv(d), NEW pkt \in FromDev
  PROVE  DevInv(AJ_SerialTX_EnqueueCtrl(d, pkt))
<1>. DEFINE c == AJ_SerialTX_EnqueueCtrl(d, pkt)
<1>1. c \in DevType
  BY DEF DevInv, DevType, AJ_SerialTX_EnqueueCtrl
<1>. QED BY <1>1 DEF DevInv, DevType, AJ_SerialTX_EnqueueCtrl

\* The client announces its own window.
LEMMA SendNegotiationPacketInv ==
  ASSUME NEW d, DevInv(d), NEW t \in Configs
  PROVE  DevInv(SendNegotiationPacket(d, t))
  BY DevSends, DevCtrlInv DEF SendNegotiationPacket

\* The daemon asks for no less than the client's window.
LEMMA ProcessNegoPacketInv ==
  ASSUME NEW d, DevInv(d), NEW win \in 0 .. BusWindow, win >= DevWindow
  PROVE  DevInv(ProcessNegoPacket(d, win))
<1>1. (IF win < DevWindow THEN win ELSE DevWindow) = DevWindow
  BY Windows
<1>2. ProcessNegoPacket(d, win) = [d EXCEPT !.win = DevWindow]
  BY <1>1 DEF ProcessNegoPacket
<1>3. [d EXCEPT !.win = DevWindow] \in DevType
  BY DEF DevInv, DevType
<1>. QED BY <1>2, <1>3 DEF DevInv, DevType

\* The state of the link has nothing to do with the buffers.
LEMMA DevLinkInv ==
  ASSUME NEW d, DevInv(d), NEW s \in LinkStates
  PROVE  DevInv([d EXCEPT !.link = s])
<1>1. [d EXCEPT !.link = s] \in DevType
  BY DEF DevInv, DevType
<1>. QED BY <1>1 DEF DevInv, DevType

\* A control packet, in each state of the link.
LEMMA LinkPacketInv ==
  ASSUME NEW d, DevInv(d), NEW pkt \in FromBus
  PROVE  DevInv(AJ_Serial_LinkPacket(d, pkt))
<1>. DEFINE c == AJ_Serial_LinkPacket(d, pkt)
            to(s) == [d EXCEPT !.link = s]
            nego == ProcessNegoPacket(d, pkt.win)
            active == [d EXCEPT !.link = "ACTIVE", !.peer = pkt.pay[1]]
<1>1. {"ACPT", "DRSP"} \subseteq CtrlTypes \ Configs /\ {"NEGO", "NRSP"} \subseteq Configs
  BY DEF CtrlTypes, Configs
<1>2. Ctrl(d, "ACPT") \in FromDev /\ Ctrl(d, "DRSP") \in FromDev
  BY <1>1, DevSends
<1>3. \A s \in LinkStates : DevInv(to(s))
  BY DevLinkInv
<1>4. DevInv(to("INITIALIZED")) /\ DevInv(to("DYING")) /\ DevInv(to("DEAD"))
  BY <1>3 DEF LinkStates
<1>5. pkt.type = "NEGO" => DevInv(nego)
  <2>1. pkt.type = "NEGO" => pkt.win \in 0 .. BusWindow /\ pkt.win >= DevWindow
    BY DEF FromBus, Packets, Configs
  <2>. QED BY <2>1, ProcessNegoPacketInv
<1>6. DevInv(active)
  <2>1. pkt.pay[1] \in Nat
    BY DEF FromBus, Packets
  <2>2. active \in DevType
    BY <2>1 DEF DevInv, DevType, LinkStates
  <2>. QED BY <2>2 DEF DevInv, DevType
<1>7. \/ c \in {AJ_SerialTX_EnqueueCtrl(d, Ctrl(d, "ACPT")), SendNegotiationPacket(to("INITIALIZED"), "NEGO")}
      \/ pkt.type = "NEGO" /\ c = SendNegotiationPacket(nego, "NRSP")
      \/ c \in {active, to("DEAD"), d}
      \/ c \in {AJ_SerialTX_EnqueueCtrl(to("DYING"), Ctrl(d, "DRSP")), AJ_SerialTX_EnqueueCtrl(to("DEAD"), Ctrl(d, "DRSP"))}
  BY DEF AJ_Serial_LinkPacket
<1>. HIDE DEF c, to, nego, active
<1>8. DevInv(c)
  BY <1>1, <1>2, <1>4, <1>5, <1>6, <1>7, DevCtrlInv, SendNegotiationPacketInv
<1>. QED BY <1>8 DEF c

\* Acknowledged packets go from txSent to txFreeList.
LEMMA ReceivedAckInv ==
  ASSUME NEW d, DevInv(d), NEW ack
  PROVE  DevInv(AJ_SerialTx_ReceivedAck(d, ack))
<1>. DEFINE n == Acked(d.sent, ack, d.win)
            sent == Drop(d.sent, n)
            time == IF n = 0 THEN d.resendTime ELSE n < Len(d.sent)
            primed == IF n = 0 THEN d.resendPrimed ELSE n < Len(d.sent)
            c == AJ_SerialTx_ReceivedAck(d, ack)
<1>1. d \in DevType /\ d.sent \in Seq(FromDev) /\ d.txq \in Seq(FromDev) /\ d.free \in Nat
      /\ d.resendTime \in BOOLEAN /\ d.resendPrimed \in BOOLEAN
  BY DEF DevInv, DevType
<1>2. n \in 0 .. Len(d.sent)
  BY <1>1, AckedType
<1>3. Len(d.sent) \in Nat /\ Len(d.txq) \in Nat /\ n \in Nat /\ n <= Len(d.sent)
  BY <1>1, <1>2, LenProperties
<1>4. sent \in Seq(FromDev) /\ Len(sent) = Len(d.sent) - n
  BY <1>1, <1>2, DropType
<1>5. c = [d EXCEPT !.sent = sent, !.free = d.free + n, !.resendTime = time, !.resendPrimed = primed]
  BY DEF AJ_SerialTx_ReceivedAck
<1>6. time \in BOOLEAN /\ primed \in BOOLEAN
  <2>. DEFINE less == n < Len(d.sent)
  <2>1. less \in BOOLEAN
    BY <1>3
  <2>2. time = (IF n = 0 THEN d.resendTime ELSE less) /\ primed = (IF n = 0 THEN d.resendPrimed ELSE less)
    OBVIOUS
  <2>. HIDE DEF n, less, time, primed
  <2>. QED BY <1>1, <2>1, <2>2, Zenon
<1>7. d.free + n \in Nat
  BY <1>1, <1>3
<1>. HIDE DEF n, sent, time, primed, c
<1>8. c \in DevType
  BY <1>1, <1>4, <1>5, <1>6, <1>7 DEF DevType
<1>9. /\ c.rxFree = d.rxFree /\ c.rxq = d.rxq /\ c.txq = d.txq /\ c.free = d.free + n /\ c.sent = sent
      /\ c.txbuf = d.txbuf /\ c.dropped = d.dropped
  BY <1>1, <1>5 DEF DevType
<1>10. c.free + Len(c.txq) + Len(c.sent) = d.free + Len(d.txq) + Len(d.sent)
  <2>1. \A x, y, z, m \in Nat : m <= z => (x + m) + y + (z - m) = x + y + z
    OBVIOUS
  <2>2. (d.free + n) + Len(d.txq) + (Len(d.sent) - n) = d.free + Len(d.txq) + Len(d.sent)
    BY <1>1, <1>3, <2>1
  <2>. QED BY <1>4, <1>9, <2>2
<1>11. DevInv(c)
  BY <1>8, <1>9, <1>10 DEF DevInv
<1>. QED BY <1>11 DEF c

\* A data packet to be acknowledged.
LEMMA ReceivedSeqInv ==
  ASSUME NEW d, DevInv(d), NEW seq \in SeqNums
  PROVE  DevInv(AJ_SerialTx_ReceivedSeq(d, seq))
<1>. DEFINE p == IF d.pend > d.win THEN d.pend ELSE d.pend + 1
            ack == IF SEQ_GT(d.ack, seq, d.win) THEN d.ack ELSE Incr(seq)
            c == [d EXCEPT !.ack = ack, !.pend = p]
            e == [c EXCEPT !.ackTime = TRUE]
<1>1. d \in DevType /\ ack \in SeqNums /\ p \in Nat
  <2>1. d \in DevType /\ d.ack \in SeqNums /\ d.pend \in Nat
    BY DEF DevInv, DevType
  <2>2. Incr(seq) \in SeqNums
    BY IncrType
  <2>. QED BY <2>1, <2>2
<1>2. AJ_SerialTx_ReceivedSeq(d, seq) \in {e, AJ_SerialTX_EnqueueCtrl(c, Ack(d)), c}
  BY DEF AJ_SerialTx_ReceivedSeq
<1>. HIDE DEF p, ack
<1>3. DevInv(c)
  <2>1. c \in DevType
    BY <1>1 DEF DevType
  <2>. QED BY <2>1 DEF DevInv, DevType
<1>. HIDE DEF c
<1>4. DevInv(e)
  <2>1. e \in DevType
    BY <1>3 DEF DevInv, DevType
  <2>. QED BY <1>3, <2>1 DEF DevInv, DevType
<1>5. Ack(d) \in FromDev
  BY DevSends
<1>. HIDE DEF e
<1>. QED BY <1>2, <1>3, <1>4, <1>5, DevCtrlInv

\* A buffer of a packet received moves from rxFreeList to rxRecv.
LEMMA CompletePacketInv ==
  ASSUME NEW d0, DevInv(d0), NEW pkt \in FromBus
  PROVE  DevInv(CompletePacket(d0, pkt))
<1>. DEFINE d == AJ_SerialTx_ReceivedAck(d0, pkt.ack)
            c == [d EXCEPT !.exp = Incr(d.exp), !.rxq = Append(d.rxq, pkt.pay), !.rxFree = d.rxFree - 1]
            r == CompletePacket(d0, pkt)
<1>1. DevInv(d)
  BY ReceivedAckInv
<1>2. pkt.seq \in SeqNums /\ pkt.pay \in Pays
  BY DEF FromBus, Packets, Pays
<1>3. \/ r \in {AJ_Serial_LinkPacket(d0, pkt), d0, d, AJ_SerialTx_ReceivedSeq(d, pkt.seq)}
      \/ d.rxFree # 0 /\ r = AJ_SerialTx_ReceivedSeq(c, pkt.seq)
  BY DEF CompletePacket
<1>. HIDE DEF d, r
<1>4. ASSUME d.rxFree # 0 PROVE DevInv(c)
  <2>1. d \in DevType /\ d.rxFree \in Nat /\ d.rxq \in Seq(Pays) /\ Len(d.rxq) \in Nat /\ d.exp \in SeqNums
    BY <1>1, LenProperties DEF DevInv, DevType
  <2>2. Append(d.rxq, pkt.pay) \in Seq(Pays) /\ Len(Append(d.rxq, pkt.pay)) = Len(d.rxq) + 1
    BY <1>2, <2>1
  <2>3. Incr(d.exp) \in SeqNums /\ d.rxFree - 1 \in Nat
    BY <1>4, <2>1, IncrType
  <2>4. c \in DevType
    BY <2>1, <2>2, <2>3 DEF DevType
  <2>5. /\ c.free = d.free /\ c.txq = d.txq /\ c.sent = d.sent /\ c.txbuf = d.txbuf /\ c.dropped = d.dropped
        /\ c.rxFree = d.rxFree - 1 /\ c.rxq = Append(d.rxq, pkt.pay)
    BY <2>1 DEF DevType
  <2>6. c.rxFree + Len(c.rxq) = d.rxFree + Len(d.rxq)
    BY <2>1, <2>2, <2>5
  <2>. HIDE DEF c
  <2>. QED BY <1>1, <2>4, <2>5, <2>6 DEF DevInv
<1>. HIDE DEF c
<1>5. DevInv(r)
  BY <1>1, <1>2, <1>3, <1>4, LinkPacketInv, ReceivedSeqInv
<1>. QED BY <1>5 DEF r

\* Read one by one: the states after each packet exist, and the buffers are
\* kept in all of them.  A first packet for which this fails is contradictory.
LEMMA ProcessRxBufferListInv ==
  ASSUME NEW d, DevInv(d), NEW pkts \in Seq(FromBus)
  PROVE  DevInv(AJ_ProcessRxBufferList(d, pkts))
<1>. DEFINE next(e, n) == CompletePacket(e, pkts[n])
            Steps(f, m) == f = [n \in 0 .. m |-> IF n = 0 THEN d ELSE next(f[n - 1], n)]
            after == CHOOSE f : Steps(f, Len(pkts))
<1>1. AJ_ProcessRxBufferList(d, pkts) = after[Len(pkts)]
  BY DEF AJ_ProcessRxBufferList
<1>2. Len(pkts) \in Nat /\ \A n \in 1 .. Len(pkts) : pkts[n] \in FromBus
  BY LenProperties
<1>3. ASSUME NEW e, NEW n \in 1 .. Len(pkts), DevInv(e)
      PROVE  DevInv(next(e, n))
  BY <1>2, <1>3, CompletePacketInv
<1>. HIDE DEF next
<1>4. \A m \in Nat : \E f : Steps(f, m)
  <2>. DEFINE T == {m \in Nat : ~\E f : Steps(f, m)}
  <2>. SUFFICES ASSUME T # {} PROVE FALSE
    OBVIOUS
  <2>1. PICK m \in T : \A i \in T : m <= i
    BY SmallestNat
  <2>2. m \in Nat /\ ~\E f : Steps(f, m)
    OBVIOUS
  <2>3. m # 0
    <3>. DEFINE f == [n \in 0 .. 0 |-> d]
    <3>1. Steps(f, 0)
      OBVIOUS
    <3>. HIDE DEF f, Steps
    <3>. QED BY <2>2, <3>1
  <2>4. m - 1 \in Nat /\ ~(m <= m - 1)
    BY <2>2, <2>3
  <2>5. PICK g : Steps(g, m - 1)
    <3>. HIDE DEF Steps
    <3>. QED BY <2>1, <2>4
  <2>. DEFINE f == [n \in 0 .. m |-> IF n = m THEN next(g[m - 1], m) ELSE g[n]]
  <2>6. Steps(f, m)
    <3>1. ASSUME NEW n \in 0 .. m PROVE f[n] = IF n = 0 THEN d ELSE next(f[n - 1], n)
      <4>1. CASE n = 0
        BY <4>1, <2>3, <2>4, <2>5
      <4>2. CASE n = m
        <5>1. n - 1 \in 0 .. m /\ n - 1 # m /\ n # 0
          BY <4>2, <2>2, <2>3
        <5>2. f[n - 1] = g[m - 1] /\ f[n] = next(g[m - 1], m)
          BY <4>2, <5>1
        <5>. QED BY <4>2, <5>1, <5>2
      <4>3. CASE n # 0 /\ n # m
        <5>1. n \in 0 .. m - 1 /\ n - 1 \in 0 .. m /\ n - 1 # m
          BY <4>3, <2>2
        <5>2. f[n - 1] = g[n - 1] /\ f[n] = g[n]
          BY <4>3, <5>1
        <5>3. g[n] = next(g[n - 1], n)
          BY <2>5, <4>3, <5>1
        <5>. QED BY <4>3, <5>2, <5>3
      <4>. QED BY <4>1, <4>2, <4>3
    <3>. DEFINE h == [n \in 0 .. m |-> IF n = 0 THEN d ELSE next(f[n - 1], n)]
    <3>2. \A n \in 0 .. m : f[n] = h[n]
      BY <3>1
    <3>3. f = [n \in 0 .. m |-> f[n]] /\ h = [n \in 0 .. m |-> h[n]]
      OBVIOUS
    <3>4. f = h
      <4>. HIDE DEF f, h
      <4>. QED BY <3>2, <3>3
    <3>. QED BY <3>4
  <2>. HIDE DEF f, Steps
  <2>. QED BY <2>2, <2>6
<1>5. Steps(after, Len(pkts))
  <2>. HIDE DEF Steps
  <2>. QED BY <1>2, <1>4
<1>. HIDE DEF after
<1>6. /\ after[0] = d
      /\ \A n \in 1 .. Len(pkts) : after[n] = next(after[n - 1], n)
  BY <1>2, <1>5
<1>7. \A n \in 0 .. Len(pkts) : DevInv(after[n])
  <2>. DEFINE T == {n \in 0 .. Len(pkts) : ~DevInv(after[n])}
  <2>. SUFFICES ASSUME T # {} PROVE FALSE
    OBVIOUS
  <2>1. T \subseteq Nat
    BY <1>2
  <2>2. PICK m \in T : \A i \in T : m <= i
    BY <2>1, SmallestNat
  <2>3. m \in 0 .. Len(pkts) /\ ~DevInv(after[m])
    OBVIOUS
  <2>4. m # 0
    BY <1>6, <2>3
  <2>5. m \in 1 .. Len(pkts) /\ m - 1 \in 0 .. Len(pkts) /\ ~(m <= m - 1)
    BY <1>2, <2>3, <2>4
  <2>6. DevInv(after[m - 1])
    BY <2>2, <2>5
  <2>. QED BY <1>3, <1>6, <2>3, <2>5, <2>6
<1>8. Len(pkts) \in 0 .. Len(pkts)
  BY <1>2
<1>. QED BY <1>1, <1>7, <1>8

\* As many packets as there are free UART buffers move from txQueue to txSent.
LEMMA FillTxBufferListInv ==
  ASSUME NEW d, DevInv(d)
  PROVE  DevInv(AJ_FillTxBufferList(d))
<1>. DEFINE room == DevWindow - Len(d.txbuf)
            ctrl == room > 0 /\ d.ctrl # NoPacket
            spare == IF ctrl THEN room - 1 ELSE room
            n == IF spare < Len(d.txq) THEN spare ELSE Len(d.txq)
            head == IF ctrl THEN <<IF d.ctrl.type = "ACK" THEN [d.ctrl EXCEPT !.ack = d.ack] ELSE d.ctrl>>
                    ELSE << >>
            settles == n > 0 \/ (ctrl /\ d.ctrl.type = "ACK")
            queued == Queued(SubSeq(d.txq, 1, n), d.ack)
            newCtrl == IF ctrl THEN NoPacket ELSE d.ctrl
            txbuf == d.txbuf \o head \o queued
            dataSent == (Len(d.txbuf \o head) + n < DevWindow) \/ (d.txq = << >> /\ d.ctrl = NoPacket)
            txq == Drop(d.txq, n)
            sent == d.sent \o SubSeq(d.txq, 1, n)
            resendTime == d.resendTime \/ n > 0
            pend == IF settles THEN 0 ELSE d.pend
            ackTime == d.ackTime /\ ~(settles /\ d.pend > 0)
            fault == d.fault \/ Len(d.sent) + n > d.win
            c == [d EXCEPT !.ctrl = newCtrl, !.txbuf = txbuf, !.dataSent = dataSent, !.txq = txq, !.sent = sent,
                           !.resendTime = resendTime, !.pend = pend, !.ackTime = ackTime, !.fault = fault]
<1>1. /\ d \in DevType /\ d.ctrl \in FromDev \cup {NoPacket} /\ d.ack \in SeqNums /\ d.pend \in Nat
      /\ d.txbuf \in Seq(FromDev) /\ d.txq \in Seq(FromDev) /\ d.sent \in Seq(FromDev) /\ d.free \in Nat
      /\ d.win = DevWindow /\ d.fault = FALSE
  BY DEF DevInv, DevType
<1>2. Len(d.txbuf) \in Nat /\ Len(d.txq) \in Nat /\ Len(d.sent) \in Nat /\ DevWindow \in Nat
  BY <1>1, Windows, LenProperties
<1>3. Len(d.txbuf) <= DevWindow /\ d.free + Len(d.txq) + Len(d.sent) <= DevWindow
  <2>1. d.free + Len(d.txq) + Len(d.sent) + d.dropped = DevWindow /\ d.dropped \in Nat
    BY DEF DevInv, DevType
  <2>2. \A x, y, z, k \in Nat : x + y + z + k = DevWindow => x + y + z <= DevWindow
    BY <1>2
  <2>. QED BY <1>1, <1>2, <2>1, <2>2 DEF DevInv
<1>4. AJ_FillTxBufferList(d) \in {d, c}
  BY DEF AJ_FillTxBufferList
<1>5. head \in Seq(FromDev) /\ Len(head) = (IF ctrl THEN 1 ELSE 0)
  <2>1. CASE ctrl
    <3>. DEFINE p == IF d.ctrl.type = "ACK" THEN [d.ctrl EXCEPT !.ack = d.ack] ELSE d.ctrl
    <3>1. p \in FromDev
      BY <2>1, <1>1, SameButAck
    <3>2. head = <<p>>
      BY <2>1
    <3>. HIDE DEF p, head, ctrl
    <3>. QED BY <2>1, <3>1, <3>2
  <2>2. CASE ~ctrl
    <3>1. head = << >>
      BY <2>2
    <3>. HIDE DEF head, ctrl
    <3>. QED BY <2>2, <3>1
  <2>. QED BY <2>1, <2>2
<1>. HIDE DEF head
<1>6. n \in 0 .. Len(d.txq) /\ n \in Nat /\ Len(d.txbuf) + Len(head) + n <= DevWindow
  <2>1. room \in Nat /\ ctrl \in BOOLEAN /\ (ctrl => room > 0)
    BY <1>2, <1>3
  <2>. HIDE DEF ctrl
  <2>2. spare \in Nat /\ spare + Len(head) = room
    BY <1>5, <2>1
  <2>. HIDE DEF spare
  <2>3. n \in Nat /\ n <= spare /\ n <= Len(d.txq)
    BY <1>2, <2>2
  <2>. HIDE DEF n
  <2>4. Len(head) \in Nat
    BY <1>5, <2>1
  <2>5. \A t, h, m, w \in Nat : m + h <= w - t => t + h + m <= w
    OBVIOUS
  <2>6. n + Len(head) <= DevWindow - Len(d.txbuf)
    <3>. DEFINE h == Len(head)
    <3>. HIDE DEF h, room
    <3>1. n + h <= room
      BY <2>1, <2>2, <2>3, <2>4 DEF h
    <3>. QED BY <3>1 DEF h, room
  <2>7. Len(d.txbuf) + Len(head) + n <= DevWindow
    BY <1>2, <2>3, <2>4, <2>5, <2>6
  <2>. QED BY <1>2, <2>3, <2>7
<1>7. newCtrl \in FromDev \cup {NoPacket}
  BY <1>1
<1>. HIDE DEF n
<1>8. SubSeq(d.txq, 1, n) \in Seq(FromDev) /\ Len(SubSeq(d.txq, 1, n)) = n /\ txq \in Seq(FromDev) /\ Len(txq) = Len(d.txq) - n
  BY <1>1, <1>6, DropType
<1>9. queued \in Seq(FromDev) /\ Len(queued) = n
  <2>. DEFINE s == SubSeq(d.txq, 1, n)
  <2>1. s \in Seq(FromDev) /\ Len(s) = n /\ queued = Queued(s, d.ack)
    BY <1>8
  <2>. HIDE DEF s, queued
  <2>2. queued \in Seq(FromDev) /\ DOMAIN queued = DOMAIN s
    BY <1>1, <2>1, QueuedType DEF Queued
  <2>. QED BY <1>6, <2>1, <2>2, LenProperties
<1>. HIDE DEF queued, txq
<1>10. txbuf \in Seq(FromDev) /\ Len(txbuf) = Len(d.txbuf) + Len(head) + n
  <2>1. d.txbuf \o head \in Seq(FromDev) /\ Len(d.txbuf \o head) = Len(d.txbuf) + Len(head)
    BY <1>1, <1>5, ConcatProperties
  <2>. DEFINE s == d.txbuf \o head
  <2>2. s \in Seq(FromDev) /\ Len(s) = Len(d.txbuf) + Len(head) /\ txbuf = s \o queued
    BY <2>1
  <2>. HIDE DEF s, txbuf
  <2>3. s \o queued \in Seq(FromDev) /\ Len(s \o queued) = Len(s) + Len(queued)
    BY <1>9, <2>2, ConcatProperties
  <2>. QED BY <1>9, <2>2, <2>3
<1>11. sent \in Seq(FromDev) /\ Len(sent) = Len(d.sent) + n
  <2>. DEFINE s == SubSeq(d.txq, 1, n)
  <2>1. s \in Seq(FromDev) /\ Len(s) = n /\ sent = d.sent \o s
    BY <1>8
  <2>. HIDE DEF s, sent
  <2>. QED BY <1>1, <2>1, ConcatProperties
<1>12. fault = FALSE
  BY <1>1, <1>2, <1>3, <1>6
<1>13. dataSent \in BOOLEAN /\ resendTime \in BOOLEAN /\ ackTime \in BOOLEAN
  BY Zenon
<1>14. pend \in Nat
  BY <1>1
<1>. HIDE DEF head, ctrl, settles, newCtrl, txbuf, dataSent, sent, resendTime, pend, ackTime, fault
<1>15. c \in DevType
  <2>. DEFINE c1 == [d EXCEPT !.ctrl = newCtrl, !.txbuf = txbuf, !.txq = txq, !.sent = sent, !.pend = pend]
  <2>1. c1 \in DevType
    BY <1>1, <1>7, <1>8, <1>10, <1>11, <1>14 DEF DevType
  <2>2. c = [c1 EXCEPT !.dataSent = dataSent, !.resendTime = resendTime, !.ackTime = ackTime, !.fault = fault]
    BY <1>1 DEF DevType
  <2>3. fault \in {FALSE}
    BY <1>12
  <2>. HIDE DEF c1, c
  <2>. QED BY <1>13, <2>1, <2>2, <2>3 DEF DevType
<1>16. /\ c.rxFree = d.rxFree /\ c.rxq = d.rxq /\ c.free = d.free /\ c.txq = txq /\ c.sent = sent
       /\ c.txbuf = txbuf /\ c.dropped = d.dropped
  BY <1>1 DEF DevType
<1>17. c.free + Len(c.txq) + Len(c.sent) = d.free + Len(d.txq) + Len(d.sent)
  <2>1. \A x, y, z, m \in Nat : m <= y => x + (y - m) + (z + m) = x + y + z
    OBVIOUS
  <2>2. d.free + (Len(d.txq) - n) + (Len(d.sent) + n) = d.free + Len(d.txq) + Len(d.sent)
    BY <1>1, <1>2, <1>6, <2>1
  <2>. QED BY <1>8, <1>11, <1>16, <2>2
<1>18. Len(c.txbuf) <= DevWindow
  BY <1>6, <1>10, <1>16
<1>. HIDE DEF c
<1>19. DevInv(c)
  BY <1>15, <1>16, <1>17, <1>18 DEF DevInv
<1>. QED BY <1>4, <1>19

\* ResendPackets puts txSent back in txQueue; behind a queued control packet
\* only the last of it, and the others are dropped.
LEMMA ResendPacketsInv ==
  ASSUME NEW d0, DevInv(d0)
  PROVE  DevInv(ResendPackets(d0))
<1>. DEFINE d == [d0 EXCEPT !.resendTime = FALSE, !.resendPrimed = FALSE]
            txq == IF d.ctrl # NoPacket THEN <<Last(d.sent)>> \o d.txq ELSE d.sent \o d.txq
            gone == IF d.ctrl # NoPacket THEN d.dropped + Len(d.sent) - 1 ELSE d.dropped
            c == [d EXCEPT !.sent = << >>, !.txq = txq, !.dropped = gone]
<1>1. DevInv(d)
  <2>1. d \in DevType
    BY DEF DevInv, DevType
  <2>. QED BY <2>1 DEF DevInv, DevType
<1>2. ResendPackets(d0) = d \/ (d.sent # << >> /\ ResendPackets(d0) = c)
  BY DEF ResendPackets
<1>. HIDE DEF d
<1>3. ASSUME d.sent # << >> PROVE DevInv(c)
  <2>1. d \in DevType /\ d.sent \in Seq(FromDev) /\ d.txq \in Seq(FromDev) /\ d.free \in Nat /\ d.dropped \in Nat
    BY <1>1 DEF DevInv, DevType
  <2>2. Len(d.sent) \in Nat /\ Len(d.txq) \in Nat /\ Len(d.sent) # 0 /\ DevWindow \in Nat
    BY <1>3, <2>1, LenProperties, EmptySeq, Windows
  <2>3. /\ txq \in Seq(FromDev)
        /\ \/ Len(txq) = 1 + Len(d.txq) /\ gone = d.dropped + Len(d.sent) - 1
           \/ Len(txq) = Len(d.sent) + Len(d.txq) /\ gone = d.dropped
    <3>1. CASE d.ctrl # NoPacket
      <4>1. Last(d.sent) \in FromDev
        BY <2>1, <2>2 DEF Last
      <4>2. <<Last(d.sent)>> \in Seq(FromDev) /\ Len(<<Last(d.sent)>>) = 1
        BY <4>1
      <4>3. txq = <<Last(d.sent)>> \o d.txq /\ gone = d.dropped + Len(d.sent) - 1
        BY <3>1
      <4>. QED BY <2>1, <4>2, <4>3, ConcatProperties
    <3>2. CASE d.ctrl = NoPacket
      <4>1. txq = d.sent \o d.txq /\ gone = d.dropped
        BY <3>2
      <4>2. txq \in Seq(FromDev) /\ Len(txq) = Len(d.sent) + Len(d.txq)
        <5>. HIDE DEF txq
        <5>. QED BY <2>1, <4>1, ConcatProperties
      <4>. QED BY <4>1, <4>2
    <3>. QED BY <3>1, <3>2
  <2>. HIDE DEF txq, gone
  <2>. DEFINE f == d.free
              x == Len(d.txq)
              y == Len(d.sent)
              z == Len(txq)
              k == d.dropped
  <2>4. /\ f \in Nat /\ x \in Nat /\ y \in Nat /\ y # 0 /\ k \in Nat
        /\ (z = 1 + x /\ gone = k + y - 1) \/ (z = y + x /\ gone = k)
        /\ f + x + y + k = DevWindow
    BY <1>1, <2>1, <2>2, <2>3 DEF DevInv
  <2>5. gone \in Nat /\ f + z + 0 + gone = DevWindow /\ gone < DevWindow
    <3>. HIDE DEF f, x, y, z, k
    <3>. QED BY <2>2, <2>4
  <2>6. c \in DevType
    <3>1. << >> \in Seq(FromDev)
      OBVIOUS
    <3>. QED BY <2>1, <2>3, <2>5, <3>1 DEF DevType
  <2>7. /\ c.rxFree = d.rxFree /\ c.rxq = d.rxq /\ c.free = f /\ Len(c.txq) = z /\ Len(c.sent) = 0
        /\ c.txbuf = d.txbuf /\ c.dropped = gone
    BY <2>1 DEF DevType
  <2>. HIDE DEF f, z, c
  <2>8. c.free + Len(c.txq) + Len(c.sent) + c.dropped = DevWindow /\ c.dropped < DevWindow
    BY <2>5, <2>7
  <2>. QED BY <1>1, <2>6, <2>7, <2>8 DEF DevInv
<1>. HIDE DEF c
<1>. QED BY <1>1, <1>2, <1>3

\* The ACK timer has run out.
LEMMA SendAckInv ==
  ASSUME NEW d, DevInv(d)
  PROVE  DevInv(SendAck(d))
<1>. DEFINE e == [d EXCEPT !.pend = 0]
            c == IF d.pend = 0 THEN d ELSE AJ_SerialTX_EnqueueCtrl(e, Ack(d))
<1>1. SendAck(d) = [c EXCEPT !.ackTime = FALSE]
  BY DEF SendAck
<1>2. DevInv(e)
  <2>1. e \in DevType
    BY DEF DevInv, DevType
  <2>. QED BY <2>1 DEF DevInv, DevType
<1>. HIDE DEF e
<1>3. DevInv(c)
  BY <1>2, DevSends, DevCtrlInv
<1>. HIDE DEF c
<1>4. [c EXCEPT !.ackTime = FALSE] \in DevType
  BY <1>3 DEF DevInv, DevType
<1>. QED BY <1>1, <1>3, <1>4 DEF DevInv, DevType

\* The link timer has run out.
LEMMA SendLinkPacketInv ==
  ASSUME NEW d, DevInv(d)
  PROVE  DevInv(SendLinkPacket(d))
<1>. DEFINE c == [d EXCEPT !.linkTime = FALSE]
<1>1. {"CONN", "DISC"} \subseteq CtrlTypes \ Configs /\ "NEGO" \in Configs
  BY DEF CtrlTypes, Configs
<1>2. Ctrl(d, "CONN") \in FromDev /\ Ctrl(d, "DISC") \in FromDev
  BY <1>1, DevSends
<1>3. DevInv(c)
  <2>1. c \in DevType
    BY DEF DevInv, DevType
  <2>. QED BY <2>1 DEF DevInv, DevType
<1>4. SendLinkPacket(d) \in {AJ_SerialTX_EnqueueCtrl(d, Ctrl(d, "CONN")), SendNegotiationPacket(d, "NEGO"),
                             AJ_SerialTX_EnqueueCtrl(d, Ctrl(d, "DISC")), c}
  BY DEF SendLinkPacket
<1>. HIDE DEF c
<1>. QED BY <1>1, <1>2, <1>3, <1>4, DevCtrlInv, SendNegotiationPacketInv

\* A run of the state machine.
LEMMA StateMachineInv ==
  ASSUME NEW d, DevInv(d), NEW pkts \in Seq(FromBus), NEW due
  PROVE  DevInv(AJ_StateMachine(d, pkts, due))
<1>. DEFINE read == AJ_ProcessRxBufferList(d, pkts)
            filled == AJ_FillTxBufferList(read)
            restarted == \/ Len(read.sent) < Len(d.sent)
                         \/ Len(filled.sent) > Len(read.sent) /\ ~read.resendPrimed
            resent == IF "resend" \in due /\ filled.resendTime /\ ~restarted
                      THEN ResendPackets(filled) ELSE filled
            acked == IF "ack" \in due /\ resent.ackTime THEN SendAck(resent) ELSE resent
            linked == IF "link" \in due THEN SendLinkPacket(acked) ELSE acked
<1>1. DevInv(read)
  BY ProcessRxBufferListInv
<1>2. AJ_StateMachine(d, pkts, due) = linked
  BY DEF AJ_StateMachine
<1>. HIDE DEF read
<1>3. DevInv(filled)
  BY <1>1, FillTxBufferListInv
<1>. HIDE DEF filled, restarted
<1>4. DevInv(resent)
  BY <1>3, ResendPacketsInv
<1>. HIDE DEF resent
<1>5. DevInv(acked)
  BY <1>4, SendAckInv
<1>. HIDE DEF acked
<1>6. DevInv(linked)
  BY <1>5, SendLinkPacketInv
<1>. QED BY <1>2, <1>6

\* A packet is written to a buffer of txFreeList and queued.
LEMMA SendPacketInv ==
  ASSUME NEW d, DevInv(d), d.free > 0
  PROVE  DevInv(SendPacket(d))
<1>. DEFINE txq == Append(d.txq, Data(d))
            c == SendPacket(d)
<1>1. d \in DevType /\ d.txq \in Seq(FromDev) /\ d.sent \in Seq(FromDev) /\ d.free \in Nat
      /\ d.seq \in SeqNums /\ d.pushed \in Nat
  BY DEF DevInv, DevType
<1>2. Len(d.sent) \in Nat /\ Len(d.txq) \in Nat
  BY <1>1, LenProperties
<1>3. txq \in Seq(FromDev) /\ Len(txq) = Len(d.txq) + 1
  BY <1>1, DevSends
<1>4. c = [d EXCEPT !.free = d.free - 1, !.seq = Incr(d.seq), !.pushed = d.pushed + 1, !.txq = txq]
  BY DEF SendPacket
<1>5. d.free - 1 \in Nat /\ Incr(d.seq) \in SeqNums /\ d.pushed + 1 \in Nat
  BY <1>1, IncrType
<1>. HIDE DEF c, txq
<1>6. c \in DevType
  BY <1>1, <1>3, <1>4, <1>5 DEF DevType
<1>7. /\ c.rxFree = d.rxFree /\ c.rxq = d.rxq /\ c.txq = txq /\ c.free = d.free - 1 /\ c.sent = d.sent
      /\ c.txbuf = d.txbuf /\ c.dropped = d.dropped
  BY <1>1, <1>4 DEF DevType
<1>8. c.free + Len(c.txq) + Len(c.sent) = d.free + Len(d.txq) + Len(d.sent)
  <2>1. \A x, y, z \in Nat : (x - 1) + (y + 1) + z = x + y + z
    OBVIOUS
  <2>2. (d.free - 1) + (Len(d.txq) + 1) + Len(d.sent) = d.free + Len(d.txq) + Len(d.sent)
    BY <1>1, <1>2, <2>1
  <2>. QED BY <1>3, <1>7, <2>2
<1>9. DevInv(c)
  BY <1>6, <1>7, <1>8 DEF DevInv
<1>. QED BY <1>9 DEF c

\* A packet that is read gives its buffer back to rxFreeList.
LEMMA RecvPacketInv ==
  ASSUME NEW d, DevInv(d), d.rxq # << >>
  PROVE  DevInv(RecvPacket(d))
<1>. DEFINE c == RecvPacket(d)
            rxq == Tail(d.rxq)
            got == Append(d.got, Head(d.rxq))
<1>1. d \in DevType /\ d.rxq \in Seq(Pays) /\ d.rxFree \in Nat /\ d.got \in Seq(Pays)
  BY DEF DevInv, DevType
<1>2. rxq \in Seq(Pays) /\ Len(rxq) = Len(d.rxq) - 1 /\ Head(d.rxq) \in Pays /\ Len(d.rxq) \in Nat
  BY <1>1
<1>3. got \in Seq(Pays) /\ d.rxFree + 1 \in Nat
  BY <1>1, <1>2
<1>4. c = [d EXCEPT !.rxq = rxq, !.rxFree = d.rxFree + 1, !.got = got]
  BY DEF RecvPacket
<1>. HIDE DEF c, got
<1>5. c \in DevType
  BY <1>1, <1>2, <1>3, <1>4 DEF DevType
<1>6. /\ c.rxFree = d.rxFree + 1 /\ c.rxq = rxq /\ c.txq = d.txq /\ c.free = d.free /\ c.sent = d.sent
      /\ c.txbuf = d.txbuf /\ c.dropped = d.dropped
  BY <1>1, <1>4 DEF DevType
<1>7. c.rxFree + Len(c.rxq) = d.rxFree + Len(d.rxq)
  BY <1>1, <1>2, <1>6
<1>. HIDE DEF rxq
<1>8. DevInv(c)
  BY <1>5, <1>6, <1>7 DEF DevInv
<1>. QED BY <1>8 DEF c

\* AJ_SerialInit has all buffers of the window free.
LEMMA NewSerialInv ==
  ASSUME NEW inc \in Nat \ {0}, NEW dataSent \in BOOLEAN
  PROVE  DevInv(NewSerial(inc, dataSent))
<1>. DEFINE c == NewSerial(inc, dataSent)
<1>1. DevWindow \in Nat /\ 0 \in SeqNums /\ 0 \in Nat /\ DevWindow + 0 + 0 + 0 = DevWindow /\ DevWindow + 0 = DevWindow
      /\ DevWindow <= DevWindow /\ 0 < DevWindow /\ 0 <= DevWindow
  BY Windows
<1>2. << >> \in Seq(FromDev) /\ << >> \in Seq(Pays) /\ Len(<< >>) = 0
  OBVIOUS
<1>3. c \in DevType
  BY <1>1, <1>2 DEF NewSerial, DevType, LinkStates
<1>4. /\ c.free = DevWindow /\ c.txq = << >> /\ c.sent = << >> /\ c.rxFree = DevWindow /\ c.rxq = << >>
      /\ c.txbuf = << >> /\ c.dropped = 0
  BY DEF NewSerial
<1>. HIDE DEF c
<1>5. DevInv(c)
  BY <1>1, <1>2, <1>3, <1>4 DEF DevInv
<1>. QED BY <1>5 DEF c

----------------------------------------------------------------------------
(* The steps *)

\* The line holds what is put on it, as far as it fits.
LEMMA FitType ==
  ASSUME NEW S, NEW line \in Seq(S)
  PROVE  Fit(line) \in Seq(S)
<1>. DEFINE m == IF Len(line) < MaxWire THEN Len(line) ELSE MaxWire
<1>1. Len(line) \in Nat /\ MaxWire \in Nat
  BY LenProperties, SlapRunAssumption
<1>2. m \in 0 .. Len(line)
  BY <1>1
<1>3. Fit(line) = SubSeq(line, 1, m)
  BY DEF Fit
<1>. HIDE DEF m
<1>. QED BY <1>2, <1>3, DropType

\* A step of the daemon.
LEMMA BusStep ==
  ASSUME SlapInv, NEW b, BusInv(b), Bus(b), toBus' \in Seq(FromDev), left' \in 0 .. MaxFaults
  PROVE  SlapInv'
<1>1. bus' = [b EXCEPT !.out = << >>] /\ toDev' = Fit(toDev \o b.out) /\ dev' = dev
  BY DEF Bus
<1>2. BusInv(bus') /\ bus'.out = << >> /\ b.out \in Seq(FromBus)
  BY <1>1, OutInv
<1>3. toDev \in Seq(FromBus) /\ DevInv(dev)
  BY DEF SlapInv
<1>4. toDev \o b.out \in Seq(FromBus)
  BY <1>2, <1>3, ConcatProperties
<1>5. toDev' \in Seq(FromBus)
  BY <1>1, <1>4, FitType
<1>. QED BY <1>1, <1>2, <1>3, <1>5 DEF SlapInv

\* A step of the client.
LEMMA DevMove ==
  ASSUME SlapInv, NEW d, DevInv(d), Dev(d), toBus' \in Seq(FromDev), toDev' \in Seq(FromBus), left' \in 0 .. MaxFaults
  PROVE  SlapInv'
<1>1. dev' = d /\ bus' = bus
  BY DEF Dev
<1>. QED BY <1>1 DEF SlapInv

\* Faults are counted down.
LEMMA SpendType ==
  ASSUME left \in 0 .. MaxFaults, NEW kind
  PROVE  /\ Spend(kind) => left' \in 0 .. MaxFaults
         /\ TimesOut(kind) => left' \in 0 .. MaxFaults
<1>1. MaxFaults \in Nat
  BY SlapRunAssumption
<1>2. Spend(kind) => left' \in 0 .. MaxFaults
  BY <1>1 DEF Spend
<1>. QED BY <1>2 DEF TimesOut

\* Every step keeps the invariant.
LEMMA SlapStep ==
  ASSUME SlapInv, Next
  PROVE  SlapInv'
<1>1. /\ BusInv(bus) /\ DevInv(dev) /\ toBus \in Seq(FromDev) /\ toDev \in Seq(FromBus) /\ left \in 0 .. MaxFaults
      /\ bus.inc \in Nat \ {0} /\ dev.inc \in Nat \ {0} /\ dev.dataSent \in BOOLEAN /\ dev.txbuf \in Seq(FromDev)
  BY DEF SlapInv, BusInv, BusType, DevInv, DevType
<1>2. << >> \in Seq(FromDev) /\ << >> \in Seq(FromBus)
  OBVIOUS
<1>3. CASE BusRead
  <2>1. Head(toBus) \in FromDev /\ Tail(toBus) \in Seq(FromDev)
    BY <1>1, <1>3 DEF BusRead
  <2>2. BusInv(ReadEventTriggered(bus, Head(toBus)))
    BY <1>1, <2>1, ReadEventTriggeredInv
  <2>3. Bus(ReadEventTriggered(bus, Head(toBus))) /\ toBus' = Tail(toBus) /\ left' = left
    BY <1>3 DEF BusRead
  <2>. QED BY <1>1, <2>1, <2>2, <2>3, BusStep
<1>4. CASE BusSend
  <2>1. BusInv(SendDataAlarm(bus)) /\ Bus(SendDataAlarm(bus)) /\ toBus' = toBus /\ left' = left
    BY <1>1, <1>4, SendDataAlarmInv DEF BusSend
  <2>. QED BY <1>1, <2>1, BusStep
<1>5. CASE BusAck
  <2>1. BusInv(AckAlarm(bus)) /\ Bus(AckAlarm(bus)) /\ toBus' = toBus /\ left' = left
    BY <1>1, <1>5, AckAlarmInv DEF BusAck
  <2>. QED BY <1>1, <2>1, BusStep
<1>6. CASE BusResend
  <2>1. BusInv(ResendDataAlarm(bus)) /\ Bus(ResendDataAlarm(bus)) /\ toBus' = toBus /\ TimesOut("busEarly")
    BY <1>1, <1>6, ResendDataAlarmInv DEF BusResend
  <2>. QED BY <1>1, <2>1, BusStep, SpendType
<1>7. CASE BusCtrl
  <2>1. BusInv(ScheduleLinkControlPacket(bus)) /\ Bus(ScheduleLinkControlPacket(bus)) /\ toBus' = toBus
        /\ TimesOut("busEarly")
    BY <1>1, <1>7, ScheduleLinkControlPacketInv DEF BusCtrl
  <2>. QED BY <1>1, <2>1, BusStep, SpendType
<1>8. CASE BusPush
  <2>1. BusInv(PushPacket(bus)) /\ Bus(PushPacket(bus)) /\ toBus' = toBus /\ left' = left
    BY <1>1, <1>8, PushPacketInv DEF BusPush
  <2>. QED BY <1>1, <2>1, BusStep
<1>9. CASE BusPull
  <2>1. BusInv(PullPacket(bus)) /\ Bus(PullPacket(bus)) /\ toBus' = toBus /\ left' = left
    BY <1>1, <1>9, PullPacketInv DEF BusPull
  <2>. QED BY <1>1, <2>1, BusStep
<1>10. CASE BusClose
  <2>1. PICK versionFound \in BOOLEAN : Bus(Close(bus, versionFound))
    BY <1>10 DEF BusClose
  <2>2. BusInv(Close(bus, versionFound)) /\ toBus' = toBus /\ Spend("busClose")
    BY <1>1, <1>10, CloseInv DEF BusClose
  <2>. QED BY <1>1, <2>1, <2>2, BusStep, SpendType
<1>11. CASE BusGiveUp
  <2>1. BusInv([bus EXCEPT !.link = "DEAD"])
    BY <1>1, BusLinkInv
  <2>2. Bus([bus EXCEPT !.link = "DEAD"]) /\ toBus' = toBus /\ left' = left
    BY <1>11 DEF BusGiveUp
  <2>. QED BY <1>1, <2>1, <2>2, BusStep
<1>12. CASE BusReopen
  <2>. DEFINE b == NewStream(bus.inc + 1)
  <2>1. BusInv(b)
    BY <1>1, NewStreamInv
  <2>2. Bus(ScheduleLinkControlPacket(b)) /\ toBus' = << >> /\ (left' = left \/ Spend("busRestart"))
    BY <1>12 DEF BusReopen
  <2>. HIDE DEF b
  <2>3. BusInv(ScheduleLinkControlPacket(b)) /\ left' \in 0 .. MaxFaults
    BY <1>1, <2>1, <2>2, ScheduleLinkControlPacketInv, SpendType
  <2>. QED BY <1>2, <2>2, <2>3, BusStep
<1>13. CASE DevRun
  <2>1. PICK n \in 0 .. Len(toDev), due \in SUBSET TimersOn(dev) : DevStep(n, due)
    BY <1>13 DEF DevRun
  <2>. DEFINE pkts == SubSeq(toDev, 1, n)
  <2>2. /\ Dev(AJ_StateMachine(dev, pkts, due)) /\ toDev' = Drop(toDev, n) /\ toBus' = toBus
        /\ left' = left \/ TimesOut("devEarly")
    BY <2>1 DEF DevStep
  <2>3. pkts \in Seq(FromBus) /\ Drop(toDev, n) \in Seq(FromBus)
    BY <1>1, DropType
  <2>. HIDE DEF pkts
  <2>4. DevInv(AJ_StateMachine(dev, pkts, due))
    BY <1>1, <2>3, StateMachineInv
  <2>5. left' \in 0 .. MaxFaults
    BY <1>1, <2>2, SpendType
  <2>. QED BY <1>1, <2>2, <2>3, <2>4, <2>5, DevMove
<1>14. CASE AJ_TransmitCallback
  <2>. DEFINE d == [dev EXCEPT !.txbuf = Tail(dev.txbuf), !.dataSent = TRUE]
              txbuf == Tail(dev.txbuf)
  <2>1. /\ dev.txbuf # << >> /\ Dev(d) /\ toBus' = Fit(Append(toBus, Head(dev.txbuf)))
        /\ toDev' = toDev /\ left' = left
    BY <1>14 DEF AJ_TransmitCallback
  <2>2. Head(dev.txbuf) \in FromDev /\ txbuf \in Seq(FromDev) /\ Len(txbuf) = Len(dev.txbuf) - 1
        /\ Len(dev.txbuf) \in Nat
    BY <1>1, <2>1
  <2>3. Append(toBus, Head(dev.txbuf)) \in Seq(FromDev)
    BY <1>1, <2>2
  <2>4. toBus' \in Seq(FromDev)
    BY <2>1, <2>3, FitType
  <2>5. DevInv(d)
    <3>1. dev \in DevType /\ Len(dev.txbuf) <= DevWindow
      BY <1>1 DEF DevInv
    <3>2. Len(txbuf) <= DevWindow
      BY <2>2, <3>1, Windows
    <3>3. d = [dev EXCEPT !.txbuf = txbuf, !.dataSent = TRUE]
      OBVIOUS
    <3>. HIDE DEF txbuf, d
    <3>4. d \in DevType
      BY <2>2, <3>1, <3>3 DEF DevType
    <3>. QED BY <1>1, <3>1, <3>2, <3>3, <3>4 DEF DevInv, DevType
  <2>. HIDE DEF d
  <2>. QED BY <1>1, <2>1, <2>4, <2>5, DevMove
<1>15. CASE AJ_SerialSend
  <2>1. DevInv(SendPacket(dev)) /\ Dev(SendPacket(dev)) /\ toBus' = toBus /\ toDev' = toDev /\ left' = left
    BY <1>1, <1>15, SendPacketInv DEF AJ_SerialSend
  <2>. QED BY <1>1, <2>1, DevMove
<1>16. CASE AJ_SerialRecv
  <2>1. DevInv(RecvPacket(dev)) /\ Dev(RecvPacket(dev)) /\ toBus' = toBus /\ toDev' = toDev /\ left' = left
    BY <1>1, <1>16, RecvPacketInv DEF AJ_SerialRecv
  <2>. QED BY <1>1, <2>1, DevMove
<1>17. CASE AJ_SerialDisconnect
  <2>. DEFINE d == [dev EXCEPT !.link = "DYING", !.linkTime = TRUE, !.closing = TRUE]
  <2>1. Dev(d) /\ Spend("devClose") /\ toBus' = toBus /\ toDev' = toDev
    BY <1>17 DEF AJ_SerialDisconnect
  <2>2. d \in DevType
    BY <1>1 DEF DevInv, DevType, LinkStates
  <2>3. DevInv(d)
    BY <1>1, <2>2 DEF DevInv, DevType
  <2>. HIDE DEF d
  <2>. QED BY <1>1, <2>1, <2>3, DevMove, SpendType
<1>18. CASE AJ_SerialDisconnectEnds
  <2>1. DevInv([dev EXCEPT !.link = "DEAD"])
    BY <1>1, DevLinkInv DEF LinkStates
  <2>2. Dev([dev EXCEPT !.link = "DEAD"]) /\ toBus' = toBus /\ toDev' = toDev /\ left' = left
    BY <1>18 DEF AJ_SerialDisconnectEnds
  <2>. QED BY <1>1, <2>1, <2>2, DevMove
<1>19. CASE AJ_SerialInit
  <2>1. DevInv(NewSerial(dev.inc + 1, dev.dataSent))
    BY <1>1, NewSerialInv
  <2>2. /\ Dev(NewSerial(dev.inc + 1, dev.dataSent)) /\ toDev' = << >> /\ toBus' = toBus
        /\ left' = left \/ Spend("devRestart")
    BY <1>19 DEF AJ_SerialInit
  <2>3. left' \in 0 .. MaxFaults
    BY <1>1, <2>2, SpendType
  <2>. QED BY <1>1, <1>2, <2>1, <2>2, <2>3, DevMove
<1>20. CASE Lose
  <2>1. left' \in 0 .. MaxFaults /\ bus' = bus /\ dev' = dev
    BY <1>1, <1>20, SpendType DEF Lose
  <2>2. toBus' \in Seq(FromDev) /\ toDev' \in Seq(FromBus)
    <3>1. CASE toBus # << >> /\ toBus' = Tail(toBus) /\ toDev' = toDev
      BY <1>1, <3>1
    <3>2. CASE toDev # << >> /\ toDev' = Tail(toDev) /\ toBus' = toBus
      BY <1>1, <3>2
    <3>. QED BY <1>20, <3>1, <3>2 DEF Lose
  <2>. QED BY <2>1, <2>2 DEF SlapInv
<1>. QED BY <1>3, <1>4, <1>5, <1>6, <1>7, <1>8, <1>9, <1>10, <1>11, <1>12, <1>13, <1>14, <1>15,
            <1>16, <1>17, <1>18, <1>19, <1>20 DEF Next

\* The link starts with no buffers at the daemon and all of them at the client.
LEMMA SlapStart ==
  ASSUME Init
  PROVE  SlapInv
<1>1. 1 \in Nat \ {0} /\ TRUE \in BOOLEAN
  OBVIOUS
<1>2. BusInv(NewStream(1)) /\ DevInv(NewSerial(1, TRUE))
  BY <1>1, NewStreamInv, NewSerialInv
<1>3. BusInv(bus) /\ DevInv(dev)
  BY <1>2, ScheduleLinkControlPacketInv DEF Init
<1>4. bus.out = << >>
  BY DEF Init, ScheduleLinkControlPacket, EnqueueCtrl, NewStream
<1>5. toBus \in Seq(FromDev) /\ toDev \in Seq(FromBus) /\ left \in 0 .. MaxFaults
  BY SlapRunAssumption DEF Init
<1>. QED BY <1>3, <1>4, <1>5 DEF SlapInv

\* The packet buffers of both ends, the windows that the packets on the line
\* announce and the types, in every state of the link.
THEOREM SlapInvariant == Spec => []SlapInv
<1>1. Init => SlapInv
  BY SlapStart
<1>2. SlapInv /\ [Next]_vars => SlapInv'
  BY SlapStep DEF vars, SlapInv, BusInv, DevInv
<1>. QED BY <1>1, <1>2, PTL DEF Spec

----------------------------------------------------------------------------
(* The theorems *)

\* For every window, the packet buffers of both ends are accounted for in every
\* state: each one is free, queued, unacknowledged or waiting to be read, except
\* for those that ResendPackets has dropped.  With a window of one it drops none.
THEOREM BuffersSafe == Spec => []BuffersKept
<1>1. ASSUME SlapInv PROVE BuffersKept
  <2>1. BusInv(bus) /\ DevInv(dev)
    BY <1>1 DEF SlapInv
  <2>2. dev.fault = FALSE
    BY <2>1 DEF DevInv, DevType
  <2>. QED BY <2>1, <2>2 DEF BuffersKept, BusInv, DevInv
<1>. QED BY <1>1, SlapInvariant, PTL


\* Type correctness.
THEOREM SlapTyped == Spec => []TypeOK
<1>1. ASSUME SlapInv PROVE TypeOK
  <2>1. BusInv(bus) /\ DevInv(dev) /\ toBus \in Seq(FromDev) /\ toDev \in Seq(FromBus) /\ left \in 0 .. MaxFaults
    BY <1>1 DEF SlapInv
  <2>2. FromBus \subseteq Packets /\ FromDev \subseteq Packets /\ NoPacket \in Packets
    <3>1. NoPacket \in Packets
      BY Windows DEF NoPacket, Packet, Packets
    <3>. QED BY <3>1 DEF FromBus, FromDev
  <2>3. Seq(FromBus) \subseteq Seq(Packets) /\ Seq(FromDev) \subseteq Seq(Packets)
    BY <2>2
  <2>4. EndOK(bus)
    <3>1. /\ bus.link \in LinkStates /\ bus.win \in 1 .. BusWindow /\ bus.ctrl \in FromBus \cup {NoPacket}
          /\ bus.exp \in SeqNums /\ bus.seq \in SeqNums /\ bus.ack \in SeqNums
          /\ bus.txq \in Seq(FromBus) /\ bus.sent \in Seq(FromBus) /\ bus.rxq \in Seq(Pays)
          /\ bus.free \in Nat /\ bus.rxFree \in Nat
      BY <2>1 DEF BusInv, BusType
    <3>2. Len(bus.txq) \in Nat /\ Len(bus.sent) \in Nat /\ Len(bus.rxq) \in Nat /\ BusWindow \in Nat /\ bus.win <= BusWindow
      BY <3>1, LenProperties, Windows
    <3>3. CASE bus.peer = 0
      <4>1. bus.free = 0 /\ bus.rxFree = 0
        BY <2>1, <3>3 DEF BusInv
      <4>2. {bus.free, bus.rxFree} \subseteq 0 .. BusWindow
        BY <3>2, <4>1
      <4>. QED BY <2>2, <2>3, <3>1, <4>2 DEF EndOK
    <3>4. CASE bus.peer # 0
      <4>1. bus.free + Len(bus.txq) + Len(bus.sent) = bus.win /\ bus.rxFree + Len(bus.rxq) = bus.win
        BY <2>1, <3>4 DEF BusInv
      <4>2. \A f, x, y, w, v \in Nat : f + x + y = w /\ w <= v => f \in 0 .. v
        OBVIOUS
      <4>3. \A f, x, w, v \in Nat : f + x = w /\ w <= v => f \in 0 .. v
        OBVIOUS
      <4>4. bus.win \in Nat
        BY <3>1
      <4>5. bus.free \in 0 .. BusWindow
        BY <3>1, <3>2, <4>1, <4>2, <4>4
      <4>6. bus.rxFree \in 0 .. BusWindow
        BY <3>1, <3>2, <4>1, <4>3, <4>4
      <4>7. {bus.free, bus.rxFree} \subseteq 0 .. BusWindow
        BY <4>5, <4>6
      <4>. QED BY <2>2, <2>3, <3>1, <4>7 DEF EndOK
    <3>. QED BY <3>3, <3>4
  <2>5. EndOK(dev)
    <3>1. /\ dev.link \in LinkStates /\ dev.win = DevWindow /\ dev.ctrl \in FromDev \cup {NoPacket}
          /\ dev.exp \in SeqNums /\ dev.seq \in SeqNums /\ dev.ack \in SeqNums
          /\ dev.txq \in Seq(FromDev) /\ dev.sent \in Seq(FromDev) /\ dev.rxq \in Seq(Pays)
          /\ dev.free \in Nat /\ dev.rxFree \in Nat
      BY <2>1 DEF DevInv, DevType
    <3>2. Len(dev.txq) \in Nat /\ Len(dev.sent) \in Nat /\ Len(dev.rxq) \in Nat /\ BusWindow \in Nat /\ DevWindow \in Nat
          /\ DevWindow <= BusWindow /\ DevWindow \in 1 .. BusWindow
      BY <3>1, LenProperties, Windows
    <3>3. /\ dev.free + Len(dev.txq) + Len(dev.sent) + dev.dropped = DevWindow /\ dev.dropped \in Nat
          /\ dev.rxFree + Len(dev.rxq) = DevWindow
      BY <2>1 DEF DevInv, DevType
    <3>4. {dev.free, dev.rxFree} \subseteq 0 .. BusWindow
      <4>1. \A f, x, y, k, w, v \in Nat : f + x + y + k = w /\ w <= v => f \in 0 .. v
        OBVIOUS
      <4>2. \A f, x, w, v \in Nat : f + x = w /\ w <= v => f \in 0 .. v
        OBVIOUS
      <4>3. dev.free \in 0 .. BusWindow
        BY <3>1, <3>2, <3>3, <4>1
      <4>4. dev.rxFree \in 0 .. BusWindow
        BY <3>1, <3>2, <3>3, <4>2
      <4>. QED BY <4>3, <4>4
    <3>. QED BY <2>2, <2>3, <3>1, <3>2, <3>4 DEF EndOK
  <2>. QED BY <2>1, <2>3, <2>4, <2>5 DEF TypeOK
<1>. QED BY <1>1, SlapInvariant, PTL
=============================================================================
