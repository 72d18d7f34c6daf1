-------------------------------- MODULE Slap --------------------------------
(***************************************************************************)
(* A daemon and a thin client on a serial line: the two implementations of *)
(* SLAP against each other.  The line keeps packets in order and may lose  *)
(* any of them (a wrong CRC, a truncated write, an overrun).               *)
(***************************************************************************)
EXTENDS SlapStream, SlapSerial

CONSTANTS Quota,       \* how many packets each end writes in one life
          MaxWire,     \* packets the line holds in one direction
          Faults,      \* the faults that happen, of the following ...
          MaxFaults    \* ... and how many of them

\* The line loses a packet; a timer that repeats packets runs out although the
\* answer is on its way; the daemon or the client starts anew (which takes
\* longer than the line needs to run dry); the user of an end closes the link.
FaultKinds == {"loss", "busEarly", "devEarly", "busRestart", "devRestart", "busClose", "devClose"}

ASSUME SlapRunAssumption ==
  /\ Quota \in [{"bus", "dev"} -> Nat] /\ MaxWire \in Nat \ {0}
  /\ Faults \subseteq FaultKinds /\ MaxFaults \in Nat

VARIABLES bus,           \* the daemon's SLAPStream
          dev,           \* the thin client's serial transport
          toBus, toDev,  \* the packets on the line
          left           \* how many faults may still happen

vars == <<bus, dev, toBus, toDev, left>>

Spend(kind) == kind \in Faults /\ left > 0 /\ left' = left - 1

\* Nothing is being sent, on the line or waiting to be acknowledged.
Idle == /\ toBus = << >> /\ toDev = << >> /\ dev.txbuf = << >>
        /\ dev.ctrl = NoPacket /\ dev.txq = << >>
        /\ ~bus.sendAlarm /\ ~bus.ackAlarm /\ ~dev.ackTime

\* A timer that repeats a packet runs out.  The timeouts are longer than an
\* undisturbed exchange; they may be shorter than one that is held up.
TimesOut(kind) == IF Idle THEN UNCHANGED left ELSE Spend(kind)

\* The line has run dry.
Quiet == /\ toBus = << >> /\ toDev = << >> /\ dev.txbuf = << >>
         /\ dev.ctrl = NoPacket /\ ~bus.sendAlarm

Fit(line) == SubSeq(line, 1, IF Len(line) < MaxWire THEN Len(line) ELSE MaxWire)

----------------------------------------------------------------------------
(* The daemon *)

\* What a handler of the stream wrote goes on the line.
Bus(outcome) ==
  \E b \in {outcome} :
    bus' = [b EXCEPT !.out = << >>] /\ toDev' = Fit(toDev \o b.out) /\ UNCHANGED dev

BusRead ==
  /\ toBus # << >> /\ Bus(ReadEventTriggered(bus, Head(toBus)))
  /\ toBus' = Tail(toBus) /\ UNCHANGED left

BusSend == bus.sendAlarm /\ Bus(SendDataAlarm(bus)) /\ UNCHANGED <<toBus, left>>

BusAck == bus.ackAlarm /\ Bus(AckAlarm(bus)) /\ UNCHANGED <<toBus, left>>

BusResend == /\ bus.resendAlarm /\ Bus(ResendDataAlarm(bus))
             /\ TimesOut("busEarly") /\ UNCHANGED toBus

\* RESEND_CONTROL_ALARM is scheduled as long as there is a packet to repeat.
BusCtrl == /\ bus.link \in {"UNINITIALIZED", "INITIALIZED", "DYING"}
           /\ Bus(ScheduleLinkControlPacket(bus))
           /\ TimesOut("busEarly") /\ UNCHANGED toBus

BusPush == /\ bus.link # "DEAD" /\ bus.free > 0 /\ bus.pushed < Quota["bus"]
           /\ Bus(PushPacket(bus)) /\ UNCHANGED <<toBus, left>>

BusPull == /\ bus.link # "DEAD" /\ bus.rxq # << >>
           /\ Bus(PullPacket(bus)) /\ UNCHANGED <<toBus, left>>

BusClose == /\ bus.link \notin {"DYING", "DEAD"} /\ Spend("busClose")
            /\ \E versionFound \in BOOLEAN : Bus(Close(bus, versionFound))
            /\ UNCHANGED toBus

\* Close has waited for DRSP for four timeouts.
BusGiveUp == bus.link = "DYING" /\ Idle /\ Bus([bus EXCEPT !.link = "DEAD"]) /\ UNCHANGED <<toBus, left>>

\* The endpoint of a dead link is closed and the port opened again, or the
\* daemon restarts: opening the UART flushes what has arrived.
BusReopen == /\ IF bus.link = "DEAD" THEN UNCHANGED left
                ELSE Spend("busRestart") /\ Quiet
             /\ Bus(ScheduleLinkControlPacket(NewStream(bus.inc + 1)))
             /\ toBus' = << >>

----------------------------------------------------------------------------
(* The thin client *)

Dev(d) == dev' = d /\ UNCHANGED bus

DevStep(n, due) ==
  /\ n <= Len(toDev) /\ (n > 0 => dev.rxFree > 0) /\ due \subseteq TimersOn(dev)
  /\ Dev(AJ_StateMachine(dev, SubSeq(toDev, 1, n), due))
  /\ IF due \subseteq {"ack"} THEN UNCHANGED left ELSE TimesOut("devEarly")
  /\ toDev' = Drop(toDev, n) /\ UNCHANGED toBus

DevRun == \E n \in 0 .. Len(toDev), due \in SUBSET TimersOn(dev) : DevStep(n, due)

\* AJ_TransmitCallback: the UART has sent a buffer.
AJ_TransmitCallback ==
  /\ dev.txbuf # << >> /\ Dev([dev EXCEPT !.txbuf = Tail(@), !.dataSent = TRUE])
  /\ toBus' = Fit(Append(toBus, Head(dev.txbuf))) /\ UNCHANGED <<toDev, left>>

AJ_SerialSend == /\ dev.link = "ACTIVE" /\ dev.free > 0 /\ dev.pushed < Quota["dev"]
                 /\ Dev(SendPacket(dev)) /\ UNCHANGED <<toBus, toDev, left>>

AJ_SerialRecv == /\ dev.link # "DEAD" /\ dev.rxq # << >>
                 /\ Dev(RecvPacket(dev)) /\ UNCHANGED <<toBus, toDev, left>>

AJ_SerialDisconnect ==
  /\ dev.link # "DEAD" /\ Spend("devClose")
  /\ Dev([dev EXCEPT !.link = "DYING", !.linkTime = TRUE, !.closing = TRUE]) /\ UNCHANGED <<toBus, toDev>>

\* ... has run the state machine for four timeouts.
AJ_SerialDisconnectEnds ==
  /\ dev.link = "DYING" /\ Idle /\ dev.closing
  /\ Dev([dev EXCEPT !.link = "DEAD"]) /\ UNCHANGED <<toBus, toDev, left>>

\* AJ_SerialShutdown and AJ_SerialInit, after a dead link or because the
\* application connects again.  The UART is set up anew: what was on its way to
\* the client is lost.
AJ_SerialInit ==
  /\ IF dev.link = "DEAD" THEN UNCHANGED left ELSE Spend("devRestart") /\ Quiet
  /\ Dev(NewSerial(dev.inc + 1, dev.dataSent)) /\ toDev' = << >> /\ UNCHANGED toBus

----------------------------------------------------------------------------

Lose ==
  /\ Spend("loss")
  /\ \/ toBus # << >> /\ toBus' = Tail(toBus) /\ UNCHANGED toDev
     \/ toDev # << >> /\ toDev' = Tail(toDev) /\ UNCHANGED toBus
  /\ UNCHANGED <<bus, dev>>

Next ==
  \/ BusRead \/ BusSend \/ BusAck \/ BusResend \/ BusCtrl \/ BusPush \/ BusPull
  \/ BusClose \/ BusGiveUp \/ BusReopen
  \/ DevRun \/ AJ_TransmitCallback \/ AJ_SerialSend \/ AJ_SerialRecv
  \/ AJ_SerialDisconnect \/ AJ_SerialDisconnectEnds \/ AJ_SerialInit
  \/ Lose

Init == /\ bus = ScheduleLinkControlPacket(NewStream(1)) /\ dev = NewSerial(1, TRUE)
        /\ toBus = << >> /\ toDev = << >> /\ left = MaxFaults

Spec == Init /\ [][Next]_vars

\* The daemon's timer thread and UART reader run, the client's application
\* keeps calling AJ_SerialRecv or AJ_SerialSend and so AJ_StateMachine; both
\* ends read what has come in and open a dead link again.  A timer that is on
\* again and again runs out: that it waits for Idle stands for its length.
Work ==
  \/ BusRead \/ BusSend \/ BusAck \/ BusPush
  \/ \E n \in 0 .. Len(toDev) : DevStep(n, {})
  \/ DevStep(0, TimersOn(dev) \cap {"ack"})
  \/ AJ_TransmitCallback \/ AJ_SerialSend

Fairness ==
  /\ WF_vars(Work) /\ WF_vars(BusPull) /\ WF_vars(AJ_SerialRecv)
  /\ WF_vars(bus.link = "DEAD" /\ BusReopen) /\ WF_vars(dev.link = "DEAD" /\ AJ_SerialInit)
  /\ SF_vars(BusResend) /\ SF_vars(BusCtrl)
  /\ SF_vars(DevStep(0, {"resend"})) /\ SF_vars(DevStep(0, {"link"}))
  /\ SF_vars(BusGiveUp) /\ SF_vars(AJ_SerialDisconnectEnds)

FairSpec == Spec /\ Fairness

----------------------------------------------------------------------------
(* Properties *)

Packets ==
  [type : CtrlTypes \cup {"DATA", "ACK", "NONE"}, seq : SeqNums, ack : SeqNums,
   win : 0 .. BusWindow, pay : Nat \X Nat]

EndOK(e) ==
  /\ e.link \in LinkStates /\ e.win \in 1 .. BusWindow /\ e.ctrl \in Packets
  /\ {e.exp, e.seq, e.ack} \subseteq SeqNums
  /\ \A q \in {e.txq, e.sent} : q \in Seq(Packets)
  /\ {e.free, e.rxFree} \subseteq 0 .. BusWindow

\* Type invariant: link states, sequence numbers below the modulus, packets.
TypeOK == /\ EndOK(bus) /\ EndOK(dev)
          /\ toBus \in Seq(Packets) /\ toDev \in Seq(Packets) /\ left \in 0 .. MaxFaults

\* What an end has received is what one life of the other end wrote, in order,
\* whole and once, although packets are lost and sent again, sequence numbers
\* wrap around and either end may start anew in between.
Intact(got) == \A k \in DOMAIN got : got[k] = <<got[1][1], k>>

StreamIntact == Intact(bus.got \o bus.rxq) /\ Intact(dev.got \o dev.rxq)

\* What ResendPackets says of itself, that all unacknowledged packets are sent
\* again: a transmit buffer of the client is free, queued or waiting for its ACK,
\* so that no packet is dropped before it is acknowledged.
UnackedKept == dev.free + Len(dev.txq) + Len(dev.sent) = DevWindow

\* No packet buffer is lost or used twice: each one is free, queued or waiting
\* for its ACK (transmit side), free or waiting to be read (receive side).  The
\* exception is what ResendPackets leaves behind a control packet (UnackedKept
\* is false): those are the only buffers missing, and never all of them.  The
\* client never has more packets unacknowledged than the window allows, which
\* ConvertPacketToBytes and txSentPending assert, nor more with the UART.
BuffersKept ==
  /\ dev.free + Len(dev.txq) + Len(dev.sent) + dev.dropped = DevWindow /\ dev.dropped < DevWindow
  /\ dev.rxFree + Len(dev.rxq) = DevWindow
  /\ bus.peer # 0 => /\ bus.free + Len(bus.txq) + Len(bus.sent) = bus.win
                     /\ bus.rxFree + Len(bus.rxq) = bus.win
  /\ Len(dev.txbuf) <= DevWindow /\ ~dev.fault

\* Two ends that are both active were brought up by each other, in their
\* present lives, and agree on the window: neither continues a connection
\* that the other has forgotten.  Eight disturbances in a row can break it
\* (other_life.cfg): SLAP has no incarnation numbers.
Up == bus.link = "ACTIVE" /\ dev.link = "ACTIVE"

EndsAgree == Up => bus.peer = dev.inc /\ dev.peer = bus.inc /\ bus.win = dev.win

\* An active end takes its link down only because the other end has started
\* anew or is closing: a repeated or late packet of the handshake that brought
\* the link up does not reset it.
ResetsAreReal ==
  [][/\ bus.link = "ACTIVE" /\ bus'.link = "DEAD" /\ bus'.inc = bus.inc =>
          dev.inc # bus.peer \/ dev.link \in {"DYING", "DEAD"}
     /\ dev.link = "ACTIVE" /\ dev'.link = "DEAD" /\ dev'.inc = dev.inc =>
          bus.inc # dev.peer \/ bus.link \in {"DYING", "DEAD"}]_vars

\* The client can get stuck: in LINK_DYING after a DISC that was answered at
\* once, where it ignores CONN; or initialised anew while all its buffers were
\* with the UART, with dataSent still clear.
Stuck == dev.link = "DYING" \/ (~dev.dataSent /\ dev.txbuf = << >>)

\* Unless the client is stuck, the link comes up and stays up once there are
\* no more faults: lost control packets are repeated, an end that finds the
\* other restarted opens the link again, and neither keeps resetting the other.
LinkRecovers == <>[](Up \/ Stuck)

\* ... and everything written on a link that stays up arrives, in both
\* directions, whichever data packets and ACKs were lost, unless ResendPackets
\* has left a gap that the client tries to close for ever.
DataArrives ==
  <>[](Up => \/ Len(dev.got) = Quota["bus"] /\ Len(bus.got) = Quota["dev"]
             \/ dev.dropped > 0)
=============================================================================
