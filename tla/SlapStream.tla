----------------------------- MODULE SlapStream -----------------------------
(***************************************************************************)
(* The daemon's end of a serial link, class SLAPStream.  Every handler     *)
(* runs under m_streamLock; each is an operator from the stream before the *)
(* call to the stream after it, and puts what it writes to the UART in out. *)
(***************************************************************************)
EXTENDS SlapLink

\* The fields of a stream.  The unreliable packet m_txCtrl, when it is
\* queued, is at the head of m_txQueue: ctrl is that packet, txq the rest.
\* m_rxCurrent is a packet beside the rxFree ones.  Of m_pendingAcks only
\* whether it is zero matters but for the delay of the ACK.  inc, pushed, got
\* and peer are history: the life of this end, what it wrote and read in it,
\* and the life of the client that accepted it.
NewStream(inc) ==
  [link |-> "UNINITIALIZED", win |-> BusWindow, cfg |-> 0, vers |-> FALSE,
   ctrl |-> NoPacket, txq |-> << >>, sent |-> << >>, free |-> 0,
   rxFree |-> 0, rxq |-> << >>, exp |-> 0, seq |-> 0, ack |-> 0, pend |-> FALSE,
   sendAlarm |-> FALSE, resendAlarm |-> FALSE, ackAlarm |-> FALSE,
   inc |-> inc, pushed |-> 0, peer |-> 0, got |-> << >>, out |-> << >>]

EnqueueCtrl(b, pkt) == [b EXCEPT !.ctrl = pkt, !.sendAlarm = TRUE]

ScheduleLinkControlPacket(b) ==
  CASE b.link = "UNINITIALIZED" -> EnqueueCtrl(b, Ctrl(b, "CONN"))
    [] b.link = "INITIALIZED"   -> EnqueueCtrl(b, Config(b, "NEGO", b.cfg))
    [] b.link = "DYING"         -> EnqueueCtrl(b, Ctrl(b, "DISC"))
    [] OTHER                    -> b

\* The queue goes out as it is, each packet with the latest ACK number;
\* packets other than control packets settle the pending ACKs.
TransmitToLink(b) ==
  LET head == IF b.ctrl = NoPacket THEN << >>
              ELSE <<IF b.ctrl.type = "ACK" THEN [b.ctrl EXCEPT !.ack = b.ack] ELSE b.ctrl>>
      settles == b.txq # << >> \/ b.ctrl.type = "ACK"
  IN  [b EXCEPT !.out = @ \o head \o Queued(b.txq, b.ack),
                !.ctrl = NoPacket, !.txq = << >>, !.sent = @ \o b.txq,
                !.pend = @ /\ ~settles, !.ackAlarm = @ /\ ~(settles /\ b.pend),
                !.resendAlarm = @ \/ b.sent \o b.txq # << >>]

ProcessDataSeqNum(b, seq) ==
  [b EXCEPT !.ack = IF SEQ_GT(b.ack, seq, b.win) THEN @ ELSE Incr(seq),
            !.pend = TRUE, !.ackAlarm = TRUE]

ProcessAckNum(b, ack) ==
  LET n == Acked(b.sent, ack, b.win)
  IN  [b EXCEPT !.sent = Drop(@, n), !.free = @ + n, !.resendAlarm = n < Len(b.sent)]

\* Mutant: a packet that has been received is not acknowledged again.
ReceiveNewData(b0, pkt) ==
  LET b == ProcessAckNum(b0, pkt.ack)
  IN  IF pkt.seq # b.exp \/ b.rxFree = 0 THEN b
      ELSE [ProcessDataSeqNum(b, pkt.seq)
              EXCEPT !.exp = Incr(@), !.rxq = Append(@, pkt.pay), !.rxFree = @ - 1]

\* A data packet, in whatever state the link is.
ReceiveData(b0, pkt) ==
  LET b == ProcessAckNum(b0, pkt.ack)
  IN  IF pkt.seq # b.exp
      THEN IF SEQ_GT(pkt.seq, b.exp, b.win) THEN b ELSE ProcessDataSeqNum(b, pkt.seq)
      ELSE IF b.rxFree = 0 THEN b
      ELSE [ProcessDataSeqNum(b, pkt.seq)
              EXCEPT !.exp = Incr(@), !.rxq = Append(@, pkt.pay), !.rxFree = @ - 1]

\* LINK_INITIALIZED: the answer to our configuration.
Configure(b, pkt) ==
  LET win == pkt.win
      c == [b EXCEPT !.win = win, !.vers = TRUE]
  IN  IF win > BusWindow THEN [c EXCEPT !.link = "DEAD"]
      ELSE [c EXCEPT !.free = win, !.rxFree = win, !.link = "ACTIVE", !.peer = pkt.pay[1]]

\* LINK_INITIALIZED: the other end's configuration; the smaller window wins.
Agree(b, win) ==
  LET agreed == IF win < BusWindow THEN win ELSE BusWindow
  IN  EnqueueCtrl([b EXCEPT !.win = agreed, !.vers = TRUE, !.cfg = agreed],
                  Config(b, "NRSP", agreed))

ProcessControlPacket(b, pkt) ==
  LET t == pkt.type
  IN  CASE b.link = "UNINITIALIZED" /\ t = "CONN" -> EnqueueCtrl(b, Ctrl(b, "ACPT"))
        [] b.link = "UNINITIALIZED" /\ t = "ACPT" ->
             EnqueueCtrl([b EXCEPT !.link = "INITIALIZED", !.cfg = BusWindow],
                         Config(b, "NEGO", BusWindow))
        [] b.link = "INITIALIZED" /\ t = "CONN" -> EnqueueCtrl(b, Ctrl(b, "ACPT"))
        [] b.link = "INITIALIZED" /\ t = "NRSP" -> Configure(b, pkt)
        [] b.link = "INITIALIZED" /\ t = "NEGO" -> Agree(b, pkt.win)
        [] b.link = "ACTIVE" /\ t = "NEGO" ->
             EnqueueCtrl([b EXCEPT !.cfg = b.win], Config(b, "NRSP", b.win))
        [] b.link = "ACTIVE" /\ t = "CONN" -> [b EXCEPT !.link = "DEAD"]
        [] b.link = "ACTIVE" /\ t = "DISC" ->
             EnqueueCtrl([b EXCEPT !.link = "DEAD"], Ctrl(b, "DRSP"))
        [] b.link = "DYING" /\ t = "DRSP" -> [b EXCEPT !.link = "DEAD"]
        [] b.link = "DYING" /\ t = "DISC" -> EnqueueCtrl(b, Ctrl(b, "DRSP"))
        [] OTHER -> b

ReadEventTriggered(b, pkt) ==
  CASE pkt.type = "DATA" -> ReceiveData(b, pkt)
    [] pkt.type = "ACK"  -> ProcessAckNum(b, pkt.ack)
    [] OTHER             -> ProcessControlPacket(b, pkt)

----------------------------------------------------------------------------
(* AlarmTriggered: the timer removes an alarm before it calls back. *)

SendDataAlarm(b) == TransmitToLink([b EXCEPT !.sendAlarm = FALSE])

\* m_txSent goes back to the head of m_txQueue, behind m_txCtrl.
ResendDataAlarm(b0) ==
  LET b == [b0 EXCEPT !.resendAlarm = FALSE]
  IN  IF b.link # "ACTIVE" \/ b.sent = << >> THEN b
      ELSE TransmitToLink([b EXCEPT !.txq = b.sent \o @, !.sent = << >>])

\* ... and falls through to the link control packet.
AckAlarm(b0) ==
  LET b == [b0 EXCEPT !.ackAlarm = FALSE]
      acked == IF ~b.pend THEN b
               ELSE TransmitToLink([b EXCEPT !.pend = FALSE, !.ctrl = Ack(b)])
  IN  ScheduleLinkControlPacket(acked)

\* PushBytes and PullBytes, a packet at a time.
PushPacket(b) ==
  [b EXCEPT !.free = @ - 1, !.seq = Incr(@), !.pushed = @ + 1,
            !.txq = Append(@, Data(b)), !.sendAlarm = TRUE]

PullPacket(b) ==
  [b EXCEPT !.rxq = Tail(@), !.rxFree = @ + 1, !.got = Append(@, Head(b.rxq))]

\* Close: the link goes through LINK_DYING if the protocol version it finds
\* allows; no version is negotiated before vers, and the field is not
\* initialised.
Close(b, versionFound) ==
  IF b.link = "DEAD" THEN b
  ELSE IF b.vers \/ versionFound
       THEN ScheduleLinkControlPacket([b EXCEPT !.link = "DYING"])
       ELSE [b EXCEPT !.link = "DEAD"]
=============================================================================
