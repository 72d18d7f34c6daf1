----------------------------- MODULE SlapSerial -----------------------------
(***************************************************************************)
(* The thin client's end of a serial link: aj_serial.c, aj_serial_tx.c and *)
(* aj_serial_rx.c.  One thread runs all of it except the two callbacks of  *)
(* the UART driver, so that each function is an operator from the state    *)
(* before it to the state after it.                                        *)
(***************************************************************************)
EXTENDS SlapLink, SequencesExt

\* The state AJ_SerialInit leaves.  ctrl is txUnreliable when it is queued, at
\* the head of txQueue; txbuf are the buffers handed to the UART; a timer is
\* on when it is not at AJ_TIMER_FOREVER.  dataSent is not among what
\* AJ_SerialInit sets.  inc, pushed, got, peer and dropped are history: the life
\* of this end, what it wrote and read in it, the life it was accepted by and
\* the number of packets that are on no list any more.
NewSerial(inc, dataSent) ==
  [link |-> "UNINITIALIZED", win |-> DevWindow, dataSent |-> dataSent,
   ctrl |-> NoPacket, txq |-> << >>, sent |-> << >>, free |-> DevWindow, txbuf |-> << >>,
   rxFree |-> DevWindow, rxq |-> << >>, exp |-> 0, seq |-> 0, ack |-> 0, pend |-> 0,
   resendTime |-> FALSE, resendPrimed |-> FALSE, ackTime |-> FALSE, linkTime |-> TRUE,
   inc |-> inc, pushed |-> 0, peer |-> 0, got |-> << >>, dropped |-> 0, closing |-> FALSE,
   fault |-> FALSE]

AJ_SerialTX_EnqueueCtrl(d, pkt) == [d EXCEPT !.ctrl = pkt]

\* SendNegotiationPacket announces maxWindowSize, whatever was agreed.
SendNegotiationPacket(d, type) == AJ_SerialTX_EnqueueCtrl(d, Config(d, type, DevWindow))

ProcessNegoPacket(d, win) == [d EXCEPT !.win = IF win < DevWindow THEN win ELSE DevWindow]

\* Mutant: CONN is answered in every state.
AJ_Serial_AcceptAlways(d, pkt) ==
  LET t == pkt.type
  IN  CASE t = "CONN" -> AJ_SerialTX_EnqueueCtrl(d, Ctrl(d, "ACPT"))
        [] d.link = "UNINITIALIZED" /\ t = "ACPT" ->
             SendNegotiationPacket([d EXCEPT !.link = "INITIALIZED"], "NEGO")
        [] d.link \in {"INITIALIZED", "ACTIVE"} /\ t = "NEGO" ->
             SendNegotiationPacket(ProcessNegoPacket(d, pkt.win), "NRSP")
        [] d.link = "INITIALIZED" /\ t = "NRSP" -> [d EXCEPT !.link = "ACTIVE", !.peer = pkt.pay[1]]
        [] OTHER -> d

AJ_Serial_LinkPacket(d, pkt) ==
  LET t == pkt.type
  IN  CASE d.link \in {"UNINITIALIZED", "INITIALIZED"} /\ t = "CONN" ->
             AJ_SerialTX_EnqueueCtrl(d, Ctrl(d, "ACPT"))
        [] d.link = "UNINITIALIZED" /\ t = "ACPT" ->
             SendNegotiationPacket([d EXCEPT !.link = "INITIALIZED"], "NEGO")
        [] d.link \in {"INITIALIZED", "ACTIVE"} /\ t = "NEGO" ->
             SendNegotiationPacket(ProcessNegoPacket(d, pkt.win), "NRSP")
        [] d.link = "INITIALIZED" /\ t = "NRSP" -> [d EXCEPT !.link = "ACTIVE", !.peer = pkt.pay[1]]
        [] d.link = "ACTIVE" /\ t = "CONN" -> [d EXCEPT !.link = "DEAD"]
        [] d.link = "ACTIVE" /\ t = "DISC" ->
             AJ_SerialTX_EnqueueCtrl([d EXCEPT !.link = "DYING"], Ctrl(d, "DRSP"))
        [] d.link = "DYING" /\ t = "DISC" ->
             AJ_SerialTX_EnqueueCtrl([d EXCEPT !.link = "DEAD"], Ctrl(d, "DRSP"))
        [] d.link = "DYING" /\ t = "DRSP" -> [d EXCEPT !.link = "DEAD"]
        [] OTHER -> d

\* Mutant: the buffers stay on the list of sent packets too.
AJ_SerialTx_KeepsSent(d, ack) ==
  LET n == Acked(d.sent, ack, d.win)
  IN  [d EXCEPT !.free = @ + n]

AJ_SerialTx_ReceivedAck(d, ack) ==
  LET n == Acked(d.sent, ack, d.win)
  IN  [d EXCEPT !.sent = Drop(@, n), !.free = @ + n,
                !.resendTime = IF n = 0 THEN @ ELSE n < Len(d.sent),
                !.resendPrimed = IF n = 0 THEN @ ELSE n < Len(d.sent)]

AJ_SerialTx_ReceivedSeq(d, seq) ==
  LET p == IF d.pend > d.win THEN d.pend ELSE d.pend + 1
      c == [d EXCEPT !.ack = IF SEQ_GT(d.ack, seq, d.win) THEN @ ELSE Incr(seq), !.pend = p]
  IN  IF p = 1 THEN [c EXCEPT !.ackTime = TRUE]
      ELSE IF p = d.win THEN AJ_SerialTX_EnqueueCtrl(c, Ack(d))
      ELSE c

\* Mutant: the sequence number is not compared with the expected one.
CompleteAnyPacket(d0, pkt) ==
  IF pkt.type \in CtrlTypes THEN AJ_Serial_LinkPacket(d0, pkt)
  ELSE IF d0.link # "ACTIVE" THEN d0
  ELSE LET d == AJ_SerialTx_ReceivedAck(d0, pkt.ack)
       IN  IF pkt.type # "DATA" \/ d.rxFree = 0 THEN d
           ELSE AJ_SerialTx_ReceivedSeq(
                  [d EXCEPT !.exp = Incr(@), !.rxq = Append(@, pkt.pay), !.rxFree = @ - 1],
                  pkt.seq)

\* CompletePacket, for a packet whose CRC is right.
CompletePacket(d0, pkt) ==
  IF pkt.type \in CtrlTypes THEN AJ_Serial_LinkPacket(d0, pkt)
  ELSE IF d0.link # "ACTIVE" THEN d0
  ELSE LET d == AJ_SerialTx_ReceivedAck(d0, pkt.ack)
       IN  IF pkt.type # "DATA" THEN d
           ELSE IF pkt.seq # d.exp
           THEN IF SEQ_GT(pkt.seq, d.exp, d.win) THEN d ELSE AJ_SerialTx_ReceivedSeq(d, pkt.seq)
           ELSE IF d.rxFree = 0 THEN d
           ELSE AJ_SerialTx_ReceivedSeq(
                  [d EXCEPT !.exp = Incr(@), !.rxq = Append(@, pkt.pay), !.rxFree = @ - 1],
                  pkt.seq)

\* AJ_FillTxBufferList: as many packets of the queue as there are free
\* buffers; ConvertPacketToBytes asserts that they fit in the window.
AJ_FillTxBufferList(d) ==
  IF ~d.dataSent THEN d ELSE
  LET room == DevWindow - Len(d.txbuf)
      ctrl == room > 0 /\ d.ctrl # NoPacket
      left == IF ctrl THEN room - 1 ELSE room
      n == IF left < Len(d.txq) THEN left ELSE Len(d.txq)
      head == IF ctrl THEN <<IF d.ctrl.type = "ACK" THEN [d.ctrl EXCEPT !.ack = d.ack] ELSE d.ctrl>>
              ELSE << >>
      settles == n > 0 \/ (ctrl /\ d.ctrl.type = "ACK")
  IN  [d EXCEPT !.ctrl = IF ctrl THEN NoPacket ELSE @,
                !.txbuf = @ \o head \o Queued(SubSeq(d.txq, 1, n), d.ack),
                !.dataSent = (Len(d.txbuf \o head) + n < DevWindow)
                               \/ (d.txq = << >> /\ d.ctrl = NoPacket),
                !.txq = Drop(@, n), !.sent = @ \o SubSeq(d.txq, 1, n),
                !.resendTime = @ \/ n > 0,
                !.pend = IF settles THEN 0 ELSE @,
                !.ackTime = @ /\ ~(settles /\ d.pend > 0),
                !.fault = @ \/ Len(d.sent) + n > d.win]

\* ResendPackets.  Behind the unreliable packet only the last of txSent is
\* linked into the queue.
ResendPackets(d0) ==
  LET d == [d0 EXCEPT !.resendTime = FALSE, !.resendPrimed = FALSE]
  IN  IF d.link # "ACTIVE" \/ d.sent = << >> THEN d
      ELSE [d EXCEPT !.sent = << >>,
                     !.txq = IF d.ctrl # NoPacket THEN <<Last(d.sent)>> \o @ ELSE d.sent \o @,
                     !.dropped = IF d.ctrl # NoPacket THEN @ + Len(d.sent) - 1 ELSE @]

SendAck(d) ==
  LET c == IF d.pend = 0 THEN d ELSE AJ_SerialTX_EnqueueCtrl([d EXCEPT !.pend = 0], Ack(d))
  IN  [c EXCEPT !.ackTime = FALSE]

\* Mutants: the handshake starts over with CONN while it is under way; the
\* link packet is not repeated.
SendConnAgain(d) ==
  CASE d.link \in {"UNINITIALIZED", "INITIALIZED"} -> AJ_SerialTX_EnqueueCtrl(d, Ctrl(d, "CONN"))
    [] d.link = "DYING" -> AJ_SerialTX_EnqueueCtrl(d, Ctrl(d, "DISC"))
    [] OTHER            -> [d EXCEPT !.linkTime = FALSE]

SendLinkPacketOnce(d) ==
  CASE d.link = "UNINITIALIZED" -> AJ_SerialTX_EnqueueCtrl([d EXCEPT !.linkTime = FALSE], Ctrl(d, "CONN"))
    [] d.link = "INITIALIZED"   -> SendNegotiationPacket(d, "NEGO")
    [] d.link = "DYING"         -> AJ_SerialTX_EnqueueCtrl(d, Ctrl(d, "DISC"))
    [] OTHER                    -> [d EXCEPT !.linkTime = FALSE]

SendLinkPacket(d) ==
  CASE d.link = "UNINITIALIZED" -> AJ_SerialTX_EnqueueCtrl(d, Ctrl(d, "CONN"))
    [] d.link = "INITIALIZED"   -> SendNegotiationPacket(d, "NEGO")
    [] d.link = "DYING"         -> AJ_SerialTX_EnqueueCtrl(d, Ctrl(d, "DISC"))
    [] OTHER                    -> [d EXCEPT !.linkTime = FALSE]

\* The timers that are on before a step, and may have run out by then.
TimersOn(d) == {t \in {"resend", "ack", "link"} :
                  \/ t = "resend" /\ d.resendTime
                  \/ t = "ack" /\ d.ackTime
                  \/ t = "link" /\ d.linkTime}

\* The packets of the receive buffers, one after the other.
AJ_ProcessRxBufferList(d, pkts) ==
  LET after[n \in 0 .. Len(pkts)] == IF n = 0 THEN d ELSE CompletePacket(after[n - 1], pkts[n])
  IN  after[Len(pkts)]

\* AJ_StateMachine: the packets pkts have come in, the timers in due had run
\* out when it started; one that an ACK or a new packet restarts is not due.
AJ_StateMachine(d, pkts, due) ==
  LET read   == AJ_ProcessRxBufferList(d, pkts)
      filled == AJ_FillTxBufferList(read)
      restarted == \/ Len(read.sent) < Len(d.sent)
                   \/ Len(filled.sent) > Len(read.sent) /\ ~read.resendPrimed
      resent == IF "resend" \in due /\ filled.resendTime /\ ~restarted
                THEN ResendPackets(filled) ELSE filled
      acked  == IF "ack" \in due /\ resent.ackTime THEN SendAck(resent) ELSE resent
  IN  IF "link" \in due THEN SendLinkPacket(acked) ELSE acked

\* AJ_SerialSend and AJ_SerialRecv, a packet at a time.
SendPacket(d) ==
  [d EXCEPT !.free = @ - 1, !.seq = Incr(@), !.pushed = @ + 1,
            !.txq = Append(@, Data(d))]

RecvPacket(d) ==
  [d EXCEPT !.rxq = Tail(@), !.rxFree = @ + 1, !.got = Append(@, Head(d.rxq))]
=============================================================================
