------------------------------ MODULE ArdpConn ------------------------------
(***************************************************************************)
(* One ARDP connection record (ArdpConnRecord) and the handlers of         *)
(* ArdpProtocol.cc that work on it, each an operator from the record       *)
(* before the call to the record after it.  A handler runs under the       *)
(* transport's m_ardpLock, so a whole call is one atomic step; the         *)
(* datagrams it sends are collected in the field out.                      *)
(*                                                                         *)
(* Clock values are left out: a timer is its retry count (0 is off) and    *)
(* may find itself due at any time, which covers every RTT, backoff, fast  *)
(* retransmit and scheduling delay.  RBUF.window, ackPending and acknxt    *)
(* are written but steer nothing else, and are left out with them.         *)
(***************************************************************************)
EXTENDS ArdpSeq, ArdpRcvMsk, SequencesExt

CONSTANTS SegMax,            \* ARDP_SEGMAX: SND.MAX and RCV.MAX after a handshake
          WinMod,            \* 2^16: conn->window and SEG.WINDOW are uint16_t
          MinSendWindow,     \* segments of the longest AllJoyn message
          ConnectRetries, DataRetries, PersistRetries, ProbeRetries,
          Ports,             \* ARDP ports; 0 is "not known yet"
          MaxMsgs,           \* messages an upper layer sends per connection
          Ndebug             \* failing assertions that do not stop the node

ASSUME ConnAssumption ==
  /\ SegMax \in Nat \ {0} /\ 2 * SegMax < SeqSize /\ SeqSize % SegMax = 0
  /\ SegMax <= WordBits
  /\ WinMod \in Nat \ {0} /\ SegMax < WinMod /\ SeqSize % WinMod = 0
  /\ MinSendWindow \in Nat /\ MaxMsgs \in Nat
  /\ ConnectRetries \in Nat /\ DataRetries \in Nat
  /\ PersistRetries \in Nat /\ ProbeRetries \in Nat \ {0}
  /\ Ports \subseteq Nat \ {0}
  /\ Ndebug \subseteq {"LastJump", "SendQueueFull"}

SeqPlus(a, n) == Plus(a, n % SeqSize)

\* The members of a finite set S in an order given by Before, and a set of
\* numbers in ascending order.
InOrderOf(S, Before(_, _)) ==
  [k \in 1 .. Cardinality(S) |-> CHOOSE i \in S : Cardinality({j \in S : Before(j, i)}) = k - 1]
Ascending(S) == InOrderOf(S, <)

Slots == 0 .. SegMax - 1
Slot(q) == q % SegMax

\* Result of a send on the UDP socket (qcc::SendToSG).
SockStatus == {"ok", "wouldblock", "error"}

Ttl == {"infinite", "live", "expired"}

States == {"UNUSED", "CLOSED", "LISTEN", "SYN_SENT", "SYN_RCVD", "OPEN",
           "CLOSE_WAIT", "FREED"}

Reasons == {"OK", "REMOTE_RESET", "INVALID_RESPONSE", "TIMEOUT", "SOCKET",
            "TTL_EXPIRED", "PERSIST_TIMEOUT", "PROBE_TIMEOUT",
            "INVALID_CONNECTION"}

\* The assertions a connection can run into: CheckConnTimers (486),
\* FlushMessage (608), RetransmitTimerHandler (981), SendData (1387),
\* UpdateSndSegments (1539, 1549-1550), UpdateRcvBuffers (1709, 1714-1720,
\* 1731-1732) and AddRcvBuffer (1788, 1807).
Asserts == {"PersistWithData", "PendingUnderflow", "ResendFlushed", "SendQueueFull",
            "LcsBeyondUna", "AckNotInUse", "ReleaseOrder", "ReleaseSlot",
            "ReleaseUndelivered", "Overwrite", "LastJump"}

Flags == {"SYN", "ACK", "EACK", "RST", "NUL"}

\* How often a callback was made: never, once, or Many times.
Many == 2
Again(k) == IF k < Many THEN k + 1 ELSE Many

\* A message fragment: the message's number on its connection, and which
\* fragment of it this is.
Payload == (0 .. MaxMsgs) \X (0 .. SegMax)
NoPayload == <<0, 0>>

SndBuf == [inUse : BOOLEAN, retry : Nat, seq : SeqNums, som : SeqNums,
           fcnt : 0 .. SegMax, pay : Payload, ttl : {"infinite", "live"},
           late : BOOLEAN, httl : Ttl, onTheWire : BOOLEAN]

RcvBuf == [inUse : BOOLEAN, isDelivered : BOOLEAN, seq : SeqNums,
           som : SeqNums, fcnt : 0 .. SegMax, pay : Payload, ttl : Ttl]

Segment == [FLG : SUBSET Flags, HLEN : {"syn", "short", "full"},
            SRC : Ports \cup {0}, DST : Ports \cup {0},
            SEQ : SeqNums, ACK : SeqNums, LCS : SeqNums,
            MSK : [WordIndex -> SUBSET Bits], DLEN : BOOLEAN,
            SOM : SeqNums, FCNT : 0 .. SegMax, TTL : Ttl, PAY : Payload]

FreshSndBuf == [inUse |-> FALSE, retry |-> 0, seq |-> 0, som |-> 0, fcnt |-> 0,
                pay |-> NoPayload, ttl |-> "infinite", late |-> FALSE,
                httl |-> "infinite", onTheWire |-> FALSE]

FreshRcvBuf == [inUse |-> FALSE, isDelivered |-> FALSE, seq |-> 0, som |-> 0,
                fcnt |-> 0, pay |-> NoPayload, ttl |-> "infinite"]

(***************************************************************************)
(* The record.  SND.x and RCV.x become Sx and Rx where the names clash.    *)
(* The last block is history that the properties read: the callbacks made  *)
(* so far and what they carried; up is the transport's side of the record: *)
(* a ConnectCb waits in the dispatcher's queue, or the endpoint uses the   *)
(* connection.  fault holds the assertions that have failed.               *)
(***************************************************************************)
Conn == [state : States, passive : BOOLEAN,
         local : Ports \cup {0}, foreign : Ports \cup {0},
         ISS : SeqNums, NXT : SeqNums, UNA : SeqNums, SLCS : SeqNums,
         SMAX : {0, SegMax}, snd : [Slots -> SndBuf], pending : 0 .. SegMax,
         IRS : SeqNums, CUR : SeqNums, RLCS : SeqNums,
         RMAX : {0, SegMax}, rcv : [Slots -> RcvBuf], last : SeqNums,
         window : Nat, rcvMsk : RcvMsk,
         sndHdr : {"short", "full"}, rcvHdr : {"short", "full"},
         connT : Nat, connH : {"connect", "disconnect"}, reason : Reasons,
         probeT : Nat, ackT : {0, 1}, persistT : Nat,
         up : {"idle", "connected", "failed", "using"},
         openCb : 0 .. Many, failCb : 0 .. Many, discCb : 0 .. Many,
         sent : Seq([fcnt : 1 .. SegMax, ttl : {"infinite", "live"}]), sendCb : [1 .. MaxMsgs -> 0 .. Many],
         okCb : SUBSET (1 .. MaxMsgs),
         got : Seq(Seq(Payload)), upq : SUBSET Slots, nread : Nat,
         fault : SUBSET Asserts, out : Seq(Segment)]

\* NewConnRecord and InitConnRecord (InitSnd included): sequence number iss
\* and port local are drawn at random.
NewConn(local, foreign, iss) ==
  [state |-> "CLOSED", passive |-> FALSE, local |-> local, foreign |-> foreign,
   ISS |-> iss, NXT |-> Plus(iss, 1), UNA |-> iss, SLCS |-> iss,
   SMAX |-> 0, snd |-> [i \in Slots |-> FreshSndBuf], pending |-> 0,
   IRS |-> 0, CUR |-> 0, RLCS |-> 0,
   RMAX |-> 0, rcv |-> [i \in Slots |-> FreshRcvBuf], last |-> 0,
   window |-> 0, rcvMsk |-> EmptyMsk, sndHdr |-> "short", rcvHdr |-> "short",
   connT |-> 0, connH |-> "connect", reason |-> "OK",
   probeT |-> 0, ackT |-> 0, persistT |-> 0,
   up |-> "idle", openCb |-> 0, failCb |-> 0, discCb |-> 0,
   sent |-> << >>, sendCb |-> [m \in 1 .. MaxMsgs |-> 0], okCb |-> {},
   got |-> << >>, upq |-> {}, nread |-> 0, fault |-> {}, out |-> << >>]

\* A slot of handle->conns that no record has used yet.
UnusedConn == [NewConn(0, 0, 0) EXCEPT !.state = "UNUSED"]

Fails(c, broken, name) ==
  IF broken /\ name \notin Ndebug THEN [c EXCEPT !.fault = @ \cup {name}] ELSE c

\* The process is gone: an assertion of this build has failed.
Halted(c) == c.fault # {}

Emit(c, seg, status) ==
  IF status = "ok" THEN [c EXCEPT !.out = Append(@, seg)] ELSE c

DataTimers(c) == {i \in Slots : c.snd[i].retry # 0}

----------------------------------------------------------------------------
(* Sending a segment without data *)

ControlSeg(c, flg, seq, ack, lcs) ==
  [FLG |-> IF c.rcvMsk.sz # 0 THEN flg \cup {"EACK"} ELSE flg,
   HLEN |-> c.sndHdr, SRC |-> c.local, DST |-> c.foreign,
   SEQ |-> seq, ACK |-> ack, LCS |-> lcs, MSK |-> c.rcvMsk.mask,
   DLEN |-> FALSE, SOM |-> 0, FCNT |-> 0, TTL |-> "infinite", PAY |-> NoPayload]

\* Send and SendMsgHeader
Send(c, flg, seq, ack, lcs, status) == Emit(c, ControlSeg(c, flg, seq, ack, lcs), status)

SendAck(c, flg, status) == Send(c, flg, c.NXT, c.CUR, c.RLCS, status)

----------------------------------------------------------------------------
(* Giving send buffers back to the upper layer *)

\* Mutant: only the first fragment's slot.
FirstSlotOnly(c, i) == {i}

\* The slots of the message whose first fragment is in slot i.
MessageSlots(c, i) == {Slot(i + k) : k \in 0 .. c.snd[i].fcnt - 1}

(***************************************************************************)
(* FlushMessage for every message that starts in one of the slots firsts:  *)
(* the slots become available (their timers are not touched) and SendCb    *)
(* hands each buffer back.  pending is a uint16_t that must stay below     *)
(* SND.MAX after every decrement.                                          *)
(***************************************************************************)
FlushMessages(c, firsts, delivered) ==
  LET slots == UNION {MessageSlots(c, i) : i \in firsts}
      n     == Cardinality(slots)
      msgs  == {c.snd[i].pay[1] : i \in firsts}
  IN  IF n > c.pending THEN Fails(c, TRUE, "PendingUnderflow")
      ELSE [c EXCEPT !.snd = [i \in Slots |-> IF i \in slots
                                THEN [c.snd[i] EXCEPT !.inUse = FALSE] ELSE c.snd[i]],
                     !.pending = @ - n,
                     !.sendCb = [m \in 1 .. MaxMsgs |->
                                   IF m \in msgs THEN Again(c.sendCb[m]) ELSE c.sendCb[m]],
                     !.okCb = IF delivered THEN @ \cup msgs ELSE @]

FlushSendQueue(c) ==
  FlushMessages(c, {i \in Slots : i < c.SMAX /\ c.snd[i].inUse /\ c.snd[i].seq = c.snd[i].som},
                FALSE)

----------------------------------------------------------------------------
(* Connection teardown *)

\* Mutants of Disconnect: no disconnect timer is started; DisconnectCb is not
\* called.
DisconnectNoTimer(c, reason, status) ==
  LET c1 == SendAck([c EXCEPT !.state = "CLOSE_WAIT"], {"RST"}, status)
  IN  IF c.state \in {"CLOSE_WAIT", "CLOSED"} THEN c
      ELSE [FlushSendQueue(c1) EXCEPT !.discCb = Again(@), !.reason = reason]

DisconnectSilently(c, reason, status) ==
  IF c.state \in {"CLOSE_WAIT", "CLOSED"} THEN c
  ELSE [FlushSendQueue(SendAck(c, {"RST"}, status)) EXCEPT !.state = "CLOSE_WAIT",
          !.connT = 1, !.connH = "disconnect", !.reason = reason]

\* Disconnect: only the first call counts.  The connect timer becomes the
\* disconnect timer, and while it runs CheckConnTimers looks at no other.
Disconnect(c, reason, status) ==
  LET c1 == [c EXCEPT !.state = "CLOSE_WAIT"]
      c2 == IF reason = "REMOTE_RESET" THEN c1 ELSE SendAck(c1, {"RST"}, status)
      c3 == IF reason = "OK" THEN c2
            ELSE LET f == FlushSendQueue(c2) IN [f EXCEPT !.discCb = Again(@)]
  IN  IF c.state \in {"CLOSE_WAIT", "CLOSED"} THEN c
      ELSE [c3 EXCEPT !.connT = 1, !.connH = "disconnect", !.reason = reason]

\* DelConnRecord: the buffers are freed and the record leaves handle->conns.
\* What remains is the history.
DelConnRecord(c) ==
  [c EXCEPT !.state = "FREED", !.connT = 0, !.probeT = 0, !.ackT = 0, !.persistT = 0,
            !.snd = [i \in Slots |-> FreshSndBuf], !.rcv = [i \in Slots |-> FreshRcvBuf],
            !.rcvMsk = EmptyMsk, !.upq = {}]

IsRcvQueueEmpty(c) == \A i \in Slots : ~c.rcv[i].isDelivered

DisconnectTimerHandler(c) ==
  LET c1 == [c EXCEPT !.state = "CLOSED"]
      f  == FlushSendQueue(c1)
      c2 == IF c.reason = "OK"
            THEN [f EXCEPT !.discCb = Again(@), !.reason = "INVALID_CONNECTION"]
            ELSE c1
  IN  IF IsRcvQueueEmpty(c2) THEN DelConnRecord(c2) ELSE c2

----------------------------------------------------------------------------
(* Connection set-up *)

\* The SYN of an active open, the SYN | ACK of a passive one.  Both carry the
\* BusHello exchange as data.
SynSeg(c) ==
  [ControlSeg(c, IF c.passive THEN {"SYN", "ACK"} ELSE {"SYN"}, c.ISS,
              IF c.passive THEN c.IRS ELSE 0, 0)
     EXCEPT !.FLG = @ \ {"EACK"}, !.HLEN = "syn", !.DLEN = TRUE,
            !.MSK = EmptyMsk.mask]

\* DoSendSyn: the result of the send is the caller's to return.
DoSendSyn(c, status) ==
  Emit([c EXCEPT !.connT = ConnectRetries + 1, !.connH = "connect"], SynSeg(c), status)

\* Mutants: a connection that timed out stays in its state; the retries are
\* not counted.
ConnectTimerKeepsState(c, status) ==
  IF c.connT > 1 /\ status # "error"
  THEN Emit([c EXCEPT !.connT = @ - 1], SynSeg(c), status)
  ELSE [c EXCEPT !.failCb = Again(@), !.up = "failed"]

ConnectTimerForever(c, status) == Emit(c, SynSeg(c), status)

\* ConnectTimerHandler: the SYN of DoSendSyn again, or ConnectCb(ER_TIMEOUT);
\* the timer keeps its count until the upper layer releases the record.
ConnectTimerHandler(c, status) ==
  IF c.connT > 1 /\ status # "error"
  THEN Emit([c EXCEPT !.connT = @ - 1], SynSeg(c), status)
  ELSE LET c1 == [c EXCEPT !.state = "CLOSED", !.failCb = Again(@), !.up = "failed"]
       IN  Send(c1, {"RST"}, c.UNA, 0, c.RMAX, status)

\* InitRcv: the receive side gets its buffers.
InitRcv(c) == [c EXCEPT !.RMAX = SegMax]

\* InitSBUF: headers carry the EACK mask from now on.
InitSBUF(c) == [c EXCEPT !.sndHdr = "full"]

\* Mutant: the receive buffers are not stamped with IRS.
PostInitRcvUnstamped(c) == [c EXCEPT !.RLCS = c.CUR, !.last = Plus(c.CUR, 1)]

PostInitRcv(c) ==
  [c EXCEPT !.RLCS = c.CUR, !.last = Plus(c.CUR, 1),
            !.rcv = [i \in Slots |-> [c.rcv[i] EXCEPT !.seq = c.IRS]]]

\* What both sides do on entering OPEN, up to the callback into the transport.
EnterOpen(c) ==
  [PostInitRcv(c) EXCEPT !.state = "OPEN", !.connT = 0, !.probeT = ProbeRetries,
                         !.persistT = 0, !.ackT = 0]

\* ARDP_Connect on a record fresh from InitConnRecord.
Connect(c, status) == DoSendSyn([InitRcv(c) EXCEPT !.state = "SYN_SENT"], status)

\* ARDP_Accept, called by the transport's AcceptCb.
AcceptConn(c, status) ==
  DoSendSyn([InitSBUF(InitRcv(c)) EXCEPT !.state = "SYN_RCVD"], status)

----------------------------------------------------------------------------
(* Acknowledgements *)

(***************************************************************************)
(* UpdateSndSegments: the slots from SND.LCS + 1 to ack are visited, their *)
(* timers stopped, and the messages the receiver has consumed completely   *)
(* are flushed.  The count ack - SND.LCS is unsigned: an ack older than    *)
(* SND.LCS makes it wrap, and the loop runs into a slot not in use.        *)
(***************************************************************************)
UpdateSndSegments(c, ack, lcs) ==
  LET count   == Minus(ack, c.SLCS)
      visited == IF count >= SegMax THEN Slots
                 ELSE {Slot(c.SLCS + k) : k \in 1 .. count}
      done    == {i \in visited : /\ SEQ32_LET(c.snd[i].seq, lcs)
                                  /\ c.snd[i].seq = SeqPlus(c.snd[i].som, c.snd[i].fcnt - 1)}
      broken  == \/ \E i \in visited : ~c.snd[i].inUse \/ ~SEQ32_LET(c.snd[i].seq, ack)
                 \/ count > SegMax /\ done # {}
      stopped == [c EXCEPT !.snd = [i \in Slots |-> IF i \in visited
                              THEN [c.snd[i] EXCEPT !.retry = 0] ELSE c.snd[i]]]
      flushed == FlushMessages(stopped, {Slot(c.snd[i].som) : i \in done}, TRUE)
  IN  IF c.pending = 0 THEN [c EXCEPT !.SLCS = lcs]
      ELSE IF ~SEQ32_LET(lcs, c.UNA) THEN Fails(c, TRUE, "LcsBeyondUna")
      ELSE IF broken THEN Fails(c, TRUE, "AckNotInUse")
      ELSE [flushed EXCEPT !.SLCS = lcs]

\* Mutant: off by one.
CancelFromUna(c, msk) ==
  LET eacked == {Slot(c.UNA + d - 1) : d \in MskDeltas([mask |-> msk, sz |-> 1])}
  IN  [c EXCEPT !.snd = [i \in Slots |-> IF i \in eacked
                           THEN [c.snd[i] EXCEPT !.retry = 0] ELSE c.snd[i]]]

\* CancelEackedSegments: bit d of the mask is taken to be SND.UNA + d.
CancelEackedSegments(c, msk) ==
  LET eacked == {Slot(c.UNA + d) : d \in MskDeltas([mask |-> msk, sz |-> 1])}
  IN  [c EXCEPT !.snd = [i \in Slots |-> IF i \in eacked
                           THEN [c.snd[i] EXCEPT !.retry = 0] ELSE c.snd[i]]]

----------------------------------------------------------------------------
(* Receive buffers *)

\* Mutant: a delivered message counts as expired.
EndOfDelivered(rcv, q) ==
  LET b == rcv[Slot(Plus(q, 1))]
  IN  IF b.isDelivered THEN SeqPlus(b.som, b.fcnt - 1) ELSE q

\* The last sequence number of the run of delivered, expired messages that
\* starts after q.
EndOfExpired(rcv, q) ==
  LET seqAt(k) == SeqPlus(q, k)
      expired(k) == LET b == rcv[Slot(seqAt(k))]
                    IN  b.isDelivered /\ rcv[Slot(b.som)].ttl = "expired"
      ends(k) == LET b == rcv[Slot(seqAt(k))] IN b.seq = SeqPlus(b.som, b.fcnt - 1)
  IN  seqAt(CHOOSE n \in 0 .. SegMax :
              /\ \A k \in 1 .. n : expired(k)
              /\ n > 0 => ends(n)
              /\ \A m \in n + 1 .. SegMax : ~(ends(m) /\ \A k \in 1 .. m : expired(k)))

\* The buffers after RCV.LCS up to q are released.
ReleaseUpTo(c, q) ==
  LET slots == {Slot(c.RLCS + k) : k \in 1 .. Minus(q, c.RLCS)}
  IN  [c EXCEPT !.RLCS = q,
                !.rcv = [i \in Slots |-> IF i \in slots
                   THEN [c.rcv[i] EXCEPT !.inUse = FALSE, !.isDelivered = FALSE]
                   ELSE c.rcv[i]],
                !.ackT = 1]

\* UpdateRcvBuffers for the message whose first buffer is slot first, with
\* the expired messages that follow it.
UpdateRcvBuffers(c, first) ==
  LET b     == c.rcv[first]
      slots == {Slot(first + k) : k \in 0 .. b.fcnt - 1}
  IN  IF b.seq # Plus(c.RLCS, 1) THEN Fails(c, TRUE, "ReleaseOrder")
      ELSE IF Slot(b.seq) # first \/ b.fcnt < 1 THEN Fails(c, TRUE, "ReleaseSlot")
      ELSE IF \E i \in slots : ~(c.rcv[i].inUse /\ c.rcv[i].isDelivered)
      THEN Fails(c, TRUE, "ReleaseUndelivered")
      ELSE ReleaseUpTo(c, EndOfExpired(c.rcv, SeqPlus(b.seq, b.fcnt - 1)))

\* The buffers of the message that ends in slot i, first to last.
Fragments(rcv, i) == [j \in 1 .. rcv[i].fcnt |-> Slot(rcv[i].som + j - 1)]

\* Mutant: a buffer filled earlier counts as the next segment.
RunIsWindow(c, seq) == SegMax

\* How many consecutive segments from seq on are in the receive buffers.
RunLength(c, seq) ==
  LET inRun(k) == c.rcv[Slot(SeqPlus(seq, k))].seq = SeqPlus(seq, k)
  IN  CHOOSE n \in 1 .. SegMax : /\ \A k \in 0 .. n - 1 : inRun(k)
                                 /\ n < SegMax => ~inRun(n)

(***************************************************************************)
(* The loop of AddRcvBuffer over the run of consecutive segments that      *)
(* starts at seq: RCV.CUR moves to its end, every message it completes is  *)
(* marked delivered and either goes up (RecvCb) or, when a fragment of it  *)
(* has expired (lapsed: the slots whose remaining time to live ran out     *)
(* here), is recycled as soon as it is first in line.                      *)
(***************************************************************************)
Deliver(c, seq, lapsed) ==
  LET at(k)   == Slot(SeqPlus(seq, k))
      n       == RunLength(c, seq)
      lastFrag(k) == c.rcv[at(k)].seq = SeqPlus(c.rcv[at(k)].som, c.rcv[at(k)].fcnt - 1)
      frags(k) == Range(Fragments(c.rcv, at(k)))
      ends    == {k \in 0 .. n - 1 : lastFrag(k)}
      stale   == {k \in ends : \E i \in frags(k) :
                    \/ c.rcv[i].ttl = "expired"
                    \/ c.rcv[i].ttl = "live" /\ i \in lapsed}
      good    == Ascending(ends \ stale)
      first(k) == Slot(c.rcv[at(k)].som)
      message(k) == [j \in 1 .. c.rcv[at(k)].fcnt |-> c.rcv[Fragments(c.rcv, at(k))[j]].pay]
      rcv1    == [i \in Slots |->
                    [c.rcv[i] EXCEPT
                       !.isDelivered = @ \/ \E k \in ends : i \in frags(k),
                       !.ttl = IF \E k \in stale : i = first(k) THEN "expired" ELSE @]]
      c1      == [c EXCEPT !.CUR = SeqPlus(seq, n - 1),
                           !.rcv = rcv1,
                           !.got = @ \o [x \in 1 .. Len(good) |-> message(good[x])],
                           !.upq = @ \cup {first(k) : k \in ends \ stale},
                           !.rcvMsk = UpdateRcvMsk(@, n, TRUE)]
      end     == EndOfExpired(rcv1, c.RLCS)
  IN  IF end = c.RLCS THEN c1 ELSE ReleaseUpTo(c1, end)

\* AddRcvBuffer, for a segment after RCV.CUR.
AddRcvBuffer(c, seg, lapsed) ==
  LET i == Slot(seg.SEQ)
      b == c.rcv[i]
      further == SEQ32_LT(c.last, seg.SEQ)
      c1 == [c EXCEPT !.rcv[i] = [b EXCEPT !.inUse = TRUE, !.seq = seg.SEQ, !.som = seg.SOM,
                                           !.fcnt = seg.FCNT, !.pay = seg.PAY, !.ttl = seg.TTL],
                      !.last = IF further THEN seg.SEQ ELSE @]
      c2 == Fails(c1, further /\ Minus(seg.SEQ, c.last) >= SegMax, "LastJump")
      next == Plus(c.CUR, 1)
  IN  IF b.inUse /\ b.seq # seg.SEQ THEN Fails(c, TRUE, "Overwrite")
      ELSE IF b.seq = seg.SEQ THEN c
      ELSE IF seg.SEQ = next THEN Deliver(c2, seg.SEQ, lapsed)
      ELSE [c2 EXCEPT !.rcvMsk = AddRcvMsk(@, Minus(seg.SEQ, next))]

----------------------------------------------------------------------------
(* Sending data *)

\* SendMsgData: the time to live decides first, then the socket.  A buffer
\* that has been on the wire (in this or any earlier use of its slot) is sent
\* even when it is late.
TxStatus(b, late, status) ==
  IF b.ttl # "infinite" /\ late /\ ~b.onTheWire THEN "expired" ELSE status

\* ... and what it leaves in the buffer.  An infinite ttl, and the first
\* transmission from a slot, leave the ttl of the header as it was.
TxBuf(b, late, status) ==
  [b EXCEPT !.late = late,
            !.httl = IF b.ttl = "infinite" \/ ~b.onTheWire THEN @
                     ELSE IF late THEN "expired" ELSE "live",
            !.onTheWire = @ \/ TxStatus(b, late, status) = "ok"]

DataSeg(c, b) ==
  [ControlSeg(c, {"ACK"}, b.seq, c.CUR, c.RLCS)
     EXCEPT !.DLEN = TRUE, !.SOM = b.som, !.FCNT = b.fcnt, !.TTL = b.httl, !.PAY = b.pay]

\* Mutant: only the tests of ARDP_Send.
CanSendAnyway(c, fcnt) ==
  c.state = "OPEN" /\ c.window # 0 /\ Minus(c.NXT, c.UNA) < c.SMAX

\* The tests of ARDP_Send and SendData; otherwise the caller gets
\* ER_ARDP_BACKPRESSURE, ER_ARDP_INVALID_STATE or ER_FAIL and nothing changes.
CanSend(c, fcnt) ==
  /\ c.state = "OPEN"
  /\ c.window # 0 /\ Minus(c.NXT, c.UNA) < c.SMAX
  /\ fcnt <= c.window /\ fcnt <= c.SMAX - c.pending

(***************************************************************************)
(* SendData: fragment i goes to the i-th slot from SND.NXT on.  A fragment *)
(* that expired is skipped without using up a sequence number; one the     *)
(* socket refuses with anything but ER_WOULDBLOCK ends the connection with *)
(* a RST, a send of its own.                                               *)
(***************************************************************************)
SendData(c, fcnt, ttl, late, st, status) ==
  LET slot(i) == Slot(c.NXT + i - 1)
      old(i)  == [c.snd[slot(i)] EXCEPT !.ttl = ttl]
      res(i)  == TxStatus(old(i), late, st[i])
      tried   == {i \in 1 .. fcnt : \A j \in 1 .. i - 1 : res(j) # "error"}
      used    == {i \in tried : res(i) \in {"ok", "wouldblock"}}
      seqOf(i) == SeqPlus(c.NXT, Cardinality({j \in used : j < i}))
      buf(i)  == [TxBuf(old(i), late, st[i]) EXCEPT
                    !.seq = seqOf(i), !.som = c.NXT, !.fcnt = fcnt,
                    !.pay = <<Len(c.sent) + 1, i>>,
                    !.inUse = @ \/ i \in used,
                    !.retry = IF i \in used
                              THEN DataRetries + (IF res(i) = "ok" THEN 1 ELSE 2) ELSE @]
      sent    == Ascending({i \in used : res(i) = "ok"})
      c1 == [c EXCEPT !.snd = [k \in Slots |-> IF \E i \in tried : slot(i) = k
                                 THEN buf(CHOOSE i \in tried : slot(i) = k) ELSE c.snd[k]],
                      !.pending = @ + Cardinality(used),
                      !.NXT = SeqPlus(@, Cardinality(used)),
                      !.persistT = IF used = {} THEN @ ELSE 0,
                      !.sent = IF used = {} THEN @ ELSE Append(@, [fcnt |-> fcnt, ttl |-> ttl]),
                      !.out = @ \o [x \in 1 .. Len(sent) |-> DataSeg(c, buf(sent[x]))]]
      c2 == Fails(c1, \E i \in tried : Minus(seqOf(i), c.UNA) >= c.SMAX, "SendQueueFull")
  IN  IF \E i \in tried : res(i) = "error" THEN Disconnect(c2, "SOCKET", status) ELSE c2

----------------------------------------------------------------------------
(* Timers *)

AckTimerHandler(c, status) ==
  LET c1 == SendAck(c, {"ACK"}, status)
  IN  IF status = "ok" THEN [c1 EXCEPT !.ackT = 0] ELSE c1

\* elapsed: how long ago lastSeen was, against probeTimeout and linkTimeout.
ProbeTimerHandler(c, elapsed, status) ==
  IF DataTimers(c) # {} \/ elapsed = "recent" THEN c
  ELSE IF elapsed = "dead" THEN Disconnect(c, "PROBE_TIMEOUT", status)
  ELSE SendAck(c, {"ACK", "NUL"}, status)

PersistTimerHandler(c, status) ==
  IF c.window >= MinSendWindow \/ DataTimers(c) # {} THEN c
  ELSE IF c.persistT > 1
  THEN [SendAck(c, {"ACK", "NUL"}, status) EXCEPT !.persistT = @ - 1]
  ELSE Disconnect(c, "PERSIST_TIMEOUT", status)

\* The order of the list of data timers: that in which segments were first sent.
ListOrder(c, i) == Minus(c.snd[i].seq, c.SLCS)
Precedes(c, i, j) == \/ ListOrder(c, i) < ListOrder(c, j)
                     \/ ListOrder(c, i) = ListOrder(c, j) /\ i < j
InListOrder(c, S) == InOrderOf(S, LAMBDA i, j : Precedes(c, i, j))

(***************************************************************************)
(* RetransmitTimerHandler for the timers that are due, in list order.  One *)
(* that has no retries left, or whose send fails, disconnects with a RST,  *)
(* a send of its own, and the loop ends with it.                           *)
(***************************************************************************)
RetransmitTimers(c, due, late, st, status) ==
  LET order(i)  == ListOrder(c, i)
      isLate(i) == c.snd[i].late \/ i \in late
      res(i)    == TxStatus(c.snd[i], isLate(i), st[i])
      fails(i)  == c.snd[i].retry <= 1 \/ res(i) \in {"error", "expired"}
      failing   == {i \in due : fails(i)}
      first     == CHOOSE i \in failing : \A j \in failing : order(i) <= order(j)
      served    == {i \in due \ failing : failing = {} \/ order(i) < order(first)}
      seen      == served \cup (IF failing = {} THEN {} ELSE {first})
      tx(i)     == IF c.snd[i].retry > 1 THEN TxBuf(c.snd[i], isLate(i), st[i]) ELSE c.snd[i]
      retry(i)  == IF i \notin served THEN 0
                   ELSE IF res(i) = "ok" THEN c.snd[i].retry - 1 ELSE c.snd[i].retry
      resent    == InListOrder(c, {i \in served : res(i) = "ok"})
      c1 == [c EXCEPT !.snd = [i \in Slots |-> IF i \in seen
                                 THEN [tx(i) EXCEPT !.retry = retry(i)] ELSE c.snd[i]],
                      !.out = @ \o [x \in 1 .. Len(resent) |-> DataSeg(c, tx(resent[x]))]]
      reason == IF c.snd[first].retry <= 1 THEN "TIMEOUT"
                ELSE IF res(first) = "expired" THEN "TTL_EXPIRED" ELSE "SOCKET"
  IN  IF \E i \in seen : ~c.snd[i].inUse THEN Fails(c, TRUE, "ResendFlushed")
      ELSE IF failing = {} THEN c1 ELSE Disconnect(c1, reason, status)

(***************************************************************************)
(* CheckConnTimers.  due names the timers whose time has come, resend the  *)
(* slots of the send queue that are due; a timer that is off never fires.  *)
(* All run in this order in one pass, even after one of them has           *)
(* disconnected.                                                           *)
(***************************************************************************)
TimerNames == {"connect", "probe", "ack", "persist"}

TimerOn(c, t) == \/ t = "connect" /\ c.connT # 0
                 \/ t = "probe" /\ c.connT = 0 /\ c.probeT # 0
                 \/ t = "ack" /\ c.connT = 0 /\ c.ackT # 0
                 \/ t = "persist" /\ c.connT = 0 /\ c.persistT # 0

CheckConnTimers(c, due, resend, elapsed, late, status, st) ==
  LET c1 == IF "probe" \in due /\ c.probeT # 0
            THEN ProbeTimerHandler(c, elapsed, status) ELSE c
      c2 == IF "ack" \in due /\ c1.ackT # 0 THEN AckTimerHandler(c1, status) ELSE c1
      c3 == PersistTimerHandler(c2, status)
  IN  IF c.connT # 0
      THEN IF "connect" \notin due THEN c
           ELSE IF c.connH = "connect" THEN ConnectTimerHandler(c, status)
           ELSE DisconnectTimerHandler(c)
      ELSE IF Halted(c1) THEN c1
      ELSE IF "persist" \in due /\ c2.persistT # 0
      THEN Fails(c3, DataTimers(c3) # {}, "PersistWithData")
      ELSE RetransmitTimers(c2, DataTimers(c2) \cap resend, late, st, status)

----------------------------------------------------------------------------
(* The state machine *)

Window(c, lcs) == Minus(c.SMAX, Minus(c.NXT, Plus(lcs, 1))) % WinMod

\* CLOSED: a record that waits for its removal answers with a reset.
ClosedSegment(c, seg, status) ==
  IF "RST" \in seg.FLG THEN c
  ELSE IF {"ACK", "NUL"} \cap seg.FLG # {}
  THEN Send(c, {"RST"}, 0, Plus(seg.ACK, 1), c.RMAX, status)
  ELSE Send(c, {"RST", "ACK"}, 0, seg.SEQ, c.RMAX, status)

\* LISTEN, entered from Accept with the SYN or by a reset in SYN_RCVD.
\* AcceptCb answers for the transport: accept calls ARDP_Accept.
ListenSegment(c, seg, accept, status) ==
  LET c1 == [c EXCEPT !.CUR = seg.SEQ, !.IRS = seg.SEQ, !.window = c.SMAX, !.rcvHdr = "full"]
  IN  IF "RST" \in seg.FLG THEN c
      ELSE IF {"ACK", "NUL"} \cap seg.FLG # {}
      THEN Disconnect(Send(c, {"RST"}, Plus(seg.ACK, 1), 0, 0, status),
                      "INVALID_RESPONSE", status)
      ELSE IF "SYN" \notin seg.FLG THEN c
      ELSE IF accept THEN AcceptConn(c1, status)
      ELSE DelConnRecord(Send(c1, {"RST"}, Plus(seg.ACK, 1), 0, c1.RMAX, status))

\* SYN_SENT: the SYN | ACK opens the connection.  (A SYN without ACK goes to
\* port 0, so that it reaches Accept and never this state.)  The third step of the
\* handshake carries RCV.MAX in the place of the last consumed segment.
SynSentSegment(c, seg, status) ==
  LET c1 == EnterOpen(InitSBUF([c EXCEPT !.SMAX = SegMax, !.rcvHdr = "full",
                                 !.window = SegMax, !.foreign = seg.SRC, !.IRS = seg.SEQ,
                                 !.CUR = seg.SEQ, !.UNA = Plus(seg.ACK, 1)]))
      c2 == Send(c1, {"ACK"}, c1.NXT, c1.CUR, c1.RMAX, status)
  IN  IF "RST" \in seg.FLG THEN Disconnect(c, "REMOTE_RESET", status)
      ELSE IF {"SYN", "ACK"} \subseteq seg.FLG
      THEN [c2 EXCEPT !.openCb = Again(@), !.up = "connected"]
      ELSE IF "ACK" \in seg.FLG /\ seg.ACK # c.ISS
      THEN Disconnect(c, "INVALID_RESPONSE", status) ELSE c

\* SYN_RCVD: the acknowledgement of our SYN opens the connection; data that
\* comes with it is not looked at.
SynRcvdSegment(c, seg, status) ==
  LET c1 == EnterOpen(c)
      c2 == IF "NUL" \in seg.FLG THEN SendAck(c1, {"ACK"}, status) ELSE c1
  IN  IF ~IN_RANGE(Plus(c.CUR, 1), c.RMAX, seg.SEQ)
      THEN Send(c, {"ACK"}, c.NXT, c.CUR, c.RMAX, status)
      ELSE IF "RST" \in seg.FLG
      THEN IF c.passive THEN [c EXCEPT !.state = "LISTEN"]
                        ELSE Disconnect(c, "REMOTE_RESET", status)
      ELSE IF {"SYN", "EACK"} \cap seg.FLG # {} THEN Disconnect(c, "INVALID_RESPONSE", status)
      ELSE IF "ACK" \notin seg.FLG THEN c
      ELSE IF seg.ACK # c.ISS THEN Disconnect(c, "INVALID_RESPONSE", status)
      ELSE [c2 EXCEPT !.openCb = Again(@), !.up = "connected"]

\* OPEN, one operator per part of the segment.
OpenNul(c, status) ==
  LET c1 == SendAck(c, {"ACK"}, status)
  IN  IF status = "ok" THEN c1 ELSE [c1 EXCEPT !.ackT = 1]

\* Mutant: an acknowledged segment counts as consumed.
OpenAckIsReceipt(c, seg) ==
  IF "ACK" \in seg.FLG /\ IN_RANGE(c.UNA, Plus(Minus(c.NXT, c.UNA), 1), seg.ACK)
  THEN UpdateSndSegments([c EXCEPT !.UNA = Plus(seg.ACK, 1)], seg.ACK, seg.ACK) ELSE c

OpenAck(c, seg) ==
  IF /\ "ACK" \in seg.FLG
     /\ \/ IN_RANGE(c.UNA, Plus(Minus(c.NXT, c.UNA), 1), seg.ACK)
        \/ c.SLCS # seg.LCS
  THEN UpdateSndSegments([c EXCEPT !.UNA = Plus(seg.ACK, 1)], seg.ACK, seg.LCS)
  ELSE c

OpenEack(c, seg) ==
  IF "EACK" \in seg.FLG THEN CancelEackedSegments(c, seg.MSK) ELSE c

\* Mutant: a gap before the segment is skipped.
OpenDataSkipsGap(c, seg, lapsed) ==
  IF ~seg.DLEN \/ ~SEQ32_LT(c.CUR, seg.SEQ) THEN c
  ELSE [AddRcvBuffer([c EXCEPT !.CUR = Minus(seg.SEQ, 1)], seg, lapsed) EXCEPT !.ackT = 1]

OpenData(c, seg, lapsed) ==
  LET c1 == IF SEQ32_LT(c.CUR, seg.SEQ) THEN AddRcvBuffer(c, seg, lapsed) ELSE c
  IN  IF seg.DLEN THEN [c1 EXCEPT !.ackT = 1] ELSE c

\* Mutant: the persist timer starts beside the retransmit timers.
OpenWindowAlways(c, window) ==
  IF c.window = window THEN c
  ELSE [c EXCEPT !.window = window,
                 !.persistT = IF window < MinSendWindow THEN PersistRetries + 1 ELSE 0]

\* The persist timer runs only while nothing is to be retransmitted.
OpenWindow(c, window) ==
  LET idle  == DataTimers(c) = {}
      small == window < MinSendWindow
  IN  IF c.window = window THEN c
      ELSE [c EXCEPT !.window = window,
                     !.persistT = IF idle /\ small
                                  THEN (IF @ = 0 THEN PersistRetries + 1 ELSE @) ELSE 0]

OpenSegment(c, seg, lapsed, status) ==
  LET c1 == OpenAck(c, seg)
      c2 == OpenData(OpenEack(c1, seg), seg, lapsed)
  IN  IF ~IN_RANGE(Plus(c.RLCS, 1), c.RMAX, seg.SEQ) /\ seg.DLEN THEN c
      ELSE IF "RST" \in seg.FLG THEN Disconnect(c, "REMOTE_RESET", status)
      ELSE IF "SYN" \in seg.FLG THEN Disconnect(c, "INVALID_RESPONSE", status)
      ELSE IF "NUL" \in seg.FLG THEN OpenNul(c, status)
      ELSE IF Halted(c1) THEN c1
      ELSE IF Halted(c2) THEN c2
      ELSE OpenWindow(c2, Window(c, seg.LCS))

ArdpMachine(c, seg, accept, lapsed, status) ==
  CASE c.state = "CLOSED"     -> ClosedSegment(c, seg, status)
    [] c.state = "LISTEN"     -> ListenSegment(c, seg, accept, status)
    [] c.state = "SYN_SENT"   -> SynSentSegment(c, seg, status)
    [] c.state = "SYN_RCVD"   -> SynRcvdSegment(c, seg, status)
    [] c.state = "OPEN"       -> OpenSegment(c, seg, lapsed, status)
    [] c.state = "CLOSE_WAIT" -> c

\* Receive: a segment whose header has the wrong length is refused.
Receive(c, seg, accept, lapsed, status) ==
  IF "SYN" \notin seg.FLG /\ seg.HLEN # c.rcvHdr THEN c
  ELSE ArdpMachine(c, seg, accept, lapsed, status)

\* Accept, for a segment to port 0 on a fresh record: anything but a bare SYN
\* leaves the record behind, CLOSED and without a timer.
Accept(c, seg, accept, status) ==
  IF seg.FLG # {"SYN"} THEN c
  ELSE ArdpMachine([c EXCEPT !.state = "LISTEN", !.passive = TRUE, !.SMAX = SegMax],
                   seg, accept, {}, status)
=============================================================================
