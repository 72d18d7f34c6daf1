---------------------------- MODULE ArdpProofs ----------------------------
(***************************************************************************)
(* Two invariants of every connection record, for every value of the       *)
(* constants: the persist timer and the retransmit timers exclude each     *)
(* other, and the transport gets a consistent account of the connection.   *)
(*                                                                         *)
(* Most handlers concern neither.  Frame says so of a record before and    *)
(* after a call, NoNewTimer is the half of it about timers; there is one   *)
(* lemma per handler.                                                      *)
(***************************************************************************)
EXTENDS Ardp, WellFoundedInduction, TLAPS

----------------------------------------------------------------------------
(* The macros on sequence numbers, for every even modulus *)

\* The modulus leaves room for two numbers.
LEMMA ModulusPositive == SeqSize \in Nat /\ SeqSize > 1
  BY SeqSizeAssumption

\* uint32_t addition and subtraction stay in range and undo each other.
THEOREM ArithInverse ==
  ASSUME NEW a \in SeqNums, NEW b \in SeqNums
  PROVE  /\ Plus(a, b) \in SeqNums /\ Minus(a, b) \in SeqNums
         /\ Plus(Minus(a, b), b) = a /\ Minus(Plus(a, b), b) = a
  BY ModulusPositive DEF Plus, Minus, SeqNums

(***************************************************************************)
(* IN_RANGE, whose two cases compare unsigned numbers, is membership in    *)
(* the window of sz numbers that starts at beg, wherever the window wraps; *)
(* a window of all the numbers is excluded, the macro takes it for empty.  *)
(***************************************************************************)
THEOREM InRangeCorrect ==
  ASSUME NEW beg \in SeqNums, NEW sz \in 0 .. SeqSize - 1, NEW p \in SeqNums
  PROVE  IN_RANGE(beg, sz, p) <=> Minus(p, beg) < sz
  BY ModulusPositive DEF IN_RANGE, Plus, Minus, SeqNums

(***************************************************************************)
(* SEQ32_LT, a signed comparison of a wrapped difference, orders the       *)
(* numbers of one window as they are sent, as long as the window is no     *)
(* more than half of the numbers.                                          *)
(***************************************************************************)
THEOREM OrderInWindow ==
  ASSUME NEW beg \in SeqNums, NEW sz \in 0 .. SeqSize - 1, 2 * sz <= SeqSize,
         NEW p \in SeqNums, NEW q \in SeqNums,
         IN_RANGE(beg, sz, p), IN_RANGE(beg, sz, q)
  PROVE  SEQ32_LT(p, q) <=> Minus(p, beg) < Minus(q, beg)
  BY ModulusPositive DEF IN_RANGE, SEQ32_LT, Plus, Minus, SeqNums

----------------------------------------------------------------------------
(* Timers and notices *)

NoNewTimer(c, d) ==
  /\ d.persistT # 0 => c.persistT # 0
  /\ \A i \in Slots : d.snd[i].retry # 0 => c.snd[i].retry # 0

SameNotices(c, d) ==
  /\ d.state = c.state /\ d.up = c.up /\ d.reason = c.reason
  /\ d.connT = c.connT /\ d.connH = c.connH
  /\ d.openCb = c.openCb /\ d.failCb = c.failCb /\ d.discCb = c.discCb

Frame(c, d) == NoNewTimer(c, d) /\ SameNotices(c, d)

\* Frame composes along a sequence of handlers.
LEMMA FrameTrans ==
  ASSUME NEW c, NEW d, NEW e
  PROVE  /\ Frame(c, c)
         /\ NoNewTimer(c, d) /\ NoNewTimer(d, e) => NoNewTimer(c, e)
         /\ Frame(c, d) /\ Frame(d, e) => Frame(c, e)
  BY DEF Frame, NoNewTimer, SameNotices

\* A failed assertion only adds to fault.
LEMMA FailsFrame ==
  ASSUME NEW c, NEW broken, NEW name
  PROVE  Frame(c, Fails(c, broken, name))
  BY DEF Frame, NoNewTimer, SameNotices, Fails

\* A datagram only adds to out.
LEMMA EmitFrame ==
  ASSUME NEW c, NEW seg, NEW status
  PROVE  Frame(c, Emit(c, seg, status))
  BY DEF Frame, NoNewTimer, SameNotices, Emit

\* Send and SendAck only send.
LEMMA SendFrame ==
  ASSUME NEW c, NEW flg, NEW seq, NEW ack, NEW lcs, NEW status
  PROVE  Frame(c, Send(c, flg, seq, ack, lcs, status)) /\ Frame(c, SendAck(c, flg, status))
  BY EmitFrame DEF Send, SendAck

\* FlushMessage leaves the timers of the buffers it gives back alone.
LEMMA FlushFrame ==
  ASSUME NEW c, NEW firsts, NEW delivered
  PROVE  Frame(c, FlushMessages(c, firsts, delivered))
<1>. DEFINE slots == UNION {MessageSlots(c, i) : i \in firsts}
<1>1. CASE Cardinality(slots) > c.pending
  BY <1>1, FailsFrame DEF FlushMessages
<1>2. CASE ~(Cardinality(slots) > c.pending)
  BY <1>2 DEF FlushMessages, Frame, NoNewTimer, SameNotices
<1>. QED BY <1>1, <1>2

\* ... and so does FlushSendQueue.
LEMMA FlushQueueFrame ==
  ASSUME NEW c
  PROVE  Frame(c, FlushSendQueue(c))
  BY FlushFrame DEF FlushSendQueue

\* Releasing receive buffers starts the ack timer only.
LEMMA ReleaseFrame ==
  ASSUME NEW c, NEW q
  PROVE  Frame(c, ReleaseUpTo(c, q))
  BY DEF Frame, NoNewTimer, SameNotices, ReleaseUpTo

\* UpdateRcvBuffers works on the receive side.
LEMMA UpdateRcvBuffersFrame ==
  ASSUME NEW c, NEW first
  PROVE  Frame(c, UpdateRcvBuffers(c, first))
  BY FailsFrame, ReleaseFrame DEF UpdateRcvBuffers

\* The delivery of a run assigns fields that Frame does not read.
LEMMA DeliverFrame ==
  ASSUME NEW c, NEW seq, NEW lapsed
  PROVE  Frame(c, Deliver(c, seq, lapsed))
<1>1. ASSUME NEW cur, NEW rcv, NEW got, NEW upq, NEW msk
      PROVE  Frame(c, [c EXCEPT !.CUR = cur, !.rcv = rcv, !.got = got, !.upq = upq,
                                !.rcvMsk = msk])
  BY DEF Frame, NoNewTimer, SameNotices
<1>2. ASSUME NEW d, Frame(c, d), NEW q PROVE Frame(c, ReleaseUpTo(d, q))
  BY <1>2, ReleaseFrame, FrameTrans
<1>. QED BY <1>1, <1>2, Zenon DEF Deliver

\* UpdateSndSegments stops timers and gives buffers back.
LEMMA UpdateSndFrame ==
  ASSUME NEW c, NEW ack, NEW lcs
  PROVE  Frame(c, UpdateSndSegments(c, ack, lcs))
<1>. DEFINE stop(S) == [c EXCEPT !.snd = [i \in Slots |-> IF i \in S
                             THEN [c.snd[i] EXCEPT !.retry = 0] ELSE c.snd[i]]]
            slcs(d) == [d EXCEPT !.SLCS = lcs]
<1>1. \A S : Frame(c, stop(S))
  BY DEF Frame, NoNewTimer, SameNotices
<1>2. \A d : Frame(d, slcs(d))
  BY DEF Frame, NoNewTimer, SameNotices
<1>3. ASSUME NEW S, NEW T PROVE Frame(c, slcs(FlushMessages(stop(S), T, TRUE)))
  <2>. HIDE DEF stop, slcs
  <2>1. Frame(c, FlushMessages(stop(S), T, TRUE))
    BY <1>1, FlushFrame, FrameTrans
  <2>. QED BY <1>2, <2>1, FrameTrans
<1>4. \/ UpdateSndSegments(c, ack, lcs) = slcs(c)
      \/ UpdateSndSegments(c, ack, lcs) = Fails(c, TRUE, "LcsBeyondUna")
      \/ UpdateSndSegments(c, ack, lcs) = Fails(c, TRUE, "AckNotInUse")
      \/ \E S, T : UpdateSndSegments(c, ack, lcs) = slcs(FlushMessages(stop(S), T, TRUE))
  BY Zenon DEF UpdateSndSegments
<1>. HIDE DEF stop, slcs
<1>. QED BY <1>2, <1>3, <1>4, FailsFrame

\* CancelEackedSegments stops timers.
LEMMA CancelFrame ==
  ASSUME NEW c, NEW msk
  PROVE  Frame(c, CancelEackedSegments(c, msk))
  BY DEF Frame, NoNewTimer, SameNotices, CancelEackedSegments

\* AddRcvBuffer works on the receive side.
LEMMA AddRcvBufferFrame ==
  ASSUME NEW c, NEW seg, NEW lapsed
  PROVE  Frame(c, AddRcvBuffer(c, seg, lapsed))
<1>. DEFINE file(b, l) == [c EXCEPT !.rcv[Slot(seg.SEQ)] = b, !.last = l]
            mark(d, m) == [d EXCEPT !.rcvMsk = m]
<1>1. \A b, l : Frame(c, file(b, l))
  BY DEF Frame, NoNewTimer, SameNotices
<1>2. \A d, m : Frame(d, mark(d, m))
  BY DEF Frame, NoNewTimer, SameNotices
<1>3. ASSUME NEW b, NEW l, NEW x, NEW m
      PROVE  LET d == Fails(file(b, l), x, "LastJump")
             IN  Frame(c, Deliver(d, seg.SEQ, lapsed)) /\ Frame(c, mark(d, m))
  <2>. HIDE DEF file, mark
  <2>1. Frame(c, Fails(file(b, l), x, "LastJump"))
    BY <1>1, FailsFrame, FrameTrans
  <2>. QED BY <1>2, <2>1, DeliverFrame, FrameTrans
<1>4. \/ AddRcvBuffer(c, seg, lapsed) = Fails(c, TRUE, "Overwrite")
      \/ AddRcvBuffer(c, seg, lapsed) = c
      \/ \E b, l, x, m : LET d == Fails(file(b, l), x, "LastJump")
                        IN  AddRcvBuffer(c, seg, lapsed) \in {Deliver(d, seg.SEQ, lapsed), mark(d, m)}
  BY Zenon DEF AddRcvBuffer
<1>. HIDE DEF file, mark
<1>. QED BY <1>3, <1>4, FailsFrame, FrameTrans

----------------------------------------------------------------------------
(* The two invariants of a record *)

Tame(c) == c.persistT # 0 => \A i \in Slots : c.snd[i].retry = 0

\* What the transport has been told, by the state of the record.
Told(c) ==
  /\ c.state \in {"UNUSED", "LISTEN", "SYN_SENT", "SYN_RCVD"} =>
       /\ c.openCb = 0 /\ c.failCb = 0 /\ c.discCb = 0
       /\ c.up = "idle" /\ c.connH = "connect"
  /\ c.state = "OPEN" =>
       c.openCb = 1 /\ c.failCb = 0 /\ c.discCb = 0 /\ c.connT = 0
  /\ c.state = "CLOSE_WAIT" =>
       /\ c.openCb \in {0, 1} /\ c.failCb = 0 /\ c.connH = "disconnect"
       /\ c.discCb = IF c.reason = "OK" THEN 0 ELSE 1
  /\ c.state = "CLOSED" =>
       \/ /\ c.connH = "connect" /\ c.openCb = 0 /\ c.discCb = 0 /\ c.failCb \in 0 .. Many
       \/ /\ c.connH = "disconnect" /\ c.openCb \in {0, 1} /\ c.failCb = 0
          /\ c.discCb = 1 /\ c.reason # "OK"
  /\ c.state = "FREED" =>
       /\ c.openCb \in {0, 1} /\ c.discCb \in {0, 1} /\ c.failCb \in 0 .. Many
       /\ c.failCb > 0 => c.openCb = 0 /\ c.discCb = 0
       /\ c.up = "using" => c.discCb = 1
  /\ c.state \in States

Sound(c) == Tame(c) /\ Told(c)
Live(c) == Sound(c) /\ c.state \notin {"UNUSED", "FREED"}

\* A handler in Frame keeps both invariants.
LEMMA FrameLive ==
  ASSUME NEW c, NEW d, Frame(c, d)
  PROVE  (Sound(c) => Sound(d)) /\ (Live(c) => Live(d))
<1>1. Tame(c) => Tame(d)
  BY DEF Frame, NoNewTimer, Tame
<1>2. Told(c) => Told(d)
  BY DEF Frame, SameNotices, Told
<1>. QED BY <1>1, <1>2 DEF Sound, Live, Frame, SameNotices

\* A handler that starts no timer keeps the first one.
LEMMA TameStays ==
  ASSUME NEW c, NEW d, Tame(c), NoNewTimer(c, d)
  PROVE  Tame(d)
  BY DEF NoNewTimer, Tame

\* InitConnRecord: nothing has been told and no timer is on.
LEMMA FreshSound ==
  ASSUME NEW local, NEW foreign, NEW iss
  PROVE  Live(NewConn(local, foreign, iss)) /\ Sound(UnusedConn)
  BY DEF NewConn, UnusedConn, FreshSndBuf, Live, Sound, Tame, Told, States, Many

\* Disconnect, the one place where a live connection begins to close.
LEMMA DisconnectLive ==
  ASSUME NEW c, NEW reason, NEW status, Live(c)
  PROVE  Live(Disconnect(c, reason, status))
<1>. DEFINE c1 == [c EXCEPT !.state = "CLOSE_WAIT"]
            c2 == IF reason = "REMOTE_RESET" THEN c1 ELSE SendAck(c1, {"RST"}, status)
            f  == FlushSendQueue(c2)
            c3 == IF reason = "OK" THEN c2 ELSE [f EXCEPT !.discCb = Again(@)]
            d  == [c3 EXCEPT !.connT = 1, !.connH = "disconnect", !.reason = reason]
<1>1. Disconnect(c, reason, status) = IF c.state \in {"CLOSE_WAIT", "CLOSED"} THEN c ELSE d
  BY DEF Disconnect
<1>2. SUFFICES ASSUME c.state \notin {"CLOSE_WAIT", "CLOSED"} PROVE Live(d)
  BY <1>1
<1>3. NoNewTimer(c, c1) /\ c1.state = "CLOSE_WAIT" /\ c1.openCb = c.openCb
      /\ c1.failCb = c.failCb /\ c1.discCb = c.discCb
  BY DEF NoNewTimer
<1>4. Frame(c1, c2) /\ Frame(c2, f)
  <2>. HIDE DEF c1
  <2>. QED BY SendFrame, FlushQueueFrame, FrameTrans
<1>. HIDE DEF c1, c2, f
<1>5. NoNewTimer(c2, c3) /\ c3.state = c2.state /\ c3.openCb = c2.openCb /\ c3.failCb = c2.failCb
      /\ c3.discCb = IF reason = "OK" THEN c2.discCb ELSE Again(c2.discCb)
  BY <1>4 DEF Frame, NoNewTimer, SameNotices
<1>. HIDE DEF c3
<1>6. NoNewTimer(c3, d) /\ d.state = c3.state /\ d.openCb = c3.openCb /\ d.failCb = c3.failCb
      /\ d.discCb = c3.discCb /\ d.connH = "disconnect" /\ d.reason = reason
  BY DEF NoNewTimer
<1>. HIDE DEF d
<1>7. Tame(d)
  <2>1. NoNewTimer(c, d)
    BY <1>3, <1>4, <1>5, <1>6 DEF NoNewTimer, Frame
  <2>. QED BY <2>1, TameStays DEF Live, Sound
<1>8. c.openCb \in {0, 1} /\ c.failCb = 0 /\ c.discCb = 0
  BY <1>2 DEF Live, Sound, Told, States
<1>9. d.state = "CLOSE_WAIT" /\ d.openCb \in {0, 1} /\ d.failCb = 0
      /\ d.discCb = IF reason = "OK" THEN 0 ELSE 1
  BY <1>3, <1>4, <1>5, <1>6, <1>8 DEF Frame, SameNotices, Again, Many
<1>. QED BY <1>6, <1>7, <1>9 DEF Live, Sound, Told, States

\* DelConnRecord on a record the transport does not use, or has been told of.
LEMMA DelSound ==
  ASSUME NEW c, Live(c), c.up = "using" => c.discCb = 1
  PROVE  Sound(DelConnRecord(c))
<1>. DEFINE d == DelConnRecord(c)
<1>1. d.persistT = 0 /\ d.state = "FREED" /\ d.openCb = c.openCb /\ d.failCb = c.failCb
      /\ d.discCb = c.discCb /\ d.up = c.up
  BY DEF DelConnRecord
<1>2. /\ c.openCb \in {0, 1} /\ c.discCb \in {0, 1} /\ c.failCb \in 0 .. Many
      /\ c.failCb > 0 => c.openCb = 0 /\ c.discCb = 0
  BY DEF Live, Sound, Told, States, Many
<1>. HIDE DEF d
<1>3. Told(d)
  BY <1>1, <1>2 DEF Told, States
<1>4. Tame(d)
  BY <1>1 DEF Tame
<1>. QED BY <1>3, <1>4 DEF Sound, d

----------------------------------------------------------------------------
(* Timers *)

\* DisconnectTimerHandler: the DisconnectCb of a requested close, and removal.
LEMMA DisconnectTimerSound ==
  ASSUME NEW c, Live(c), c.connT # 0, c.connH # "connect"
  PROVE  Sound(DisconnectTimerHandler(c))
<1>. DEFINE c1 == [c EXCEPT !.state = "CLOSED"]
            f  == FlushSendQueue(c1)
            g  == [f EXCEPT !.discCb = Again(@), !.reason = "INVALID_CONNECTION"]
            c2 == IF c.reason = "OK" THEN g ELSE c1
<1>1. DisconnectTimerHandler(c) = IF IsRcvQueueEmpty(c2) THEN DelConnRecord(c2) ELSE c2
  BY DEF DisconnectTimerHandler
<1>2. NoNewTimer(c, c1) /\ c1.state = "CLOSED" /\ c1.openCb = c.openCb /\ c1.failCb = c.failCb
      /\ c1.discCb = c.discCb /\ c1.connH = c.connH /\ c1.reason = c.reason
  BY DEF NoNewTimer
<1>. HIDE DEF c1
<1>3. Frame(c1, f)
  BY FlushQueueFrame
<1>. HIDE DEF f
<1>4. NoNewTimer(f, g) /\ g.state = f.state /\ g.openCb = f.openCb /\ g.failCb = f.failCb
      /\ g.discCb = Again(f.discCb) /\ g.connH = f.connH /\ g.reason = "INVALID_CONNECTION"
  BY DEF NoNewTimer
<1>. HIDE DEF g
<1>5. /\ c.openCb \in {0, 1} /\ c.failCb = 0 /\ c.connH = "disconnect"
      /\ c.discCb = IF c.reason = "OK" THEN 0 ELSE 1
  BY DEF Live, Sound, Told, States
<1>6. /\ c2.state = "CLOSED" /\ c2.openCb \in {0, 1} /\ c2.failCb = 0
      /\ c2.connH = "disconnect" /\ c2.discCb = 1 /\ c2.reason # "OK"
  <2>1. CASE c.reason = "OK"
    BY <2>1, <1>2, <1>3, <1>4, <1>5 DEF Frame, SameNotices, Again, Many
  <2>2. CASE c.reason # "OK"
    BY <2>2, <1>2, <1>5
  <2>. QED BY <2>1, <2>2
<1>7. Tame(c2)
  <2>1. NoNewTimer(c, c2)
    BY <1>2, <1>3, <1>4 DEF NoNewTimer, Frame
  <2>. QED BY <2>1, TameStays DEF Live, Sound
<1>. HIDE DEF c2
<1>8. Live(c2)
  BY <1>6, <1>7 DEF Live, Sound, Told, States
<1>. QED BY <1>1, <1>6, <1>8, DelSound DEF Live

\* ConnectTimerHandler: a retry, or the failed ConnectCb.
LEMMA ConnectTimerLive ==
  ASSUME NEW c, NEW status, Live(c), c.connT # 0, c.connH = "connect"
  PROVE  Live(ConnectTimerHandler(c, status))
<1>. DEFINE r  == [c EXCEPT !.connT = @ - 1]
            c1 == [c EXCEPT !.state = "CLOSED", !.failCb = Again(@), !.up = "failed"]
<1>1. c.state \in {"LISTEN", "SYN_SENT", "SYN_RCVD", "CLOSED"}
      /\ c.openCb = 0 /\ c.discCb = 0 /\ c.failCb \in 0 .. Many
  BY DEF Live, Sound, Told, States, Many
<1>2. Live(r)
  <2>1. NoNewTimer(c, r) /\ r.state = c.state /\ r.openCb = c.openCb /\ r.failCb = c.failCb
        /\ r.discCb = c.discCb /\ r.connH = c.connH /\ r.up = c.up
    BY DEF NoNewTimer
  <2>2. Tame(r)
    BY <2>1, TameStays DEF Live, Sound
  <2>. HIDE DEF r
  <2>3. Told(r)
    BY <1>1, <2>1 DEF Live, Sound, Told
  <2>. QED BY <1>1, <2>1, <2>2, <2>3 DEF Live, Sound
<1>3. Live(c1)
  <2>1. NoNewTimer(c, c1) /\ c1.state = "CLOSED" /\ c1.openCb = c.openCb
        /\ c1.failCb = Again(c.failCb) /\ c1.discCb = c.discCb /\ c1.connH = c.connH
    BY DEF NoNewTimer
  <2>2. Tame(c1)
    BY <2>1, TameStays DEF Live, Sound
  <2>3. Again(c.failCb) \in 0 .. Many
    BY <1>1 DEF Again, Many
  <2>. HIDE DEF c1
  <2>4. Told(c1)
    BY <1>1, <2>1, <2>3 DEF Told, States
  <2>. QED BY <2>1, <2>2, <2>4 DEF Live, Sound
<1>4. \/ \E seg : ConnectTimerHandler(c, status) = Emit(r, seg, status)
      \/ ConnectTimerHandler(c, status) = Send(c1, {"RST"}, c.UNA, 0, c.RMAX, status)
  BY DEF ConnectTimerHandler
<1>. HIDE DEF r, c1
<1>. QED BY <1>2, <1>3, <1>4, EmitFrame, SendFrame, FrameLive

\* AckTimerHandler sends and stops the ack timer.
LEMMA AckTimerFrame ==
  ASSUME NEW c, NEW status
  PROVE  Frame(c, AckTimerHandler(c, status))
<1>1. \A d : Frame(d, [d EXCEPT !.ackT = 0])
  BY DEF Frame, NoNewTimer, SameNotices
<1>. QED BY <1>1, SendFrame, FrameTrans DEF AckTimerHandler

\* ProbeTimerHandler sends or disconnects.
LEMMA ProbeTimerLive ==
  ASSUME NEW c, NEW elapsed, NEW status, Live(c)
  PROVE  Live(ProbeTimerHandler(c, elapsed, status))
  BY DisconnectLive, SendFrame, FrameLive DEF ProbeTimerHandler

\* PersistTimerHandler counts down while no retransmit timer is on.
LEMMA PersistTimerLive ==
  ASSUME NEW c, NEW status, Live(c)
  PROVE  Live(PersistTimerHandler(c, status))
<1>. DEFINE a == SendAck(c, {"ACK", "NUL"}, status)
            d == [a EXCEPT !.persistT = @ - 1]
<1>1. Frame(c, a)
  BY SendFrame
<1>2. CASE DataTimers(c) = {}
  <2>1. SameNotices(a, d) /\ \A i \in Slots : d.snd[i].retry = a.snd[i].retry
    BY DEF SameNotices
  <2>2. \A i \in Slots : d.snd[i].retry = 0
    BY <1>1, <1>2, <2>1 DEF DataTimers, Frame, NoNewTimer
  <2>3. SameNotices(c, d)
    BY <1>1, <2>1 DEF Frame, SameNotices
  <2>. HIDE DEF d
  <2>4. Tame(d) /\ Told(d) /\ d.state = c.state
    BY <2>2, <2>3 DEF Tame, Told, SameNotices, Live, Sound
  <2>5. Live(d)
    BY <2>4 DEF Live, Sound
  <2>. QED BY <2>5, DisconnectLive DEF PersistTimerHandler, d
<1>3. CASE DataTimers(c) # {}
  BY <1>3 DEF PersistTimerHandler
<1>. QED BY <1>2, <1>3

\* Only a timer that was on is set again.
LEMMA RetransmitLive ==
  ASSUME NEW c, NEW due, NEW late, NEW st, NEW status, Live(c), due \subseteq DataTimers(c)
  PROVE  Live(RetransmitTimers(c, due, late, st, status))
<1>. DEFINE order(i)  == ListOrder(c, i)
            isLate(i) == c.snd[i].late \/ i \in late
            res(i)    == TxStatus(c.snd[i], isLate(i), st[i])
            fails(i)  == c.snd[i].retry <= 1 \/ res(i) \in {"error", "expired"}
            failing   == {i \in due : fails(i)}
            first     == CHOOSE i \in failing : \A j \in failing : order(i) <= order(j)
            served    == {i \in due \ failing : failing = {} \/ order(i) < order(first)}
            seen      == served \cup (IF failing = {} THEN {} ELSE {first})
            tx(i)     == IF c.snd[i].retry > 1 THEN TxBuf(c.snd[i], isLate(i), st[i]) ELSE c.snd[i]
            retry(i)  == IF i \notin served THEN 0
                         ELSE IF res(i) = "ok" THEN c.snd[i].retry - 1 ELSE c.snd[i].retry
            resent    == InListOrder(c, {i \in served : res(i) = "ok"})
            c1 == [c EXCEPT !.snd = [i \in Slots |-> IF i \in seen
                                       THEN [tx(i) EXCEPT !.retry = retry(i)] ELSE c.snd[i]],
                            !.out = @ \o [x \in 1 .. Len(resent) |-> DataSeg(c, tx(resent[x]))]]
            reason == IF c.snd[first].retry <= 1 THEN "TIMEOUT"
                      ELSE IF res(first) = "expired" THEN "TTL_EXPIRED" ELSE "SOCKET"
<1>1. RetransmitTimers(c, due, late, st, status) =
        IF \E i \in seen : ~c.snd[i].inUse THEN Fails(c, TRUE, "ResendFlushed")
        ELSE IF failing = {} THEN c1 ELSE Disconnect(c1, reason, status)
  BY DEF RetransmitTimers
<1>. HIDE DEF first, res, tx, resent, reason, failing
<1>2. \A i \in served : c.snd[i].retry # 0
  BY DEF DataTimers
<1>3. \A i : retry(i) # 0 => c.snd[i].retry # 0
  BY <1>2
<1>. HIDE DEF retry, seen
<1>4. Frame(c, c1)
  BY <1>3 DEF Frame, SameNotices, NoNewTimer
<1>. HIDE DEF c1
<1>5. Live(c1)
  BY <1>4, FrameLive
<1>. QED BY <1>1, <1>5, FailsFrame, FrameLive, DisconnectLive

\* CheckConnTimers: the connect timer alone, or the others in turn.
LEMMA CheckConnTimersSound ==
  ASSUME NEW c, NEW due, NEW resend, NEW elapsed, NEW late, NEW status, NEW st, Live(c)
  PROVE  Sound(CheckConnTimers(c, due, resend, elapsed, late, status, st))
<1>. DEFINE c1 == IF "probe" \in due /\ c.probeT # 0
                  THEN ProbeTimerHandler(c, elapsed, status) ELSE c
            c2 == IF "ack" \in due /\ c1.ackT # 0 THEN AckTimerHandler(c1, status) ELSE c1
            c3 == PersistTimerHandler(c2, status)
<1>1. Live(c1)
  BY ProbeTimerLive
<1>. HIDE DEF c1
<1>2. Live(c2)
  BY <1>1, AckTimerFrame, FrameLive
<1>. HIDE DEF c2
<1>3. Live(c3)
  BY <1>2, PersistTimerLive
<1>. HIDE DEF c3
<1>4. Live(Fails(c3, DataTimers(c3) # {}, "PersistWithData"))
  BY <1>3, FailsFrame, FrameLive
<1>5. Live(RetransmitTimers(c2, DataTimers(c2) \cap resend, late, st, status))
  BY <1>2, RetransmitLive
<1>6. CASE c.connT # 0
  BY <1>6, ConnectTimerLive, DisconnectTimerSound DEF CheckConnTimers, Live
<1>7. CASE ~(c.connT # 0)
  <2>1. CheckConnTimers(c, due, resend, elapsed, late, status, st) =
          IF Halted(c1) THEN c1
          ELSE IF "persist" \in due /\ c2.persistT # 0
          THEN Fails(c3, DataTimers(c3) # {}, "PersistWithData")
          ELSE RetransmitTimers(c2, DataTimers(c2) \cap resend, late, st, status)
    BY <1>7 DEF CheckConnTimers, c1, c2, c3
  <2>. QED BY <2>1, <1>1, <1>4, <1>5 DEF Live
<1>. QED BY <1>6, <1>7

----------------------------------------------------------------------------
(* Sending *)

\* A segment that starts its retransmit timer stops the persist timer.
LEMMA SendDataLive ==
  ASSUME NEW c, NEW fcnt, NEW ttl, NEW late, NEW st, NEW status, Live(c)
  PROVE  Live(SendData(c, fcnt, ttl, late, st, status))
<1>. DEFINE slot(i) == Slot(c.NXT + i - 1)
            old(i)  == [c.snd[slot(i)] EXCEPT !.ttl = ttl]
            res(i)  == TxStatus(old(i), late, st[i])
            tried   == {i \in 1 .. fcnt : \A j \in 1 .. i - 1 : res(j) # "error"}
            used    == {i \in tried : res(i) \in {"ok", "wouldblock"}}
            seqOf(i) == SeqPlus(c.NXT, Cardinality({j \in used : j < i}))
            buf(i)  == [TxBuf(old(i), late, st[i]) EXCEPT
                          !.seq = seqOf(i), !.som = c.NXT, !.fcnt = fcnt,
                          !.pay = <<Len(c.sent) + 1, i>>,
                          !.inUse = @ \/ i \in used,
                          !.retry = IF i \in used
                                    THEN DataRetries + (IF res(i) = "ok" THEN 1 ELSE 2) ELSE @]
            sent    == Ascending({i \in used : res(i) = "ok"})
            snd1    == [k \in Slots |-> IF \E i \in tried : slot(i) = k
                          THEN buf(CHOOSE i \in tried : slot(i) = k) ELSE c.snd[k]]
            c1 == [c EXCEPT !.snd = snd1,
                            !.pending = @ + Cardinality(used),
                            !.NXT = SeqPlus(@, Cardinality(used)),
                            !.persistT = IF used = {} THEN @ ELSE 0,
                            !.sent = IF used = {} THEN @ ELSE Append(@, [fcnt |-> fcnt, ttl |-> ttl]),
                            !.out = @ \o [x \in 1 .. Len(sent) |-> DataSeg(c, buf(sent[x]))]]
            c2 == Fails(c1, \E i \in tried : Minus(seqOf(i), c.UNA) >= c.SMAX, "SendQueueFull")
<1>1. SendData(c, fcnt, ttl, late, st, status) =
        IF \E i \in tried : res(i) = "error" THEN Disconnect(c2, "SOCKET", status) ELSE c2
  BY DEF SendData
<1>2. \A i : TxBuf(old(i), late, st[i]).retry = c.snd[slot(i)].retry
  BY DEF TxBuf
<1>. HIDE DEF old, res, tried
<1>3. \A i : i \notin used => buf(i).retry = c.snd[slot(i)].retry
  BY <1>2
<1>. HIDE DEF buf, seqOf, sent
<1>4. used = {} => \A k \in Slots : snd1[k].retry = c.snd[k].retry
  BY <1>3
<1>. HIDE DEF snd1, used
<1>5. SameNotices(c, c1) /\ c1.persistT = (IF used = {} THEN c.persistT ELSE 0) /\ c1.snd = snd1
  BY DEF SameNotices
<1>. HIDE DEF c1
<1>6. Tame(c1)
  BY <1>4, <1>5 DEF Tame, Live, Sound
<1>7. Told(c1) /\ c1.state = c.state
  BY <1>5 DEF Told, SameNotices, Live, Sound
<1>8. Live(c1)
  BY <1>6, <1>7 DEF Live, Sound
<1>9. Live(c2)
  BY <1>8, FailsFrame, FrameLive
<1>. HIDE DEF c2
<1>. QED BY <1>1, <1>9, DisconnectLive

----------------------------------------------------------------------------
(* Setting up a connection *)

Untold(c) == c.openCb = 0 /\ c.failCb = 0 /\ c.discCb = 0 /\ c.up = "idle"

\* DoSendSyn starts the connect timer of a record in a handshake.
LEMMA DoSendSynLive ==
  ASSUME NEW c, NEW status, Tame(c), Untold(c), c.state \in {"SYN_SENT", "SYN_RCVD"}
  PROVE  Live(DoSendSyn(c, status))
<1>. DEFINE d == [c EXCEPT !.connT = ConnectRetries + 1, !.connH = "connect"]
<1>1. NoNewTimer(c, d) /\ Untold(d) /\ d.state = c.state /\ d.connH = "connect"
  BY DEF NoNewTimer, Untold
<1>. HIDE DEF d
<1>2. Live(d)
  BY <1>1, TameStays DEF Live, Sound, Told, Untold, States
<1>. QED BY <1>2, EmitFrame, FrameLive DEF DoSendSyn, d

\* ARDP_Connect on a fresh record.
LEMMA ConnectLive ==
  ASSUME NEW local, NEW foreign, NEW iss, NEW status
  PROVE  Live(Connect(NewConn(local, foreign, iss), status))
<1>. DEFINE c == NewConn(local, foreign, iss)
            d == [InitRcv(c) EXCEPT !.state = "SYN_SENT"]
<1>1. Tame(c) /\ Untold(c)
  BY DEF NewConn, FreshSndBuf, Tame, Untold
<1>. HIDE DEF c
<1>2. NoNewTimer(c, d) /\ Untold(d) /\ d.state = "SYN_SENT"
  BY <1>1 DEF InitRcv, NoNewTimer, Untold
<1>. HIDE DEF d
<1>3. Live(DoSendSyn(d, status))
  BY <1>1, <1>2, TameStays, DoSendSynLive
<1>. QED BY <1>3 DEF Connect, d, c

\* ARDP_Accept on a listening record.
LEMMA AcceptConnLive ==
  ASSUME NEW c, NEW status, Live(c), c.state = "LISTEN"
  PROVE  Live(AcceptConn(c, status))
<1>. DEFINE d == [InitSBUF(InitRcv(c)) EXCEPT !.state = "SYN_RCVD"]
<1>1. Tame(c) /\ Untold(c)
  BY DEF Live, Sound, Told, Untold
<1>2. NoNewTimer(c, d) /\ Untold(d) /\ d.state = "SYN_RCVD"
  BY <1>1 DEF InitRcv, InitSBUF, NoNewTimer, Untold
<1>. HIDE DEF d
<1>3. Live(DoSendSyn(d, status))
  BY <1>1, <1>2, TameStays, DoSendSynLive
<1>. QED BY <1>3 DEF AcceptConn, d

\* ConnectCb(ER_OK), on a record that has just entered OPEN.
LEMMA OpenedLive ==
  ASSUME NEW c, NEW d, Untold(c), Frame(EnterOpen(c), d)
  PROVE  Live([d EXCEPT !.openCb = Again(@), !.up = "connected"])
<1>. DEFINE o == EnterOpen(c)
            e == [d EXCEPT !.openCb = Again(@), !.up = "connected"]
<1>1. o.state = "OPEN" /\ o.connT = 0 /\ o.persistT = 0
      /\ o.openCb = 0 /\ o.failCb = 0 /\ o.discCb = 0
  BY DEF EnterOpen, PostInitRcv, Untold
<1>. HIDE DEF o
<1>2. d.state = "OPEN" /\ d.connT = 0 /\ d.persistT = 0
      /\ d.openCb = 0 /\ d.failCb = 0 /\ d.discCb = 0
  BY <1>1 DEF Frame, SameNotices, NoNewTimer, o
<1>3. e.state = "OPEN" /\ e.connT = 0 /\ e.persistT = 0
      /\ e.openCb = 1 /\ e.failCb = 0 /\ e.discCb = 0
  BY <1>2 DEF Again, Many
<1>. HIDE DEF e
<1>4. Live(e)
  BY <1>3 DEF Live, Sound, Tame, Told, States
<1>. QED BY <1>4 DEF e

----------------------------------------------------------------------------
(* The state machine *)

\* A record in CLOSED only answers.
LEMMA ClosedLive ==
  ASSUME NEW c, NEW seg, NEW status, Live(c)
  PROVE  Live(ClosedSegment(c, seg, status))
  BY SendFrame, FrameLive DEF ClosedSegment

\* LISTEN: accept, reject or close.
LEMMA ListenSound ==
  ASSUME NEW c, NEW seg, NEW accept, NEW status, Live(c), c.state = "LISTEN"
  PROVE  Sound(ListenSegment(c, seg, accept, status))
<1>. DEFINE c1 == [c EXCEPT !.CUR = seg.SEQ, !.IRS = seg.SEQ, !.window = c.SMAX, !.rcvHdr = "full"]
            r  == Send(c, {"RST"}, Plus(seg.ACK, 1), 0, 0, status)
            s  == Send(c1, {"RST"}, Plus(seg.ACK, 1), 0, c1.RMAX, status)
<1>1. Frame(c, c1)
  BY DEF Frame, NoNewTimer, SameNotices
<1>. HIDE DEF c1
<1>2. Live(r) /\ Frame(c, s)
  BY <1>1, SendFrame, FrameLive, FrameTrans
<1>. HIDE DEF r, s
<1>3. Live(c1) /\ Live(s) /\ c1.state = "LISTEN" /\ s.up = "idle"
  BY <1>1, <1>2, FrameLive DEF Frame, SameNotices, Live, Sound, Told
<1>4. ListenSegment(c, seg, accept, status) \in
        {c, Disconnect(r, "INVALID_RESPONSE", status), AcceptConn(c1, status), DelConnRecord(s)}
  BY DEF ListenSegment, r, s, c1
<1>. QED BY <1>2, <1>3, <1>4, DisconnectLive, AcceptConnLive, DelSound DEF Live

\* SYN_SENT: open, close or ignore.
LEMMA SynSentLive ==
  ASSUME NEW c, NEW seg, NEW status, Live(c), c.state = "SYN_SENT"
  PROVE  Live(SynSentSegment(c, seg, status))
<1>. DEFINE c0 == InitSBUF([c EXCEPT !.SMAX = SegMax, !.rcvHdr = "full",
                              !.window = SegMax, !.foreign = seg.SRC, !.IRS = seg.SEQ,
                              !.CUR = seg.SEQ, !.UNA = Plus(seg.ACK, 1)])
            c1 == EnterOpen(c0)
            c2 == Send(c1, {"ACK"}, c1.NXT, c1.CUR, c1.RMAX, status)
<1>1. Untold(c)
  BY DEF Live, Sound, Told, Untold
<1>2. Untold(c0)
  BY <1>1 DEF InitSBUF, Untold
<1>. HIDE DEF c0
<1>3. Frame(c1, c2)
  BY SendFrame
<1>. HIDE DEF c2
<1>4. Live([c2 EXCEPT !.openCb = Again(@), !.up = "connected"])
  BY <1>2, <1>3, OpenedLive
<1>5. SynSentSegment(c, seg, status) \in
        {c, Disconnect(c, "REMOTE_RESET", status), Disconnect(c, "INVALID_RESPONSE", status),
         [c2 EXCEPT !.openCb = Again(@), !.up = "connected"]}
  BY Zenon DEF SynSentSegment, c0, c1, c2
<1>. QED BY <1>4, <1>5, DisconnectLive

\* SYN_RCVD: open, close, acknowledge again or listen again.
LEMMA SynRcvdLive ==
  ASSUME NEW c, NEW seg, NEW status, Live(c), c.state = "SYN_RCVD"
  PROVE  Live(SynRcvdSegment(c, seg, status))
<1>. DEFINE c1 == EnterOpen(c)
            c2 == IF "NUL" \in seg.FLG THEN SendAck(c1, {"ACK"}, status) ELSE c1
            back == [c EXCEPT !.state = "LISTEN"]
            again == Send(c, {"ACK"}, c.NXT, c.CUR, c.RMAX, status)
<1>1. Untold(c) /\ c.connH = "connect"
  BY DEF Live, Sound, Told, Untold
<1>2. Frame(c1, c2)
  <2>. HIDE DEF c1
  <2>. QED BY SendFrame, FrameTrans
<1>. HIDE DEF c2
<1>3. Live([c2 EXCEPT !.openCb = Again(@), !.up = "connected"])
  BY <1>1, <1>2, OpenedLive
<1>4. Live(back)
  <2>1. NoNewTimer(c, back) /\ Untold(back) /\ back.state = "LISTEN" /\ back.connH = "connect"
    BY <1>1 DEF NoNewTimer, Untold
  <2>. HIDE DEF back
  <2>. QED BY <2>1, TameStays DEF Live, Sound, Told, Untold, States
<1>5. Live(again)
  BY SendFrame, FrameLive
<1>6. SynRcvdSegment(c, seg, status) \in
        {c, again, back, Disconnect(c, "REMOTE_RESET", status),
         Disconnect(c, "INVALID_RESPONSE", status),
         [c2 EXCEPT !.openCb = Again(@), !.up = "connected"]}
  BY Zenon DEF SynRcvdSegment, c1, c2, back, again
<1>. QED BY <1>3, <1>4, <1>5, <1>6, DisconnectLive

\* OpenWindow starts the persist timer only when no retransmit timer is on.
LEMMA OpenWindowLive ==
  ASSUME NEW c, NEW window, Live(c)
  PROVE  Live(OpenWindow(c, window))
<1>. DEFINE t == IF DataTimers(c) = {} /\ window < MinSendWindow
                 THEN (IF c.persistT = 0 THEN PersistRetries + 1 ELSE c.persistT) ELSE 0
            d == [c EXCEPT !.window = window, !.persistT = t]
<1>1. t # 0 => DataTimers(c) = {}
  OBVIOUS
<1>. HIDE DEF t
<1>2. SameNotices(c, d) /\ d.persistT = t /\ d.snd = c.snd
  BY DEF SameNotices
<1>. HIDE DEF d
<1>3. Tame(d)
  BY <1>1, <1>2 DEF Tame, DataTimers
<1>4. Told(d) /\ d.state = c.state
  BY <1>2 DEF Told, SameNotices, Live, Sound
<1>5. Live(d)
  BY <1>3, <1>4 DEF Live, Sound
<1>. QED BY <1>5 DEF OpenWindow, d, t

\* OPEN: the parts of OpenSegment in turn.
LEMMA OpenLive ==
  ASSUME NEW c, NEW seg, NEW lapsed, NEW status, Live(c)
  PROVE  Live(OpenSegment(c, seg, lapsed, status))
<1>. DEFINE c1 == OpenAck(c, seg)
            e1 == OpenEack(c1, seg)
            c2 == OpenData(e1, seg, lapsed)
<1>1. \A d : Frame(d, [d EXCEPT !.ackT = 1])
  BY DEF Frame, NoNewTimer, SameNotices
<1>2. Frame(c, c1)
  <2>1. Frame(c, [c EXCEPT !.UNA = Plus(seg.ACK, 1)])
    BY DEF Frame, NoNewTimer, SameNotices
  <2>. QED BY <2>1, UpdateSndFrame, FrameTrans, Zenon DEF OpenAck
<1>. HIDE DEF c1
<1>3. Frame(c1, e1)
  BY CancelFrame, FrameTrans DEF OpenEack
<1>. HIDE DEF e1
<1>4. Frame(e1, c2)
  BY <1>1, AddRcvBufferFrame, FrameTrans, Zenon DEF OpenData
<1>. HIDE DEF c2
<1>5. Live(c1) /\ Live(c2)
  BY <1>2, <1>3, <1>4, FrameLive
<1>6. Live(OpenNul(c, status))
  <2>1. OpenNul(c, status) \in {SendAck(c, {"ACK"}, status), [SendAck(c, {"ACK"}, status) EXCEPT !.ackT = 1]}
    BY DEF OpenNul
  <2>. QED BY <2>1, <1>1, SendFrame, FrameLive
<1>7. OpenSegment(c, seg, lapsed, status) \in
        {c, c1, c2, OpenNul(c, status), Disconnect(c, "REMOTE_RESET", status),
         Disconnect(c, "INVALID_RESPONSE", status), OpenWindow(c2, Window(c, seg.LCS))}
  BY Zenon DEF OpenSegment, c1, e1, c2
<1>. QED BY <1>5, <1>6, <1>7, DisconnectLive, OpenWindowLive

\* ArdpMachine, by state.
LEMMA MachineSound ==
  ASSUME NEW c, NEW seg, NEW accept, NEW lapsed, NEW status, Live(c)
  PROVE  Sound(ArdpMachine(c, seg, accept, lapsed, status))
<1>1. c.state \in {"CLOSED", "LISTEN", "SYN_SENT", "SYN_RCVD", "OPEN", "CLOSE_WAIT"}
  BY DEF Live, Sound, Told, States
<1>. QED BY <1>1, ClosedLive, ListenSound, SynSentLive, SynRcvdLive, OpenLive
         DEF ArdpMachine, Live

\* Receive, past the check of the header length.
LEMMA ReceiveSound ==
  ASSUME NEW c, NEW seg, NEW accept, NEW lapsed, NEW status, Live(c)
  PROVE  Sound(Receive(c, seg, accept, lapsed, status))
  BY MachineSound DEF Receive, Live

\* Accept on a fresh record.
LEMMA AcceptSound ==
  ASSUME NEW local, NEW foreign, NEW iss, NEW seg, NEW accept, NEW status
  PROVE  Sound(Accept(NewConn(local, foreign, iss), seg, accept, status))
<1>. DEFINE c == NewConn(local, foreign, iss)
            d == [c EXCEPT !.state = "LISTEN", !.passive = TRUE, !.SMAX = SegMax]
<1>1. Tame(c) /\ Untold(c) /\ c.connH = "connect" /\ Live(c)
  BY FreshSound DEF NewConn, FreshSndBuf, Tame, Untold
<1>. HIDE DEF c
<1>2. NoNewTimer(c, d) /\ Untold(d) /\ d.state = "LISTEN" /\ d.connH = "connect"
  BY <1>1 DEF NoNewTimer, Untold
<1>. HIDE DEF d
<1>3. Live(d)
  BY <1>1, <1>2, TameStays DEF Live, Sound, Told, Untold, States
<1>4. Accept(c, seg, accept, status) \in {c, ArdpMachine(d, seg, accept, {}, status)}
  BY DEF Accept, d
<1>. QED BY <1>1, <1>3, <1>4, MachineSound DEF c, Live

----------------------------------------------------------------------------
(* The system *)

\* The inductive invariant: every record is sound.
Shape == conns = [n \in Nodes |-> [i \in ConnIds |-> conns[n][i]]]
Inv == Shape /\ \A n \in Nodes, i \in ConnIds : Sound(conns[n][i])

\* A step that replaces one record by a sound one keeps the invariant.
LEMMA CommitInv ==
  ASSUME Inv, NEW n \in Nodes, NEW i \in ConnIds, NEW c, NEW inbox, Sound(c),
         Commit(n, i, c, inbox)
  PROVE  Inv'
<1>. DEFINE d == [c EXCEPT !.out = << >>]
<1>1. Frame(c, d)
  BY DEF Frame, NoNewTimer, SameNotices
<1>2. Sound(d)
  BY <1>1, FrameLive
<1>3. conns' = [conns EXCEPT ![n][i] = d]
  BY DEF Commit
<1>. HIDE DEF d
<1>4. Shape' /\ \A m \in Nodes, j \in ConnIds :
        conns'[m][j] = IF m = n /\ j = i THEN d ELSE conns[m][j]
  BY <1>3 DEF Inv, Shape
<1>. QED BY <1>2, <1>4 DEF Inv

\* A node with room has a next record, one that no call has used.
LEMMA NextIdFacts ==
  ASSUME NEW n \in Nodes, HasRoom(n)
  PROVE  NextId(n) \in ConnIds /\ conns[n][NextId(n)].state = "UNUSED"
<1>. DEFINE T == {i \in ConnIds : conns[n][i].state = "UNUSED"}
<1>1. T \subseteq Nat /\ T # {}
  BY DEF HasRoom, ConnIds
<1>2. PICK x \in T : \A y \in T : ~ (<<y, x>> \in OpToRel(<, Nat))
  <2>. HIDE DEF T
  <2>. QED BY <1>1, WFMin, NatLessThanWellFounded
<1>3. \A y \in T : ~(y < x)
  BY <1>1, <1>2 DEF OpToRel
<1>4. x \in ConnIds /\ conns[n][x].state = "UNUSED"
      /\ \A j \in 1 .. x - 1 : conns[n][j].state # "UNUSED"
  BY <1>3, ArdpAssumption DEF ConnIds
<1>. QED BY <1>4 DEF NextId

\* A received datagram: accepted, refused, handed to a record or dropped.
LEMMA HandleSegmentInv ==
  ASSUME Inv, NEW n \in Nodes, NEW seg, NEW inbox, HandleSegment(n, seg, inbox)
  PROVE  Inv'
<1>1. CASE HasRoom(n) /\ \E p \in PortChoices(n), iss \in ISSs, accept \in AcceptAnswers, status \in Socks :
             Commit(n, NextId(n), Accept(NewConn(p, seg.SRC, iss), seg, accept, status), inbox)
  BY <1>1, NextIdFacts, AcceptSound, CommitInv
<1>2. CASE UNCHANGED conns
  BY <1>2 DEF Inv, Shape
<1>3. CASE \E i \in Targets(n, seg) : \E lapsed, status :
             Commit(n, i, Receive(conns[n][i], seg, TRUE, lapsed, status), inbox)
  <2>0. PICK i \in Targets(n, seg) : \E lapsed, status :
          Commit(n, i, Receive(conns[n][i], seg, TRUE, lapsed, status), inbox)
    BY <1>3
  <2>1. PICK lapsed, status :
          Commit(n, i, Receive(conns[n][i], seg, TRUE, lapsed, status), inbox)
    BY <2>0
  <2>2. i \in ConnIds /\ IsConnValid(conns[n][i])
    <3>1. ASSUME NEW T, T \subseteq ConnIds, T # {} PROVE Min(T) \in T
      <4>1. T \subseteq Nat
        BY <3>1 DEF ConnIds
      <4>2. PICK x \in T : \A y \in T : ~ (<<y, x>> \in OpToRel(<, Nat))
        BY <3>1, <4>1, WFMin, NatLessThanWellFounded
      <4>3. \A y \in T : ~(y < x)
        BY <4>1, <4>2 DEF OpToRel
      <4>4. \A y \in T : x <= y
        BY <4>1, <4>3
      <4>. QED BY <4>4 DEF Min
    <3>2. \A l, f : Matches(n, l, f) \subseteq ConnIds
                   /\ \A j \in Matches(n, l, f) : IsConnValid(conns[n][j])
      BY DEF Matches
    <3>3. i \in Matches(n, seg.DST, seg.SRC) \/ i \in Matches(n, seg.DST, 0)
      BY <3>1, <3>2 DEF Targets
    <3>. QED BY <3>2, <3>3
  <2>3. Live(conns[n][i])
    BY <2>2 DEF Inv, IsConnValid, Live
  <2>. QED BY <2>1, <2>2, <2>3, ReceiveSound, CommitInv
<1>. QED BY <1>1, <1>2, <1>3, Zenon DEF HandleSegment

\* Initially no record is in use.
LEMMA InvInit == Init => Inv
  BY FreshSound DEF Init, Inv, Shape

\* Every call keeps every record sound.
LEMMA InvNext == Inv /\ [Next]_vars => Inv'
<1>. SUFFICES ASSUME Inv, [Next]_vars PROVE Inv'
  OBVIOUS
<1>1. ASSUME NEW n \in Nodes, NEW i \in ConnIds, IsConnValid(conns[n][i])
      PROVE  Live(conns[n][i])
  BY <1>1 DEF Inv, IsConnValid, Live
<1>2. ASSUME NEW n \in Nodes, ARDP_Connect(n) PROVE Inv'
  <2>1. PICK p \in PortChoices(n), iss \in ISSs, status \in Socks :
          Call(n, NextId(n), Connect(NewConn(p, 0, iss), status))
    BY <1>2 DEF ARDP_Connect
  <2>2. NextId(n) \in ConnIds
    BY <1>2, NextIdFacts DEF ARDP_Connect
  <2>. QED BY <2>1, <2>2, ConnectLive, CommitInv DEF Call, Live
<1>3. ASSUME NEW n \in Nodes, NEW i \in ConnIds, ARDP_Send(n, i) PROVE Inv'
  <2>1. PICK fcnt \in FragCounts :
          /\ CanSend(conns[n][i], fcnt)
          /\ \E ttl \in Ttls, late \in BOOLEAN, st \in [1 .. fcnt -> Socks], status \in Socks :
               Call(n, i, SendData(conns[n][i], fcnt, ttl, late, st, status))
    BY <1>3 DEF ARDP_Send
  <2>2. Live(conns[n][i])
    BY <1>1, <2>1 DEF CanSend, IsConnValid
  <2>3. PICK ttl \in Ttls, late \in BOOLEAN, st \in [1 .. fcnt -> Socks], status \in Socks :
          Call(n, i, SendData(conns[n][i], fcnt, ttl, late, st, status))
    BY <2>1
  <2>. QED BY <2>2, <2>3, SendDataLive, CommitInv DEF Call, Live
<1>4. ASSUME NEW n \in Nodes, NEW i \in ConnIds, ARDP_RecvReady(n, i) PROVE Inv'
  <2>. DEFINE c == conns[n][i]
              read(d, s) == [d EXCEPT !.upq = @ \ {s}, !.nread = @ + 1]
  <2>1. PICK s \in c.upq : Call(n, i, read(UpdateRcvBuffers(c, s), s))
    BY <1>4 DEF ARDP_RecvReady
  <2>2. \A d : Frame(d, read(d, s))
    BY DEF Frame, NoNewTimer, SameNotices
  <2>3. Live(c)
    BY <1>1, <1>4 DEF ARDP_RecvReady
  <2>. HIDE DEF c, read
  <2>4. Live(read(UpdateRcvBuffers(c, s), s))
    BY <2>2, <2>3, UpdateRcvBuffersFrame, FrameLive
  <2>. QED BY <2>1, <2>4, CommitInv DEF Call, Live
<1>5. ASSUME NEW n \in Nodes, NEW i \in ConnIds, ARDP_Disconnect(n, i) PROVE Inv'
  <2>1. PICK status \in Socks : Call(n, i, Disconnect(conns[n][i], "OK", status))
    BY <1>5 DEF ARDP_Disconnect
  <2>2. conns[n][i].up = "using" /\ conns[n][i].state # "FREED"
    BY <1>5 DEF ARDP_Disconnect
  <2>3. Live(conns[n][i])
    BY <2>2 DEF Inv, Sound, Told, Live
  <2>. QED BY <2>1, <2>3, DisconnectLive, CommitInv DEF Call, Live
<1>6. ASSUME NEW n \in Nodes, NEW i \in ConnIds, DoConnectCb(n, i) PROVE Inv'
  <2>. DEFINE c == conns[n][i]
              u == [c EXCEPT !.up = "using"]
              r == [c EXCEPT !.up = "idle"]
  <2>1. Call(n, i, u) \/ Call(n, i, DelConnRecord(r))
    BY <1>6 DEF DoConnectCb
  <2>2. Live(c) /\ c.up \in {"connected", "failed"}
    BY <1>1, <1>6 DEF DoConnectCb
  <2>3. NoNewTimer(c, u) /\ NoNewTimer(c, r) /\ r.up = "idle"
        /\ \A d \in {u, r} : d.state = c.state /\ d.connT = c.connT /\ d.connH = c.connH
             /\ d.openCb = c.openCb /\ d.failCb = c.failCb /\ d.discCb = c.discCb
             /\ d.reason = c.reason
    BY DEF NoNewTimer
  <2>. HIDE DEF c, u, r
  <2>4. Tame(u) /\ Tame(r)
    BY <2>2, <2>3, TameStays DEF Live, Sound
  <2>5. Told(u) /\ Told(r)
    BY <2>2, <2>3 DEF Live, Sound, Told
  <2>6. Live(u) /\ Live(r)
    BY <2>2, <2>3, <2>4, <2>5 DEF Live, Sound
  <2>. QED BY <2>1, <2>3, <2>6, DelSound, CommitInv DEF Call, Live
<1>7. ASSUME NEW n \in Nodes, NEW i \in ConnIds, CheckTimers(n, i) PROVE Inv'
  <2>1. PICK due, resend : FireTimers(n, i, due, resend)
    BY <1>7 DEF CheckTimers
  <2>2. Live(conns[n][i])
    BY <1>1, <2>1 DEF FireTimers
  <2>3. \E status, elapsed, late, st :
          Call(n, i, CheckConnTimers(conns[n][i], due, resend, elapsed, late, status, st))
    BY <2>1, Zenon DEF FireTimers
  <2>. QED BY <2>2, <2>3, CheckConnTimersSound, CommitInv DEF Call
<1>8. ASSUME NEW n \in Nodes, NEW k, ARDP_Run(n, k) PROVE Inv'
  BY <1>8, HandleSegmentInv DEF ARDP_Run
<1>9. ASSUME NEW n \in Nodes, NEW k, Lose(n, k) PROVE Inv'
  BY <1>9 DEF Lose, Inv, Shape
<1>10. ASSUME NEW n \in Nodes, ARDP_StartPassive(n) PROVE Inv'
  BY <1>10 DEF ARDP_StartPassive, Inv, Shape
<1>11. CASE UNCHANGED vars
  BY <1>11 DEF vars, Inv, Shape
<1>. QED BY <1>2, <1>3, <1>4, <1>5, <1>6, <1>7, <1>8, <1>9, <1>10, <1>11 DEF Next

\* The invariant says what the two theorems claim.
LEMMA InvImplies == Inv => PersistExcludesRetransmit /\ NoticesConsistent
<1>. SUFFICES ASSUME Inv PROVE PersistExcludesRetransmit /\ NoticesConsistent
  OBVIOUS
<1>1. ASSUME NEW n \in Nodes, NEW i \in ConnIds, conns[n][i].persistT # 0
      PROVE  DataTimers(conns[n][i]) = {}
  BY <1>1 DEF Inv, Sound, Tame, DataTimers
<1>2. ASSUME NEW c, Told(c)
      PROVE  /\ c.openCb <= 1 /\ c.discCb <= 1
             /\ c.failCb > 0 => c.openCb = 0 /\ c.discCb = 0
             /\ c.state = "FREED" /\ c.up = "using" => c.discCb = 1
  BY <1>2 DEF Told, States, Many
<1>3. PersistExcludesRetransmit
  BY <1>1 DEF PersistExcludesRetransmit, Every
<1>4. NoticesConsistent
  BY <1>2 DEF NoticesConsistent, Every, Inv, Sound
<1>. QED BY <1>3, <1>4

(***************************************************************************)
(* The persist timer and the retransmit timers of a connection are never   *)
(* on together, so that the assertion in CheckConnTimers cannot fail,      *)
(* whatever the peer, the network, the socket and the clock do.            *)
(***************************************************************************)
THEOREM PersistSafe == Spec => []PersistExcludesRetransmit
<1>1. Init => Inv
  BY InvInit
<1>2. Inv /\ [Next]_vars => Inv'
  BY InvNext
<1>3. Inv => PersistExcludesRetransmit
  BY InvImplies
<1>. QED BY <1>1, <1>2, <1>3, PTL DEF Spec

(***************************************************************************)
(* The transport gets a consistent account of every connection from        *)
(* ConnectCb and DisconnectCb: opened once at most, closed once at most,   *)
(* never failed and opened, never removed in use without a DisconnectCb.   *)
(***************************************************************************)
THEOREM NoticesSafe == Spec => []NoticesConsistent
<1>1. Init => Inv
  BY InvInit
<1>2. Inv /\ [Next]_vars => Inv'
  BY InvNext
<1>3. Inv => NoticesConsistent
  BY InvImplies
<1>. QED BY <1>1, <1>2, <1>3, PTL DEF Spec
=============================================================================
