------------------------ MODULE ArdpHandshakeProofs ------------------------
(***************************************************************************)
(* The handshake of ARDP, for every number of records, ports, sequence     *)
(* numbers, losses, copies and orders of arrival: the two ends of an open  *)
(* connection agree on their ports and on their initial sequence numbers.  *)
(*                                                                         *)
(* The argument follows the datagrams.  Every one of them carries the      *)
(* ports of the record that sent it (Legit), a record keeps its ports and  *)
(* initial sequence numbers once it has them (Keeps, one lemma per         *)
(* handler), and so what a datagram on the wire says of its sender stays   *)
(* true (Legal).                                                           *)
(***************************************************************************)
EXTENDS ArdpProofs, FiniteSetTheorems

----------------------------------------------------------------------------
(* Sequences of datagrams, whatever a datagram is *)

IsSeq(s) == s \in Seq(Range(s))

\* A sequence over any set is one over its own range.
LEMMA SeqRange ==
  ASSUME NEW T, NEW s \in Seq(T)
  PROVE  IsSeq(s) /\ Range(s) \subseteq T
<1>1. s = [i \in 1 .. Len(s) |-> s[i]] /\ DOMAIN s = 1 .. Len(s) /\ Len(s) \in Nat
  OBVIOUS
<1>2. \A i \in 1 .. Len(s) : s[i] \in Range(s) /\ s[i] \in T
  BY <1>1 DEF Range
<1>3. s \in [1 .. Len(s) -> Range(s)]
  BY <1>1, <1>2
<1>4. s \in Seq(Range(s))
  BY <1>1, <1>3
<1>. QED BY <1>1, <1>2, <1>4 DEF IsSeq, Range

\* ... and over every larger set.
LEMMA SeqMono ==
  ASSUME NEW S, NEW T, S \subseteq T, NEW s \in Seq(S)
  PROVE  s \in Seq(T)
<1>1. s = [i \in 1 .. Len(s) |-> s[i]] /\ Len(s) \in Nat
  OBVIOUS
<1>2. \A i \in 1 .. Len(s) : s[i] \in T
  OBVIOUS
<1>3. s \in [1 .. Len(s) -> T]
  BY <1>1, <1>2
<1>. QED BY <1>1, <1>3

\* One more datagram.
LEMMA AppendSeq ==
  ASSUME NEW s, NEW e, IsSeq(s)
  PROVE  IsSeq(Append(s, e)) /\ Range(Append(s, e)) \subseteq Range(s) \cup {e}
<1>. DEFINE T == Range(s) \cup {e}
<1>1. s \in Seq(T)
  BY SeqMono DEF IsSeq
<1>2. e \in T
  OBVIOUS
<1>. HIDE DEF T
<1>3. Append(s, e) \in Seq(T)
  BY <1>1, <1>2
<1>. QED BY <1>3, SeqRange DEF T

\* One sequence behind another.
LEMMA ConcatSeq ==
  ASSUME NEW s, NEW t, IsSeq(s), IsSeq(t)
  PROVE  IsSeq(s \o t) /\ Range(s \o t) \subseteq Range(s) \cup Range(t)
<1>. DEFINE T == Range(s) \cup Range(t)
<1>1. s \in Seq(T) /\ t \in Seq(T)
  BY SeqMono DEF IsSeq
<1>. HIDE DEF T
<1>2. s \o t \in Seq(T)
  BY <1>1
<1>. QED BY <1>2, SeqRange DEF T

\* A function on 1 .. k is a sequence.
LEMMA FunSeq ==
  ASSUME NEW k \in Nat, NEW s, DOMAIN s = 1 .. k, s = [i \in 1 .. k |-> s[i]]
  PROVE  IsSeq(s)
<1>1. s \in [1 .. k -> Range(s)]
  BY DEF Range
<1>. QED BY <1>1 DEF IsSeq

\* A channel without one of its datagrams.
LEMMA RemoveSeq ==
  ASSUME NEW s, IsSeq(s), NEW k \in 1 .. Len(s)
  PROVE  IsSeq(RemoveAt(s, k)) /\ Range(RemoveAt(s, k)) \subseteq Range(s)
<1>. DEFINE T == Range(s)
<1>1. s \in Seq(T)
  BY DEF IsSeq
<1>. HIDE DEF T
<1>2. Len(s) \in Nat /\ k \in Nat /\ k >= 1 /\ k <= Len(s)
  BY <1>1
<1>3. SubSeq(s, 1, k - 1) \in Seq(T) /\ SubSeq(s, k + 1, Len(s)) \in Seq(T)
  BY <1>1, <1>2
<1>4. RemoveAt(s, k) \in Seq(T)
  BY <1>3 DEF RemoveAt
<1>. QED BY <1>4, SeqRange DEF T

\* What fits in a channel.
LEMMA FitSeq ==
  ASSUME NEW s, IsSeq(s)
  PROVE  IsSeq(Fit(s)) /\ Range(Fit(s)) \subseteq Range(s)
<1>. DEFINE T == Range(s)
            l == Min({Len(s), MaxNet})
<1>1. s \in Seq(T) /\ Len(s) \in Nat /\ MaxNet \in Nat
  BY ArdpAssumption DEF IsSeq
<1>. HIDE DEF T
<1>2. l \in {Len(s), MaxNet} /\ l <= Len(s)
  <2>1. \E x \in {Len(s), MaxNet} : \A y \in {Len(s), MaxNet} : x <= y
    BY <1>1
  <2>. QED BY <2>1 DEF Min
<1>. HIDE DEF l
<1>3. SubSeq(s, 1, l) \in Seq(T)
  BY <1>1, <1>2
<1>. QED BY <1>3, SeqRange DEF T, Fit, l

\* The order in which a call sends the segments of its buffers.
LEMMA OrderedSeq ==
  ASSUME NEW c, NEW S, IsFiniteSet(S)
  PROVE  Len(Ascending(S)) \in Nat /\ Len(InListOrder(c, S)) \in Nat
<1>1. Cardinality(S) \in Nat
  BY FS_CardinalityType
<1>2. ASSUME NEW k \in Nat, NEW s, DOMAIN s = 1 .. k, s = [i \in 1 .. k |-> s[i]]
      PROVE  Len(s) \in Nat
  BY <1>2, FunSeq DEF IsSeq
<1>3. DOMAIN Ascending(S) = 1 .. Cardinality(S)
      /\ Ascending(S) = [i \in 1 .. Cardinality(S) |-> Ascending(S)[i]]
  BY DEF Ascending, InOrderOf
<1>4. DOMAIN InListOrder(c, S) = 1 .. Cardinality(S)
      /\ InListOrder(c, S) = [i \in 1 .. Cardinality(S) |-> InListOrder(c, S)[i]]
  BY DEF InListOrder, InOrderOf
<1>. QED BY <1>1, <1>2, <1>3, <1>4

----------------------------------------------------------------------------
(* One record *)

Used(c) == c.state # "UNUSED"

\* What is decided in the handshake and stays.
Same(c, d) ==
  /\ d.local = c.local /\ d.foreign = c.foreign /\ d.passive = c.passive
  /\ d.ISS = c.ISS /\ d.IRS = c.IRS /\ d.openCb = c.openCb

\* The part of a record in the handshake, by its state; a record that knows
\* its peer and did not accept sends no SYN any more.
Role(c) ==
  /\ c.state = "SYN_SENT" => c.foreign = 0 /\ ~c.passive
  /\ c.state \in {"LISTEN", "SYN_RCVD"} => c.passive
  /\ ~c.passive /\ c.foreign # 0 => c.connT = 0 \/ c.connH = "disconnect"

\* A datagram that record c may send.
Legit(c, seg) ==
  /\ seg.SRC = c.local /\ (seg.DST # 0 => seg.DST = c.foreign)
  /\ "SYN" \in seg.FLG =>
       /\ seg.SEQ = c.ISS
       /\ c.passive => "ACK" \in seg.FLG /\ seg.DST = c.foreign
       /\ ~c.passive => "ACK" \notin seg.FLG /\ seg.DST = 0

Polite(c) == IsSeq(c.out) /\ \A seg \in Range(c.out) : Legit(c, seg)

Proper(c) == Role(c) /\ Polite(c)

Keeps(c, d) == Same(c, d) /\ (Used(c) => Used(d)) /\ (Proper(c) => Proper(d))

\* Keeps composes along a sequence of handlers.
LEMMA KeepsTrans ==
  ASSUME NEW c, NEW d, NEW e
  PROVE  Keeps(c, c) /\ (Keeps(c, d) /\ Keeps(d, e) => Keeps(c, e))
<1>1. Same(c, c) /\ (Same(c, d) /\ Same(d, e) => Same(c, e))
  BY DEF Same
<1>. QED BY <1>1 DEF Keeps

\* What a record may send depends on the decided part only.
LEMMA PoliteStays ==
  ASSUME NEW c, NEW d, Same(c, d), d.out = c.out, Polite(c)
  PROVE  Polite(d)
<1>1. \A seg : Legit(c, seg) => Legit(d, seg)
  BY DEF Same, Legit
<1>. QED BY <1>1 DEF Polite

Calm(c, d) == Same(c, d) /\ d.out = c.out /\ d.state = c.state
              /\ d.connT = c.connT /\ d.connH = c.connH

\* Handlers of data leave everything alone that the handshake is about.
LEMMA CalmKeeps ==
  ASSUME NEW c, NEW d, Calm(c, d)
  PROVE  Keeps(c, d)
<1>1. Role(c) => Role(d)
  BY DEF Role, Calm, Same
<1>2. Polite(c) => Polite(d)
  BY PoliteStays DEF Calm
<1>. QED BY <1>1, <1>2 DEF Keeps, Calm, Used, Proper

\* Calm composes.
LEMMA CalmTrans ==
  ASSUME NEW c, NEW d, NEW e
  PROVE  Calm(c, c) /\ (Calm(c, d) /\ Calm(d, e) => Calm(c, e))
  BY DEF Calm, Same

\* Sending a legitimate datagram.
LEMMA EmitKeeps ==
  ASSUME NEW c, NEW seg, NEW status, Proper(c) => Legit(c, seg)
  PROVE  Keeps(c, Emit(c, seg, status))
<1>. DEFINE d == [c EXCEPT !.out = Append(@, seg)]
<1>1. Same(c, d) /\ d.state = c.state /\ d.connT = c.connT /\ d.connH = c.connH
      /\ d.out = Append(c.out, seg)
  BY DEF Same
<1>2. Emit(c, seg, status) = c \/ Emit(c, seg, status) = d
  BY DEF Emit
<1>. HIDE DEF d
<1>3. Role(c) => Role(d)
  BY <1>1 DEF Role, Same
<1>4. ASSUME Proper(c) PROVE Polite(d)
  <2>1. IsSeq(d.out) /\ Range(d.out) \subseteq Range(c.out) \cup {seg}
    BY <1>1, <1>4, AppendSeq DEF Proper, Polite
  <2>2. \A x : Legit(c, x) => Legit(d, x)
    BY <1>1 DEF Same, Legit
  <2>. QED BY <2>1, <2>2, <1>4 DEF Polite, Proper
<1>5. Keeps(c, d)
  BY <1>1, <1>3, <1>4 DEF Keeps, Proper, Used
<1>. QED BY <1>2, <1>5, KeepsTrans

\* Every datagram but the SYN is sent by Send.
LEMMA SendKeeps ==
  ASSUME NEW c, NEW flg, NEW seq, NEW ack, NEW lcs, NEW status, "SYN" \notin flg
  PROVE  Keeps(c, Send(c, flg, seq, ack, lcs, status)) /\ Keeps(c, SendAck(c, flg, status))
<1>1. \A s, a, l : Legit(c, ControlSeg(c, flg, s, a, l))
  BY DEF Legit, ControlSeg
<1>. QED BY <1>1, EmitKeeps DEF Send, SendAck

\* The SYN of a record whose connect timer runs, or that is about to start it.
LEMMA SynLegit ==
  ASSUME NEW c, ~c.passive => c.foreign = 0
  PROVE  Legit(c, SynSeg(c))
<1>. DEFINE s == SynSeg(c)
<1>1. s.SRC = c.local /\ s.DST = c.foreign /\ s.SEQ = c.ISS
      /\ (c.passive => "ACK" \in s.FLG) /\ (~c.passive => "ACK" \notin s.FLG)
  BY DEF SynSeg, ControlSeg
<1>. QED BY <1>1 DEF Legit

\* A failed assertion only adds to fault.
LEMMA FailsCalm ==
  ASSUME NEW c, NEW broken, NEW name
  PROVE  Calm(c, Fails(c, broken, name))
  BY DEF Calm, Same, Fails

\* FlushMessage.
LEMMA FlushCalm ==
  ASSUME NEW c, NEW firsts, NEW delivered
  PROVE  Calm(c, FlushMessages(c, firsts, delivered)) /\ Calm(c, FlushSendQueue(c))
<1>1. ASSUME NEW f, NEW x PROVE Calm(c, FlushMessages(c, f, x))
  <2>. DEFINE slots == UNION {MessageSlots(c, i) : i \in f}
  <2>1. CASE Cardinality(slots) > c.pending
    BY <2>1, FailsCalm DEF FlushMessages
  <2>2. CASE ~(Cardinality(slots) > c.pending)
    BY <2>2 DEF FlushMessages, Calm, Same
  <2>. QED BY <2>1, <2>2
<1>. QED BY <1>1 DEF FlushSendQueue

\* Releasing receive buffers.
LEMMA ReleaseCalm ==
  ASSUME NEW c, NEW q
  PROVE  Calm(c, ReleaseUpTo(c, q))
  BY DEF Calm, Same, ReleaseUpTo

\* UpdateRcvBuffers.
LEMMA UpdateRcvBuffersCalm ==
  ASSUME NEW c, NEW first
  PROVE  Calm(c, UpdateRcvBuffers(c, first))
  BY FailsCalm, ReleaseCalm DEF UpdateRcvBuffers

\* The delivery of a run.
LEMMA DeliverCalm ==
  ASSUME NEW c, NEW seq, NEW lapsed
  PROVE  Calm(c, Deliver(c, seq, lapsed))
<1>1. ASSUME NEW cur, NEW rcv, NEW got, NEW upq, NEW msk
      PROVE  Calm(c, [c EXCEPT !.CUR = cur, !.rcv = rcv, !.got = got, !.upq = upq,
                               !.rcvMsk = msk])
  BY DEF Calm, Same
<1>2. ASSUME NEW d, Calm(c, d), NEW q PROVE Calm(c, ReleaseUpTo(d, q))
  BY <1>2, ReleaseCalm, CalmTrans
<1>. QED BY <1>1, <1>2, Zenon DEF Deliver

\* UpdateSndSegments.
LEMMA UpdateSndCalm ==
  ASSUME NEW c, NEW ack, NEW lcs
  PROVE  Calm(c, UpdateSndSegments(c, ack, lcs))
<1>. DEFINE stop(S) == [c EXCEPT !.snd = [i \in Slots |-> IF i \in S
                             THEN [c.snd[i] EXCEPT !.retry = 0] ELSE c.snd[i]]]
            slcs(d) == [d EXCEPT !.SLCS = lcs]
<1>1. \A S : Calm(c, stop(S))
  BY DEF Calm, Same
<1>2. \A d : Calm(d, slcs(d))
  BY DEF Calm, Same
<1>3. ASSUME NEW S, NEW T PROVE Calm(c, slcs(FlushMessages(stop(S), T, TRUE)))
  <2>. HIDE DEF stop, slcs
  <2>1. Calm(c, FlushMessages(stop(S), T, TRUE))
    BY <1>1, FlushCalm, CalmTrans
  <2>. QED BY <1>2, <2>1, CalmTrans
<1>4. \/ UpdateSndSegments(c, ack, lcs) = slcs(c)
      \/ UpdateSndSegments(c, ack, lcs) = Fails(c, TRUE, "LcsBeyondUna")
      \/ UpdateSndSegments(c, ack, lcs) = Fails(c, TRUE, "AckNotInUse")
      \/ \E S, T : UpdateSndSegments(c, ack, lcs) = slcs(FlushMessages(stop(S), T, TRUE))
  BY Zenon DEF UpdateSndSegments
<1>. HIDE DEF stop, slcs
<1>. QED BY <1>2, <1>3, <1>4, FailsCalm

\* CancelEackedSegments.
LEMMA CancelCalm ==
  ASSUME NEW c, NEW msk
  PROVE  Calm(c, CancelEackedSegments(c, msk))
  BY DEF Calm, Same, CancelEackedSegments

\* AddRcvBuffer.
LEMMA AddRcvBufferCalm ==
  ASSUME NEW c, NEW seg, NEW lapsed
  PROVE  Calm(c, AddRcvBuffer(c, seg, lapsed))
<1>. DEFINE file(b, l) == [c EXCEPT !.rcv[Slot(seg.SEQ)] = b, !.last = l]
            mark(d, m) == [d EXCEPT !.rcvMsk = m]
<1>1. \A b, l : Calm(c, file(b, l))
  BY DEF Calm, Same
<1>2. \A d, m : Calm(d, mark(d, m))
  BY DEF Calm, Same
<1>3. ASSUME NEW b, NEW l, NEW x, NEW m
      PROVE  LET d == Fails(file(b, l), x, "LastJump")
             IN  Calm(c, Deliver(d, seg.SEQ, lapsed)) /\ Calm(c, mark(d, m))
  <2>. HIDE DEF file, mark
  <2>1. Calm(c, Fails(file(b, l), x, "LastJump"))
    BY <1>1, FailsCalm, CalmTrans
  <2>. QED BY <1>2, <2>1, DeliverCalm, CalmTrans
<1>4. \/ AddRcvBuffer(c, seg, lapsed) = Fails(c, TRUE, "Overwrite")
      \/ AddRcvBuffer(c, seg, lapsed) = c
      \/ \E b, l, x, m : LET d == Fails(file(b, l), x, "LastJump")
                        IN  AddRcvBuffer(c, seg, lapsed) \in {Deliver(d, seg.SEQ, lapsed), mark(d, m)}
  BY Zenon DEF AddRcvBuffer
<1>. HIDE DEF file, mark
<1>. QED BY <1>3, <1>4, FailsCalm, CalmTrans

----------------------------------------------------------------------------
(* Teardown, timers and data *)

\* Disconnect sends a reset at most; its timer is not the connect timer.
LEMMA DisconnectKeeps ==
  ASSUME NEW c, NEW reason, NEW status
  PROVE  Keeps(c, Disconnect(c, reason, status))
<1>. DEFINE c1 == [c EXCEPT !.state = "CLOSE_WAIT"]
            c2 == IF reason = "REMOTE_RESET" THEN c1 ELSE SendAck(c1, {"RST"}, status)
            f  == FlushSendQueue(c2)
            g  == [f EXCEPT !.discCb = Again(@)]
            c3 == IF reason = "OK" THEN c2 ELSE g
            d  == [c3 EXCEPT !.connT = 1, !.connH = "disconnect", !.reason = reason]
<1>1. Disconnect(c, reason, status) = c \/ Disconnect(c, reason, status) = d
  BY DEF Disconnect
<1>2. Keeps(c, c1)
  <2>1. Same(c, c1) /\ c1.out = c.out /\ c1.state = "CLOSE_WAIT" /\ c1.connT = c.connT
        /\ c1.connH = c.connH
    BY DEF Same
  <2>. HIDE DEF c1
  <2>2. Role(c) => Role(c1)
    BY <2>1 DEF Role, Same
  <2>. QED BY <2>1, <2>2, PoliteStays DEF Keeps, Proper, Used
<1>. HIDE DEF c1
<1>3. Keeps(c1, c2)
  BY SendKeeps, KeepsTrans
<1>. HIDE DEF c2
<1>4. Keeps(c2, f)
  BY FlushCalm, CalmKeeps
<1>. HIDE DEF f
<1>5. Calm(f, g)
  BY DEF Calm, Same
<1>. HIDE DEF g
<1>6. Keeps(c2, c3)
  BY <1>4, <1>5, CalmKeeps, KeepsTrans
<1>. HIDE DEF c3
<1>7. Keeps(c3, d)
  <2>1. Same(c3, d) /\ d.out = c3.out /\ d.state = c3.state /\ d.connH = "disconnect"
    BY DEF Same
  <2>. HIDE DEF d
  <2>2. Role(c3) => Role(d)
    BY <2>1 DEF Role, Same
  <2>. QED BY <2>1, <2>2, PoliteStays DEF Keeps, Proper, Used
<1>. HIDE DEF d
<1>. QED BY <1>1, <1>2, <1>3, <1>6, <1>7, KeepsTrans

\* DelConnRecord: the history of the record stays.
LEMMA DelKeeps ==
  ASSUME NEW c
  PROVE  Keeps(c, DelConnRecord(c))
<1>. DEFINE d == DelConnRecord(c)
<1>1. Same(c, d) /\ d.out = c.out /\ d.state = "FREED" /\ d.connT = 0
  BY DEF Same, DelConnRecord
<1>. HIDE DEF d
<1>2. Role(d)
  BY <1>1 DEF Role
<1>3. Keeps(c, d)
  BY <1>1, <1>2, PoliteStays DEF Keeps, Proper, Used
<1>. QED BY <1>3 DEF d

\* A change of state alone, to one outside the handshake.
LEMMA RetireKeeps ==
  ASSUME NEW c, NEW d, Same(c, d), d.out = c.out, d.state = "CLOSED",
         d.connT = c.connT, d.connH = c.connH
  PROVE  Keeps(c, d)
<1>1. Role(c) => Role(d)
  BY DEF Role, Same
<1>. QED BY <1>1, PoliteStays DEF Keeps, Proper, Used

\* DisconnectTimerHandler.
LEMMA DisconnectTimerKeeps ==
  ASSUME NEW c
  PROVE  Keeps(c, DisconnectTimerHandler(c))
<1>. DEFINE c1 == [c EXCEPT !.state = "CLOSED"]
            f  == FlushSendQueue(c1)
            g  == [f EXCEPT !.discCb = Again(@), !.reason = "INVALID_CONNECTION"]
            c2 == IF c.reason = "OK" THEN g ELSE c1
<1>1. DisconnectTimerHandler(c) = IF IsRcvQueueEmpty(c2) THEN DelConnRecord(c2) ELSE c2
  BY DEF DisconnectTimerHandler
<1>2. Keeps(c, c1)
  <2>1. Same(c, c1) /\ c1.out = c.out /\ c1.state = "CLOSED" /\ c1.connT = c.connT
        /\ c1.connH = c.connH
    BY DEF Same
  <2>. HIDE DEF c1
  <2>. QED BY <2>1, RetireKeeps
<1>. HIDE DEF c1
<1>3. Calm(c1, f)
  BY FlushCalm
<1>. HIDE DEF f
<1>4. Calm(f, g)
  BY DEF Calm, Same
<1>. HIDE DEF g
<1>5. Keeps(c, c2)
  BY <1>2, <1>3, <1>4, CalmKeeps, KeepsTrans
<1>. HIDE DEF c2
<1>. QED BY <1>1, <1>5, DelKeeps, KeepsTrans

\* ConnectTimerHandler: the same SYN again, or a reset.
LEMMA ConnectTimerKeeps ==
  ASSUME NEW c, NEW status, c.connT # 0, c.connH = "connect"
  PROVE  Keeps(c, ConnectTimerHandler(c, status))
<1>. DEFINE r  == [c EXCEPT !.connT = @ - 1]
            c1 == [c EXCEPT !.state = "CLOSED", !.failCb = Again(@), !.up = "failed"]
<1>1. Proper(c) => (~c.passive => c.foreign = 0)
  BY DEF Proper, Role
<1>2. Same(c, r) /\ r.out = c.out /\ r.state = c.state
  BY DEF Same
<1>3. Same(c, c1) /\ c1.out = c.out /\ c1.state = "CLOSED" /\ c1.connT = c.connT
      /\ c1.connH = c.connH
  BY DEF Same
<1>4. \/ ConnectTimerHandler(c, status) = Emit(r, SynSeg(c), status)
      \/ ConnectTimerHandler(c, status) = Send(c1, {"RST"}, c.UNA, 0, c.RMAX, status)
  BY DEF ConnectTimerHandler
<1>. HIDE DEF r, c1
<1>5. Keeps(c, r)
  <2>1. Role(c) => Role(r)
    BY <1>2 DEF Role, Same
  <2>. QED BY <1>2, <2>1, PoliteStays DEF Keeps, Proper, Used
<1>6. Keeps(c, c1)
  BY <1>3, RetireKeeps
<1>7. ASSUME Proper(c) PROVE Keeps(c, Emit(r, SynSeg(c), status))
  <2>1. Legit(c, SynSeg(c))
    BY <1>1, <1>7, SynLegit
  <2>2. Legit(r, SynSeg(c))
    BY <1>2, <2>1 DEF Legit, Same
  <2>. QED BY <1>5, <2>2, EmitKeeps, KeepsTrans
<1>8. Same(c, Emit(r, SynSeg(c), status)) /\ (Used(c) => Used(Emit(r, SynSeg(c), status)))
  BY <1>2 DEF Emit, Same, Used
<1>9. Keeps(c, Emit(r, SynSeg(c), status))
  BY <1>7, <1>8 DEF Keeps
<1>10. Keeps(c, Send(c1, {"RST"}, c.UNA, 0, c.RMAX, status))
  BY <1>6, SendKeeps, KeepsTrans
<1>. QED BY <1>4, <1>9, <1>10

\* AckTimerHandler and ProbeTimerHandler.
LEMMA AckProbeKeeps ==
  ASSUME NEW c, NEW elapsed, NEW status
  PROVE  Keeps(c, AckTimerHandler(c, status)) /\ Keeps(c, ProbeTimerHandler(c, elapsed, status))
<1>1. \A d : Calm(d, [d EXCEPT !.ackT = 0])
  BY DEF Calm, Same
<1>2. Keeps(c, AckTimerHandler(c, status))
  <2>. DEFINE a == SendAck(c, {"ACK"}, status)
  <2>1. Keeps(c, a)
    BY SendKeeps
  <2>2. AckTimerHandler(c, status) \in {a, [a EXCEPT !.ackT = 0]}
    BY DEF AckTimerHandler
  <2>. HIDE DEF a
  <2>3. Keeps(a, [a EXCEPT !.ackT = 0])
    BY <1>1, CalmKeeps
  <2>. QED BY <2>1, <2>2, <2>3, KeepsTrans
<1>3. Keeps(c, ProbeTimerHandler(c, elapsed, status))
  BY DisconnectKeeps, SendKeeps, KeepsTrans DEF ProbeTimerHandler
<1>. QED BY <1>2, <1>3

\* PersistTimerHandler.
LEMMA PersistTimerKeeps ==
  ASSUME NEW c, NEW status
  PROVE  Keeps(c, PersistTimerHandler(c, status))
<1>1. \A d : Calm(d, [d EXCEPT !.persistT = @ - 1])
  BY DEF Calm, Same
<1>. DEFINE a == SendAck(c, {"ACK", "NUL"}, status)
            d == [a EXCEPT !.persistT = @ - 1]
<1>2. Keeps(c, a)
  BY SendKeeps
<1>3. PersistTimerHandler(c, status) \in {c, d, Disconnect(c, "PERSIST_TIMEOUT", status)}
  BY DEF PersistTimerHandler
<1>4. Calm(a, d)
  BY <1>1
<1>. HIDE DEF a, d
<1>. QED BY <1>2, <1>3, <1>4, CalmKeeps, DisconnectKeeps, KeepsTrans

\* Every segment with data carries the ports of its record.
LEMMA DataLegit ==
  ASSUME NEW c, NEW b
  PROVE  Legit(c, DataSeg(c, b))
  BY DEF Legit, DataSeg, ControlSeg

\* ... so that a burst of them may be sent.
LEMMA BurstKeeps ==
  ASSUME NEW c, NEW d, NEW t, IsSeq(t), \A seg \in Range(t) : Legit(c, seg),
         Same(c, d), d.state = c.state, d.connT = c.connT, d.connH = c.connH,
         d.out = c.out \o t
  PROVE  Keeps(c, d)
<1>1. Role(c) => Role(d)
  BY DEF Role, Same
<1>2. ASSUME Polite(c) PROVE Polite(d)
  <2>1. IsSeq(c.out \o t) /\ Range(c.out \o t) \subseteq Range(c.out) \cup Range(t)
    BY <1>2, ConcatSeq DEF Polite
  <2>2. \A seg : Legit(c, seg) => Legit(d, seg)
    BY DEF Legit, Same
  <2>. QED BY <1>2, <2>1, <2>2 DEF Polite
<1>. QED BY <1>1, <1>2 DEF Keeps, Proper, Used

\* RetransmitTimerHandler for the timers that are due.
LEMMA RetransmitKeeps ==
  ASSUME NEW c, NEW due, NEW late, NEW st, NEW status, due \subseteq Slots
  PROVE  Keeps(c, RetransmitTimers(c, due, late, st, status))
<1>. DEFINE order(i)  == ListOrder(c, i)
            isLate(i) == c.snd[i].late \/ i \in late
            res(i)    == TxStatus(c.snd[i], isLate(i), st[i])
            fails(i)  == c.snd[i].retry <= 1 \/ res(i) \in {"error", "expired"}
            failing   == {i \in due : fails(i)}
            first     == CHOOSE i \in failing : \A j \in failing : order(i) <= order(j)
            served    == {i \in due \ failing : failing = {} \/ order(i) < order(first)}
            seen      == served \cup (IF failing = {} THEN {} ELSE {first})
            tx(i)     == IF c.snd[i].retry > 1 THEN TxBuf(c.snd[i], isLate(i), st[i]) ELSE c.snd[i]
            retry(i)  == IF i \notin served THEN 0
                         ELSE IF res(i) = "ok" THEN c.snd[i].retry - 1 ELSE c.snd[i].retry
            good      == {i \in served : res(i) = "ok"}
            resent    == InListOrder(c, good)
            burst     == [x \in 1 .. Len(resent) |-> DataSeg(c, tx(resent[x]))]
            c1 == [c EXCEPT !.snd = [i \in Slots |-> IF i \in seen
                                       THEN [tx(i) EXCEPT !.retry = retry(i)] ELSE c.snd[i]],
                            !.out = @ \o burst]
            reason == IF c.snd[first].retry <= 1 THEN "TIMEOUT"
                      ELSE IF res(first) = "expired" THEN "TTL_EXPIRED" ELSE "SOCKET"
<1>1. RetransmitTimers(c, due, late, st, status) =
        IF \E i \in seen : ~c.snd[i].inUse THEN Fails(c, TRUE, "ResendFlushed")
        ELSE IF failing = {} THEN c1 ELSE Disconnect(c1, reason, status)
  BY DEF RetransmitTimers
<1>2. good \subseteq Slots
  OBVIOUS
<1>. HIDE DEF good, failing, first, res, tx, reason, retry, seen
<1>3. Len(resent) \in Nat
  <2>1. IsFiniteSet(Slots)
    BY FS_Interval, ConnAssumption DEF Slots
  <2>2. IsFiniteSet(good)
    BY <1>2, <2>1, FS_Subset
  <2>. QED BY <2>2, OrderedSeq
<1>. HIDE DEF resent
<1>4. IsSeq(burst) /\ \A seg \in Range(burst) : Legit(c, seg)
  <2>1. IsSeq(burst)
    BY <1>3, FunSeq
  <2>. QED BY <2>1, DataLegit DEF Range
<1>. HIDE DEF burst
<1>5. Same(c, c1) /\ c1.state = c.state /\ c1.connT = c.connT /\ c1.connH = c.connH
      /\ c1.out = c.out \o burst
  BY DEF Same
<1>. HIDE DEF c1
<1>6. Keeps(c, c1)
  BY <1>4, <1>5, BurstKeeps
<1>. QED BY <1>1, <1>6, FailsCalm, CalmKeeps, DisconnectKeeps, KeepsTrans

\* CheckConnTimers.
LEMMA CheckConnTimersKeeps ==
  ASSUME NEW c, NEW due, NEW resend, NEW elapsed, NEW late, NEW status, NEW st
  PROVE  Keeps(c, CheckConnTimers(c, due, resend, elapsed, late, status, st))
<1>. DEFINE c1 == IF "probe" \in due /\ c.probeT # 0
                  THEN ProbeTimerHandler(c, elapsed, status) ELSE c
            c2 == IF "ack" \in due /\ c1.ackT # 0 THEN AckTimerHandler(c1, status) ELSE c1
            c3 == PersistTimerHandler(c2, status)
            c4 == Fails(c3, DataTimers(c3) # {}, "PersistWithData")
            c5 == RetransmitTimers(c2, DataTimers(c2) \cap resend, late, st, status)
<1>1. CheckConnTimers(c, due, resend, elapsed, late, status, st)
        \in {c1, c4, c5} \/ c.connT # 0
  BY DEF CheckConnTimers
<1>2. Keeps(c, c1)
  BY AckProbeKeeps, KeepsTrans
<1>. HIDE DEF c1
<1>3. Keeps(c1, c2)
  BY AckProbeKeeps, KeepsTrans
<1>. HIDE DEF c2
<1>4. Keeps(c2, c3)
  BY PersistTimerKeeps
<1>. HIDE DEF c3
<1>5. Keeps(c3, c4)
  BY FailsCalm, CalmKeeps
<1>6. Keeps(c2, c5)
  <2>1. DataTimers(c2) \cap resend \subseteq Slots
    BY DEF DataTimers
  <2>. QED BY <2>1, RetransmitKeeps
<1>. HIDE DEF c4, c5
<1>7. CASE c.connT # 0
  BY <1>7, ConnectTimerKeeps, DisconnectTimerKeeps, KeepsTrans DEF CheckConnTimers
<1>. QED BY <1>1, <1>2, <1>3, <1>4, <1>5, <1>6, <1>7, KeepsTrans

\* SendData.
LEMMA SendDataKeeps ==
  ASSUME NEW c, NEW fcnt \in Nat, NEW ttl, NEW late, NEW st, NEW status
  PROVE  Keeps(c, SendData(c, fcnt, ttl, late, st, status))
<1>. DEFINE slot(i) == Slot(c.NXT + i - 1)
            old(i)  == [c.snd[slot(i)] EXCEPT !.ttl = ttl]
            res(i)  == TxStatus(old(i), late, st[i])
            tried   == {i \in 1 .. fcnt : \A j \in 1 .. i - 1 : res(j) # "error"}
            used    == {i \in tried : res(i) \in {"ok", "wouldblock"}}
            seqOf(i) == SeqPlus(c.NXT, Cardinality({j \in used : j < i}))
            buf(i)  == [TxBuf(old(i), late, st[i]) EXCEPT
                          !.seq = seqOf(i), !.som = c.NXT, !.fcnt = fcnt,
                          !.pay = <<Len(c.sent) + 1, i>>,
                          !.inUse = @ \/ i \in used,
                          !.retry = IF i \in used
                                    THEN DataRetries + (IF res(i) = "ok" THEN 1 ELSE 2) ELSE @]
            good    == {i \in used : res(i) = "ok"}
            sent    == Ascending(good)
            burst   == [x \in 1 .. Len(sent) |-> DataSeg(c, buf(sent[x]))]
            c1 == [c EXCEPT !.snd = [k \in Slots |-> IF \E i \in tried : slot(i) = k
                                       THEN buf(CHOOSE i \in tried : slot(i) = k) ELSE c.snd[k]],
                            !.pending = @ + Cardinality(used),
                            !.NXT = SeqPlus(@, Cardinality(used)),
                            !.persistT = IF used = {} THEN @ ELSE 0,
                            !.sent = IF used = {} THEN @ ELSE Append(@, [fcnt |-> fcnt, ttl |-> ttl]),
                            !.out = @ \o burst]
            c2 == Fails(c1, \E i \in tried : Minus(seqOf(i), c.UNA) >= c.SMAX, "SendQueueFull")
<1>1. SendData(c, fcnt, ttl, late, st, status) =
        IF \E i \in tried : res(i) = "error" THEN Disconnect(c2, "SOCKET", status) ELSE c2
  BY DEF SendData
<1>2. good \subseteq 1 .. fcnt
  OBVIOUS
<1>. HIDE DEF good, old, res, tried, buf, seqOf, used
<1>3. Len(sent) \in Nat
  <2>1. IsFiniteSet(1 .. fcnt)
    BY FS_Interval
  <2>2. IsFiniteSet(good)
    BY <1>2, <2>1, FS_Subset
  <2>. QED BY <2>2, OrderedSeq
<1>. HIDE DEF sent
<1>4. IsSeq(burst) /\ \A seg \in Range(burst) : Legit(c, seg)
  <2>1. IsSeq(burst)
    BY <1>3, FunSeq
  <2>. QED BY <2>1, DataLegit DEF Range
<1>. HIDE DEF burst
<1>5. Same(c, c1) /\ c1.state = c.state /\ c1.connT = c.connT /\ c1.connH = c.connH
      /\ c1.out = c.out \o burst
  BY DEF Same
<1>. HIDE DEF c1
<1>6. Keeps(c, c1)
  BY <1>4, <1>5, BurstKeeps
<1>7. Keeps(c1, c2)
  BY FailsCalm, CalmKeeps
<1>. HIDE DEF c2
<1>. QED BY <1>1, <1>6, <1>7, DisconnectKeeps, KeepsTrans

----------------------------------------------------------------------------
(* The handshake *)

\* DoSendSyn on a record that may send a SYN.
LEMMA DoSendSynProper ==
  ASSUME NEW c, NEW status, Polite(c), ~c.passive => c.foreign = 0,
         c.state = "SYN_SENT" => ~c.passive, c.state \in {"LISTEN", "SYN_RCVD"} => c.passive
  PROVE  LET r == DoSendSyn(c, status)
         IN  Same(c, r) /\ r.state = c.state /\ Proper(r)
<1>. DEFINE d == [c EXCEPT !.connT = ConnectRetries + 1, !.connH = "connect"]
            r == Emit(d, SynSeg(c), status)
<1>1. Same(c, d) /\ d.out = c.out /\ d.state = c.state
  BY DEF Same
<1>. HIDE DEF d
<1>2. Proper(d)
  BY <1>1, PoliteStays DEF Proper, Role, Same
<1>3. Legit(d, SynSeg(c))
  BY <1>1, SynLegit DEF Legit, Same
<1>4. Keeps(d, r)
  BY <1>3, EmitKeeps
<1>5. r.state = d.state
  BY DEF Emit
<1>. HIDE DEF r
<1>6. Same(c, r)
  BY <1>1, <1>4 DEF Keeps, Same
<1>7. Proper(r)
  BY <1>2, <1>4 DEF Keeps
<1>8. DoSendSyn(c, status) = r
  BY DEF DoSendSyn, d, r
<1>. QED BY <1>1, <1>5, <1>6, <1>7, <1>8

\* A record that has sent nothing.
LEMMA NothingSent ==
  ASSUME NEW c, c.out = << >>
  PROVE  Polite(c)
<1>1. IsSeq(<< >>) /\ Range(<< >>) = {}
  BY DEF IsSeq, Range
<1>. QED BY <1>1 DEF Polite

\* ARDP_Connect.
LEMMA ConnectProper ==
  ASSUME NEW local, NEW iss, NEW status
  PROVE  LET r == Connect(NewConn(local, 0, iss), status)
         IN  /\ r.local = local /\ ~r.passive /\ r.openCb = 0
             /\ Used(r) /\ Proper(r)
<1>. DEFINE c == [InitRcv(NewConn(local, 0, iss)) EXCEPT !.state = "SYN_SENT"]
            r == DoSendSyn(c, status)
<1>1. c.local = local /\ c.foreign = 0 /\ ~c.passive /\ c.openCb = 0 /\ c.out = << >>
      /\ c.state = "SYN_SENT"
  BY DEF InitRcv, NewConn
<1>. HIDE DEF c
<1>2. Polite(c)
  BY <1>1, NothingSent
<1>3. Same(c, r) /\ r.state = c.state /\ Proper(r)
  BY <1>1, <1>2, DoSendSynProper
<1>. HIDE DEF r
<1>4. r.local = local /\ ~r.passive /\ r.openCb = 0 /\ Used(r) /\ Proper(r)
  BY <1>1, <1>3 DEF Same, Used
<1>5. Connect(NewConn(local, 0, iss), status) = r
  BY DEF Connect, c, r
<1>. QED BY <1>4, <1>5

\* A record in CLOSED only answers.
LEMMA ClosedKeeps ==
  ASSUME NEW c, NEW seg, NEW status
  PROVE  Keeps(c, ClosedSegment(c, seg, status))
  BY SendKeeps, KeepsTrans DEF ClosedSegment

\* A SYN gives a listening record its peer's initial sequence number.
Learns(c, seg, r) ==
  /\ "SYN" \in seg.FLG /\ "ACK" \notin seg.FLG
  /\ r.local = c.local /\ r.foreign = c.foreign /\ r.passive = c.passive
  /\ r.ISS = c.ISS /\ r.openCb = c.openCb /\ r.IRS = seg.SEQ
  /\ Used(r) /\ (Proper(c) => Proper(r))

\* LISTEN.
LEMMA ListenLearns ==
  ASSUME NEW c, NEW seg, NEW accept, NEW status, c.state = "LISTEN"
  PROVE  LET r == ListenSegment(c, seg, accept, status)
         IN  Keeps(c, r) \/ Learns(c, seg, r)
<1>. DEFINE c1 == [c EXCEPT !.CUR = seg.SEQ, !.IRS = seg.SEQ, !.window = c.SMAX, !.rcvHdr = "full"]
            s  == Send(c, {"RST"}, Plus(seg.ACK, 1), 0, 0, status)
            d  == [InitSBUF(InitRcv(c1)) EXCEPT !.state = "SYN_RCVD"]
            a  == DoSendSyn(d, status)
            t  == Send(c1, {"RST"}, Plus(seg.ACK, 1), 0, c1.RMAX, status)
            r  == ListenSegment(c, seg, accept, status)
<1>1. r \in {c, Disconnect(s, "INVALID_RESPONSE", status)}
      \/ ("SYN" \in seg.FLG /\ "ACK" \notin seg.FLG /\ r \in {a, DelConnRecord(t)})
  BY DEF ListenSegment, AcceptConn
<1>2. Keeps(c, Disconnect(s, "INVALID_RESPONSE", status))
  <2>1. Keeps(c, s)
    BY SendKeeps
  <2>. HIDE DEF s
  <2>. QED BY <2>1, DisconnectKeeps, KeepsTrans
<1>. HIDE DEF r, s
<1>3. /\ c1.local = c.local /\ c1.foreign = c.foreign /\ c1.passive = c.passive
      /\ c1.ISS = c.ISS /\ c1.openCb = c.openCb /\ c1.IRS = seg.SEQ /\ c1.out = c.out
      /\ c1.state = c.state /\ c1.connT = c.connT /\ c1.connH = c.connH
  OBVIOUS
<1>4. /\ d.local = c1.local /\ d.foreign = c1.foreign /\ d.passive = c1.passive
      /\ d.ISS = c1.ISS /\ d.openCb = c1.openCb /\ d.IRS = c1.IRS /\ d.out = c1.out
      /\ d.state = "SYN_RCVD"
  BY DEF InitSBUF, InitRcv
<1>. HIDE DEF c1, d
<1>5. ASSUME Proper(c) PROVE c.passive /\ Polite(c1) /\ Polite(d) /\ Proper(c1)
  <2>1. c.passive
    BY <1>5 DEF Proper, Role
  <2>2. \A x : Legit(c, x) => Legit(c1, x) /\ Legit(d, x)
    BY <1>3, <1>4 DEF Legit
  <2>3. Polite(c1) /\ Polite(d)
    BY <1>3, <1>4, <1>5, <2>2 DEF Proper, Polite
  <2>4. Role(c1)
    BY <1>3, <2>1 DEF Role
  <2>. QED BY <2>1, <2>3, <2>4 DEF Proper
<1>6. ASSUME "SYN" \in seg.FLG, "ACK" \notin seg.FLG PROVE Learns(c, seg, a)
  <2>1. Same(d, a) /\ a.state = d.state
    BY DEF DoSendSyn, Emit, Same
  <2>2. ASSUME Proper(c) PROVE Proper(a)
    BY <1>3, <1>4, <1>5, <2>2, DoSendSynProper
  <2>. HIDE DEF a
  <2>. QED BY <1>3, <1>4, <1>6, <2>1, <2>2 DEF Learns, Same, Used
<1>7. ASSUME "SYN" \in seg.FLG, "ACK" \notin seg.FLG PROVE Learns(c, seg, DelConnRecord(t))
  <2>1. Keeps(c1, t)
    BY SendKeeps
  <2>. HIDE DEF t
  <2>2. Keeps(c1, DelConnRecord(t))
    BY <2>1, DelKeeps, KeepsTrans
  <2>3. Used(DelConnRecord(t))
    BY DEF Used, DelConnRecord
  <2>4. ASSUME Proper(c) PROVE Proper(DelConnRecord(t))
    BY <1>5, <2>2, <2>4 DEF Keeps
  <2>. QED BY <1>3, <1>7, <2>2, <2>3, <2>4 DEF Learns, Keeps, Same
<1>8. Keeps(c, r) \/ Learns(c, seg, r)
  BY <1>1, <1>2, <1>6, <1>7, KeepsTrans
<1>. QED BY <1>8 DEF r

\* A SYN | ACK gives an active record its peer's port and sequence number.
Meets(c, seg, r) ==
  /\ "SYN" \in seg.FLG /\ "ACK" \in seg.FLG
  /\ r.local = c.local /\ r.passive = c.passive /\ r.ISS = c.ISS
  /\ r.foreign = seg.SRC /\ r.IRS = seg.SEQ
  /\ Used(r) /\ (Proper(c) => Proper(r))

\* SYN_SENT.
LEMMA SynSentMeets ==
  ASSUME NEW c, NEW seg, NEW status, c.state = "SYN_SENT"
  PROVE  LET r == SynSentSegment(c, seg, status)
         IN  Keeps(c, r) \/ Meets(c, seg, r)
<1>. DEFINE c1 == EnterOpen(InitSBUF([c EXCEPT !.SMAX = SegMax, !.rcvHdr = "full",
                                 !.window = SegMax, !.foreign = seg.SRC, !.IRS = seg.SEQ,
                                 !.CUR = seg.SEQ, !.UNA = Plus(seg.ACK, 1)]))
            c2 == Send(c1, {"ACK"}, c1.NXT, c1.CUR, c1.RMAX, status)
            o  == [c2 EXCEPT !.openCb = Again(@), !.up = "connected"]
            r  == SynSentSegment(c, seg, status)
<1>1. r \in {c, Disconnect(c, "REMOTE_RESET", status), Disconnect(c, "INVALID_RESPONSE", status)}
      \/ ("SYN" \in seg.FLG /\ "ACK" \in seg.FLG /\ r = o)
  <2>1. r \in {c, Disconnect(c, "REMOTE_RESET", status), Disconnect(c, "INVALID_RESPONSE", status)}
        \/ ({"SYN", "ACK"} \subseteq seg.FLG /\ r = o)
    BY Zenon DEF SynSentSegment
  <2>. HIDE DEF r, o
  <2>. QED BY <2>1
<1>. HIDE DEF r
<1>2. /\ c1.local = c.local /\ c1.passive = c.passive /\ c1.ISS = c.ISS
      /\ c1.foreign = seg.SRC /\ c1.IRS = seg.SEQ /\ c1.out = c.out
      /\ c1.state = "OPEN" /\ c1.connT = 0
  BY DEF EnterOpen, PostInitRcv, InitSBUF
<1>. HIDE DEF c1
<1>3. ASSUME Proper(c) PROVE Proper(c1)
  <2>1. c.foreign = 0 /\ ~c.passive
    BY <1>3 DEF Proper, Role
  <2>2. \A x : Legit(c, x) => Legit(c1, x)
    BY <1>2, <2>1 DEF Legit
  <2>3. Polite(c1)
    BY <1>2, <1>3, <2>2 DEF Proper, Polite
  <2>4. Role(c1)
    BY <1>2 DEF Role
  <2>. QED BY <2>3, <2>4 DEF Proper
<1>4. Keeps(c1, c2)
  BY SendKeeps
<1>5. c2.state = c1.state
  BY DEF Send, Emit
<1>. HIDE DEF c2
<1>6. /\ o.local = c2.local /\ o.passive = c2.passive /\ o.ISS = c2.ISS
      /\ o.foreign = c2.foreign /\ o.IRS = c2.IRS /\ o.out = c2.out
      /\ o.state = c2.state /\ o.connT = c2.connT /\ o.connH = c2.connH
  OBVIOUS
<1>. HIDE DEF o
<1>7. Proper(c2) => Proper(o)
  <2>1. Role(c2) => Role(o)
    BY <1>6 DEF Role
  <2>2. \A x : Legit(c2, x) => Legit(o, x)
    BY <1>6 DEF Legit
  <2>3. Polite(c2) => Polite(o)
    BY <1>6, <2>2 DEF Polite
  <2>. QED BY <2>1, <2>3 DEF Proper
<1>8. Proper(c) => Proper(o)
  BY <1>3, <1>4, <1>7 DEF Keeps
<1>9. ASSUME "SYN" \in seg.FLG, "ACK" \in seg.FLG PROVE Meets(c, seg, o)
  BY <1>2, <1>4, <1>5, <1>6, <1>8, <1>9 DEF Meets, Keeps, Same, Used
<1>10. Keeps(c, r) \/ Meets(c, seg, r)
  BY <1>1, <1>9, DisconnectKeeps, KeepsTrans
<1>. QED BY <1>10 DEF r

\* An acknowledgement opens a passive record.
Opens(c, seg, r) ==
  /\ "ACK" \in seg.FLG
  /\ r.local = c.local /\ r.foreign = c.foreign /\ r.passive = c.passive
  /\ r.ISS = c.ISS /\ r.IRS = c.IRS
  /\ Used(r) /\ (Proper(c) => Proper(r) /\ r.passive)

\* SYN_RCVD.
LEMMA SynRcvdOpens ==
  ASSUME NEW c, NEW seg, NEW status, c.state = "SYN_RCVD"
  PROVE  LET r == SynRcvdSegment(c, seg, status)
         IN  Keeps(c, r) \/ Opens(c, seg, r)
<1>. DEFINE c1 == EnterOpen(c)
            c2 == IF "NUL" \in seg.FLG THEN SendAck(c1, {"ACK"}, status) ELSE c1
            o  == [c2 EXCEPT !.openCb = Again(@), !.up = "connected"]
            back == [c EXCEPT !.state = "LISTEN"]
            again == Send(c, {"ACK"}, c.NXT, c.CUR, c.RMAX, status)
            r  == SynRcvdSegment(c, seg, status)
<1>1. \/ r \in {c, again, Disconnect(c, "REMOTE_RESET", status), Disconnect(c, "INVALID_RESPONSE", status)}
      \/ c.passive /\ r = back
      \/ "ACK" \in seg.FLG /\ r = o
  BY Zenon DEF SynRcvdSegment
<1>. HIDE DEF r
<1>2. Keeps(c, again)
  BY SendKeeps
<1>. HIDE DEF again
<1>3. ASSUME c.passive PROVE Keeps(c, back)
  <2>1. Same(c, back) /\ back.out = c.out /\ back.state = "LISTEN"
    BY DEF Same
  <2>. HIDE DEF back
  <2>2. Role(back)
    BY <1>3, <2>1 DEF Role, Same
  <2>. QED BY <2>1, <2>2, PoliteStays DEF Keeps, Proper, Used
<1>. HIDE DEF back
<1>4. Same(c, c1) /\ c1.out = c.out /\ c1.state = "OPEN" /\ c1.connT = 0
  BY DEF EnterOpen, PostInitRcv, Same
<1>. HIDE DEF c1
<1>5. Proper(c) => Proper(c1)
  <2>1. Role(c1)
    BY <1>4 DEF Role
  <2>. QED BY <1>4, <2>1, PoliteStays DEF Proper
<1>6. Keeps(c1, c2)
  BY SendKeeps, KeepsTrans
<1>7. c2.state = c1.state
  BY DEF SendAck, Send, Emit
<1>. HIDE DEF c2
<1>8. /\ o.local = c2.local /\ o.passive = c2.passive /\ o.ISS = c2.ISS
      /\ o.foreign = c2.foreign /\ o.IRS = c2.IRS /\ o.out = c2.out
      /\ o.state = c2.state /\ o.connT = c2.connT /\ o.connH = c2.connH
  OBVIOUS
<1>. HIDE DEF o
<1>9. Proper(c2) => Proper(o)
  <2>1. Role(c2) => Role(o)
    BY <1>8 DEF Role
  <2>2. \A x : Legit(c2, x) => Legit(o, x)
    BY <1>8 DEF Legit
  <2>3. Polite(c2) => Polite(o)
    BY <1>8, <2>2 DEF Polite
  <2>. QED BY <2>1, <2>3 DEF Proper
<1>10. Proper(c) => Proper(o) /\ c.passive
  BY <1>5, <1>6, <1>9 DEF Keeps, Proper, Role
<1>11. ASSUME "ACK" \in seg.FLG PROVE Opens(c, seg, o)
  BY <1>4, <1>6, <1>7, <1>8, <1>10, <1>11 DEF Opens, Keeps, Same, Used
<1>12. Keeps(c, r) \/ Opens(c, seg, r)
  BY <1>1, <1>2, <1>3, <1>11, DisconnectKeeps, KeepsTrans
<1>. QED BY <1>12 DEF r

\* OPEN.
LEMMA OpenKeeps ==
  ASSUME NEW c, NEW seg, NEW lapsed, NEW status
  PROVE  Keeps(c, OpenSegment(c, seg, lapsed, status))
<1>. DEFINE c1 == OpenAck(c, seg)
            e1 == OpenEack(c1, seg)
            c2 == OpenData(e1, seg, lapsed)
            w  == OpenWindow(c2, Window(c, seg.LCS))
<1>1. \A d : Calm(d, [d EXCEPT !.ackT = 1])
  BY DEF Calm, Same
<1>2. Calm(c, c1)
  <2>1. Calm(c, [c EXCEPT !.UNA = Plus(seg.ACK, 1)])
    BY DEF Calm, Same
  <2>. QED BY <2>1, UpdateSndCalm, CalmTrans, Zenon DEF OpenAck
<1>. HIDE DEF c1
<1>3. Calm(c1, e1)
  BY CancelCalm, CalmTrans DEF OpenEack
<1>. HIDE DEF e1
<1>4. Calm(e1, c2)
  BY <1>1, AddRcvBufferCalm, CalmTrans, Zenon DEF OpenData
<1>. HIDE DEF c2
<1>5. Calm(c2, w)
  BY DEF OpenWindow, Calm, Same
<1>6. Keeps(c, OpenNul(c, status))
  <2>. DEFINE a == SendAck(c, {"ACK"}, status)
  <2>1. OpenNul(c, status) \in {a, [a EXCEPT !.ackT = 1]}
    BY DEF OpenNul
  <2>2. Keeps(c, a)
    BY SendKeeps
  <2>. HIDE DEF a
  <2>. QED BY <2>1, <2>2, <1>1, CalmKeeps, KeepsTrans
<1>7. OpenSegment(c, seg, lapsed, status) \in
        {c, c1, c2, w, OpenNul(c, status), Disconnect(c, "REMOTE_RESET", status),
         Disconnect(c, "INVALID_RESPONSE", status)}
  BY Zenon DEF OpenSegment, c1, e1, c2, w
<1>. HIDE DEF w
<1>8. Keeps(c, c1) /\ Keeps(c, c2) /\ Keeps(c, w)
  BY <1>2, <1>3, <1>4, <1>5, CalmTrans, CalmKeeps
<1>. QED BY <1>6, <1>7, <1>8, DisconnectKeeps, KeepsTrans

\* What a received segment does to the decided part of a record.
Takes(c, seg, r) ==
  \/ Keeps(c, r)
  \/ c.state = "LISTEN" /\ Learns(c, seg, r)
  \/ c.state = "SYN_SENT" /\ Meets(c, seg, r)
  \/ Opens(c, seg, r)

\* ArdpMachine, by state.
LEMMA MachineTakes ==
  ASSUME NEW c, NEW seg, NEW accept, NEW lapsed, NEW status,
         c.state \in States \ {"UNUSED", "FREED"}
  PROVE  Takes(c, seg, ArdpMachine(c, seg, accept, lapsed, status))
<1>. DEFINE r == ArdpMachine(c, seg, accept, lapsed, status)
<1>0. c.state \in {"CLOSED", "LISTEN", "SYN_SENT", "SYN_RCVD", "OPEN", "CLOSE_WAIT"}
  BY DEF States
<1>1. CASE c.state = "CLOSED"
  <2>1. r = ClosedSegment(c, seg, status)
    BY <1>1 DEF ArdpMachine
  <2>. QED BY <2>1, ClosedKeeps DEF Takes
<1>2. CASE c.state = "LISTEN"
  <2>1. r = ListenSegment(c, seg, accept, status)
    BY <1>2 DEF ArdpMachine
  <2>. QED BY <1>2, <2>1, ListenLearns DEF Takes
<1>3. CASE c.state = "SYN_SENT"
  <2>1. r = SynSentSegment(c, seg, status)
    BY <1>3 DEF ArdpMachine
  <2>. QED BY <1>3, <2>1, SynSentMeets DEF Takes
<1>4. CASE c.state = "SYN_RCVD"
  <2>1. r = SynRcvdSegment(c, seg, status)
    BY <1>4 DEF ArdpMachine
  <2>. QED BY <1>4, <2>1, SynRcvdOpens DEF Takes
<1>5. CASE c.state = "OPEN"
  <2>1. r = OpenSegment(c, seg, lapsed, status)
    BY <1>5 DEF ArdpMachine
  <2>. QED BY <2>1, OpenKeeps DEF Takes
<1>6. CASE c.state = "CLOSE_WAIT"
  <2>1. r = c
    BY <1>6 DEF ArdpMachine
  <2>. QED BY <2>1, KeepsTrans DEF Takes
<1>. QED BY <1>0, <1>1, <1>2, <1>3, <1>4, <1>5, <1>6

\* Receive, past the check of the header length.
LEMMA ReceiveTakes ==
  ASSUME NEW c, NEW seg, NEW accept, NEW lapsed, NEW status,
         c.state \in States \ {"UNUSED", "FREED"}
  PROVE  Takes(c, seg, Receive(c, seg, accept, lapsed, status))
<1>1. Receive(c, seg, accept, lapsed, status) = c
      \/ Receive(c, seg, accept, lapsed, status) = ArdpMachine(c, seg, accept, lapsed, status)
  BY DEF Receive
<1>. QED BY <1>1, MachineTakes, KeepsTrans DEF Takes

\* Accept on a fresh record: it learns the peer's sequence number from a bare
\* SYN, or stays out of the handshake.
LEMMA AcceptProper ==
  ASSUME NEW local, NEW foreign, NEW iss, NEW seg, NEW accept, NEW status
  PROVE  LET r == Accept(NewConn(local, foreign, iss), seg, accept, status)
         IN  /\ r.local = local /\ r.foreign = foreign /\ r.openCb = 0
             /\ Used(r) /\ Proper(r)
             /\ r.passive => /\ "SYN" \in seg.FLG /\ "ACK" \notin seg.FLG
                             /\ r.IRS = seg.SEQ
<1>. DEFINE c == NewConn(local, foreign, iss)
            d == [c EXCEPT !.state = "LISTEN", !.passive = TRUE, !.SMAX = SegMax]
            l == ListenSegment(d, seg, accept, status)
            r == Accept(c, seg, accept, status)
<1>1. /\ c.local = local /\ c.foreign = foreign /\ c.openCb = 0 /\ ~c.passive
      /\ c.state = "CLOSED" /\ c.out = << >> /\ c.connT = 0
  BY DEF NewConn
<1>2. /\ d.local = local /\ d.foreign = foreign /\ d.openCb = 0 /\ d.passive
      /\ d.state = "LISTEN" /\ d.out = << >>
  BY DEF NewConn
<1>3. (seg.FLG # {"SYN"} /\ r = c) \/ (seg.FLG = {"SYN"} /\ r = l)
  <2>1. d.state = "LISTEN" => ArdpMachine(d, seg, accept, {}, status) = l
    BY DEF ArdpMachine
  <2>. QED BY <1>2, <2>1 DEF Accept
<1>4. seg.FLG = {"SYN"} => l.IRS = seg.SEQ
  <2>1. ASSUME seg.FLG = {"SYN"}
        PROVE  \E x : x.IRS = seg.SEQ /\ (l = AcceptConn(x, status) \/ l = DelConnRecord(Send(x, {"RST"}, Plus(seg.ACK, 1), 0, x.RMAX, status)))
    <3>. DEFINE x == [d EXCEPT !.CUR = seg.SEQ, !.IRS = seg.SEQ, !.window = d.SMAX, !.rcvHdr = "full"]
    <3>1. l = AcceptConn(x, status) \/ l = DelConnRecord(Send(x, {"RST"}, Plus(seg.ACK, 1), 0, x.RMAX, status))
      <4>. HIDE DEF d
      <4>. QED BY <2>1 DEF ListenSegment
    <3>2. x.IRS = seg.SEQ
      BY DEF NewConn
    <3>. QED BY <3>1, <3>2
  <2>2. \A x : AcceptConn(x, status).IRS = x.IRS
    BY DEF AcceptConn, DoSendSyn, InitSBUF, InitRcv, Emit
  <2>3. \A x : DelConnRecord(Send(x, {"RST"}, Plus(seg.ACK, 1), 0, x.RMAX, status)).IRS = x.IRS
    BY DEF DelConnRecord, Send, Emit
  <2>. HIDE DEF l
  <2>. QED BY <2>1, <2>2, <2>3
<1>5. Keeps(d, l) \/ Learns(d, seg, l)
  <2>. HIDE DEF d
  <2>. QED BY <1>2, ListenLearns
<1>. HIDE DEF c, d, l, r
<1>6. Proper(c) /\ Proper(d) /\ Used(c) /\ Used(d)
  BY <1>1, <1>2, NothingSent DEF Proper, Role, Used
<1>7. CASE seg.FLG = {"SYN"} /\ r = l
  <2>1. r.local = local /\ r.foreign = foreign /\ r.openCb = 0 /\ Used(r) /\ Proper(r)
    BY <1>2, <1>5, <1>6, <1>7 DEF Keeps, Same, Learns
  <2>2. "SYN" \in seg.FLG /\ "ACK" \notin seg.FLG /\ r.IRS = seg.SEQ
    BY <1>4, <1>7
  <2>. QED BY <2>1, <2>2 DEF r, c
<1>8. CASE r = c
  <2>1. r.local = local /\ r.foreign = foreign /\ r.openCb = 0 /\ Used(r) /\ Proper(r) /\ ~r.passive
    BY <1>1, <1>6, <1>8
  <2>. QED BY <2>1 DEF r, c
<1>. QED BY <1>3, <1>7, <1>8

----------------------------------------------------------------------------
(* The system *)

\* Node m has a record that sent a SYN, answered one, is bound to a pair of
\* ports, or opened a connection with that pair.
SynFrom(m, src, seq) ==
  \E j \in ConnIds : /\ Used(conns[m][j]) /\ ~conns[m][j].passive
                     /\ conns[m][j].local = src /\ conns[m][j].ISS = seq
AnswerFrom(m, src, dst, seq) ==
  \E j \in ConnIds : /\ Used(conns[m][j]) /\ conns[m][j].passive
                     /\ conns[m][j].local = src /\ conns[m][j].foreign = dst
                     /\ conns[m][j].ISS = seq
Bound(m, src, dst) ==
  \E j \in ConnIds : /\ Used(conns[m][j])
                     /\ conns[m][j].local = src /\ conns[m][j].foreign = dst
ClientAt(m, src, dst) ==
  \E j \in ConnIds : /\ Used(conns[m][j]) /\ ~conns[m][j].passive
                     /\ conns[m][j].local = src /\ conns[m][j].foreign = dst

\* The partner that a record of node n has at the other node.
Linked(n, c) ==
  /\ c.passive => SynFrom(Peer(n), c.foreign, c.IRS)
  /\ ~c.passive /\ c.openCb > 0 => AnswerFrom(Peer(n), c.foreign, c.local, c.IRS)
  /\ c.passive /\ c.openCb > 0 => ClientAt(Peer(n), c.foreign, c.local)

\* What a datagram on its way to node n says of its sender.
Legal(n, seg) ==
  /\ "SYN" \in seg.FLG /\ "ACK" \notin seg.FLG =>
       seg.DST = 0 /\ SynFrom(Peer(n), seg.SRC, seg.SEQ)
  /\ "SYN" \in seg.FLG /\ "ACK" \in seg.FLG =>
       AnswerFrom(Peer(n), seg.SRC, seg.DST, seg.SEQ)
  /\ "ACK" \in seg.FLG /\ seg.DST # 0 => Bound(Peer(n), seg.SRC, seg.DST)

Settled(n, c) ==
  /\ c.out = << >> /\ Role(c)
  /\ Used(c) => c.local \in Ports
  /\ ~Used(c) => ~c.passive /\ c.openCb = 0
  /\ Linked(n, c)

AllSettled == \A n \in Nodes, i \in ConnIds : Settled(n, conns[n][i])
Distinct ==
  \A n \in Nodes, i \in ConnIds, j \in ConnIds :
    Used(conns[n][i]) /\ Used(conns[n][j]) /\ conns[n][i].local = conns[n][j].local => i = j
NetLegal ==
  /\ net = [n \in Nodes |-> net[n]]
  /\ \A n \in Nodes : IsSeq(net[n]) /\ \A seg \in Range(net[n]) : Legal(n, seg)

\* The inductive invariant.
HandshakeInv == FreshPorts /\ Inv /\ AllSettled /\ Distinct /\ NetLegal

\* What a step may do to a record.
Evolves(c, r) ==
  Used(c) => /\ Used(r) /\ r.local = c.local /\ r.ISS = c.ISS /\ r.passive = c.passive
             /\ c.passive \/ c.foreign # 0 => r.foreign = c.foreign

\* What has been said of a record stays true.
LEMMA SaidStays ==
  ASSUME \A m \in Nodes, j \in ConnIds : Evolves(conns[m][j], conns'[m][j]), NEW n \in Nodes
  PROVE  /\ \A src, seq : SynFrom(n, src, seq) => SynFrom(n, src, seq)'
         /\ \A src, dst, seq : AnswerFrom(n, src, dst, seq) => AnswerFrom(n, src, dst, seq)'
         /\ \A src, dst : dst # 0 /\ Bound(n, src, dst) => Bound(n, src, dst)'
         /\ \A src, dst : dst # 0 /\ ClientAt(n, src, dst) => ClientAt(n, src, dst)'
<1>1. \A src, seq : SynFrom(n, src, seq) => SynFrom(n, src, seq)'
  BY DEF SynFrom, Evolves, Used
<1>2. \A src, dst, seq : AnswerFrom(n, src, dst, seq) => AnswerFrom(n, src, dst, seq)'
  BY DEF AnswerFrom, Evolves, Used
<1>3. \A src, dst : dst # 0 /\ Bound(n, src, dst) => Bound(n, src, dst)'
  BY DEF Bound, Evolves, Used
<1>4. \A src, dst : dst # 0 /\ ClientAt(n, src, dst) => ClientAt(n, src, dst)'
  BY DEF ClientAt, Evolves, Used
<1>. QED BY <1>1, <1>2, <1>3, <1>4

\* The other node.
LEMMA PeerFacts ==
  ASSUME NEW n \in Nodes
  PROVE  Peer(n) \in Nodes /\ Peer(n) # n /\ Peer(Peer(n)) = n
  BY DEF Peer, Nodes

\* A record's partner and a datagram's sender stay.
LEMMA LinkStays ==
  ASSUME \A m \in Nodes, j \in ConnIds : Evolves(conns[m][j], conns'[m][j]), NEW n \in Nodes
  PROVE  /\ \A c : Linked(n, c) /\ c.local # 0 => Linked(n, c)'
         /\ \A seg : Legal(n, seg) => Legal(n, seg)'
<1>0. Peer(n) \in Nodes
  BY PeerFacts
<1>1. ASSUME NEW c, Linked(n, c), c.local # 0 PROVE Linked(n, c)'
  BY <1>0, <1>1, SaidStays DEF Linked
<1>2. ASSUME NEW seg, Legal(n, seg) PROVE Legal(n, seg)'
  BY <1>0, <1>2, SaidStays DEF Legal
<1>. QED BY <1>1, <1>2

\* A legitimate datagram of a record is legal at the other node once the
\* record is in place.
LEMMA LegitLegal ==
  ASSUME NEW n \in Nodes, NEW i \in ConnIds, NEW c, c = conns'[n][i], NEW seg,
         Used(c), Legit(c, seg)
  PROVE  Legal(Peer(n), seg)'
<1>1. Peer(Peer(n)) = n
  BY PeerFacts
<1>2. ASSUME "SYN" \in seg.FLG, "ACK" \notin seg.FLG
      PROVE  seg.DST = 0 /\ SynFrom(n, seg.SRC, seg.SEQ)'
  <2>1. ~c.passive /\ seg.DST = 0 /\ seg.SRC = c.local /\ seg.SEQ = c.ISS
    BY <1>2 DEF Legit
  <2>. QED BY <2>1 DEF SynFrom, Used
<1>3. ASSUME "SYN" \in seg.FLG, "ACK" \in seg.FLG
      PROVE  AnswerFrom(n, seg.SRC, seg.DST, seg.SEQ)'
  <2>1. c.passive /\ seg.DST = c.foreign /\ seg.SRC = c.local /\ seg.SEQ = c.ISS
    BY <1>3 DEF Legit
  <2>. QED BY <2>1 DEF AnswerFrom, Used
<1>4. ASSUME seg.DST # 0 PROVE Bound(n, seg.SRC, seg.DST)'
  BY <1>4 DEF Legit, Bound, Used
<1>. QED BY <1>1, <1>2, <1>3, <1>4 DEF Legal

\* The channels without the datagram that a step has taken, or with it.
Inbox(inbox) ==
  /\ inbox = [n \in Nodes |-> inbox[n]]
  /\ \A n \in Nodes : IsSeq(inbox[n]) /\ Range(inbox[n]) \subseteq Range(net[n])

\* A step that replaces a record by one with a partner keeps the invariant.
LEMMA CommitSettled ==
  ASSUME HandshakeInv, NEW n \in Nodes, NEW i \in ConnIds, NEW r, NEW inbox, Inbox(inbox),
         Commit(n, i, r, inbox), Evolves(conns[n][i], r), Used(r), Proper(r), r.local \in Ports,
         \A j \in ConnIds \ {i} : Used(conns[n][j]) => conns[n][j].local # r.local,
         Linked(n, r)
  PROVE  AllSettled' /\ Distinct' /\ NetLegal'
<1>. DEFINE d == [r EXCEPT !.out = << >>]
<1>1. d.out = << >> /\ Same(r, d) /\ d.state = r.state /\ d.connT = r.connT /\ d.connH = r.connH
  BY DEF Same
<1>2. conns' = [conns EXCEPT ![n][i] = d] /\ net' = [inbox EXCEPT ![Peer(n)] = Fit(@ \o r.out)]
  BY DEF Commit
<1>. HIDE DEF d
<1>3. \A m \in Nodes, j \in ConnIds :
        conns'[m][j] = IF m = n /\ j = i THEN d ELSE conns[m][j]
  BY <1>2 DEF HandshakeInv, Inv, Shape
<1>4. Used(d) /\ Role(d) /\ Linked(n, d) /\ d.local = r.local
  BY <1>1 DEF Used, Proper, Role, Linked, Same
<1>5. \A m \in Nodes, j \in ConnIds : Evolves(conns[m][j], conns'[m][j])
  <2>1. Evolves(conns[n][i], d)
    BY <1>1, <1>4 DEF Evolves, Same
  <2>2. \A c : Evolves(c, c)
    BY DEF Evolves
  <2>. QED BY <1>3, <2>1, <2>2
<1>6. \A p \in Ports : p # 0
  BY ConnAssumption
<1>7. AllSettled'
  <2>1. ASSUME NEW m \in Nodes, NEW j \in ConnIds, m = n /\ j = i PROVE Settled(m, conns[m][j])'
    <3>1. conns'[m][j] = d /\ d.local # 0
      BY <1>3, <1>4, <1>6, <2>1
    <3>2. Linked(n, d)'
      BY <1>4, <1>5, <3>1, LinkStays
    <3>. QED BY <1>1, <1>4, <2>1, <3>1, <3>2 DEF Settled
  <2>2. ASSUME NEW m \in Nodes, NEW j \in ConnIds, ~(m = n /\ j = i) PROVE Settled(m, conns[m][j])'
    <3>. DEFINE c == conns[m][j]
    <3>1. conns'[m][j] = c /\ Settled(m, c)
      BY <1>3, <2>2 DEF HandshakeInv, AllSettled
    <3>2. Linked(m, c) => Linked(m, c)'
      <4>1. CASE Used(c)
        BY <4>1, <1>5, <1>6, <3>1, LinkStays DEF Settled
      <4>2. CASE ~Used(c)
        <5>1. ~c.passive /\ c.openCb = 0
          BY <4>2, <3>1 DEF Settled
        <5>. QED BY <3>1, <5>1 DEF Linked
      <4>. QED BY <4>1, <4>2
    <3>. HIDE DEF c
    <3>. QED BY <3>1, <3>2 DEF Settled, c
  <2>. QED BY <2>1, <2>2 DEF AllSettled
<1>8. Distinct'
  <2>. SUFFICES ASSUME NEW m \in Nodes, NEW j \in ConnIds, NEW k \in ConnIds,
                       Used(conns'[m][j]), Used(conns'[m][k]),
                       conns'[m][j].local = conns'[m][k].local
                PROVE  j = k
    BY DEF Distinct, Used
  <2>1. \A a, b \in ConnIds : Used(conns[m][a]) /\ Used(conns[m][b])
          /\ conns[m][a].local = conns[m][b].local => a = b
    BY DEF HandshakeInv, Distinct
  <2>2. CASE m = n
    BY <2>1, <2>2, <1>3, <1>4
  <2>3. CASE m # n
    BY <2>1, <2>3, <1>3
  <2>. QED BY <2>2, <2>3
<1>9. NetLegal'
  <2>0. Peer(n) \in Nodes /\ Peer(n) # n
    BY PeerFacts
  <2>1. net' = [m \in Nodes |-> net'[m]]
        /\ \A m \in Nodes : net'[m] = IF m = Peer(n) THEN Fit(inbox[m] \o r.out) ELSE inbox[m]
    BY <1>2, <2>0 DEF Inbox
  <2>2. ASSUME NEW m \in Nodes
        PROVE  IsSeq(net'[m]) /\ Range(net'[m]) \subseteq Range(net[m]) \cup (IF m = Peer(n) THEN Range(r.out) ELSE {})
    <3>1. CASE m = Peer(n)
      <4>1. IsSeq(inbox[m]) /\ Range(inbox[m]) \subseteq Range(net[m]) /\ IsSeq(r.out)
        BY DEF Inbox, Proper, Polite
      <4>2. IsSeq(inbox[m] \o r.out) /\ Range(inbox[m] \o r.out) \subseteq Range(inbox[m]) \cup Range(r.out)
        BY <4>1, ConcatSeq
      <4>3. IsSeq(Fit(inbox[m] \o r.out)) /\ Range(Fit(inbox[m] \o r.out)) \subseteq Range(inbox[m] \o r.out)
        BY <4>2, FitSeq
      <4>. QED BY <2>1, <3>1, <4>1, <4>2, <4>3
    <3>2. CASE m # Peer(n)
      BY <2>1, <3>2 DEF Inbox
    <3>. QED BY <3>1, <3>2
  <2>3. ASSUME NEW m \in Nodes, NEW seg \in Range(net[m]) PROVE Legal(m, seg)'
    BY <1>5, LinkStays DEF HandshakeInv, NetLegal
  <2>4. ASSUME NEW seg \in Range(r.out) PROVE Legal(Peer(n), seg)'
    <3>1. Legit(d, seg)
      BY <1>1 DEF Proper, Polite, Legit, Same
    <3>2. conns'[n][i] = d
      BY <1>3
    <3>. QED BY <1>4, <3>1, <3>2, LegitLegal
  <2>. QED BY <2>1, <2>2, <2>3, <2>4 DEF NetLegal
<1>. QED BY <1>7, <1>8, <1>9

\* A call that concerns no handshake.
LEMMA KeepsInv ==
  ASSUME HandshakeInv, NEW n \in Nodes, NEW i \in ConnIds, NEW r, NEW inbox, Inbox(inbox),
         Commit(n, i, r, inbox), Used(conns[n][i]), Keeps(conns[n][i], r)
  PROVE  AllSettled' /\ Distinct' /\ NetLegal'
<1>. DEFINE c == conns[n][i]
<1>1. Settled(n, c)
  BY DEF HandshakeInv, AllSettled
<1>2. Proper(r) /\ Used(r)
  BY <1>1, NothingSent DEF Settled, Proper, Keeps
<1>3. Same(c, r)
  BY DEF Keeps
<1>4. Evolves(c, r) /\ r.local \in Ports /\ Linked(n, r)
  BY <1>1, <1>2, <1>3 DEF Evolves, Same, Settled, Linked
<1>5. \A j \in ConnIds \ {i} : Used(conns[n][j]) => conns[n][j].local # r.local
  BY <1>3 DEF HandshakeInv, Distinct, Same
<1>. QED BY <1>2, <1>4, <1>5, CommitSettled

\* A port that no record of the node has had.
LEMMA FreshPort ==
  ASSUME HandshakeInv, NEW n \in Nodes, NEW p \in PortChoices(n)
  PROVE  p \in Ports /\ \A j \in ConnIds : Used(conns[n][j]) => conns[n][j].local # p
  BY DEF HandshakeInv, PortChoices, Used

\* ARDP_Connect.
LEMMA ConnectInv ==
  ASSUME HandshakeInv, NEW n \in Nodes, Inbox(net), ARDP_Connect(n)
  PROVE  AllSettled' /\ Distinct' /\ NetLegal'
<1>1. PICK p \in PortChoices(n), iss \in ISSs, status \in Socks :
        Call(n, NextId(n), Connect(NewConn(p, 0, iss), status))
  BY DEF ARDP_Connect
<1>. DEFINE i == NextId(n)
            r == Connect(NewConn(p, 0, iss), status)
<1>2. i \in ConnIds /\ ~Used(conns[n][i])
  BY NextIdFacts DEF ARDP_Connect, Used
<1>3. r.local = p /\ ~r.passive /\ r.openCb = 0 /\ Used(r) /\ Proper(r)
  BY ConnectProper
<1>4. Commit(n, i, r, net)
  BY <1>1 DEF Call
<1>. HIDE DEF i, r
<1>5. Evolves(conns[n][i], r) /\ Linked(n, r)
  BY <1>2, <1>3 DEF Evolves, Linked
<1>. QED BY <1>2, <1>3, <1>4, <1>5, FreshPort, CommitSettled

\* The record that a segment is handed to.
LEMMA TargetFacts ==
  ASSUME NEW n \in Nodes, NEW seg, NEW i \in Targets(n, seg)
  PROVE  /\ i \in ConnIds /\ IsConnValid(conns[n][i])
         /\ conns[n][i].local = seg.DST /\ conns[n][i].foreign \in {seg.SRC, 0}
<1>1. ASSUME NEW T, T \subseteq ConnIds, T # {} PROVE Min(T) \in T
  <2>1. T \subseteq Nat
    BY <1>1 DEF ConnIds
  <2>2. PICK x \in T : \A y \in T : ~ (<<y, x>> \in OpToRel(<, Nat))
    BY <1>1, <2>1, WFMin, NatLessThanWellFounded
  <2>3. \A y \in T : ~(y < x)
    BY <2>1, <2>2 DEF OpToRel
  <2>4. \A y \in T : x <= y
    BY <2>1, <2>3
  <2>. QED BY <2>4 DEF Min
<1>2. \A l, f : Matches(n, l, f) \subseteq ConnIds
        /\ \A j \in Matches(n, l, f) : /\ IsConnValid(conns[n][j])
                                       /\ conns[n][j].local = l /\ conns[n][j].foreign = f
  BY DEF Matches
<1>3. i \in Matches(n, seg.DST, seg.SRC) \/ i \in Matches(n, seg.DST, 0)
  BY <1>1, <1>2 DEF Targets
<1>. QED BY <1>2, <1>3

\* A segment for a record: data, or the next step of the handshake.
LEMMA ReceiveInv ==
  ASSUME HandshakeInv, NEW n \in Nodes, NEW seg \in Range(net[n]), seg.DST # 0,
         NEW i \in Targets(n, seg), NEW r, Takes(conns[n][i], seg, r),
         NEW inbox, Inbox(inbox), Commit(n, i, r, inbox)
  PROVE  AllSettled' /\ Distinct' /\ NetLegal'
<1>. DEFINE c == conns[n][i]
            m == Peer(n)
<1>1. i \in ConnIds /\ Used(c) /\ c.local = seg.DST /\ c.foreign \in {seg.SRC, 0}
  BY TargetFacts DEF IsConnValid, Used
<1>2. Settled(n, c) /\ Legal(n, seg) /\ m \in Nodes
  BY <1>1, PeerFacts DEF HandshakeInv, AllSettled, NetLegal
<1>3. Proper(c) /\ c.local \in Ports
  BY <1>1, <1>2, NothingSent DEF Settled, Proper
<1>4. \A j \in ConnIds \ {i} : Used(conns[n][j]) => conns[n][j].local # c.local
  BY <1>1 DEF HandshakeInv, Distinct
<1>. HIDE DEF c, m
<1>5. CASE Keeps(c, r)
  BY <1>1, <1>5, KeepsInv DEF c
<1>6. CASE c.state = "LISTEN" /\ Learns(c, seg, r)
  \* a bare SYN goes to port 0
  BY <1>2, <1>6 DEF Learns, Legal
<1>7. CASE c.state = "SYN_SENT" /\ Meets(c, seg, r)
  <2>1. c.foreign = 0 /\ ~c.passive
    BY <1>3, <1>7 DEF Proper, Role
  <2>2. AnswerFrom(m, seg.SRC, seg.DST, seg.SEQ)
    BY <1>2, <1>7 DEF Meets, Legal, m
  <2>3. Used(r) /\ Proper(r) /\ r.local = c.local /\ r.passive = c.passive /\ r.ISS = c.ISS
        /\ r.foreign = seg.SRC /\ r.IRS = seg.SEQ
    BY <1>3, <1>7 DEF Meets
  <2>4. Linked(n, r)
    BY <1>1, <2>1, <2>2, <2>3 DEF Linked, m
  <2>5. Evolves(c, r)
    BY <2>1, <2>3 DEF Evolves
  <2>. QED BY <1>1, <1>3, <1>4, <2>3, <2>4, <2>5, CommitSettled DEF c
<1>8. CASE Opens(c, seg, r)
  <2>1. Used(r) /\ Proper(r) /\ r.local = c.local /\ r.passive = c.passive /\ r.ISS = c.ISS
        /\ r.foreign = c.foreign /\ r.IRS = c.IRS /\ r.passive
    BY <1>3, <1>8 DEF Opens
  <2>2. SynFrom(m, c.foreign, c.IRS)
    BY <1>2, <2>1 DEF Settled, Linked, m
  <2>3. PICK j \in ConnIds : /\ Used(conns[m][j]) /\ ~conns[m][j].passive
                             /\ conns[m][j].local = c.foreign
    BY <2>2 DEF SynFrom
  <2>4. c.foreign # 0
    <3>1. conns[m][j].local \in Ports
      BY <1>2, <2>3 DEF HandshakeInv, AllSettled, Settled
    <3>. QED BY <2>3, <3>1, ConnAssumption
  <2>5. Bound(m, seg.SRC, seg.DST)
    BY <1>2, <1>8 DEF Opens, Legal, m
  <2>6. PICK k \in ConnIds : /\ Used(conns[m][k])
                             /\ conns[m][k].local = c.foreign /\ conns[m][k].foreign = c.local
    BY <1>1, <2>4, <2>5 DEF Bound
  <2>7. j = k
    BY <1>2, <2>3, <2>6 DEF HandshakeInv, Distinct
  <2>8. ClientAt(m, c.foreign, c.local)
    BY <2>3, <2>6, <2>7 DEF ClientAt
  <2>9. Linked(n, r)
    BY <2>1, <2>2, <2>8 DEF Linked, m
  <2>10. Evolves(c, r)
    BY <2>1 DEF Evolves
  <2>. QED BY <1>1, <1>3, <1>4, <2>1, <2>9, <2>10, CommitSettled DEF c
<1>. QED BY <1>5, <1>6, <1>7, <1>8 DEF Takes, c

\* A segment to port 0: a new record, or a reset for its sender.
LEMMA AcceptInv ==
  ASSUME HandshakeInv, NEW n \in Nodes, NEW seg \in Range(net[n]), HasRoom(n),
         NEW p \in PortChoices(n), NEW iss, NEW accept, NEW status, NEW inbox, Inbox(inbox),
         Commit(n, NextId(n), Accept(NewConn(p, seg.SRC, iss), seg, accept, status), inbox)
  PROVE  AllSettled' /\ Distinct' /\ NetLegal'
<1>. DEFINE i == NextId(n)
            r == Accept(NewConn(p, seg.SRC, iss), seg, accept, status)
<1>1. i \in ConnIds /\ ~Used(conns[n][i])
  BY NextIdFacts DEF Used
<1>2. /\ r.local = p /\ r.foreign = seg.SRC /\ r.openCb = 0 /\ Used(r) /\ Proper(r)
      /\ r.passive => /\ "SYN" \in seg.FLG /\ "ACK" \notin seg.FLG
                      /\ r.IRS = seg.SEQ
  BY AcceptProper
<1>3. Commit(n, i, r, inbox)
  OBVIOUS
<1>. HIDE DEF i, r
<1>4. Legal(n, seg)
  BY DEF HandshakeInv, NetLegal
<1>5. Evolves(conns[n][i], r) /\ Linked(n, r)
  BY <1>1, <1>2, <1>4 DEF Evolves, Linked, Legal
<1>. QED BY <1>1, <1>2, <1>3, <1>5, FreshPort, CommitSettled

\* A step that only moves datagrams.
LEMMA NetOnlyInv ==
  ASSUME HandshakeInv, UNCHANGED conns, net' = [n \in Nodes |-> net'[n]],
         \A n \in Nodes : /\ IsSeq(net'[n])
                          /\ \A seg \in Range(net'[n]) : seg \in Range(net[n]) \/ seg.FLG = {"RST"}
  PROVE  AllSettled' /\ Distinct' /\ NetLegal'
<1>1. \A m \in Nodes, j \in ConnIds : Evolves(conns[m][j], conns'[m][j])
  BY DEF Evolves
<1>2. AllSettled' /\ Distinct'
  BY DEF HandshakeInv, AllSettled, Distinct, Settled, Linked, SynFrom, AnswerFrom, ClientAt
<1>3. ASSUME NEW n \in Nodes, NEW seg \in Range(net'[n]) PROVE Legal(n, seg)'
  <2>1. CASE seg \in Range(net[n])
    BY <1>1, <2>1, LinkStays DEF HandshakeInv, NetLegal
  <2>2. CASE seg.FLG = {"RST"}
    BY <2>2 DEF Legal
  <2>. QED BY <1>3, <2>1, <2>2
<1>. QED BY <1>2, <1>3 DEF NetLegal

\* One received datagram.
LEMMA HandleSegmentSettled ==
  ASSUME HandshakeInv, NEW n \in Nodes, NEW seg \in Range(net[n]),
         NEW inbox, Inbox(inbox), HandleSegment(n, seg, inbox)
  PROVE  AllSettled' /\ Distinct' /\ NetLegal'
<1>1. CASE HasRoom(n) /\ \E p \in PortChoices(n), iss \in ISSs, accept \in AcceptAnswers, status \in Socks :
             Commit(n, NextId(n), Accept(NewConn(p, seg.SRC, iss), seg, accept, status), inbox)
  BY <1>1, AcceptInv
<1>2. CASE net' = [inbox EXCEPT ![Peer(n)] = Fit(Append(@, RstSeg(seg)))] /\ UNCHANGED conns
  <2>. DEFINE m == Peer(n)
              rst == RstSeg(seg)
              ch == Append(inbox[m], rst)
  <2>1. m \in Nodes
    BY PeerFacts
  <2>2. rst.FLG = {"RST"}
    BY DEF RstSeg, ControlSeg, UnusedConn, NewConn, EmptyMsk
  <2>3. net' = [k \in Nodes |-> net'[k]]
        /\ \A k \in Nodes : net'[k] = IF k = m THEN Fit(ch) ELSE inbox[k]
    BY <1>2, <2>1 DEF Inbox
  <2>. HIDE DEF rst
  <2>4. IsSeq(ch) /\ Range(ch) \subseteq Range(inbox[m]) \cup {rst}
    BY <2>1, AppendSeq DEF Inbox
  <2>. HIDE DEF ch
  <2>5. IsSeq(Fit(ch)) /\ Range(Fit(ch)) \subseteq Range(ch)
    BY <2>4, FitSeq
  <2>. HIDE DEF m
  <2>6. \A k \in Nodes : /\ IsSeq(net'[k])
                         /\ \A x \in Range(net'[k]) : x \in Range(net[k]) \/ x.FLG = {"RST"}
    BY <2>1, <2>2, <2>3, <2>4, <2>5 DEF Inbox
  <2>. QED BY <1>2, <2>3, <2>6, NetOnlyInv
<1>3. CASE seg.DST # 0 /\ \E i \in Targets(n, seg) : \E lapsed, status :
             Commit(n, i, Receive(conns[n][i], seg, TRUE, lapsed, status), inbox)
  <2>0. PICK i \in Targets(n, seg) : \E lapsed, status :
          Commit(n, i, Receive(conns[n][i], seg, TRUE, lapsed, status), inbox)
    BY <1>3
  <2>1. PICK lapsed, status :
          Commit(n, i, Receive(conns[n][i], seg, TRUE, lapsed, status), inbox)
    BY <2>0
  <2>2. conns[n][i].state \in States \ {"UNUSED", "FREED"}
    BY TargetFacts DEF HandshakeInv, Inv, Sound, Told, IsConnValid
  <2>3. Takes(conns[n][i], seg, Receive(conns[n][i], seg, TRUE, lapsed, status))
    BY <2>2, ReceiveTakes
  <2>. QED BY <1>3, <2>1, <2>3, ReceiveInv
<1>4. CASE net' = inbox /\ UNCHANGED conns
  BY <1>4, NetOnlyInv DEF Inbox
<1>. QED BY <1>1, <1>2, <1>3, <1>4, Zenon DEF HandleSegment

\* Initially there is no record and no datagram.
LEMMA HandshakeInit == FreshPorts /\ Init => HandshakeInv
<1>. SUFFICES ASSUME FreshPorts, Init PROVE HandshakeInv
  OBVIOUS
<1>1. \A n \in Nodes, i \in ConnIds : conns[n][i] = UnusedConn
  BY DEF Init
<1>2. /\ UnusedConn.out = << >> /\ UnusedConn.foreign = 0 /\ UnusedConn.openCb = 0
      /\ ~UnusedConn.passive /\ UnusedConn.state = "UNUSED"
  BY DEF UnusedConn, NewConn
<1>3. \A n : Settled(n, UnusedConn)
  BY <1>2 DEF Settled, Role, Used, Linked
<1>4. AllSettled
  BY <1>1, <1>3 DEF AllSettled
<1>5. Distinct
  BY <1>1, <1>2 DEF Distinct, Used
<1>6. IsSeq(<< >>) /\ Range(<< >>) = {}
  BY DEF IsSeq, Range
<1>7. NetLegal
  BY <1>6 DEF Init, NetLegal
<1>. QED BY <1>4, <1>5, <1>7, InvInit DEF HandshakeInv

\* Every step keeps the invariant.
LEMMA HandshakeNext == HandshakeInv /\ [Next]_vars => HandshakeInv'
<1>. SUFFICES ASSUME HandshakeInv, [Next]_vars PROVE AllSettled' /\ Distinct' /\ NetLegal'
  BY InvNext DEF HandshakeInv
<1>0. Inbox(net) /\ \A n \in Nodes : IsSeq(net[n])
  BY DEF HandshakeInv, NetLegal, Inbox
<1>1. ASSUME NEW n \in Nodes, NEW i \in ConnIds, NEW r, Call(n, i, r),
             Used(conns[n][i]), Keeps(conns[n][i], r)
      PROVE  AllSettled' /\ Distinct' /\ NetLegal'
  BY <1>0, <1>1, KeepsInv DEF Call
<1>2. ASSUME NEW n \in Nodes, ARDP_Connect(n) PROVE AllSettled' /\ Distinct' /\ NetLegal'
  BY <1>0, <1>2, ConnectInv
<1>3. ASSUME NEW n \in Nodes, NEW i \in ConnIds, ARDP_Send(n, i)
      PROVE  AllSettled' /\ Distinct' /\ NetLegal'
  <2>1. PICK fcnt \in FragCounts :
          /\ CanSend(conns[n][i], fcnt)
          /\ \E ttl \in Ttls, late \in BOOLEAN, st \in [1 .. fcnt -> Socks], status \in Socks :
               Call(n, i, SendData(conns[n][i], fcnt, ttl, late, st, status))
    BY <1>3 DEF ARDP_Send
  <2>2. Used(conns[n][i]) /\ fcnt \in Nat
    BY <2>1, ArdpAssumption, ConnAssumption DEF CanSend, Used
  <2>3. PICK ttl \in Ttls, late \in BOOLEAN, st \in [1 .. fcnt -> Socks], status \in Socks :
          Call(n, i, SendData(conns[n][i], fcnt, ttl, late, st, status))
    BY <2>1
  <2>. QED BY <1>1, <2>2, <2>3, SendDataKeeps
<1>4. ASSUME NEW n \in Nodes, NEW i \in ConnIds, ARDP_RecvReady(n, i)
      PROVE  AllSettled' /\ Distinct' /\ NetLegal'
  <2>. DEFINE c == conns[n][i]
              read(d, s) == [d EXCEPT !.upq = @ \ {s}, !.nread = @ + 1]
  <2>1. PICK s \in c.upq : Call(n, i, read(UpdateRcvBuffers(c, s), s))
    BY <1>4 DEF ARDP_RecvReady
  <2>2. \A d : Calm(d, read(d, s))
    BY DEF Calm, Same
  <2>3. Used(c)
    BY <1>4 DEF ARDP_RecvReady, IsConnValid, Used
  <2>. HIDE DEF read
  <2>4. Calm(c, read(UpdateRcvBuffers(c, s), s))
    BY <2>2, UpdateRcvBuffersCalm, CalmTrans
  <2>. QED BY <1>1, <2>1, <2>3, <2>4, CalmKeeps
<1>5. ASSUME NEW n \in Nodes, NEW i \in ConnIds, ARDP_Disconnect(n, i)
      PROVE  AllSettled' /\ Distinct' /\ NetLegal'
  <2>1. PICK status \in Socks : Call(n, i, Disconnect(conns[n][i], "OK", status))
    BY <1>5 DEF ARDP_Disconnect
  <2>2. Used(conns[n][i])
    BY <1>5 DEF ARDP_Disconnect, HandshakeInv, Inv, Sound, Told, Used
  <2>. QED BY <1>1, <2>1, <2>2, DisconnectKeeps
<1>6. ASSUME NEW n \in Nodes, NEW i \in ConnIds, DoConnectCb(n, i)
      PROVE  AllSettled' /\ Distinct' /\ NetLegal'
  <2>. DEFINE c == conns[n][i]
              u == [c EXCEPT !.up = "using"]
              r == [c EXCEPT !.up = "idle"]
  <2>1. Call(n, i, u) \/ Call(n, i, DelConnRecord(r))
    BY <1>6 DEF DoConnectCb
  <2>2. Used(c)
    BY <1>6 DEF DoConnectCb, IsConnValid, Used
  <2>3. Calm(c, u) /\ Calm(c, r)
    BY DEF Calm, Same
  <2>. HIDE DEF u, r
  <2>4. Keeps(c, u) /\ Keeps(c, DelConnRecord(r))
    BY <2>3, CalmKeeps, DelKeeps, KeepsTrans
  <2>. QED BY <1>1, <2>1, <2>2, <2>4
<1>7. ASSUME NEW n \in Nodes, NEW i \in ConnIds, CheckTimers(n, i)
      PROVE  AllSettled' /\ Distinct' /\ NetLegal'
  <2>1. PICK due, resend : FireTimers(n, i, due, resend)
    BY <1>7 DEF CheckTimers
  <2>2. Used(conns[n][i])
    BY <2>1 DEF FireTimers, IsConnValid, Used
  <2>3. \E status, elapsed, late, st :
          Call(n, i, CheckConnTimers(conns[n][i], due, resend, elapsed, late, status, st))
    BY <2>1, Zenon DEF FireTimers
  <2>. QED BY <1>1, <2>2, <2>3, CheckConnTimersKeeps
<1>8. ASSUME NEW n \in Nodes, NEW k \in 1 .. Len(net[n])
      PROVE  net[n][k] \in Range(net[n]) /\ Inbox([net EXCEPT ![n] = RemoveAt(@, k)])
  <2>1. net[n][k] \in Range(net[n])
    BY <1>0, <1>8 DEF IsSeq, Range
  <2>2. IsSeq(RemoveAt(net[n], k)) /\ Range(RemoveAt(net[n], k)) \subseteq Range(net[n])
    BY <1>0, <1>8, RemoveSeq
  <2>. QED BY <1>0, <2>1, <2>2 DEF Inbox
<1>9. ASSUME NEW n \in Nodes, NEW k \in 1 .. Len(net[n]), ARDP_Run(n, k)
      PROVE  AllSettled' /\ Distinct' /\ NetLegal'
  BY <1>0, <1>8, <1>9, HandleSegmentSettled DEF ARDP_Run
<1>10. ASSUME NEW n \in Nodes, NEW k \in 1 .. Len(net[n]), Lose(n, k)
       PROVE  AllSettled' /\ Distinct' /\ NetLegal'
  <2>1. Inbox(net') /\ UNCHANGED conns
    BY <1>8, <1>10 DEF Lose
  <2>. QED BY <2>1, NetOnlyInv DEF Inbox
<1>11. CASE UNCHANGED <<conns, net>>
  BY <1>0, <1>11, NetOnlyInv DEF Inbox
<1>12. ASSUME NEW n \in Nodes, ARDP_StartPassive(n) PROVE UNCHANGED <<conns, net>>
  BY <1>12 DEF ARDP_StartPassive
<1>13. CASE UNCHANGED vars
  BY <1>11, <1>13 DEF vars
<1>. QED BY <1>2, <1>3, <1>4, <1>5, <1>6, <1>7, <1>9, <1>10, <1>11, <1>12, <1>13 DEF Next

\* The partner of an open record is the one the property asks for, and no two
\* open records have the same.
LEMMA HandshakeImplies == HandshakeInv => HandshakeAgrees
<1>. SUFFICES ASSUME HandshakeInv, NEW n \in Nodes, NEW i \in ConnIds, conns[n][i].openCb > 0
              PROVE  /\ \E j \in ConnIds :
                          LET c == conns[n][i]
                              d == conns[Peer(n)][j]
                          IN  /\ d.local = c.foreign /\ d.foreign \in {c.local, 0}
                              /\ c.IRS = d.ISS /\ (d.passive => d.IRS = c.ISS)
                     /\ \A k \in ConnIds \ {i} :
                          conns[n][k].openCb > 0 => conns[n][k].foreign # conns[n][i].foreign
  BY DEF HandshakeAgrees
<1>. DEFINE m == Peer(n)
<1>1. m \in Nodes /\ Peer(m) = n
  BY PeerFacts
<1>2. \A x \in Nodes, j \in ConnIds : Linked(x, conns[x][j])
  BY DEF HandshakeInv, AllSettled, Settled
<1>3. \A x \in Nodes, j, k \in ConnIds :
        Used(conns[x][j]) /\ Used(conns[x][k]) /\ conns[x][j].local = conns[x][k].local => j = k
  BY DEF HandshakeInv, Distinct
<1>4. ASSUME NEW k \in ConnIds, conns[n][k].openCb > 0 PROVE Used(conns[n][k])
  BY <1>4 DEF HandshakeInv, AllSettled, Settled
<1>5. ASSUME NEW k \in ConnIds, conns[n][k].openCb > 0, ~conns[n][k].passive
      PROVE  \E j \in ConnIds : /\ Used(conns[m][j]) /\ conns[m][j].passive
                                /\ conns[m][j].local = conns[n][k].foreign
                                /\ conns[m][j].foreign = conns[n][k].local
                                /\ conns[m][j].ISS = conns[n][k].IRS
                                /\ conns[m][j].IRS = conns[n][k].ISS
  <2>1. AnswerFrom(m, conns[n][k].foreign, conns[n][k].local, conns[n][k].IRS)
    BY <1>2, <1>5 DEF Linked
  <2>2. PICK j \in ConnIds : /\ Used(conns[m][j]) /\ conns[m][j].passive
                             /\ conns[m][j].local = conns[n][k].foreign
                             /\ conns[m][j].foreign = conns[n][k].local
                             /\ conns[m][j].ISS = conns[n][k].IRS
    BY <2>1 DEF AnswerFrom
  <2>3. SynFrom(n, conns[m][j].foreign, conns[m][j].IRS)
    BY <1>1, <1>2, <2>2 DEF Linked
  <2>4. PICK l \in ConnIds : /\ Used(conns[n][l])
                             /\ conns[n][l].local = conns[m][j].foreign
                             /\ conns[n][l].ISS = conns[m][j].IRS
    BY <2>3 DEF SynFrom
  <2>5. l = k
    BY <1>3, <1>4, <1>5, <2>2, <2>4
  <2>. QED BY <2>2, <2>4, <2>5
<1>6. ASSUME NEW k \in ConnIds, conns[n][k].openCb > 0, conns[n][k].passive
      PROVE  \E j \in ConnIds : /\ Used(conns[m][j]) /\ ~conns[m][j].passive
                                /\ conns[m][j].local = conns[n][k].foreign
                                /\ conns[m][j].foreign = conns[n][k].local
                                /\ conns[m][j].ISS = conns[n][k].IRS
  <2>1. SynFrom(m, conns[n][k].foreign, conns[n][k].IRS)
        /\ ClientAt(m, conns[n][k].foreign, conns[n][k].local)
    BY <1>2, <1>6 DEF Linked
  <2>. QED BY <1>1, <1>3, <2>1 DEF SynFrom, ClientAt
<1>7. \E j \in ConnIds : /\ conns[m][j].local = conns[n][i].foreign
                         /\ conns[m][j].foreign = conns[n][i].local
                         /\ conns[m][j].ISS = conns[n][i].IRS
                         /\ conns[m][j].passive => conns[m][j].IRS = conns[n][i].ISS
  BY <1>5, <1>6
<1>8. ASSUME NEW k \in ConnIds, conns[n][k].openCb > 0,
             conns[n][k].foreign = conns[n][i].foreign
      PROVE  k = i
  <2>1. PICK j \in ConnIds : /\ Used(conns[m][j]) /\ (conns[m][j].passive <=> ~conns[n][k].passive)
                             /\ conns[m][j].local = conns[n][k].foreign
                             /\ conns[m][j].foreign = conns[n][k].local
    BY <1>5, <1>6, <1>8
  <2>2. PICK l \in ConnIds : /\ Used(conns[m][l]) /\ (conns[m][l].passive <=> ~conns[n][i].passive)
                             /\ conns[m][l].local = conns[n][i].foreign
                             /\ conns[m][l].foreign = conns[n][i].local
    BY <1>5, <1>6
  <2>3. j = l
    BY <1>1, <1>3, <1>8, <2>1, <2>2
  <2>. QED BY <1>3, <1>4, <1>8, <2>1, <2>2, <2>3
<1>. QED BY <1>7, <1>8

(***************************************************************************)
(* The handshake: as long as no node draws a port twice, a side that has   *)
(* told its transport that the connection is open has a partner with the   *)
(* same ports and initial sequence numbers, and a SYN, however often it is *)
(* repeated and in whatever order its answers arrive, opens one connection *)
(* at most.                                                                *)
(***************************************************************************)
THEOREM HandshakeSafe == FreshPorts /\ Spec => []HandshakeAgrees
<1>1. FreshPorts /\ Init => HandshakeInv
  BY HandshakeInit
<1>2. HandshakeInv /\ [Next]_vars => HandshakeInv'
  BY HandshakeNext
<1>3. HandshakeInv => HandshakeAgrees
  BY HandshakeImplies
<1>. QED BY <1>1, <1>2, <1>3, PTL DEF Spec
=======
