------------------------------- MODULE MCArdp -------------------------------
(***************************************************************************)
(* The runs of the protocol model.                                         *)
(***************************************************************************)
EXTENDS Ardp

\* Values for Quota
NoMessages == [n \in Nodes |-> 0]
FromA(k) == [n \in Nodes |-> IF n = "A" THEN k ELSE 0]
OneEach == [n \in Nodes |-> 1]
OneFromA == FromA(1)
TwoFromA == FromA(2)
ThreeFromA == FromA(3)
FourFromA == FromA(4)

\* Where the sender's buffer of each message is, read off the callbacks.
Receipts(c) == [m \in 1 .. Len(c.sent) |->
                  IF c.sendCb[m] = 0 THEN "held" ELSE IF m \in c.okCb THEN "ok" ELSE "lost"]

\* The direction from record 1 of node n to record 1 of its peer.
LinkAB == INSTANCE ReliableLink WITH
  Messages <- {[j \in 1 .. f |-> <<m, j>>] : f \in FragCounts, m \in 1 .. MaxMsgs},
  sent <- [m \in 1 .. Len(conns["A"][1].sent) |-> Message(conns["A"][1], m)],
  got <- conns["B"][1].got, nread <- conns["B"][1].nread,
  receipt <- Receipts(conns["A"][1]), open <- conns["A"][1].state = "OPEN"

LinkBA == INSTANCE ReliableLink WITH
  Messages <- {[j \in 1 .. f |-> <<m, j>>] : f \in FragCounts, m \in 1 .. MaxMsgs},
  sent <- [m \in 1 .. Len(conns["B"][1].sent) |-> Message(conns["B"][1], m)],
  got <- conns["A"][1].got, nread <- conns["A"][1].nread,
  receipt <- Receipts(conns["B"][1]), open <- conns["B"][1].state = "OPEN"

(***************************************************************************)
(* An open connection is a reliable link from A to B: ARDP_Send, RecvCb,   *)
(* ARDP_RecvReady and SendCb relate as ReliableLink says, whatever the     *)
(* network loses, repeats and reorders on the way to B.                    *)
(***************************************************************************)
ImplementsLinkAB == LinkAB!Spec

(***************************************************************************)
(* ... and from B to A, the passive side of the handshake, at the same     *)
(* time, with acknowledgements piggybacked on data.                        *)
(***************************************************************************)
ImplementsLinkBA == LinkBA!Spec
----------------------------------------------------------------------------
(* What assertions and comments of the code claim, and the code does not    *)
(* keep.  Each is the one property of a run that ends in a counterexample.  *)

\* UpdateSndSegments: every slot from SND.LCS + 1 to the ACK is in use
\* (assert(snd->inUse)), whatever the order in which ACKs arrive.
AckFindsItsSegments == Every(LAMBDA c : "AckNotInUse" \notin c.fault)

\* CancelEackedSegments: "Bitmask starts at SND.UNA + 1.  Cycle through the
\* mask and cancel retransmit timers on EACKed segments", whatever the order
\* in which EACKs arrive.
OnlyEackedCancelled ==
  EveryPair(LAMBDA c, d :
    c.state = "OPEN" /\ d.state = "OPEN" =>
      \A s \in Slots : c.snd[s].inUse /\ c.snd[s].retry = 0 => Received(d, c.snd[s].seq))

\* SendMsgData: a message without a time to live does not expire.
ForeverIsKept ==
  EveryPair(LAMBDA c, d :
    \A m \in c.okCb : c.sent[m].ttl = "infinite" =>
      \E k \in 1 .. d.nread : d.got[k][1][1] = m)

\* The reliability layer: with a retransmission timeout longer than the
\* round trip and more retries than the network loses datagrams, a
\* connection between two live nodes does not time out on its data.
LossIsSurvived == Every(LAMBDA c : c.reason # "TIMEOUT")
=============================================================================
