------------------------------ MODULE SlapLink ------------------------------
(***************************************************************************)
(* What the two implementations of SLAP, the serial link between a daemon  *)
(* and a thin client, have in common: packets, link states and the         *)
(* comparison of sequence numbers.  SLIP framing and the CRC decide whether *)
(* a packet arrives or is lost, and are not modelled otherwise.            *)
(***************************************************************************)
EXTENDS Integers, Sequences

CONSTANTS Modulus,     \* sequence numbers are taken modulo this (8)
          BusWindow,   \* maxWindowSize of the daemon (4)
          DevWindow    \* maxWindowSize of the thin client (1 .. 4)

\* A window of n needs 2n sequence numbers, and is announced as a power of 2;
\* data is only exchanged under the smaller one.  With no more than 2n numbers
\* SEQ_GT takes the oldest duplicate for a packet yet to come, and only the
\* others of its window are acknowledged again: there have to be others.
\* The client announces its own maximum whatever the daemon asks for, so that
\* no link comes up when that is larger than the daemon's.  It also accepts
\* three (AJ_SerialInit), but SendNegotiationPacket announces that as one, so
\* that the ends disagree; a window of three is left out.
ASSUME SlapAssumption ==
  /\ Modulus \in Nat /\ BusWindow \in {1, 2, 4} /\ DevWindow \in {1, 2, 4}
  /\ DevWindow <= BusWindow /\ 2 * DevWindow <= Modulus /\ Modulus > 2

SeqNums == 0 .. Modulus - 1
Incr(s) == (s + 1) % Modulus

\* SEQ_GT, the same macro at both ends.
SEQ_GT(s1, s2, window) == (Modulus - 1 + s1 - s2) % Modulus < window

LinkStates == {"UNINITIALIZED", "INITIALIZED", "ACTIVE", "DYING", "DEAD"}

\* The payload <<i, k>> is the k-th packet written in the i-th life of the
\* sender; a control packet carries the life alone.
Packet(type, seq, ack, win, pay) ==
  [type |-> type, seq |-> seq, ack |-> ack, win |-> win, pay |-> pay]

\* e is the end that sends the packet.
Ctrl(e, type)        == Packet(type, 0, 0, 0, <<e.inc, 0>>)
Config(e, type, win) == Packet(type, 0, 0, win, <<e.inc, 0>>)
Data(e)              == Packet("DATA", e.seq, 0, 0, <<e.inc, e.pushed + 1>>)
Ack(e)               == Packet("ACK", 0, e.ack, 0, <<e.inc, 0>>)
NoPacket             == Packet("NONE", 0, 0, 0, <<0, 0>>)

CtrlTypes == {"CONN", "ACPT", "NEGO", "NRSP", "DISC", "DRSP"}
Queued(q, ack) == [i \in DOMAIN q |-> [q[i] EXCEPT !.ack = ack]]

\* How many packets at the head of a queue the number ack acknowledges.
Acked(q, ack, window) ==
  CHOOSE n \in 0 .. Len(q) : /\ \A i \in 1 .. n : SEQ_GT(ack, q[i].seq, window)
                             /\ n < Len(q) => ~SEQ_GT(ack, q[n + 1].seq, window)
Drop(q, n) == SubSeq(q, n + 1, Len(q))
=============================================================================
