------------------------------ MODULE ArdpEack ------------------------------
(***************************************************************************)
(* The receiver's out-of-order window and the EACK mask that reports it.   *)
(* Segments of the window arrive in any order; AddRcvBuffer files each one *)
(* and either delivers the run that starts at RCV.CUR + 1 (ordered) or     *)
(* sets a bit of the mask.  Positions are relative to RCV.CUR.             *)
(***************************************************************************)
EXTENDS ArdpRcvMsk

CONSTANT SegMax        \* RCV.MAX

ASSUME EackAssumption == SegMax \in Nat \ {0} /\ SegMax <= MaskWords * WordBits

VARIABLES held,        \* deltas from RCV.CUR + 1 that are in RBUF.rcv, out of order
          lag,         \* RCV.CUR - RCV.LCS: delivered, not consumed
          msk          \* rcvMsk

vars == <<held, lag, msk>>

Init == held = {} /\ lag = 0 /\ msk = EmptyMsk

\* Mutant: off by one.
InWindowOneMore(d) == d >= 0 /\ lag + d <= SegMax

\* Segments RCV.CUR + 1 + d, for the d of the window [RCV.LCS + 1, RCV.LCS + MAX].
InWindow(d) == d >= 0 /\ lag + d + 1 <= SegMax

\* AddRcvBuffer, not ordered: a duplicate changes nothing.
OutOfOrder(d) ==
  /\ d > 0 /\ InWindow(d) /\ d \notin held
  /\ held' = held \cup {d}
  /\ msk' = AddRcvMsk(msk, d)
  /\ UNCHANGED lag

\* The length of the run that RCV.CUR + 1 completes.
Run == CHOOSE n \in 1 .. SegMax : n \notin held /\ \A d \in 1 .. n - 1 : d \in held

\* AddRcvBuffer, ordered: RCV.CUR moves over the run, then UpdateRcvMsk.
InOrder ==
  /\ InWindow(0)
  /\ held' = {d - Run : d \in {e \in held : e > Run}}
  /\ lag' = lag + Run
  /\ \E fullShift \in BOOLEAN : msk' = UpdateRcvMsk(msk, Run, fullShift)

\* UpdateRcvBuffers: the upper layer gives n segments back.
Consume(n) == n <= lag /\ lag' = lag - n /\ UNCHANGED <<held, msk>>

Next == \/ \E d \in 1 .. SegMax - 1 : OutOfOrder(d)
        \/ InOrder
        \/ \E n \in 1 .. SegMax : Consume(n)

Spec == Init /\ [][Next]_vars

\* The type invariant; its bound on lag is the receive window of
\* AddRcvBuffer: RCV.CUR never runs RCV.MAX ahead of RCV.LCS.
TypeOK == held \subseteq 1 .. SegMax - 1 /\ lag \in 0 .. SegMax /\ msk \in RcvMsk

(***************************************************************************)
(* What the mask in a header tells the sender is exactly the set of        *)
(* out-of-order segments this side holds (AddRcvMsk, UpdateRcvMsk), and    *)
(* the EACK flag, which SendMsgHeader and SendMsgData derive from sz, is   *)
(* set exactly when there is one.  A spurious bit cancels the retransmit   *)
(* timer of a segment that never arrived.                                  *)
(***************************************************************************)
MaskIsHeld ==
  /\ MskDeltas(msk) = held
  /\ (msk.sz = 0) <=> (held = {})
=============================================================================
