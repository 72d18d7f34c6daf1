----------------------------- MODULE ArdpRcvMsk -----------------------------
(***************************************************************************)
(* The EACK bit mask of a connection (ArdpRcvMsk): which segments beyond   *)
(* RCV.CUR + 1 have arrived out of order.  A 32-bit word is the set of its *)
(* bits, numbered 1 .. WordBits from the most significant one, so bit k of *)
(* word w stands for the segment RCV.CUR + 1 + w * WordBits + k.           *)
(* htnMask is the same mask in network byte order; every write to one is   *)
(* repeated on the other, so one field stands for both.                    *)
(***************************************************************************)
EXTENDS Integers, FiniteSetsExt

CONSTANTS WordBits,    \* 32 in the code
          MaskWords    \* fixedSz: the words that travel in every header

ASSUME RcvMskAssumption ==
  WordBits \in Nat \ {0} /\ MaskWords \in Nat \ {0}

WordIndex == 0 .. MaskWords - 1
Bits == 1 .. WordBits

RcvMsk == [mask : [WordIndex -> SUBSET Bits], sz : 0 .. MaskWords]

EmptyMsk == [mask |-> [w \in WordIndex |-> {}], sz |-> 0]

\* The deltas (from RCV.CUR + 1) whose bits are set in the words sent.
MskDeltas(m) == UNION {{w * WordBits + k : k \in m.mask[w]} : w \in WordIndex}

ShiftLeft(word, n) == {k \in Bits : k + n \in word}
ShiftRight(word, n) == {k \in Bits : k - n \in word}

(***************************************************************************)
(* AddRcvMsk: delta = SEQ - (RCV.CUR + 1) is at least 1.  bin32 is always  *)
(* a word of the mask, or the assertion of line 1682 fails.                *)
(***************************************************************************)
MskBin(delta) == (delta - 1) \div WordBits

\* Mutant: the number of words in use does not follow.
AddRcvMskKeepsSz(m, delta) ==
  LET bin == MskBin(delta)
  IN  [m EXCEPT !.mask[bin] = @ \cup {delta - bin * WordBits}]

AddRcvMsk(m, delta) ==
  LET bin == MskBin(delta)
  IN  [mask |-> [m.mask EXCEPT ![bin] = @ \cup {delta - bin * WordBits}],
       sz   |-> IF m.sz < bin + 1 THEN bin + 1 ELSE m.sz]

(***************************************************************************)
(* UpdateRcvMsk: RCV.CUR has moved on by delta.  The loop over the words   *)
(* above "skip" shifts each in place and saves its leading bits into the   *)
(* word below it.  When delta is a multiple of WordBits the code shifts a  *)
(* word right by its full width, which C++ leaves undefined: fullShift     *)
(* says whether that yields 0 or, as a shifter that takes the count modulo *)
(* the width does, the word itself.                                        *)
(***************************************************************************)
UpdateRcvMsk(m, delta, fullShift) ==
  LET skip   == delta \div WordBits
      lshift == delta % WordBits
      word(w) == IF w \in WordIndex THEN m.mask[w] ELSE {}
      saved(w) == IF w >= m.sz \/ w < skip + 1 THEN {}
                  ELSE IF lshift # 0 THEN ShiftRight(word(w), WordBits - lshift)
                  ELSE IF fullShift THEN {} ELSE word(w)
      base   == ShiftLeft(word(skip), lshift)
      moved  == {w \in skip + 1 .. m.sz - 1 : ShiftLeft(word(w), lshift) # {}}
      newMask == [w \in WordIndex |->
                    (IF w = 0 THEN base
                     ELSE IF w > skip /\ w < m.sz THEN ShiftLeft(word(w), lshift)
                     ELSE word(w))
                    \cup (IF w >= skip THEN saved(w + 1) ELSE {})]
      newSz  == IF moved # {} THEN Max(moved) - skip
                ELSE IF base # {} THEN 1 ELSE 0
  IN  IF m.sz = 0 THEN m ELSE [mask |-> newMask, sz |-> newSz]
=============================================================================
