------------------------------ MODULE ArdpSeq ------------------------------
(***************************************************************************)
(* The serial-number arithmetic of ArdpProtocol.cc.  A sequence number is  *)
(* a uint32_t, and 2^32 is the parameter SeqSize, so that a model with a    *)
(* small modulus wraps around many times.                                  *)
(***************************************************************************)
EXTENDS Integers

CONSTANT SeqSize

\* 2^32 is even, which is all that the signed comparisons need.
ASSUME SeqSizeAssumption ==
  /\ SeqSize \in Nat
  /\ \E h \in 1 .. SeqSize : SeqSize = 2 * h

SeqNums == 0 .. SeqSize - 1

\* a + b and a - b in uint32_t
Plus(a, b) == IF a + b < SeqSize THEN a + b ELSE a + b - SeqSize
Minus(a, b) == IF a >= b THEN a - b ELSE a - b + SeqSize

\* (int32_t)(a - b) < 0 : the top bit of the difference is set
SEQ32_LT(a, b) == 2 * Minus(a, b) >= SeqSize

SEQ32_LET(a, b) == SEQ32_LT(a, b) \/ a = b

\* p is in the window of sz numbers that starts at beg: the macro's two
\* cases, a window that does not wrap around and one that does.
IN_RANGE(beg, sz, p) ==
  LET end == Plus(beg, sz)
  IN  \/ end > beg /\ p >= beg /\ p < end
      \/ end < beg /\ ~(p < beg /\ p >= end)
=============================================================================
