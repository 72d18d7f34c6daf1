--------------------------- MODULE ArdpEackProofs ---------------------------
(***************************************************************************)
(* The EACK mask is exact when it is a single word that covers the         *)
(* receive window, for every width of the word and every window.           *)
(***************************************************************************)
EXTENDS ArdpEack, WellFoundedInduction, TLAPS

\* The inductive invariant: the segments held lie in the window, so that the
\* mask is never shifted by more than its width.
HeldInWindow == \A d \in held : lag + d + 1 <= SegMax

Inv == TypeOK /\ MaskIsHeld /\ HeldInWindow

OneWord == MaskWords = 1

\* The bits of a one-word mask are the deltas it stands for.
LEMMA OneWordDeltas ==
  ASSUME OneWord, NEW m \in RcvMsk
  PROVE  WordIndex = {0} /\ MskDeltas(m) = m.mask[0] /\ m.mask[0] \subseteq Bits /\ m.sz \in {0, 1}
<1>1. WordIndex = {0} /\ m.sz \in {0, 1}
  BY RcvMskAssumption DEF OneWord, WordIndex, RcvMsk
<1>2. m.mask[0] \subseteq Bits
  BY <1>1 DEF RcvMsk
<1>3. \A k \in m.mask[0] : 0 * WordBits + k = k
  BY <1>2, RcvMskAssumption DEF Bits
<1>4. {0 * WordBits + k : k \in m.mask[0]} = m.mask[0]
  BY <1>3
<1>5. MskDeltas(m) = m.mask[0]
  BY <1>1, <1>4 DEF MskDeltas
<1>. QED BY <1>1, <1>2, <1>5

\* AddRcvMsk sets one bit of the word.
LEMMA AddOneWord ==
  ASSUME OneWord, NEW m \in RcvMsk, NEW d \in 1 .. WordBits
  PROVE  /\ AddRcvMsk(m, d) \in RcvMsk
         /\ AddRcvMsk(m, d).mask[0] = m.mask[0] \cup {d}
         /\ AddRcvMsk(m, d).sz = 1
<1>1. MskBin(d) = 0
  BY RcvMskAssumption DEF MskBin
<1>2. m.sz \in {0, 1} /\ WordIndex = {0} /\ m.mask \in [WordIndex -> SUBSET Bits]
  BY OneWordDeltas DEF RcvMsk
<1>3. d - 0 * WordBits = d /\ d \in Bits
  BY RcvMskAssumption DEF Bits
<1>4. AddRcvMsk(m, d).mask = [m.mask EXCEPT ![0] = @ \cup {d}]
  BY <1>1, <1>3 DEF AddRcvMsk
<1>5. AddRcvMsk(m, d).sz = IF m.sz < 0 + 1 THEN 0 + 1 ELSE m.sz
  BY <1>1 DEF AddRcvMsk
<1>6. AddRcvMsk(m, d).sz = 1
  BY <1>2, <1>5
<1>7. AddRcvMsk(m, d) \in RcvMsk
  <2>1. AddRcvMsk(m, d) = [mask |-> AddRcvMsk(m, d).mask, sz |-> AddRcvMsk(m, d).sz]
    BY DEF AddRcvMsk
  <2>2. AddRcvMsk(m, d).mask \in [WordIndex -> SUBSET Bits]
    BY <1>2, <1>3, <1>4
  <2>. QED BY <2>1, <2>2, <1>6 DEF RcvMsk, OneWord
<1>. QED BY <1>2, <1>4, <1>6, <1>7

\* UpdateRcvMsk shifts the word; a shift by its whole width clears it, with
\* no use of the undefined full-width shift.
LEMMA UpdateOneWord ==
  ASSUME OneWord, NEW m \in RcvMsk, NEW n \in 1 .. WordBits, NEW full \in BOOLEAN
  PROVE  LET u == UpdateRcvMsk(m, n, full)
             w == ShiftLeft(m.mask[0], n)
         IN  IF m.sz = 0 THEN u = m
             ELSE u = [mask |-> [k \in WordIndex |-> w], sz |-> IF w # {} THEN 1 ELSE 0]
<1>. DEFINE skip == n \div WordBits
            lshift == n % WordBits
            word(w) == IF w \in WordIndex THEN m.mask[w] ELSE {}
            saved(w) == IF w >= m.sz \/ w < skip + 1 THEN {}
                        ELSE IF lshift # 0 THEN ShiftRight(word(w), WordBits - lshift)
                        ELSE IF full THEN {} ELSE word(w)
            base == ShiftLeft(word(skip), lshift)
            moved == {w \in skip + 1 .. m.sz - 1 : ShiftLeft(word(w), lshift) # {}}
            newMask == [w \in WordIndex |->
                          (IF w = 0 THEN base
                           ELSE IF w > skip /\ w < m.sz THEN ShiftLeft(word(w), lshift)
                           ELSE word(w))
                          \cup (IF w >= skip THEN saved(w + 1) ELSE {})]
            newSz == IF moved # {} THEN Max(moved) - skip ELSE IF base # {} THEN 1 ELSE 0
<1>1. UpdateRcvMsk(m, n, full) = IF m.sz = 0 THEN m ELSE [mask |-> newMask, sz |-> newSz]
  BY DEF UpdateRcvMsk
<1>2. WordIndex = {0} /\ m.mask[0] \subseteq Bits /\ m.sz \in {0, 1}
  BY OneWordDeltas
<1>3. SUFFICES ASSUME m.sz = 1
               PROVE  base = ShiftLeft(m.mask[0], n) /\ newMask = [k \in WordIndex |-> base]
                      /\ newSz = IF base # {} THEN 1 ELSE 0
  BY <1>1, <1>2
<1>4. skip \in {0, 1} /\ (skip = 0 => lshift = n) /\ (skip = 1 => n = WordBits /\ lshift = 0)
  BY RcvMskAssumption
<1>5. base = ShiftLeft(m.mask[0], n)
  <2>1. CASE skip = 0
    BY <2>1, <1>2, <1>4
  <2>2. CASE skip = 1
    BY <2>2, <1>2, <1>4, RcvMskAssumption DEF ShiftLeft, Bits
  <2>. QED BY <1>4, <2>1, <2>2
<1>6. moved = {}
  BY <1>3, <1>4
<1>7. saved(1) = {}
  BY <1>3
<1>8. newMask = [k \in WordIndex |-> base]
  <2>1. \A w \in WordIndex : w = 0 /\ w + 1 = 1
    BY <1>2
  <2>. HIDE DEF base, saved, word, skip, lshift
  <2>. QED BY <2>1, <1>7
<1>. QED BY <1>5, <1>6, <1>8

----------------------------------------------------------------------------

\* Run is the least delta that is not held.
LEMMA RunFacts ==
  ASSUME TypeOK
  PROVE  Run \in 1 .. SegMax /\ Run \notin held /\ \A d \in 1 .. Run - 1 : d \in held
<1>. DEFINE T == {n \in 1 .. SegMax : n \notin held}
<1>1. SegMax \in T
  BY EackAssumption DEF TypeOK
<1>2. T \subseteq Nat
  OBVIOUS
<1>3. PICK x \in T : \A y \in T : ~ (<<y, x>> \in OpToRel(<, Nat))
  <2>. HIDE DEF T
  <2>. QED BY <1>1, <1>2, WFMin, NatLessThanWellFounded
<1>4. \A y \in T : ~(y < x)
  BY <1>2, <1>3 DEF OpToRel
<1>5. x \in 1 .. SegMax /\ x \notin held /\ \A d \in 1 .. x - 1 : d \in held
  BY <1>4, EackAssumption
<1>. QED BY <1>5 DEF Run

\* The empty mask of a new connection reports the empty window.
LEMMA InvInit == OneWord /\ Init => Inv
<1>. SUFFICES ASSUME OneWord, Init PROVE Inv
  OBVIOUS
<1>1. msk \in RcvMsk /\ msk.sz = 0
  BY RcvMskAssumption DEF Init, EmptyMsk, RcvMsk
<1>2. MskDeltas(msk) = {}
  <2>1. msk.mask[0] = {}
    BY RcvMskAssumption DEF Init, EmptyMsk, WordIndex
  <2>. QED BY <1>1, <2>1, OneWordDeltas
<1>. QED BY <1>1, <1>2, EackAssumption DEF Init, Inv, TypeOK, MaskIsHeld, HeldInWindow

\* OutOfOrder, InOrder and Consume preserve the invariant.
LEMMA InvNext == OneWord /\ Inv /\ [Next]_vars => Inv'
<1>. SUFFICES ASSUME OneWord, Inv, [Next]_vars PROVE Inv'
  OBVIOUS
<1>. USE RcvMskAssumption, EackAssumption
<1>0. SegMax \in 1 .. WordBits
  BY DEF OneWord
<1>1. /\ msk \in RcvMsk /\ msk.mask[0] = held /\ msk.sz \in {0, 1} /\ (msk.sz = 0 <=> held = {})
      /\ WordIndex = {0} /\ held \subseteq 1 .. SegMax - 1 /\ lag \in 0 .. SegMax
  BY OneWordDeltas DEF Inv, TypeOK, MaskIsHeld
<1>2. ASSUME NEW d \in 1 .. SegMax - 1, OutOfOrder(d) PROVE Inv'
  <2>1. d \in 1 .. WordBits
    BY <1>0
  <2>2. msk' \in RcvMsk /\ msk'.mask[0] = held \cup {d} /\ msk'.sz = 1
    BY <1>1, <1>2, <2>1, AddOneWord DEF OutOfOrder
  <2>3. MskDeltas(msk') = held'
    BY <1>2, <2>2, OneWordDeltas DEF OutOfOrder
  <2>4. HeldInWindow'
    BY <1>2 DEF OutOfOrder, InWindow, HeldInWindow, Inv
  <2>. QED BY <1>1, <1>2, <2>2, <2>3, <2>4 DEF OutOfOrder, Inv, TypeOK, MaskIsHeld
<1>3. ASSUME InOrder PROVE Inv'
  <2>1. Run \in 1 .. SegMax /\ \A d \in 1 .. Run - 1 : d \in held
    BY RunFacts DEF Inv
  <2>2. Run \in 1 .. WordBits
    BY <1>0, <2>1
  <2>3. lag' \in 0 .. SegMax /\ lag' = lag + Run
    <3>1. CASE Run = 1
      BY <1>1, <1>3, <3>1 DEF InOrder, InWindow
    <3>2. CASE Run > 1
      <4>1. Run - 1 \in held
        BY <2>1, <3>2
      <4>2. lag + (Run - 1) + 1 <= SegMax
        BY <4>1 DEF Inv, HeldInWindow
      <4>. QED BY <1>1, <1>3, <2>1, <4>2 DEF InOrder
    <3>. QED BY <2>1, <3>1, <3>2
  <2>4. held' \subseteq 1 .. SegMax - 1 /\ held' = ShiftLeft(held, Run)
    BY <1>0, <1>1, <1>3, <2>1 DEF InOrder, ShiftLeft, Bits
  <2>5. HeldInWindow'
    BY <1>1, <1>3, <2>1, <2>3 DEF InOrder, HeldInWindow, Inv
  <2>6. PICK full \in BOOLEAN : msk' = UpdateRcvMsk(msk, Run, full)
    BY <1>3 DEF InOrder
  <2>7. /\ msk.sz = 0 => msk' = msk
        /\ msk.sz # 0 => msk' = [mask |-> [k \in WordIndex |-> held'],
                                 sz |-> IF held' # {} THEN 1 ELSE 0]
    BY <1>1, <2>2, <2>4, <2>6, UpdateOneWord
  <2>8. held' \subseteq Bits
    BY <1>0, <2>4 DEF Bits
  <2>9. msk' \in RcvMsk /\ msk'.mask[0] = held' /\ (msk'.sz = 0 <=> held' = {})
    <3>1. CASE msk.sz = 0
      <4>1. held' = {}
        BY <1>1, <2>4, <3>1 DEF ShiftLeft
      <4>. QED BY <1>1, <2>7, <3>1, <4>1
    <3>2. CASE msk.sz # 0
      <4>1. [k \in WordIndex |-> held'] \in [WordIndex -> SUBSET Bits]
        BY <2>8
      <4>. QED BY <1>1, <2>7, <3>2, <4>1 DEF RcvMsk, OneWord
    <3>. QED BY <3>1, <3>2
  <2>10. MskDeltas(msk') = held'
    BY <2>9, OneWordDeltas
  <2>. QED BY <2>3, <2>4, <2>5, <2>9, <2>10 DEF Inv, TypeOK, MaskIsHeld
<1>4. ASSUME NEW n \in 1 .. SegMax, Consume(n) PROVE Inv'
  <2>1. HeldInWindow'
    BY <1>1, <1>4 DEF Consume, HeldInWindow, Inv
  <2>. QED BY <1>1, <1>4, <2>1 DEF Consume, Inv, TypeOK, MaskIsHeld
<1>5. CASE UNCHANGED vars
  BY <1>5 DEF vars, Inv, TypeOK, MaskIsHeld, HeldInWindow
<1>. QED BY <1>2, <1>3, <1>4, <1>5 DEF Next

(***************************************************************************)
(* With one mask word the EACK mask that every header carries (AddRcvMsk,  *)
(* UpdateRcvMsk) is the set of out-of-order segments in the receive buffer,*)
(* for every window that the word covers, and the flag EACK is right too.  *)
(* A second word breaks it: UpdateRcvMsk then loses the number of words.   *)
(***************************************************************************)
THEOREM EackMaskExact == OneWord /\ Spec => []MaskIsHeld
<1>1. OneWord /\ Init => Inv
  BY InvInit
<1>2. OneWord /\ Inv /\ [Next]_vars => Inv'
  BY InvNext
<1>3. Inv => MaskIsHeld
  BY DEF Inv
<1>4. CASE OneWord
  BY <1>1, <1>2, <1>3, <1>4, PTL DEF Spec
<1>5. CASE ~OneWord
  BY <1>5, PTL
<1>. QED BY <1>4, <1>5

\* The receive window bounds what AddRcvBuffer files and delivers: RCV.CUR
\* stays within RCV.MAX of RCV.LCS, and the mask stays a mask.
THEOREM EackTypeOK == OneWord /\ Spec => []TypeOK
<1>1. OneWord /\ Init => Inv
  BY InvInit
<1>2. OneWord /\ Inv /\ [Next]_vars => Inv'
  BY InvNext
<1>3. Inv => TypeOK
  BY DEF Inv
<1>4. CASE OneWord
  BY <1>1, <1>2, <1>3, <1>4, PTL DEF Spec
<1>5. CASE ~OneWord
  BY <1>5, PTL
<1>. QED BY <1>4, <1>5
=============================================================================
