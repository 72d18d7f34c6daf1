------------------------- MODULE SessionlessProofs -------------------------
(***************************************************************************)
(* Sessionless signals are neither skipped nor repeated, for any number of *)
(* keys, interfaces, clients and rules, as long as the producer            *)
(* understands RequestRange.                                               *)
(***************************************************************************)
EXTENDS Sessionless, FiniteSetTheorems, SequenceTheorems, TLAPS

----------------------------------------------------------------------------
(* The invariant *)

\* The producers that understand RequestRange.
RangePeers == "signals" \notin Peers

\* Marks start at Modulus - 1, before the first id.
Val(x) == IF x = Modulus - 1 THEN -1 ELSE x
Marks(n) == 0 .. n \cup {Modulus - 1}

\* The highest change id that a signal has had.
Top == IF prod.advanceChangeId THEN prod.curChangeId ELSE prod.curChangeId - 1

SignalDue(r, x) == InRange(r.fromChangeId, r.toChangeId, x)
RuleDue(r, y) == InRange(r.fromRulesId, r.toRulesId, y)

ProducerType ==
  [localCache : [Keys -> {NoSignal} \cup [id : Nat, serial : Nat]], curChangeId : Nat, advanceChangeId : BOOLEAN,
   ads : [Names -> Nat \cup {None}], alarm : BOOLEAN, serial : 0 .. MaxPush]

Producer ==
  /\ prod \in ProducerType
  /\ Top < prod.serial
  /\ \A k \in Keys : Stored(k) => prod.localCache[k].id <= Top /\ prod.localCache[k].serial \in 1 .. prod.serial
  /\ \A k, l \in Keys : Stored(k) /\ Stored(l) /\ prod.localCache[k].serial = prod.localCache[l].serial => k = l
  /\ \A n \in Names : prod.ads[n] <= Top
  /\ air \subseteq Names \X (0 .. Top)

RemoteType ==
  [state : {"IDLE", "IN_PROGRESS"}, ifaces : SUBSET Ifaces, changeId : Nat, haveReceived : BOOLEAN,
   receivedChangeId : Marks(MaxPush), appliedRulesId : Marks(MaxRules), retries : 0 .. MaxRetries,
   fromChangeId : Int, toChangeId : Int, fromRulesId : Int, toRulesId : Int,
   routed : SUBSET (1 .. MaxPush)]

\* What is asked for in a session: signals received already for new rules,
\* or new signals for all rules.
NewRules(r) ==
  /\ r.haveReceived /\ r.toChangeId = r.receivedChangeId + 1
  /\ \A x \in 0 .. MaxPush : SignalDue(r, x) <=> x <= r.receivedChangeId
  /\ \A y \in 0 .. MaxRules : RuleDue(r, y) <=> Val(r.appliedRulesId) < y /\ y < r.toRulesId

NewSignals(r) ==
  /\ r.haveReceived => r.appliedRulesId = r.toRulesId - 1
  /\ Val(r.receivedChangeId) < r.toChangeId - 1
  /\ \A x \in 0 .. MaxPush : SignalDue(r, x) <=> Val(r.receivedChangeId) < x /\ x < r.toChangeId
  /\ \A y \in 0 .. MaxRules : RuleDue(r, y) <=> y < r.toRulesId

Asking(r, n) ==
  /\ r.toChangeId \in 1 .. r.changeId + 1 /\ r.toRulesId \in 1 .. n
  /\ Val(r.appliedRulesId) <= r.toRulesId - 1
  /\ NewRules(r) \/ NewSignals(r)

\* The consumer's view of a producer whose highest change id is top and
\* whose next one is id, with rules up to n - 1.
Remote(r, top, id, n) ==
  /\ r \in RemoteType
  /\ r.changeId <= top
  /\ r.haveReceived => /\ r.receivedChangeId < id /\ r.receivedChangeId <= r.changeId
                       /\ r.appliedRulesId < n
  /\ ~r.haveReceived => r.receivedChangeId = Modulus - 1 /\ r.appliedRulesId = Modulus - 1
  /\ r.state = "IN_PROGRESS" => Asking(r, n)

RuleType == [client : Clients, id : Nat]

ConsumerType ==
  [rules : Seq(RuleType), nextRulesId : Nat, finding : SUBSET Names, remote : {NoCache} \cup RemoteType,
   alarm : BOOLEAN]

Ruled ==
  /\ \A i \in DOMAIN cons.rules : cons.rules[i].id <= cons.nextRulesId
  /\ cons.rules # << >> => cons.nextRulesId > 0
  /\ hist.added \in 0 .. MaxRules /\ cons.nextRulesId <= hist.added

Consuming ==
  /\ cons \in ConsumerType /\ Ruled
  /\ cons.remote # NoCache => Remote(cons.remote, Top, prod.curChangeId, cons.nextRulesId)

OnWire == {sess.wire[p] : p \in DOMAIN sess.wire}
SessionType ==
  [pc : {"asked", "serving", "left"}, peer : Peers, from : Int, to : Int, key : Nat, match : SUBSET Ifaces,
   erased : BOOLEAN, wire : Seq(Keys \X (1 .. MaxPush))]

\* A rule and a key that a session is about.
Concerns(i, k) ==
  /\ RuleDue(cons.remote, cons.rules[i].id) /\ Wants[cons.rules[i].client] = Iface[k]
Tuple(i, serial) == <<cons.rules[i].client, cons.rules[i].id, serial>>
Has(i, serial) == Tuple(i, serial) \in hist.got \cup hist.skipped

\* A session serves what its cache asks for, and once the producer has
\* begun with it, no new signal gets a change id that it asks for.
Serving ==
  /\ sess.from = cons.remote.fromChangeId /\ sess.to = cons.remote.toChangeId
  /\ \A e \in OnWire : e[2] <= prod.serial
  /\ sess.match # {} => \A i \in DOMAIN cons.rules :
                          RuleDue(cons.remote, cons.rules[i].id) => Wants[cons.rules[i].client] \in sess.match
  /\ sess.pc = "asked" => sess.key = 1 /\ sess.wire = << >>
  /\ sess.pc # "asked" => sess.to <= prod.curChangeId
  /\ sess.pc = "left" => sess.key \notin Keys
  /\ sess.key > 0

\* What the session has passed is on its way or has arrived.
Passed ==
  \A i \in DOMAIN cons.rules, k \in Keys :
    k < sess.key /\ Stored(k) /\ SignalDue(cons.remote, prod.localCache[k].id) /\ Concerns(i, k)
    => <<k, prod.localCache[k].serial>> \in OnWire \/ Has(i, prod.localCache[k].serial)

Session ==
  /\ sess # NoSession => cons.remote # NoCache /\ cons.remote.state = "IN_PROGRESS"
  /\ sess \in {NoSession, [pc |-> "joining"]} \cup SessionType
  /\ sess \in SessionType => Serving /\ Passed

\* As long as no cache was forgotten and no failed session was followed by a
\* new rule.
Calm == ~hist.dropped /\ ~(hist.faults > 0 /\ hist.added > 1)

\* What a client has is covered by the marks or remembered as routed.
Covered ==
  \A t \in hist.got, k \in Keys :
    Stored(k) /\ prod.localCache[k].serial = t[3] =>
      \/ t[3] \in cons.remote.routed
      \/ prod.localCache[k].id <= Val(cons.remote.receivedChangeId) /\ t[2] <= Val(cons.remote.appliedRulesId)

\* What is remembered as routed will be covered by the marks.
Routed ==
  \A t \in hist.got, k \in Keys :
    Stored(k) /\ prod.localCache[k].serial = t[3] /\ t[3] \in cons.remote.routed =>
      /\ t[2] < cons.nextRulesId /\ prod.localCache[k].id <= cons.remote.changeId
      /\ cons.remote.state = "IN_PROGRESS" =>
           t[2] < cons.remote.toRulesId /\ prod.localCache[k].id < cons.remote.toChangeId

\* What is on the wire is not there a second time.
Fresh ==
  \A e \in OnWire :
    /\ \A i \in DOMAIN cons.rules : Concerns(i, e[1]) => Tuple(i, e[2]) \notin hist.got \/ e[2] \in cons.remote.routed
    /\ \A k \in Keys : Stored(k) /\ prod.localCache[k].serial = e[2] =>
         SignalDue(cons.remote, prod.localCache[k].id)

Marked ==
  /\ hist.faults > 0 \/ cons.remote = NoCache \/ cons.remote.state = "IN_PROGRESS" \/ cons.remote.routed = {}
  /\ cons.remote = NoCache => hist.got = {}
  /\ cons.remote # NoCache => Covered /\ Routed

Once == Marked /\ (sess \in SessionType => Fresh)

History ==
  /\ hist \in [got : SUBSET (Clients \X Nat \X (1 .. MaxPush)), again : BOOLEAN,
               skipped : SUBSET (Clients \X Nat \X (1 .. MaxPush)), dropped : BOOLEAN,
               added : Nat, faults : Nat]
  /\ \A t \in hist.got : t[3] <= prod.serial

\* Complete, in plain numbers.
Done ==
  cons.remote # NoCache /\ cons.remote.haveReceived =>
    \A i \in DOMAIN cons.rules, k \in Keys :
      /\ Stored(k) /\ Wants[cons.rules[i].client] = Iface[k]
      /\ prod.localCache[k].id <= cons.remote.receivedChangeId
      /\ cons.rules[i].id <= cons.remote.appliedRulesId
      => Has(i, prod.localCache[k].serial)

SignalsInv ==
  /\ RangePeers /\ Producer /\ Consuming /\ Session /\ History /\ Done
  /\ NotAgain /\ (Calm => Once)

----------------------------------------------------------------------------
(* Numbers *)

\* Half of the numbers is more than the ids that are given out.
LEMMA Numbers ==
  /\ Modulus \in Nat /\ Half \in Nat /\ MaxPush \in Nat /\ MaxRules \in Nat
  /\ 2 * Half <= Modulus - 1 /\ Modulus <= 2 * Half + 2
  /\ MaxPush + 1 < Half /\ MaxRules + 1 < Half
  BY SessionlessAssumption DEF Half

\* Addition without and with a wrap.
LEMMA PlusValue ==
  ASSUME NEW a \in Int, NEW b \in Int
  PROVE  /\ 0 <= a + b /\ a + b < Modulus => Plus(a, b) = a + b
         /\ a + b < 0 /\ -Modulus <= a + b => Plus(a, b) = a + b + Modulus
         /\ Modulus <= a + b /\ a + b < 2 * Modulus => Plus(a, b) = a + b - Modulus
  BY Numbers DEF Plus

\* Among few numbers and the start value, IS_GREATER is the order of what
\* they stand for.
LEMMA Greater ==
  ASSUME NEW n \in Nat, n + 1 < Half, NEW a \in Marks(n), NEW b \in Marks(n)
  PROVE  IS_GREATER(a, b) <=> Val(a) > Val(b)
<1>1. a \in Int /\ b \in Int /\ 0 <= b /\ b < Modulus
  BY Numbers DEF Marks
<1>2. CASE b = Modulus - 1
  <2>1. Plus(b, Half) = Half - 1
    BY <1>2, Numbers, PlusValue
  <2>. QED BY <1>2, <2>1, Numbers DEF IS_GREATER, IN_WINDOW, Marks, Val
<1>3. CASE b # Modulus - 1
  <2>1. Plus(b, Half) = b + Half
    BY <1>3, Numbers, PlusValue DEF Marks
  <2>. QED BY <1>3, <2>1, Numbers DEF IS_GREATER, IN_WINDOW, Marks, Val
<1>. QED BY <1>2, <1>3

\* The range of the numbers after a mark.
LEMMA RangeAfter ==
  ASSUME NEW n \in Nat, n + 1 < Half, NEW a \in Marks(n), NEW to \in 0 .. n + 1, Val(a) < to, NEW x \in 0 .. n
  PROVE  InRange(Plus(a, 1), to, x) <=> Val(a) < x /\ x < to
<1>1. Plus(a, 1) = Val(a) + 1
  BY Numbers, PlusValue DEF Marks, Val
<1>2. Plus(to, -(Val(a) + 1)) = to - Val(a) - 1
  BY Numbers, PlusValue DEF Marks, Val
<1>3. Plus(Val(a) + 1, to - Val(a) - 1) = to
  BY Numbers, PlusValue DEF Marks, Val
<1>. QED BY <1>1, <1>2, <1>3, Numbers DEF InRange, IN_WINDOW, Marks, Val

\* The range that starts half of the numbers before a mark.
LEMMA RangeBefore ==
  ASSUME NEW n \in Nat, n + 1 < Half, NEW a \in Marks(n), NEW to \in 0 .. n + 1, Val(a) < to, NEW x \in 0 .. n
  PROVE  InRange(Plus(a, -Half), to, x) <=> x < to
<1>. DEFINE from == Val(a) - Half + Modulus
<1>1. Plus(a, -Half) = from
  BY Numbers, PlusValue DEF Marks, Val
<1>2. from \in Int /\ from > n + 1 /\ from < Modulus
  BY Numbers DEF Marks, Val
<1>. HIDE DEF from
<1>3. Plus(to, -from) = to - from + Modulus
  BY <1>2, Numbers, PlusValue
<1>4. Plus(from, to - from + Modulus) = to
  BY <1>2, Numbers, PlusValue
<1>. QED BY <1>1, <1>2, <1>3, <1>4, Numbers DEF InRange, IN_WINDOW

----------------------------------------------------------------------------
(* Facts about the parts *)

\* Where the numbers of the invariant lie.
LEMMA Bounds ==
  ASSUME SignalsInv
  PROVE  /\ prod.curChangeId \in 0 .. MaxPush /\ Top \in -1 .. MaxPush - 1 /\ prod.serial \in 0 .. MaxPush
         /\ prod.curChangeId - 1 <= Top /\ Top <= prod.curChangeId
         /\ cons.nextRulesId \in 0 .. MaxRules
         /\ \A k \in Keys : Stored(k) => /\ prod.localCache[k] \in [id : Nat, serial : Nat]
                                         /\ prod.localCache[k].id \in 0 .. MaxPush
                                         /\ prod.localCache[k].serial \in 1 .. MaxPush
         /\ \A i \in DOMAIN cons.rules : cons.rules[i].client \in Clients /\ cons.rules[i].id \in 0 .. MaxRules
<1>1. Producer /\ Consuming
  BY DEF SignalsInv
<1>2. prod.curChangeId \in 0 .. MaxPush /\ Top \in -1 .. MaxPush - 1 /\ prod.serial \in 0 .. MaxPush
      /\ prod.curChangeId - 1 <= Top /\ Top <= prod.curChangeId
  BY <1>1, Numbers DEF Producer, ProducerType, Top
<1>3. cons.nextRulesId \in 0 .. MaxRules
  BY <1>1, Numbers DEF Consuming, ConsumerType, Ruled
<1>4. \A k \in Keys : Stored(k) => prod.localCache[k] \in [id : Nat, serial : Nat]
  BY <1>1 DEF Producer, ProducerType, Stored
<1>5. \A k \in Keys : Stored(k) => prod.localCache[k].id \in 0 .. MaxPush /\ prod.localCache[k].serial \in 1 .. MaxPush
  BY <1>1, <1>2, <1>4, Numbers DEF Producer, ProducerType
<1>6. cons.rules \in Seq(RuleType)
  BY <1>1 DEF Consuming, ConsumerType, Ruled
<1>7. \A i \in DOMAIN cons.rules : cons.rules[i] \in RuleType
  BY <1>6
<1>8. \A i \in DOMAIN cons.rules : cons.rules[i].client \in Clients /\ cons.rules[i].id \in Nat
  BY <1>7 DEF RuleType
<1>9. \A i \in DOMAIN cons.rules : cons.rules[i].id <= MaxRules
  BY <1>1, <1>3, <1>8, Numbers DEF Consuming, ConsumerType, Ruled
<1>. QED BY <1>2, <1>3, <1>4, <1>5, <1>8, <1>9

\* The producer's numbers only grow, and so do the rules ids.
LEMMA RemoteGrows ==
  ASSUME NEW r, NEW top \in Int, NEW id \in Int, NEW n \in Int, NEW top2 \in Int, NEW id2 \in Int, NEW n2 \in Int,
         Remote(r, top, id, n), top <= top2, id <= id2, n <= n2
  PROVE  Remote(r, top2, id2, n2)
<1>1. r \in RemoteType /\ r.changeId \in Int /\ r.receivedChangeId \in Int /\ r.appliedRulesId \in Int
  BY Numbers DEF Remote, RemoteType, Marks
<1>2. Asking(r, n) => Asking(r, n2)
  BY <1>1 DEF Asking, RemoteType
<1>. QED BY <1>1, <1>2 DEF Remote

\* What a session asks for ends at its marks.
LEMMA DueBounds ==
  ASSUME NEW r, NEW top, NEW id, NEW n, Remote(r, top, id, n), r.state = "IN_PROGRESS"
  PROVE  /\ \A x \in 0 .. MaxPush : SignalDue(r, x) => x < r.toChangeId
         /\ \A y \in 0 .. MaxRules : RuleDue(r, y) => y < r.toRulesId
<1>1. Asking(r, n) /\ r.receivedChangeId \in Int
  BY Numbers DEF Remote, RemoteType, Marks
<1>. QED BY <1>1 DEF Asking, NewRules, NewSignals

\* A mark that is set is below Modulus - 1.
LEMMA MarkSet ==
  ASSUME SignalsInv, cons.remote # NoCache, cons.remote.haveReceived
  PROVE  /\ cons.remote.receivedChangeId \in 0 .. MaxPush /\ cons.remote.receivedChangeId < prod.curChangeId
         /\ cons.remote.receivedChangeId <= cons.remote.changeId
         /\ cons.remote.appliedRulesId \in 0 .. MaxRules /\ cons.remote.appliedRulesId < cons.nextRulesId
         /\ Val(cons.remote.receivedChangeId) = cons.remote.receivedChangeId
         /\ Val(cons.remote.appliedRulesId) = cons.remote.appliedRulesId
<1>1. Remote(cons.remote, Top, prod.curChangeId, cons.nextRulesId)
  BY DEF SignalsInv, Consuming, ConsumerType, Ruled
<1>. QED BY <1>1, Bounds, Numbers DEF Remote, RemoteType, Marks, Val

\* ScheduleAll sets the alarm or forgets an idle cache.
LEMMA Scheduled ==
  ASSUME NEW c
  PROVE  /\ ScheduleAll(c) \in {c, [c EXCEPT !.remote = NoCache], [c EXCEPT !.alarm = TRUE]}
         /\ c.remote = NoCache \/ c.remote.state # "IDLE" => ScheduleAll(c) = c
  BY Zenon DEF ScheduleAll, ScheduleWork

\* Calm does not come back.
LEMMA CalmBefore ==
  ASSUME SignalsInv, History', hist'.added >= hist.added, hist'.faults >= hist.faults,
         hist.dropped => hist'.dropped, Calm'
  PROVE  Calm /\ Once
  BY DEF Calm, SignalsInv, History

\* NotAgain, as long as nothing is routed.
LEMMA NotAgainStays ==
  ASSUME SignalsInv, History', hist'.added >= hist.added, hist'.faults >= hist.faults,
         hist.dropped => hist'.dropped, hist'.again = hist.again
  PROVE  NotAgain'
  BY DEF NotAgain, SignalsInv, History

----------------------------------------------------------------------------
(* The producer's steps *)

\* Storing a signal: its change id is beyond what any session asks for.
LEMMA PushSafe ==
  ASSUME SignalsInv, NEW k \in Keys, PushMessage(k)
  PROVE  SignalsInv'
<1>1. Producer /\ Consuming /\ Session /\ History /\ RangePeers
  BY DEF SignalsInv
<1>. DEFINE new == [id |-> prod.curChangeId, serial |-> prod.serial + 1]
<1>2. /\ prod' = [prod EXCEPT !.localCache[k] = new, !.advanceChangeId = TRUE, !.alarm = TRUE, !.serial = prod.serial + 1]
      /\ UNCHANGED <<cons, sess, air, hist>> /\ prod.serial < MaxPush
  BY DEF PushMessage
<1>3. /\ prod'.localCache = [prod.localCache EXCEPT ![k] = new] /\ prod'.advanceChangeId = TRUE
      /\ prod'.serial = prod.serial + 1 /\ prod'.curChangeId = prod.curChangeId /\ prod'.ads = prod.ads
      /\ prod'.alarm = TRUE
  BY <1>1, <1>2 DEF Producer, ProducerType
<1>4. /\ Top' = prod.curChangeId /\ Top <= Top'
  BY <1>3, Bounds DEF Top
<1>5. /\ prod'.localCache[k] = new /\ new # NoSignal
      /\ \A l \in Keys \ {k} : prod'.localCache[l] = prod.localCache[l]
      /\ new.id = prod.curChangeId /\ new.serial = prod.serial + 1
  BY <1>1, <1>3 DEF Producer, ProducerType, NoSignal
<1>. HIDE DEF new
<1>6. /\ Stored(k)' /\ \A l \in Keys \ {k} : Stored(l)' <=> Stored(l)
  BY <1>5 DEF Stored
<1>7. Producer'
  <2>1. new \in [id : Nat, serial : Nat]
    BY Bounds DEF new
  <2>2. prod'.localCache \in [Keys -> {NoSignal} \cup [id : Nat, serial : Nat]]
    BY <2>1, <1>1, <1>3 DEF Producer, ProducerType
  <2>3. prod'.serial \in 0 .. MaxPush /\ Top' < prod'.serial
    <3>1. prod.curChangeId <= prod.serial
      BY <1>1, Bounds DEF Producer, ProducerType
    <3>. QED BY <3>1, <1>2, <1>3, <1>4, Bounds, Numbers
  <2>4. prod' \in ProducerType
    BY <2>2, <2>3, <1>1, <1>2, <1>3 DEF Producer, ProducerType
  <2>5. \A l \in Keys : Stored(l)' => prod'.localCache[l].id <= Top' /\ prod'.localCache[l].serial \in 1 .. prod'.serial
    BY <1>1, <1>3, <1>4, <1>5, <1>6, <2>3, Bounds DEF Producer, ProducerType
  <2>6. \A l \in Keys \ {k} : Stored(l)' => prod'.localCache[l].serial # prod'.localCache[k].serial
    BY <1>1, <1>5, <1>6, Bounds DEF Producer, ProducerType
  <2>7. \A l, m \in Keys : Stored(l)' /\ Stored(m)' /\ prod'.localCache[l].serial = prod'.localCache[m].serial => l = m
    BY <1>1, <1>5, <1>6, <2>6 DEF Producer, ProducerType
  <2>8. \A n \in Names : prod'.ads[n] <= Top'
    BY <1>1, <1>3, <1>4, Bounds DEF Producer, ProducerType, None
  <2>9. air' \subseteq Names \X (0 .. Top')
    BY <1>1, <1>2, <1>4, Bounds DEF Producer, ProducerType
  <2>. QED BY <2>3, <2>4, <2>5, <2>7, <2>8, <2>9 DEF Producer, ProducerType
<1>8. Consuming'
  <2>1. cons.remote # NoCache => Remote(cons.remote, Top', prod'.curChangeId, cons.nextRulesId)
    <3>1. /\ Top \in Int /\ Top' \in Int /\ prod.curChangeId \in Int /\ cons.nextRulesId \in Int
          /\ prod'.curChangeId = prod.curChangeId /\ prod.curChangeId <= prod.curChangeId
          /\ cons.nextRulesId <= cons.nextRulesId /\ Top <= Top'
      BY <1>3, <1>4, Bounds
    <3>2. cons.remote # NoCache => Remote(cons.remote, Top, prod.curChangeId, cons.nextRulesId)
      BY <1>1 DEF Consuming
    <3>. QED BY <3>1, <3>2, RemoteGrows
  <2>. QED BY <2>1, <1>1, <1>2 DEF Consuming, ConsumerType, Ruled
<1>9. ASSUME cons.remote # NoCache, cons.remote.state = "IN_PROGRESS", cons.remote.toChangeId <= prod.curChangeId
      PROVE  ~SignalDue(cons.remote, new.id)
  <2>1. Remote(cons.remote, Top, prod.curChangeId, cons.nextRulesId)
    BY <1>9, <1>1 DEF Consuming, ConsumerType, Ruled
  <2>2. cons.remote.toChangeId \in Int
    BY <2>1 DEF Remote, RemoteType
  <2>. QED BY <2>1, <2>2, <1>5, <1>9, DueBounds, Bounds
<1>10. Session'
  <2>1. ASSUME sess \in SessionType, NEW i \in DOMAIN cons.rules, NEW l \in Keys, l < sess.key, Stored(l)',
               SignalDue(cons.remote, prod'.localCache[l].id), Concerns(i, l)
        PROVE  <<l, prod'.localCache[l].serial>> \in OnWire \/ Has(i, prod'.localCache[l].serial)
    <3>1. sess # NoSession /\ sess.key \in Nat
      BY <2>1, <1>1 DEF NoSession, SessionType
    <3>2. sess.pc # "asked"
      <4>1. Keys \subseteq Nat \ {0}
        BY SessionlessAssumption, FS_CardinalityType
      <4>. QED BY <2>1, <4>1, <1>1 DEF Session, Serving
    <3>3. l # k
      BY <2>1, <3>1, <3>2, <1>1, <1>5, <1>9 DEF Session, Serving
    <3>. QED BY <3>3, <2>1, <1>1, <1>5, <1>6 DEF Session, Passed
  <2>2. \A e \in OnWire : sess \in SessionType => e[2] \in Int
    BY DEF OnWire, SessionType
  <2>3. sess \in SessionType => \A e \in OnWire : e[2] <= prod'.serial
    BY <2>2, <1>1, <1>3, Bounds DEF Session, Serving
  <2>4. sess \in SessionType => Passed'
    <3>1. sess' = sess /\ cons' = cons /\ hist' = hist
      BY <1>2
    <3>. QED BY <2>1, <3>1 DEF Passed, OnWire, Concerns, Has, Tuple
  <2>5. sess \in SessionType => Serving'
    BY <2>3, <1>1, <1>2, <1>3 DEF Session, Serving, OnWire
  <2>. QED BY <2>4, <2>5, <1>1, <1>2 DEF Session
<1>11. History'
  BY <1>1, <1>2, <1>3, Bounds DEF History
<1>12. Done'
  <2>1. ASSUME cons.remote # NoCache, cons.remote.haveReceived
        PROVE  ~(new.id <= cons.remote.receivedChangeId)
    BY <2>1, MarkSet, Bounds, <1>5
  <2>2. Done
    BY DEF SignalsInv
  <2>. QED BY <2>1, <2>2, <1>2, <1>5, <1>6 DEF Done, Has, Tuple
<1>13. NotAgain'
  BY <1>2, <1>11, NotAgainStays DEF History
<1>14. Calm' => Once'
  <2>. SUFFICES ASSUME Calm' PROVE Once'
    OBVIOUS
  <2>1. Once
    BY <1>2 DEF SignalsInv, Calm
  <2>2. \A t \in hist.got : t[3] # new.serial
    BY <1>1, <1>5, Bounds DEF History
  <2>3. sess \in SessionType => \A e \in OnWire : e[2] # new.serial
    <3>1. \A e \in OnWire : sess \in SessionType => e[2] \in Int
      BY DEF OnWire, SessionType
    <3>. QED BY <3>1, <1>1, <1>5, Bounds DEF Session, Serving
  <2>4. Covered => Covered'
    BY <2>2, <1>2, <1>5, <1>6 DEF Covered
  <2>5. Routed => Routed'
    BY <2>2, <1>2, <1>5, <1>6 DEF Routed
  <2>6. sess \in SessionType /\ Fresh => Fresh'
    <3>. SUFFICES ASSUME sess \in SessionType, Fresh PROVE Fresh'
      OBVIOUS
    <3>1. OnWire' = OnWire /\ cons' = cons /\ hist' = hist
      BY <1>2 DEF OnWire
    <3>2. ASSUME NEW e \in OnWire, NEW l \in Keys, Stored(l)', prod'.localCache[l].serial = e[2]
          PROVE  SignalDue(cons.remote, prod'.localCache[l].id)
      <4>1. l # k
        BY <3>2, <2>3, <1>5
      <4>2. prod'.localCache[l] = prod.localCache[l] /\ Stored(l)
        BY <3>2, <4>1, <1>5, <1>6
      <4>. QED BY <3>2, <4>2 DEF Fresh
    <3>. QED BY <3>1, <3>2 DEF Fresh, Concerns, Tuple
  <2>. QED BY <2>1, <2>4, <2>5, <2>6, <1>2 DEF Once, Marked
<1>. QED BY <1>1, <1>7, <1>8, <1>10, <1>11, <1>12, <1>13, <1>14 DEF SignalsInv, RangePeers

\* Signals leave the cache; the next change id may be a new one.
Fewer ==
  /\ prod' \in ProducerType /\ cons' = cons /\ hist' = hist
  /\ Top' = Top /\ prod.curChangeId <= prod'.curChangeId
  /\ prod'.serial = prod.serial
  /\ \A k \in Keys : prod'.localCache[k] \in {NoSignal, prod.localCache[k]}

\* Nothing has to be delivered for a signal that is not stored.
LEMMA FewerSafe ==
  ASSUME SignalsInv, Fewer, \A n \in Names : prod'.ads[n] <= Top, air' \subseteq Names \X (0 .. Top)
  PROVE  /\ Producer' /\ Consuming' /\ History' /\ Done' /\ NotAgain' /\ (Calm' => Marked')
         /\ Top' = Top /\ \A k \in Keys : Stored(k)' => Stored(k) /\ prod'.localCache[k] = prod.localCache[k]
<1>1. Producer /\ Consuming /\ Session /\ History /\ Done
  BY DEF SignalsInv
<1>2. Top' = Top
  BY DEF Fewer
<1>3. \A k \in Keys : Stored(k)' => Stored(k) /\ prod'.localCache[k] = prod.localCache[k]
  BY DEF Stored, Fewer
<1>4. Producer'
  <2>1. \A l \in Keys : Stored(l)' => prod'.localCache[l].id <= Top' /\ prod'.localCache[l].serial \in 1 .. prod'.serial
    BY <1>1, <1>2, <1>3 DEF Producer, Fewer
  <2>2. \A l, m \in Keys : Stored(l)' /\ Stored(m)' /\ prod'.localCache[l].serial = prod'.localCache[m].serial => l = m
    BY <1>1, <1>3 DEF Producer
  <2>3. Top' < prod'.serial
    BY <1>1, <1>2 DEF Producer, Fewer
  <2>. QED BY <2>1, <2>2, <2>3, <1>2 DEF Producer, Fewer
<1>5. Consuming'
  <2>1. /\ Top \in Int /\ prod.curChangeId \in Int /\ prod'.curChangeId \in Int /\ cons.nextRulesId \in Int
        /\ prod.curChangeId <= prod'.curChangeId /\ cons.nextRulesId <= cons.nextRulesId /\ Top <= Top
    BY Bounds DEF Fewer, ProducerType
  <2>2. cons.remote # NoCache => Remote(cons.remote, Top, prod'.curChangeId, cons.nextRulesId)
    BY <1>1, <2>1, RemoteGrows DEF Consuming
  <2>. QED BY <1>1, <1>2, <2>2 DEF Consuming, Ruled, Fewer
<1>6. History'
  BY <1>1 DEF History, Fewer
<1>7. Done'
  BY <1>1, <1>3 DEF Done, Fewer, Has, Tuple
<1>8. NotAgain'
  BY <1>6, <1>1, NotAgainStays DEF History, Fewer
<1>9. Calm' => Marked'
  <2>. SUFFICES ASSUME Calm' PROVE Marked'
    OBVIOUS
  <2>1. Marked
    BY DEF SignalsInv, Calm, Once, Fewer
  <2>2. Covered => Covered'
    BY <1>3 DEF Covered, Fewer
  <2>3. Routed => Routed'
    BY <1>3 DEF Routed, Fewer
  <2>. QED BY <2>1, <2>2, <2>3 DEF Marked, Fewer
<1>. QED BY <1>2, <1>3, <1>4, <1>5, <1>6, <1>7, <1>8, <1>9

\* ... while the session waits.
LEMMA FewerOutside ==
  ASSUME SignalsInv, Fewer, \A n \in Names : prod'.ads[n] <= Top, air' \subseteq Names \X (0 .. Top), sess' = sess
  PROVE  SignalsInv'
<1>1. Session /\ RangePeers /\ (Calm => Once)
  BY DEF SignalsInv
<1>2. \A k \in Keys : Stored(k)' => Stored(k) /\ prod'.localCache[k] = prod.localCache[k]
  BY FewerSafe
<1>3. sess \in SessionType => Serving'
  <2>1. prod.curChangeId \in Int /\ prod'.curChangeId \in Int /\ prod.curChangeId <= prod'.curChangeId
    BY Bounds DEF Fewer, ProducerType
  <2>2. sess \in SessionType => sess.to \in Int
    BY DEF SessionType
  <2>3. sess \in SessionType /\ sess.pc # "asked" => sess.to <= prod'.curChangeId
    BY <1>1, <2>1, <2>2 DEF Session, Serving
  <2>. QED BY <1>1, <2>3 DEF Session, Serving, Fewer, OnWire
<1>4. sess \in SessionType => Passed'
  BY <1>1, <1>2 DEF Session, Passed, Fewer, OnWire, Concerns, Has, Tuple
<1>5. Session'
  BY <1>1, <1>3, <1>4 DEF Session, Fewer
<1>6. sess \in SessionType /\ Fresh => Fresh'
  BY <1>2 DEF Fresh, Fewer, OnWire, Concerns, Tuple
<1>7. Calm' => Once'
  BY <1>1, <1>6, FewerSafe DEF Once, Fewer, Calm
<1>. QED BY <1>1, <1>5, <1>7, FewerSafe DEF SignalsInv, RangePeers

\* CancelMessage.
LEMMA CancelSafe ==
  ASSUME SignalsInv, NEW k \in Keys, CancelMessage(k)
  PROVE  SignalsInv'
<1>1. Producer
  BY DEF SignalsInv
<1>2. /\ prod' = [prod EXCEPT !.localCache[k] = NoSignal, !.alarm = TRUE]
      /\ sess' = sess /\ air' = air /\ cons' = cons /\ hist' = hist
  BY DEF CancelMessage
<1>3. /\ prod'.localCache = [prod.localCache EXCEPT ![k] = NoSignal]
      /\ prod'.curChangeId = prod.curChangeId /\ prod'.advanceChangeId = prod.advanceChangeId
      /\ prod'.serial = prod.serial /\ prod'.ads = prod.ads /\ prod' \in ProducerType
  BY <1>1, <1>2 DEF Producer, ProducerType
<1>4. Fewer
  BY <1>1, <1>2, <1>3 DEF Fewer, Top, Producer, ProducerType
<1>. QED BY <1>1, <1>2, <1>3, <1>4, FewerOutside DEF Producer

\* NameOwnerChanged.
LEMMA NameOwnerSafe ==
  ASSUME SignalsInv, NEW ks, NameOwnerChanged(ks)
  PROVE  SignalsInv'
<1>. DEFINE cache == [k \in Keys |-> IF k \in ks THEN NoSignal ELSE prod.localCache[k]]
            alarm == prod.alarm \/ \A k \in Keys : cache[k] = NoSignal
<1>1. Producer
  BY DEF SignalsInv
<1>2. /\ prod' = [prod EXCEPT !.localCache = cache, !.alarm = alarm]
      /\ sess' = sess /\ air' = air /\ cons' = cons /\ hist' = hist
  BY DEF NameOwnerChanged
<1>3. /\ cache \in [Keys -> {NoSignal} \cup [id : Nat, serial : Nat]]
      /\ \A k \in Keys : cache[k] \in {NoSignal, prod.localCache[k]}
  BY <1>1 DEF Producer, ProducerType
<1>4. alarm \in BOOLEAN
  BY <1>1 DEF Producer, ProducerType
<1>. HIDE DEF cache, alarm
<1>5. /\ prod'.localCache = cache
      /\ prod'.curChangeId = prod.curChangeId /\ prod'.advanceChangeId = prod.advanceChangeId
      /\ prod'.serial = prod.serial /\ prod'.ads = prod.ads /\ prod' \in ProducerType
  BY <1>1, <1>2, <1>3, <1>4 DEF Producer, ProducerType
<1>6. Fewer
  BY <1>1, <1>2, <1>3, <1>5 DEF Fewer, Top, Producer, ProducerType
<1>. QED BY <1>1, <1>2, <1>5, <1>6, FewerOutside DEF Producer

\* Newest is the change id of a stored signal.
LEMMA NewestIsAnId ==
  ASSUME SignalsInv, NEW cache, NEW n,
         \A k \in Keys : cache[k] \in {NoSignal, prod.localCache[k]}
  PROVE  Newest(cache, n) \in 0 .. Top \cup {None}
<1>. DEFINE ids == {cache[k].id : k \in {k \in Keys : cache[k] # NoSignal /\ n \in {Iface[k], Wildcard}}}
<1>1. \A k \in Keys : cache[k] # NoSignal => Stored(k) /\ cache[k] = prod.localCache[k]
  BY DEF Stored
<1>2. \A k \in Keys : Stored(k) => prod.localCache[k].id \in 0 .. Top
  BY Bounds DEF SignalsInv, Producer
<1>3. ids \subseteq 0 .. Top
  BY <1>1, <1>2
<1>. HIDE DEF ids
<1>4. ASSUME ids # {} PROVE \E a \in ids : \A b \in ids : a >= b
  <2>. DEFINE T == {Top - a : a \in ids}
  <2>1. T \subseteq Nat /\ T # {}
    <3>1. Top \in Int
      BY Bounds
    <3>2. \A a \in ids : Top - a \in Nat
      BY <3>1, <1>3
    <3>3. PICK a \in ids : TRUE
      BY <1>4
    <3>4. Top - a \in T
      OBVIOUS
    <3>. QED BY <3>2, <3>4
  <2>2. PICK x \in T : \A y \in T : ~ (<<y, x>> \in OpToRel(<, Nat))
    <3>. HIDE DEF T
    <3>. QED BY <2>1, WFMin, NatLessThanWellFounded
  <2>3. \A y \in T : ~(y < x)
    BY <2>1, <2>2 DEF OpToRel
  <2>4. PICK a \in ids : x = Top - a
    BY <2>2
  <2>5. \A b \in ids : ~(Top - b < Top - a)
    BY <2>3, <2>4
  <2>6. \A b \in ids : a >= b
    BY <2>5, <1>3, Bounds
  <2>. QED BY <2>6
<1>5. Newest(cache, n) = IF ids = {} THEN None ELSE CHOOSE a \in ids : \A b \in ids : a >= b
  BY DEF Newest, ids
<1>. QED BY <1>3, <1>4, <1>5

\* Advertise: names that carry change ids which signals have had.
LEMMA AdvertiseSafe ==
  ASSUME SignalsInv, Advertise
  PROVE  SignalsInv'
<1>1. Producer
  BY DEF SignalsInv
<1>2. PICK old \in SUBSET {k \in Expiring : Stored(k)} :
        LET cache == [k \in Keys |-> IF k \in old THEN NoSignal ELSE prod.localCache[k]]
            ads == UpdateAdvertisements(cache, prod.ads)
        IN  /\ prod' = [prod EXCEPT !.localCache = cache, !.ads = ads, !.alarm = FALSE]
            /\ air' = air \cup {<<n, ads[n]>> : n \in {n \in Heard : ads[n] \notin {None, prod.ads[n]}}}
  BY DEF Advertise
<1>. DEFINE cache == [k \in Keys |-> IF k \in old THEN NoSignal ELSE prod.localCache[k]]
            ads == UpdateAdvertisements(cache, prod.ads)
<1>3. /\ prod' = [prod EXCEPT !.localCache = cache, !.ads = ads, !.alarm = FALSE]
      /\ air' = air \cup {<<n, ads[n]>> : n \in {n \in Heard : ads[n] \notin {None, prod.ads[n]}}}
  BY <1>2
<1>4. sess' = sess /\ cons' = cons /\ hist' = hist
  BY DEF Advertise
<1>5. \A k \in Keys : cache[k] \in {NoSignal, prod.localCache[k]}
  OBVIOUS
<1>6. cache \in [Keys -> {NoSignal} \cup [id : Nat, serial : Nat]]
  BY <1>1 DEF Producer, ProducerType
<1>. HIDE DEF cache
<1>7. \A n \in Names : ads[n] \in 0 .. Top \cup {None}
  <2>1. \A n \in Names : prod.ads[n] \in 0 .. Top \cup {None}
    BY <1>1, Bounds DEF Producer, ProducerType
  <2>2. \A n \in Names : Newest(cache, n) \in 0 .. Top \cup {None}
    BY <1>5, NewestIsAnId
  <2>3. \A n \in Names : ads[n] \in {prod.ads[n], Newest(cache, n)}
    BY DEF UpdateAdvertisements
  <2>. QED BY <2>1, <2>2, <2>3
<1>8. ads \in [Names -> Nat \cup {None}]
  <2>1. ads = [n \in Names |-> ads[n]]
    BY Zenon DEF UpdateAdvertisements
  <2>2. \A n \in Names : ads[n] \in Nat \cup {None}
    BY <1>7
  <2>. HIDE DEF ads
  <2>. QED BY <2>1, <2>2
<1>. HIDE DEF ads
<1>9. /\ prod'.localCache = cache /\ prod'.ads = ads
      /\ prod'.curChangeId = prod.curChangeId /\ prod'.advanceChangeId = prod.advanceChangeId
      /\ prod'.serial = prod.serial /\ prod' \in ProducerType
  BY <1>1, <1>3, <1>6, <1>8 DEF Producer, ProducerType
<1>10. Fewer
  BY <1>4, <1>5, <1>9, Bounds DEF Fewer, Top
<1>11. \A n \in Names : prod'.ads[n] <= Top
  BY <1>7, <1>9, Bounds DEF None
<1>12. air' \subseteq Names \X (0 .. Top)
  <2>1. Heard \subseteq Names
    BY SessionlessAssumption DEF Names, Wildcard
  <2>2. \A n \in Heard : ads[n] # None => <<n, ads[n]>> \in Names \X (0 .. Top)
    BY <2>1, <1>7
  <2>. QED BY <2>2, <1>1, <1>3 DEF Producer
<1>. QED BY <1>4, <1>10, <1>11, <1>12, FewerOutside

\* Leave: the producer has passed every key.
LEMMA LeaveSafe ==
  ASSUME SignalsInv, Leave
  PROVE  SignalsInv'
<1>1. Producer /\ Session /\ RangePeers /\ (Calm => Once)
  BY DEF SignalsInv
<1>2. /\ prod' = [prod EXCEPT !.alarm = prod.alarm \/ sess.erased]
      /\ sess.pc = "serving" /\ sess.key \notin Keys /\ sess' = [sess EXCEPT !.pc = "left"]
      /\ air' = air /\ cons' = cons /\ hist' = hist
  BY DEF Leave
<1>3. sess \in SessionType /\ sess # NoSession
  BY <1>1, <1>2 DEF Session, NoSession
<1>4. /\ prod'.localCache = prod.localCache /\ prod'.curChangeId = prod.curChangeId
      /\ prod'.advanceChangeId = prod.advanceChangeId
      /\ prod'.serial = prod.serial /\ prod'.ads = prod.ads /\ prod' \in ProducerType
  <2>1. (prod.alarm \/ sess.erased) \in BOOLEAN
    BY <1>1, <1>3 DEF Producer, ProducerType, SessionType
  <2>. QED BY <2>1, <1>1, <1>2 DEF Producer, ProducerType
<1>5. Fewer
  BY <1>2, <1>4, Bounds DEF Fewer, Top
<1>6. /\ sess' \in SessionType /\ sess'.key = sess.key /\ sess'.wire = sess.wire /\ sess'.from = sess.from
      /\ sess'.to = sess.to /\ sess'.match = sess.match /\ sess'.pc = "left" /\ sess' # NoSession
  BY <1>2, <1>3 DEF SessionType, NoSession
<1>7. OnWire' = OnWire
  BY <1>6 DEF OnWire
<1>8. Serving'
  BY <1>1, <1>2, <1>3, <1>4, <1>6, <1>7 DEF Session, Serving
<1>9. Passed'
  BY <1>1, <1>2, <1>3, <1>4, <1>6, <1>7 DEF Session, Passed, Stored, Concerns, Has, Tuple
<1>10. Session'
  BY <1>1, <1>2, <1>3, <1>6, <1>8, <1>9 DEF Session
<1>11. Calm' => Fresh'
  BY <1>1, <1>2, <1>3, <1>4, <1>7 DEF Once, Fresh, Calm, Stored, Concerns, Tuple
<1>12. /\ Producer' /\ Consuming' /\ History' /\ Done' /\ NotAgain' /\ (Calm' => Marked')
  BY <1>1, <1>2, <1>4, <1>5, FewerSafe DEF Producer
<1>. QED BY <1>1, <1>10, <1>11, <1>12 DEF SignalsInv, RangePeers, Once

\* The next change id is one that no signal has.
LEMMA Advanced ==
  ASSUME SignalsInv
  PROVE  LET p == AdvanceChangeId(prod)
         IN  /\ p \in ProducerType /\ p.localCache = prod.localCache /\ p.serial = prod.serial
             /\ p.ads = prod.ads /\ p.alarm = prod.alarm /\ p.curChangeId = Top + 1 /\ p.advanceChangeId = FALSE
<1>1. prod \in ProducerType
  BY DEF SignalsInv, Producer
<1>2. CASE prod.advanceChangeId
  <2>1. Plus(prod.curChangeId, 1) = prod.curChangeId + 1
    BY Bounds, Numbers, PlusValue
  <2>2. AdvanceChangeId(prod) = [prod EXCEPT !.curChangeId = prod.curChangeId + 1, !.advanceChangeId = FALSE]
    BY <1>2, <2>1 DEF AdvanceChangeId
  <2>3. Top = prod.curChangeId /\ prod.curChangeId + 1 \in Nat
    BY <1>2, Bounds DEF Top
  <2>. QED BY <2>2, <2>3, <1>1 DEF ProducerType
<1>3. CASE ~prod.advanceChangeId
  <2>1. AdvanceChangeId(prod) = prod
    BY <1>3 DEF AdvanceChangeId
  <2>. QED BY <1>1, <1>3, <2>1, Bounds DEF ProducerType, Top
<1>. QED BY <1>2, <1>3

\* HandleRangeRequest for a session that the consumer has lost.
LEMMA LateRequestSafe ==
  ASSUME SignalsInv, NEW range, LateRequest(range)
  PROVE  SignalsInv'
<1>. DEFINE p == AdvanceChangeId(prod)
            due == {k \in Expiring : Stored(k) /\ InRange(range[1], range[2], prod.localCache[k].id)}
<1>1. Producer
  BY DEF SignalsInv
<1>2. PICK old \in SUBSET due :
        prod' = [p EXCEPT !.localCache = [k \in Keys |-> IF k \in old THEN NoSignal ELSE prod.localCache[k]],
                          !.alarm = p.alarm \/ old # {}]
  BY DEF LateRequest
<1>3. sess' = sess /\ air' = air /\ cons' = cons /\ hist' = hist
  BY DEF LateRequest
<1>. DEFINE cache == [k \in Keys |-> IF k \in old THEN NoSignal ELSE prod.localCache[k]]
            alarm == p.alarm \/ old # {}
<1>4. /\ p \in ProducerType /\ p.serial = prod.serial /\ p.ads = prod.ads
      /\ p.curChangeId = Top + 1 /\ p.advanceChangeId = FALSE
  BY Advanced
<1>. HIDE DEF p
<1>5. /\ cache \in [Keys -> {NoSignal} \cup [id : Nat, serial : Nat]]
      /\ \A k \in Keys : cache[k] \in {NoSignal, prod.localCache[k]}
  BY <1>1 DEF Producer, ProducerType
<1>6. alarm \in BOOLEAN
  BY <1>4 DEF ProducerType
<1>7. prod' = [p EXCEPT !.localCache = cache, !.alarm = alarm]
  BY <1>2
<1>. HIDE DEF cache, alarm
<1>8. /\ prod'.localCache = cache /\ prod'.curChangeId = Top + 1 /\ prod'.advanceChangeId = FALSE
      /\ prod'.serial = prod.serial /\ prod'.ads = prod.ads /\ prod' \in ProducerType
  BY <1>4, <1>5, <1>6, <1>7 DEF ProducerType
<1>9. Top' = Top /\ prod.curChangeId <= prod'.curChangeId
  BY <1>8, Bounds DEF Top
<1>10. Fewer
  BY <1>3, <1>5, <1>8, <1>9 DEF Fewer
<1>. QED BY <1>1, <1>3, <1>8, <1>10, FewerOutside DEF Producer

\* HandleRangeRequest: from here on new signals are beyond the range.
LEMMA RequestSafe ==
  ASSUME SignalsInv, Request
  PROVE  SignalsInv'
<1>1. Producer /\ Consuming /\ Session /\ History /\ Done /\ RangePeers /\ (Calm => Once)
  BY DEF SignalsInv
<1>2. sess.pc = "asked" /\ air' = air /\ cons' = cons /\ hist' = hist
  BY DEF Request
<1>3. sess \in SessionType /\ sess # NoSession
  BY <1>1, <1>2 DEF Session, NoSession
<1>4. sess' = [sess EXCEPT !.pc = "serving"]
  <2>1. sess.peer # "signals"
    BY <1>1, <1>3 DEF RangePeers, SessionType
  <2>2. sess' = [sess EXCEPT !.pc = "serving", !.to = sess.to]
    BY <2>1 DEF Request
  <2>. QED BY <2>2, <1>3 DEF SessionType
<1>5. /\ sess' \in SessionType /\ sess'.key = sess.key /\ sess'.wire = sess.wire /\ sess'.from = sess.from
      /\ sess'.to = sess.to /\ sess'.match = sess.match /\ sess'.pc = "serving" /\ sess' # NoSession
  BY <1>3, <1>4 DEF SessionType, NoSession
<1>6. /\ prod' \in ProducerType /\ prod'.localCache = prod.localCache /\ prod'.serial = prod.serial
      /\ prod'.ads = prod.ads /\ prod'.curChangeId = Top + 1 /\ prod'.advanceChangeId = FALSE
  BY Advanced DEF Request
<1>7. Top' = Top
  BY <1>6, Bounds DEF Top
<1>8. \A k \in Keys : Stored(k)' <=> Stored(k)
  BY <1>6 DEF Stored
<1>9. Producer'
  BY <1>1, <1>2, <1>6, <1>7, <1>8 DEF Producer
<1>10. Consuming'
  <2>1. cons.remote # NoCache => Remote(cons.remote, Top', prod'.curChangeId, cons.nextRulesId)
    <3>1. /\ Top \in Int /\ Top' = Top /\ prod.curChangeId \in Int /\ cons.nextRulesId \in Int
          /\ prod'.curChangeId \in Int /\ prod.curChangeId <= prod'.curChangeId
          /\ cons.nextRulesId <= cons.nextRulesId /\ Top <= Top
      BY <1>6, <1>7, Bounds
    <3>2. cons.remote # NoCache => Remote(cons.remote, Top, prod.curChangeId, cons.nextRulesId)
      BY <1>1 DEF Consuming
    <3>. QED BY <3>1, <3>2, RemoteGrows
  <2>. QED BY <2>1, <1>1, <1>2 DEF Consuming, ConsumerType, Ruled
<1>11. sess.to <= Top + 1
  <2>1. Remote(cons.remote, Top, prod.curChangeId, cons.nextRulesId) /\ Asking(cons.remote, cons.nextRulesId)
    BY <1>1, <1>3 DEF Consuming, ConsumerType, Ruled, Session, Remote
  <2>. QED BY <2>1, <1>1, <1>3, Bounds DEF Session, Serving, Asking, Remote, RemoteType
<1>12. OnWire' = OnWire
  BY <1>5 DEF OnWire
<1>13. Serving'
  BY <1>1, <1>2, <1>3, <1>5, <1>6, <1>11, <1>12 DEF Session, Serving
<1>14. Passed'
  BY <1>1, <1>2, <1>3, <1>5, <1>6, <1>8, <1>12 DEF Session, Passed, Concerns, Has, Tuple
<1>15. Session'
  BY <1>1, <1>2, <1>3, <1>5, <1>13, <1>14 DEF Session
<1>16. History'
  BY <1>1, <1>2, <1>6 DEF History
<1>17. Done'
  BY <1>1, <1>2, <1>6, <1>8 DEF Done, Has, Tuple
<1>18. NotAgain'
  BY <1>1, <1>2, <1>16, NotAgainStays DEF History
<1>19. Calm' => Once'
  BY <1>1, <1>2, <1>3, <1>6, <1>8, <1>12
  DEF Once, Marked, Covered, Routed, Fresh, Calm, Concerns, Tuple
<1>. QED BY <1>1, <1>9, <1>10, <1>15, <1>16, <1>17, <1>18, <1>19 DEF SignalsInv, RangePeers

\* Serve: a stored signal that is due goes out, and nobody has it yet.
LEMMA ServeSafe ==
  ASSUME SignalsInv, Serve
  PROVE  SignalsInv'
<1>1. Producer /\ Consuming /\ Session /\ History /\ Done /\ RangePeers /\ (Calm => Once)
  BY DEF SignalsInv
<1>0. PICK k \in Keys : k = sess.key
  BY DEF Serve
<1>. DEFINE due == Stored(k) /\ InRange(sess.from, sess.to, prod.localCache[k].id)
            send == due /\ (sess.match = {} \/ Iface[k] \in sess.match)
<1>2. sess.pc = "serving" /\ k = sess.key /\ k \in Keys /\ air' = air /\ cons' = cons /\ hist' = hist
  BY <1>0 DEF Serve
<1>3. sess \in SessionType /\ sess # NoSession /\ k \in Nat
  BY <1>1, <1>2 DEF Session, NoSession, SessionType
<1>4. Serving /\ Passed /\ cons.remote # NoCache /\ cons.remote.state = "IN_PROGRESS"
  BY <1>1, <1>3 DEF Session
<1>5. Keys \subseteq Nat \ {0}
  BY SessionlessAssumption, FS_CardinalityType
<1>6. CASE /\ prod' = [prod EXCEPT !.localCache[k] = NoSignal]
           /\ sess' = [sess EXCEPT !.key = k + 1, !.erased = TRUE]
  <2>1. /\ prod'.localCache = [prod.localCache EXCEPT ![k] = NoSignal]
        /\ prod'.curChangeId = prod.curChangeId /\ prod'.advanceChangeId = prod.advanceChangeId
        /\ prod'.serial = prod.serial /\ prod'.ads = prod.ads /\ prod' \in ProducerType
    BY <1>1, <1>6 DEF Producer, ProducerType
  <2>2. Fewer
    BY <1>1, <1>2, <2>1 DEF Fewer, Top, Producer, ProducerType
  <2>3. /\ sess' \in SessionType /\ sess'.key = k + 1 /\ sess'.wire = sess.wire /\ sess'.from = sess.from
        /\ sess'.to = sess.to /\ sess'.match = sess.match /\ sess'.pc = "serving" /\ sess' # NoSession
    <3>1. sess' = [sess EXCEPT !.key = k + 1, !.erased = TRUE]
      BY <1>6
    <3>2. k + 1 \in Nat /\ sess \in SessionType
      BY <1>3
    <3>3. sess' \in SessionType
      BY <3>1, <3>2 DEF SessionType
    <3>4. /\ sess'.key = k + 1 /\ sess'.wire = sess.wire /\ sess'.from = sess.from
          /\ sess'.to = sess.to /\ sess'.match = sess.match /\ sess'.pc = sess.pc
      BY <3>1, <3>2 DEF SessionType
    <3>. QED BY <1>2, <3>3, <3>4 DEF NoSession
  <2>4. OnWire' = OnWire
    BY <2>3 DEF OnWire
  <2>5. ~Stored(k)' /\ \A l \in Keys : Stored(l)' => Stored(l) /\ prod'.localCache[l] = prod.localCache[l]
    BY <1>1, <1>2, <2>1 DEF Stored, Producer, ProducerType
  <2>6. Serving'
    BY <1>2, <1>3, <1>4, <2>1, <2>3, <2>4 DEF Serving
  <2>7. \A l \in Keys : Stored(l)' /\ l < sess'.key => l < k
    BY <1>3, <1>5, <2>3, <2>5
  <2>8. Passed'
    BY <1>2, <1>4, <2>4, <2>5, <2>7 DEF Passed, Concerns, Has, Tuple
  <2>9. Session'
    BY <1>2, <1>4, <2>3, <2>6, <2>8 DEF Session
  <2>10. Calm' => Fresh'
    BY <1>1, <1>2, <1>3, <2>4, <2>5 DEF Once, Fresh, Calm, Concerns, Tuple
  <2>11. /\ Producer' /\ Consuming' /\ History' /\ Done' /\ NotAgain' /\ (Calm' => Marked')
    BY <1>1, <1>2, <2>1, <2>2, FewerSafe DEF Producer
  <2>. QED BY <1>1, <2>9, <2>10, <2>11 DEF SignalsInv, RangePeers, Once
<1>7. CASE /\ prod' = prod
           /\ sess' = [sess EXCEPT !.key = k + 1,
                 !.wire = IF send THEN Append(sess.wire, <<k, prod.localCache[k].serial>>) ELSE sess.wire]
  <2>. DEFINE e0 == <<k, prod.localCache[k].serial>>
              wire == IF send THEN Append(sess.wire, e0) ELSE sess.wire
  <2>1. send => e0 \in Keys \X (1 .. MaxPush)
    BY <1>2, Bounds
  <2>2. wire \in Seq(Keys \X (1 .. MaxPush))
    BY <1>3, <2>1 DEF SessionType
  <2>3. {wire[p] : p \in DOMAIN wire} = IF send THEN OnWire \cup {e0} ELSE OnWire
    <3>1. CASE send
      <4>1. sess.wire \in Seq(Keys \X (1 .. MaxPush)) /\ wire = Append(sess.wire, e0)
        BY <1>3, <3>1 DEF SessionType
      <4>. HIDE DEF e0, wire
      <4>2. /\ DOMAIN wire = DOMAIN sess.wire \cup {Len(sess.wire) + 1} /\ wire[Len(sess.wire) + 1] = e0
            /\ \A p \in DOMAIN sess.wire : wire[p] = sess.wire[p]
        BY <4>1
      <4>. QED BY <4>2, <3>1 DEF OnWire
    <3>. QED BY <3>1 DEF OnWire
  <2>. HIDE DEF wire
  <2>4. /\ sess' \in SessionType /\ sess'.key = k + 1 /\ sess'.wire = wire /\ sess'.from = sess.from
        /\ sess'.to = sess.to /\ sess'.match = sess.match /\ sess'.pc = "serving" /\ sess' # NoSession
    <3>1. sess' = [sess EXCEPT !.key = k + 1, !.wire = wire]
      BY <1>7 DEF wire
    <3>2. k + 1 \in Nat /\ sess \in SessionType
      BY <1>3
    <3>. HIDE DEF send
    <3>3. sess' \in SessionType
      BY <2>2, <3>1, <3>2 DEF SessionType
    <3>4. /\ sess'.key = k + 1 /\ sess'.wire = wire /\ sess'.from = sess.from
          /\ sess'.to = sess.to /\ sess'.match = sess.match /\ sess'.pc = sess.pc
      BY <3>1, <3>2 DEF SessionType
    <3>. QED BY <1>2, <3>3, <3>4 DEF NoSession
  <2>5. OnWire' = IF send THEN OnWire \cup {e0} ELSE OnWire
    BY <2>3, <2>4 DEF OnWire
  <2>6. /\ cons'.rules = cons.rules /\ cons'.remote = cons.remote /\ hist' = hist /\ Top' = Top
        /\ \A l \in Keys : Stored(l)' <=> Stored(l)
    BY <1>2, <1>7 DEF Stored, Top
  <2>7. due <=> Stored(k) /\ SignalDue(cons.remote, prod.localCache[k].id)
    BY <1>4 DEF Serving, SignalDue
  <2>8. Serving'
    <3>1. send => e0[2] <= prod.serial
      BY <1>1, <1>2 DEF Producer
    <3>. HIDE DEF send
    <3>2. \A e \in OnWire' : e[2] <= prod.serial
      BY <3>1, <2>5, <1>4 DEF Serving
    <3>3. prod' = prod
      BY <1>7
    <3>. QED BY <1>2, <1>3, <1>4, <3>2, <3>3, <2>4, <2>6 DEF Serving
  <2>9. Passed'
    <3>1. ASSUME NEW i \in DOMAIN cons.rules, NEW l \in Keys, l < k + 1, Stored(l),
                 SignalDue(cons.remote, prod.localCache[l].id), Concerns(i, l)
          PROVE  <<l, prod.localCache[l].serial>> \in OnWire' \/ Has(i, prod.localCache[l].serial)
      <4>1. CASE l = k
        <5>1. due
          BY <2>7, <3>1, <4>1
        <5>2. sess.match = {} \/ Iface[k] \in sess.match
          BY <1>4, <3>1, <4>1 DEF Serving, Concerns
        <5>. QED BY <5>1, <5>2, <2>5, <4>1
      <4>2. CASE l # k
        <5>1. l < k
          BY <1>3, <1>5, <3>1, <4>2
        <5>. HIDE DEF send
        <5>. QED BY <5>1, <1>2, <1>4, <2>5, <3>1 DEF Passed
      <4>. QED BY <4>1, <4>2
    <3>2. prod' = prod
      BY <1>7
    <3>. QED BY <3>1, <3>2, <2>4, <2>6 DEF Passed, Concerns, Has, Tuple
  <2>10. Session'
    BY <1>2, <1>4, <2>4, <2>8, <2>9 DEF Session
  <2>11. Calm' => Fresh'
    <3>. SUFFICES ASSUME Calm' PROVE Fresh'
      OBVIOUS
    <3>1. Covered /\ Fresh
      BY <1>1, <1>2, <1>3, <1>4 DEF Calm, Once, Marked
    <3>2. ASSUME send, NEW i \in DOMAIN cons.rules, Concerns(i, k), Tuple(i, prod.localCache[k].serial) \in hist.got
          PROVE  prod.localCache[k].serial \in cons.remote.routed
      <4>1. \/ prod.localCache[k].serial \in cons.remote.routed
            \/ /\ prod.localCache[k].id <= Val(cons.remote.receivedChangeId)
               /\ cons.rules[i].id <= Val(cons.remote.appliedRulesId)
        BY <3>1, <3>2, <1>2 DEF Covered, Tuple
      <4>2. Asking(cons.remote, cons.nextRulesId) /\ cons.remote \in RemoteType
        BY <1>1, <1>4 DEF Consuming, ConsumerType, Ruled, Remote
      <4>3. SignalDue(cons.remote, prod.localCache[k].id) /\ RuleDue(cons.remote, cons.rules[i].id)
        BY <2>7, <3>2 DEF Concerns
      <4>4. prod.localCache[k].id \in 0 .. MaxPush /\ cons.rules[i].id \in 0 .. MaxRules
        BY <1>2, <3>2, Bounds
      <4>5. /\ Val(cons.remote.receivedChangeId) \in Int /\ Val(cons.remote.appliedRulesId) \in Int
        BY <4>2, Numbers DEF RemoteType, Marks, Val
      <4>. QED BY <4>1, <4>2, <4>3, <4>4, <4>5 DEF Asking, NewRules, NewSignals
    <3>3. ASSUME send, NEW l \in Keys, Stored(l), prod.localCache[l].serial = prod.localCache[k].serial
          PROVE  SignalDue(cons.remote, prod.localCache[l].id)
      BY <1>1, <1>2, <2>7, <3>3 DEF Producer
    <3>4. prod' = prod
      BY <1>7
    <3>5. ASSUME NEW e \in OnWire', NEW i \in DOMAIN cons.rules, Concerns(i, e[1]), Tuple(i, e[2]) \in hist.got
          PROVE  e[2] \in cons.remote.routed
      <4>1. CASE e \in OnWire
        BY <3>1, <3>5, <4>1 DEF Fresh
      <4>2. CASE send /\ e = e0
        BY <3>2, <3>5, <4>2
      <4>. QED BY <4>1, <4>2, <2>5, <3>5
    <3>6. ASSUME NEW e \in OnWire', NEW l \in Keys, Stored(l), prod.localCache[l].serial = e[2]
          PROVE  SignalDue(cons.remote, prod.localCache[l].id)
      <4>1. CASE e \in OnWire
        BY <3>1, <3>6, <4>1 DEF Fresh
      <4>2. CASE send /\ e = e0
        BY <3>3, <3>6, <4>2
      <4>. QED BY <4>1, <4>2, <2>5, <3>6
    <3>. HIDE DEF send
    <3>. QED BY <3>4, <3>5, <3>6, <2>6 DEF Fresh, Concerns, Tuple
  <2>12. Producer' /\ Consuming' /\ History' /\ Done' /\ NotAgain' /\ (Calm' => Marked')
    <3>1. prod' = prod /\ cons' = cons /\ hist' = hist /\ air' = air
      BY <1>2, <1>7
    <3>2. NotAgain /\ (Calm => Marked)
      BY DEF SignalsInv, Once
    <3>. QED BY <3>1, <3>2, <1>1, <2>6 DEF Producer, Consuming, ConsumerType, Ruled, History, Done, NotAgain, Marked, Calm, Covered, Routed,
           Has, Tuple
  <2>. QED BY <1>1, <2>10, <2>11, <2>12 DEF SignalsInv, RangePeers, Once
<1>8. \/ /\ prod' = [prod EXCEPT !.localCache[k] = NoSignal]
         /\ sess' = [sess EXCEPT !.key = k + 1, !.erased = TRUE]
      \/ /\ prod' = prod
         /\ sess' = [sess EXCEPT !.key = k + 1,
                 !.wire = IF send THEN Append(sess.wire, <<k, prod.localCache[k].serial>>) ELSE sess.wire]
  BY <1>0, Zenon DEF Serve
<1>. QED BY <1>6, <1>7, <1>8

----------------------------------------------------------------------------
(* The consumer's steps *)

\* What every step of the consumer does.
ConsumerMoves ==
  /\ prod' = prod /\ air' \subseteq Names \X (0 .. Top)
  /\ cons' \in ConsumerType /\ Ruled' /\ History'
  /\ hist'.added >= hist.added /\ hist'.faults >= hist.faults /\ (hist.dropped => hist'.dropped)
  /\ hist'.got = hist.got /\ hist'.skipped = hist.skipped /\ hist'.again = hist.again

\* The producer's part.
LEMMA ProducerStays ==
  ASSUME SignalsInv, prod' = prod, air' \subseteq Names \X (0 .. Top)
  PROVE  Producer' /\ Top' = Top /\ RangePeers' /\ \A k \in Keys : Stored(k)' <=> Stored(k)
<1>1. Top' = Top /\ \A k \in Keys : Stored(k)' <=> Stored(k)
  BY DEF Top, Stored
<1>. QED BY <1>1 DEF SignalsInv, Producer, RangePeers

\* A cache that is forgotten makes no promises.
LEMMA ForgetSafe ==
  ASSUME SignalsInv, ConsumerMoves, cons'.remote = NoCache, sess' = NoSession, hist'.dropped
  PROVE  SignalsInv'
<1>1. Consuming' /\ Done'
  BY DEF Consuming, Done, ConsumerMoves
<1>2. NoSession \notin SessionType
  BY DEF NoSession, SessionType
<1>3. Session'
  BY <1>2 DEF Session
<1>4. NotAgain' /\ ~Calm'
  BY DEF NotAgain, Calm
<1>. QED BY <1>1, <1>3, <1>4, ProducerStays DEF SignalsInv, ConsumerMoves

\* Rules that are new have ids that were not given out.
RulesAdded ==
  \A i \in DOMAIN cons'.rules :
    \/ \E j \in DOMAIN cons.rules : cons.rules[j] = cons'.rules[i]
    \/ cons'.rules[i].id >= cons.nextRulesId

\* What a session and the marks depend on.
SameWork(r, s) ==
  /\ s.state = r.state /\ s.haveReceived = r.haveReceived /\ s.receivedChangeId = r.receivedChangeId
  /\ s.appliedRulesId = r.appliedRulesId /\ s.routed = r.routed /\ s.changeId >= r.changeId
  /\ s.fromChangeId = r.fromChangeId /\ s.toChangeId = r.toChangeId
  /\ s.fromRulesId = r.fromRulesId /\ s.toRulesId = r.toRulesId

\* Rules come and go and names are found while a session is under way.
LEMMA CarryOn ==
  ASSUME SignalsInv, ConsumerMoves, sess' = sess, cons'.nextRulesId >= cons.nextRulesId, RulesAdded,
         cons.remote # NoCache, cons'.remote # NoCache, SameWork(cons.remote, cons'.remote),
         cons'.remote.changeId <= Top
  PROVE  SignalsInv'
<1>1. Producer /\ Consuming /\ Session /\ History /\ Done /\ (Calm => Once)
  BY DEF SignalsInv
<1>. DEFINE r == cons.remote
<1>2. /\ prod' = prod /\ Producer' /\ Top' = Top /\ RangePeers'
      /\ \A k \in Keys : Stored(k)' <=> Stored(k)
  BY ProducerStays DEF ConsumerMoves
<1>3. Remote(r, Top, prod.curChangeId, cons.nextRulesId)
  BY <1>1 DEF Consuming
<1>4. cons'.nextRulesId \in Nat /\ cons.nextRulesId \in Nat /\ cons'.remote \in RemoteType /\ r \in RemoteType
  BY <1>1, <1>3 DEF ConsumerMoves, ConsumerType, Consuming, Remote
<1>5. /\ \A x : SignalDue(cons'.remote, x) <=> SignalDue(r, x)
      /\ \A y : RuleDue(cons'.remote, y) <=> RuleDue(r, y)
  BY DEF SameWork, SignalDue, RuleDue
<1>6. Consuming'
  <2>1. Remote(r, Top, prod.curChangeId, cons'.nextRulesId)
    <3>1. /\ Top \in Int /\ prod.curChangeId \in Int /\ cons.nextRulesId \in Int /\ cons'.nextRulesId \in Int
          /\ Top <= Top /\ prod.curChangeId <= prod.curChangeId /\ cons.nextRulesId <= cons'.nextRulesId
      BY <1>4, Bounds
    <3>. QED BY <3>1, <1>3, RemoteGrows, Zenon
  <2>2. r.state = "IN_PROGRESS" => Asking(cons'.remote, cons'.nextRulesId)
    <3>1. r.changeId \in Nat /\ cons'.remote.changeId \in Nat /\ r.toChangeId \in Int
      BY <1>4 DEF RemoteType
    <3>2. r.state = "IN_PROGRESS" => Asking(r, cons'.nextRulesId)
      BY <2>1 DEF Remote
    <3>3. NewRules(r) => NewRules(cons'.remote)
      BY <1>5 DEF SameWork, NewRules
    <3>4. NewSignals(r) => NewSignals(cons'.remote)
      BY <1>5 DEF SameWork, NewSignals
    <3>. QED BY <3>1, <3>2, <3>3, <3>4 DEF Asking, SameWork
  <2>3. Remote(cons'.remote, Top, prod.curChangeId, cons'.nextRulesId)
    <3>1. /\ r.changeId \in Int /\ cons'.remote.changeId \in Int /\ r.receivedChangeId \in Int
          /\ r.appliedRulesId \in Int
      BY <1>4, Numbers DEF RemoteType, Marks
    <3>. QED BY <2>1, <2>2, <3>1, <1>4 DEF Remote, SameWork
  <2>. QED BY <2>3, <1>2 DEF Consuming, ConsumerMoves
\* A rule that concerns the session was there before.
<1>7. ASSUME r.state = "IN_PROGRESS", NEW i \in DOMAIN cons'.rules, RuleDue(r, cons'.rules[i].id)
      PROVE  \E j \in DOMAIN cons.rules : cons.rules[j] = cons'.rules[i]
  <2>1. cons'.rules[i].id \in 0 .. MaxRules
    <3>1. cons'.rules \in Seq(RuleType) /\ cons'.nextRulesId <= MaxRules /\ cons'.rules[i].id <= cons'.nextRulesId
      BY <1>4, Numbers DEF ConsumerMoves, ConsumerType, Ruled, History
    <3>2. cons'.rules[i] \in RuleType
      BY <3>1
    <3>. QED BY <3>1, <3>2, <1>4, Numbers DEF RuleType
  <2>2. cons'.rules[i].id < r.toRulesId /\ r.toRulesId \in Int /\ r.toRulesId <= cons.nextRulesId
    <3>1. cons'.rules[i].id < r.toRulesId
      BY <2>1, <1>3, <1>7, DueBounds
    <3>2. Asking(r, cons.nextRulesId)
      BY <1>3, <1>7 DEF Remote
    <3>. QED BY <3>1, <3>2, <1>4 DEF Asking
  <2>. QED BY <2>1, <2>2, <1>4 DEF RulesAdded
<1>8. OnWire' = OnWire
  BY DEF OnWire
<1>9. Session'
  <2>1. ASSUME sess \in SessionType PROVE Serving' /\ Passed'
    <3>1. Serving /\ Passed /\ r.state = "IN_PROGRESS"
      BY <2>1, <1>1 DEF Session, SessionType, NoSession
    <3>2. Serving'
      <4>1. sess.match # {} => \A i \in DOMAIN cons'.rules :
              RuleDue(r, cons'.rules[i].id) => Wants[cons'.rules[i].client] \in sess.match
        BY <3>1, <1>7 DEF Serving
      <4>. QED BY <3>1, <4>1, <1>2, <1>5, <1>8 DEF Serving, SameWork
    <3>3. Passed'
      <4>1. ASSUME NEW i \in DOMAIN cons'.rules, NEW k \in Keys, k < sess.key, Stored(k),
                   SignalDue(r, prod.localCache[k].id), RuleDue(r, cons'.rules[i].id),
                   Wants[cons'.rules[i].client] = Iface[k]
            PROVE  \/ <<k, prod.localCache[k].serial>> \in OnWire
                   \/ <<cons'.rules[i].client, cons'.rules[i].id, prod.localCache[k].serial>> \in hist.got \cup hist.skipped
        BY <4>1, <3>1, <1>7 DEF Passed, Concerns, Has, Tuple
      <4>. QED BY <4>1, <1>2, <1>5, <1>8 DEF Passed, Concerns, Has, Tuple, ConsumerMoves
    <3>. QED BY <3>2, <3>3
  <2>. QED BY <2>1, <1>1 DEF Session, SameWork
<1>10. Done'
  <2>1. ASSUME r.haveReceived, NEW i \in DOMAIN cons'.rules, cons'.rules[i].id <= r.appliedRulesId
        PROVE  \E j \in DOMAIN cons.rules : cons.rules[j] = cons'.rules[i]
    <3>1. cons'.rules \in Seq(RuleType)
      BY DEF ConsumerMoves, ConsumerType
    <3>2. cons'.rules[i] \in RuleType
      BY <3>1
    <3>3. cons'.rules[i].id \in Nat
      BY <3>2 DEF RuleType
    <3>. QED BY <2>1, <3>3, MarkSet, <1>4 DEF RulesAdded
  <2>2. ASSUME r.haveReceived, NEW i \in DOMAIN cons'.rules, NEW k \in Keys,
               Stored(k), Wants[cons'.rules[i].client] = Iface[k],
               prod.localCache[k].id <= r.receivedChangeId, cons'.rules[i].id <= r.appliedRulesId
        PROVE  <<cons'.rules[i].client, cons'.rules[i].id, prod.localCache[k].serial>> \in hist.got \cup hist.skipped
    BY <2>1, <2>2, <1>1 DEF Done, Has, Tuple
  <2>. QED BY <2>2, <1>2 DEF Done, Has, Tuple, SameWork, ConsumerMoves
<1>11. NotAgain'
  BY NotAgainStays DEF ConsumerMoves
<1>12. Calm' => Once'
  <2>. SUFFICES ASSUME Calm' PROVE Once'
    OBVIOUS
  <2>1. Once
    BY CalmBefore DEF ConsumerMoves
  <2>2. Covered'
    BY <2>1, <1>2 DEF Once, Marked, Covered, SameWork, ConsumerMoves
  <2>3. Routed'
    <3>1. \A t \in hist.got : t[2] \in Nat
      BY <1>1 DEF History
    <3>2. \A k \in Keys : Stored(k) => prod.localCache[k].id \in Nat
      BY Bounds
    <3>3. r.changeId \in Nat /\ cons'.remote.changeId \in Nat
      BY <1>4 DEF RemoteType
    <3>. QED BY <2>1, <1>2, <1>4, <3>1, <3>2, <3>3 DEF Once, Marked, Routed, SameWork, ConsumerMoves
  <2>4. sess \in SessionType => Fresh'
    <3>. SUFFICES ASSUME sess \in SessionType PROVE Fresh'
      OBVIOUS
    <3>1. Fresh /\ r.state = "IN_PROGRESS"
      BY <2>1, <1>1 DEF Once, Session, SessionType, NoSession
    <3>2. ASSUME NEW e \in OnWire, NEW i \in DOMAIN cons'.rules, RuleDue(r, cons'.rules[i].id),
                 Wants[cons'.rules[i].client] = Iface[e[1]]
          PROVE  <<cons'.rules[i].client, cons'.rules[i].id, e[2]>> \notin hist.got \/ e[2] \in r.routed
      BY <3>1, <3>2, <1>7 DEF Fresh, Concerns, Tuple
    <3>. QED BY <3>1, <3>2, <1>2, <1>5, <1>8 DEF Fresh, Concerns, Tuple, SameWork, ConsumerMoves
  <2>5. Marked'
    <3>1. hist'.faults >= hist.faults /\ hist.faults \in Nat /\ hist'.faults \in Nat
      BY <1>1 DEF ConsumerMoves, History
    <3>. QED BY <2>1, <2>2, <2>3, <3>1 DEF Once, Marked, SameWork
  <2>. QED BY <2>4, <2>5 DEF Once
<1>. QED BY <1>2, <1>6, <1>9, <1>10, <1>11, <1>12 DEF SignalsInv, ConsumerMoves

\* ... and without a cache.
LEMMA NoCacheSafe ==
  ASSUME SignalsInv, ConsumerMoves, sess' = sess, cons.remote = NoCache, cons'.remote = NoCache
  PROVE  SignalsInv'
<1>1. sess = NoSession /\ NoSession \notin SessionType
  BY DEF SignalsInv, Session, NoSession, SessionType
<1>2. Consuming' /\ Done'
  BY DEF Consuming, Done, ConsumerMoves
<1>3. Session'
  BY <1>1 DEF Session
<1>4. NotAgain'
  BY NotAgainStays DEF ConsumerMoves
<1>5. Calm' => Once'
  BY <1>1, CalmBefore DEF ConsumerMoves, Once, Marked
<1>. QED BY <1>2, <1>3, <1>4, <1>5, ProducerStays DEF SignalsInv, ConsumerMoves

\* What ScheduleAll leaves alone.
LEMMA ScheduleCases ==
  ASSUME NEW c \in ConsumerType
  PROVE  /\ ScheduleAll(c) \in ConsumerType /\ ScheduleAll(c).rules = c.rules
         /\ ScheduleAll(c).nextRulesId = c.nextRulesId /\ ScheduleAll(c).finding = c.finding
         /\ \/ ScheduleAll(c).remote = c.remote
            \/ ScheduleAll(c).remote = NoCache /\ c.remote # NoCache /\ c.remote.state = "IDLE"
<1>. DEFINE s == ScheduleAll(c)
<1>1. /\ s \in {c, [c EXCEPT !.remote = NoCache], [c EXCEPT !.alarm = TRUE]}
      /\ c.remote = NoCache \/ c.remote.state # "IDLE" => s = c
  BY Scheduled
<1>. HIDE DEF s
<1>2. CASE s = c
  BY <1>2 DEF s
<1>3. CASE s = [c EXCEPT !.remote = NoCache] /\ s # c
  <2>1. s \in ConsumerType /\ s.rules = c.rules /\ s.nextRulesId = c.nextRulesId /\ s.finding = c.finding
        /\ s.remote = NoCache
    BY <1>3 DEF ConsumerType
  <2>. QED BY <2>1, <1>1, <1>3 DEF s
<1>4. CASE s = [c EXCEPT !.alarm = TRUE]
  <2>1. s \in ConsumerType /\ s.rules = c.rules /\ s.nextRulesId = c.nextRulesId /\ s.finding = c.finding
        /\ s.remote = c.remote
    BY <1>4 DEF ConsumerType
  <2>. QED BY <2>1 DEF s
<1>. QED BY <1>1, <1>2, <1>3, <1>4

\* Without a session in progress there is no session.
LEMMA IdleHasNoSession ==
  ASSUME SignalsInv, cons.remote = NoCache \/ cons.remote.state = "IDLE"
  PROVE  sess = NoSession /\ NoSession \notin SessionType
  BY DEF SignalsInv, Session, NoSession, NoCache, SessionType

\* AddRule.
LEMMA AddRuleSafe ==
  ASSUME SignalsInv, NEW e \in Clients, AddRule(e)
  PROVE  SignalsInv'
<1>1. Producer /\ Consuming /\ History
  BY DEF SignalsInv
<1>. DEFINE new == [client |-> e, id |-> cons.nextRulesId]
            next == IF ~HasRule(e) THEN Plus(cons.nextRulesId, 1) ELSE cons.nextRulesId
            added == [cons EXCEPT !.rules = Append(cons.rules, new), !.nextRulesId = next]
            c == ScheduleAll(added)
<1>2. /\ hist.added < MaxRules /\ prod' = prod /\ sess' = sess
      /\ cons' = [c EXCEPT !.finding = c.finding \cup {Wants[e], Wildcard}]
      /\ hist' = [hist EXCEPT !.added = hist.added + 1, !.dropped = hist.dropped \/ (cons.remote # cons'.remote)]
  BY DEF AddRule
<1>3. air' = air \cup {<<n, prod.ads[n]>> : n \in {n \in Heard \cap (cons'.finding \ cons.finding) : prod.ads[n] # None}}
  BY DEF AddRule
<1>4. cons \in ConsumerType /\ Ruled /\ cons.rules \in Seq(RuleType) /\ new \in RuleType
  BY <1>1, Bounds DEF Consuming, ConsumerType, RuleType
<1>5. /\ next \in Nat /\ next >= cons.nextRulesId /\ next <= hist.added + 1 /\ next > 0
  <2>1. Plus(cons.nextRulesId, 1) = cons.nextRulesId + 1
    BY Bounds, Numbers, PlusValue
  <2>2. HasRule(e) => cons.nextRulesId > 0
    BY <1>4 DEF HasRule, Ruled
  <2>3. cons.nextRulesId \in Nat /\ hist.added \in Nat /\ cons.nextRulesId <= hist.added
    BY <1>4, Bounds DEF Ruled
  <2>4. next = IF HasRule(e) THEN cons.nextRulesId ELSE cons.nextRulesId + 1
    BY <2>1
  <2>. HIDE DEF next
  <2>. QED BY <2>2, <2>3, <2>4
<1>6. /\ Append(cons.rules, new) \in Seq(RuleType) /\ Append(cons.rules, new) # << >>
      /\ \A i \in DOMAIN Append(cons.rules, new) :
           \/ i \in DOMAIN cons.rules /\ Append(cons.rules, new)[i] = cons.rules[i]
           \/ Append(cons.rules, new)[i] = new
  <2>. HIDE DEF new
  <2>. QED BY <1>4
<1>. HIDE DEF next
<1>7. added \in ConsumerType /\ added.rules = Append(cons.rules, new) /\ added.nextRulesId = next
      /\ added.remote = cons.remote
  <2>1. next \in Nat /\ Append(cons.rules, new) \in Seq(RuleType)
    BY <1>5, <1>6
  <2>. HIDE DEF new
  <2>. QED BY <2>1, <1>4 DEF ConsumerType
<1>. HIDE DEF added
<1>8. /\ c \in ConsumerType /\ c.rules = added.rules /\ c.nextRulesId = next
      /\ \/ c.remote = cons.remote
         \/ c.remote = NoCache /\ cons.remote # NoCache /\ cons.remote.state = "IDLE"
  BY <1>7, ScheduleCases
<1>. HIDE DEF c
<1>9. /\ cons' \in ConsumerType /\ cons'.rules = added.rules /\ cons'.nextRulesId = next /\ cons'.remote = c.remote
  <2>1. {Wants[e], Wildcard} \subseteq Names
    BY SessionlessAssumption DEF Names
  <2>2. c.finding \cup {Wants[e], Wildcard} \in SUBSET Names
    BY <2>1, <1>8 DEF ConsumerType
  <2>. QED BY <2>2, <1>2, <1>8 DEF ConsumerType
<1>10. RulesAdded
  BY <1>6, <1>7, <1>9, Bounds DEF RulesAdded
<1>11. /\ History' /\ hist'.added = hist.added + 1 /\ hist'.faults = hist.faults /\ hist'.got = hist.got
       /\ hist'.skipped = hist.skipped /\ hist'.again = hist.again
       /\ hist'.dropped = (hist.dropped \/ (cons.remote # cons'.remote))
  <2>. DEFINE d == hist.dropped \/ (cons.remote # cons'.remote)
  <2>1. d \in BOOLEAN
    BY <1>1 DEF History
  <2>2. hist' = [hist EXCEPT !.added = hist.added + 1, !.dropped = d]
    BY <1>2
  <2>3. hist'.dropped = d => hist'.dropped = (hist.dropped \/ (cons.remote # cons'.remote))
    OBVIOUS
  <2>. HIDE DEF d
  <2>4. hist' = [got |-> hist.got, again |-> hist.again, skipped |-> hist.skipped, dropped |-> d,
                 added |-> hist.added + 1, faults |-> hist.faults]
    BY <2>2, <1>1 DEF History
  <2>5. History'
    BY <2>1, <2>4, <1>1, <1>2 DEF History
  <2>. QED BY <2>3, <2>4, <2>5
<1>12. Ruled'
  <2>1. \A i \in DOMAIN cons'.rules : cons'.rules[i].id <= cons'.nextRulesId
    BY <1>4, <1>5, <1>6, <1>7, <1>9, Bounds DEF Ruled
  <2>2. hist'.added \in 0 .. MaxRules
    BY <1>2, <1>4, <1>11, Numbers DEF Ruled
  <2>. QED BY <2>1, <2>2, <1>5, <1>9, <1>11 DEF Ruled
<1>13. air' \subseteq Names \X (0 .. Top)
  <2>1. Heard \subseteq Names
    BY SessionlessAssumption DEF Names, Wildcard
  <2>2. \A n \in Heard : prod.ads[n] # None => <<n, prod.ads[n]>> \in Names \X (0 .. Top)
    BY <2>1, <1>1, Bounds DEF Producer, ProducerType
  <2>. QED BY <2>2, <1>1, <1>3 DEF Producer
<1>14. ConsumerMoves
  <2>1. hist.added \in Nat /\ hist.faults \in Nat
    BY <1>1 DEF History
  <2>2. hist.dropped => hist'.dropped
    BY <1>11
  <2>. QED BY <2>1, <2>2, <1>2, <1>9, <1>11, <1>12, <1>13 DEF ConsumerMoves
<1>15. CASE c.remote = NoCache /\ cons.remote # NoCache
  BY <1>2, <1>8, <1>9, <1>11, <1>14, <1>15, IdleHasNoSession, ForgetSafe
<1>16. CASE c.remote = cons.remote /\ cons.remote = NoCache
  BY <1>2, <1>9, <1>14, <1>16, NoCacheSafe
<1>17. CASE c.remote = cons.remote /\ cons.remote # NoCache
  <2>1. Remote(cons.remote, Top, prod.curChangeId, cons.nextRulesId)
    BY <1>1, <1>17 DEF Consuming
  <2>2. SameWork(cons.remote, cons'.remote) /\ cons'.remote.changeId <= Top
    BY <2>1, <1>9, <1>17 DEF SameWork, Remote, RemoteType
  <2>. QED BY <2>2, <1>2, <1>5, <1>9, <1>10, <1>14, <1>17, CarryOn
<1>. QED BY <1>8, <1>15, <1>16, <1>17

\* The elements of a concatenation.
LEMMA ConcatFacts ==
  ASSUME NEW S, NEW a \in Seq(S), NEW b \in Seq(S)
  PROVE  /\ a \o b \in Seq(S) /\ Len(a \o b) = Len(a) + Len(b)
         /\ \A i \in 1 .. Len(a) : (a \o b)[i] = a[i]
         /\ \A i \in 1 .. Len(b) : (a \o b)[Len(a) + i] = b[i]
  OBVIOUS

\* RemoveRule.
LEMMA RemoveRuleSafe ==
  ASSUME SignalsInv, NEW e \in Clients, RemoveRule(e)
  PROVE  SignalsInv'
<1>1. Producer /\ Consuming /\ History
  BY DEF SignalsInv
<1>. DEFINE first == CHOOSE i \in DOMAIN cons.rules :
                 /\ cons.rules[i].client = e
                 /\ \A j \in 1 .. i - 1 : cons.rules[j].client # e
            rest == SubSeq(cons.rules, 1, first - 1) \o SubSeq(cons.rules, first + 1, Len(cons.rules))
<1>2. /\ prod' = prod /\ sess' = sess /\ hist' = hist /\ air' = air /\ HasRule(e)
      /\ cons' = [cons EXCEPT !.rules = rest, !.finding = IF rest = << >> THEN {} ELSE cons.finding]
  BY DEF RemoveRule
<1>3. cons \in ConsumerType /\ Ruled /\ cons.rules \in Seq(RuleType)
  BY <1>1 DEF Consuming, ConsumerType
<1>4. first \in DOMAIN cons.rules
  <2>. DEFINE T == {i \in DOMAIN cons.rules : cons.rules[i].client = e}
  <2>1. T \subseteq Nat /\ T # {}
    BY <1>2, <1>3 DEF HasRule
  <2>2. PICK x \in T : \A y \in T : ~ (<<y, x>> \in OpToRel(<, Nat))
    <3>. HIDE DEF T
    <3>. QED BY <2>1, WFMin, NatLessThanWellFounded
  <2>3. \A y \in T : ~(y < x)
    BY <2>1, <2>2 DEF OpToRel
  <2>4. x \in DOMAIN cons.rules /\ cons.rules[x].client = e /\ \A j \in 1 .. x - 1 : cons.rules[j].client # e
    BY <2>3, <1>3
  <2>. QED BY <2>4
<1>. HIDE DEF first
<1>5. /\ rest \in Seq(RuleType)
      /\ \A i \in DOMAIN rest : \E j \in DOMAIN cons.rules : rest[i] = cons.rules[j]
  <2>. DEFINE a == SubSeq(cons.rules, 1, first - 1)
              b == SubSeq(cons.rules, first + 1, Len(cons.rules))
  <2>1. first \in 1 .. Len(cons.rules) /\ Len(cons.rules) \in Nat
    BY <1>3, <1>4
  <2>2. a \in Seq(RuleType) /\ Len(a) = first - 1 /\ \A i \in 1 .. first - 1 : a[i] = cons.rules[i]
    BY <1>3, <2>1
  <2>3. b \in Seq(RuleType) /\ Len(b) = Len(cons.rules) - first
        /\ \A i \in 1 .. Len(cons.rules) - first : b[i] = cons.rules[first + i]
    BY <1>3, <2>1
  <2>. HIDE DEF a, b
  <2>4. rest = a \o b
    BY DEF a, b
  <2>. HIDE DEF rest
  <2>5. /\ rest \in Seq(RuleType) /\ Len(rest) = Len(a) + Len(b)
        /\ \A i \in 1 .. Len(a) : rest[i] = a[i]
        /\ \A i \in 1 .. Len(b) : rest[Len(a) + i] = b[i]
    <3>1. a \in Seq(RuleType) /\ b \in Seq(RuleType)
      BY <2>2, <2>3
    <3>. QED BY <3>1, <2>4, ConcatFacts
  <2>6. DOMAIN rest = 1 .. Len(cons.rules) - 1
    BY <2>1, <2>2, <2>3, <2>5
  <2>7. \A i \in 1 .. Len(cons.rules) - 1 :
           \/ i \in 1 .. first - 1 /\ rest[i] = cons.rules[i]
           \/ i + 1 \in 1 .. Len(cons.rules) /\ rest[i] = cons.rules[i + 1]
    <3>. SUFFICES ASSUME NEW i \in 1 .. Len(cons.rules) - 1
                  PROVE  \/ i \in 1 .. first - 1 /\ rest[i] = cons.rules[i]
                         \/ i + 1 \in 1 .. Len(cons.rules) /\ rest[i] = cons.rules[i + 1]
      OBVIOUS
    <3>1. CASE i <= first - 1
      BY <3>1, <2>1, <2>2, <2>5
    <3>2. CASE i >= first
      <4>. DEFINE m == i - (first - 1)
      <4>1. m \in 1 .. Len(b) /\ Len(a) + m = i /\ first + m = i + 1
        BY <3>2, <2>1, <2>2, <2>3
      <4>. HIDE DEF m
      <4>2. rest[i] = b[m] /\ b[m] = cons.rules[i + 1]
        <5>1. rest[Len(a) + m] = b[m]
          BY <4>1, <2>5
        <5>2. Len(cons.rules) - first = Len(b)
          BY <2>3
        <5>3. b[m] = cons.rules[first + m]
          BY <4>1, <5>2, <2>3
        <5>. QED BY <5>1, <5>3, <4>1
      <4>. QED BY <4>2, <2>1
    <3>. QED BY <3>1, <3>2, <2>1
  <2>8. DOMAIN cons.rules = 1 .. Len(cons.rules)
    BY <1>3
  <2>9. \A i \in DOMAIN rest : \E j \in DOMAIN cons.rules : rest[i] = cons.rules[j]
    BY <2>1, <2>6, <2>7, <2>8
  <2>. QED BY <2>5, <2>9
<1>. HIDE DEF rest
<1>6. /\ cons' \in ConsumerType /\ cons'.rules = rest /\ cons'.nextRulesId = cons.nextRulesId
      /\ cons'.remote = cons.remote
  <2>1. (IF rest = << >> THEN {} ELSE cons.finding) \in SUBSET Names
    BY <1>3 DEF ConsumerType
  <2>. QED BY <2>1, <1>2, <1>3, <1>5 DEF ConsumerType
<1>7. RulesAdded
  BY <1>5, <1>6 DEF RulesAdded
<1>8. Ruled'
  <2>1. cons.nextRulesId > 0
    BY <1>2, <1>3 DEF HasRule, Ruled
  <2>. QED BY <2>1, <1>2, <1>3, <1>5, <1>6 DEF Ruled
<1>9. ConsumerMoves
  <2>1. hist.added \in Nat /\ hist.faults \in Nat
    BY <1>1 DEF History
  <2>2. History'
    BY <1>1, <1>2 DEF History
  <2>. QED BY <2>1, <2>2, <1>1, <1>2, <1>6, <1>8 DEF ConsumerMoves, Producer
<1>10. CASE cons.remote = NoCache
  BY <1>2, <1>6, <1>9, <1>10, NoCacheSafe
<1>11. CASE cons.remote # NoCache
  <2>1. Remote(cons.remote, Top, prod.curChangeId, cons.nextRulesId)
    BY <1>1, <1>11 DEF Consuming
  <2>2. SameWork(cons.remote, cons'.remote) /\ cons'.remote.changeId <= Top
    BY <2>1, <1>6 DEF SameWork, Remote, RemoteType
  <2>3. cons'.nextRulesId >= cons.nextRulesId
    BY <1>6, Bounds
  <2>. QED BY <2>2, <2>3, <1>2, <1>6, <1>7, <1>9, <1>11, CarryOn
<1>. QED BY <1>10, <1>11

\* Found: a name that is new to the cache, or a new cache.
LEMMA FoundSafe ==
  ASSUME SignalsInv, NEW ad, Found(ad)
  PROVE  SignalsInv'
<1>1. Producer /\ Consuming /\ History /\ cons \in ConsumerType /\ Ruled
  BY DEF SignalsInv, Consuming
<1>. DEFINE iface == {ad[1]} \ {Wildcard}
            id == ad[2]
            fresh == [state |-> "IDLE", ifaces |-> iface, changeId |-> id, haveReceived |-> FALSE,
                   receivedChangeId |-> Modulus - 1, appliedRulesId |-> Modulus - 1, retries |-> 0,
                   fromChangeId |-> 0, toChangeId |-> 0, fromRulesId |-> 0, toRulesId |-> 0, routed |-> {}]
            newer == IF IS_GREATER(id, cons.remote.changeId) THEN id ELSE cons.remote.changeId
            known == [cons.remote EXCEPT !.ifaces = cons.remote.ifaces \cup iface, !.changeId = newer]
            remote == IF cons.remote = NoCache THEN fresh ELSE known
            d == hist.dropped \/ (cons.remote # NoCache /\ cons'.remote = NoCache)
<1>2. /\ ad \in air /\ air' = air \ {ad} /\ prod' = prod /\ sess' = sess
      /\ cons' = ScheduleAll([cons EXCEPT !.remote = remote])
      /\ hist' = [hist EXCEPT !.dropped = d]
  BY DEF Found, Consumer
<1>3. id \in 0 .. Top /\ iface \subseteq Ifaces /\ air' \subseteq Names \X (0 .. Top)
  <2>1. ad \in Names \X (0 .. Top)
    BY <1>1, <1>2 DEF Producer
  <2>. QED BY <2>1, <1>1, <1>2 DEF Producer, Names
<1>4. fresh \in RemoteType /\ fresh # NoCache
  <2>1. 0 \in 0 .. MaxRetries /\ Modulus - 1 \in Marks(MaxPush) /\ Modulus - 1 \in Marks(MaxRules) /\ id \in Nat
    BY <1>3, Bounds, SessionlessAssumption DEF Marks
  <2>. HIDE DEF id, iface
  <2>. QED BY <2>1, <1>3 DEF RemoteType, NoCache
<1>. HIDE DEF id, iface
<1>5. ASSUME cons.remote # NoCache
      PROVE  /\ known \in RemoteType /\ known # NoCache /\ SameWork(cons.remote, known) /\ known.changeId <= Top
             /\ cons.remote \in RemoteType
  <2>1. cons.remote \in RemoteType /\ cons.remote.changeId \in 0 .. Top
    BY <1>1, <1>5, Bounds DEF Consuming, Remote, RemoteType
  <2>2. newer \in 0 .. Top /\ newer >= cons.remote.changeId
    <3>1. id \in Marks(MaxPush) /\ cons.remote.changeId \in Marks(MaxPush) /\ id # Modulus - 1
          /\ cons.remote.changeId # Modulus - 1
      BY <2>1, <1>3, Bounds, Numbers DEF Marks
    <3>2. IS_GREATER(id, cons.remote.changeId) <=> id > cons.remote.changeId
      BY <3>1, Greater, Numbers DEF Val
    <3>. QED BY <3>2, <2>1, <1>3, Bounds
  <2>. HIDE DEF newer
  <2>3. newer \in Nat /\ newer <= Top /\ cons.remote.changeId \in Int
    BY <2>1, <2>2, Bounds
  <2>4. cons.remote.ifaces \cup iface \in SUBSET Ifaces
    BY <2>1, <1>3 DEF RemoteType
  <2>5. known \in RemoteType /\ known.changeId = newer
    BY <2>1, <2>3, <2>4 DEF RemoteType
  <2>6. SameWork(cons.remote, known)
    BY <2>1, <2>2, <2>3, <2>4 DEF RemoteType, SameWork
  <2>7. known # NoCache
    <3>1. known.state \in {"IDLE", "IN_PROGRESS"} /\ NoCache.state = "NONE"
      BY <2>5 DEF RemoteType, NoCache
    <3>. QED BY <3>1
  <2>. QED BY <2>1, <2>3, <2>5, <2>6, <2>7
<1>. HIDE DEF known, fresh
<1>6. remote \in RemoteType /\ remote # NoCache
  BY <1>4, <1>5
<1>. HIDE DEF remote
<1>7. /\ cons' \in ConsumerType /\ cons'.rules = cons.rules /\ cons'.nextRulesId = cons.nextRulesId
      /\ cons'.remote \in {remote, NoCache} /\ (cons'.remote # remote => remote.state = "IDLE")
  <2>. DEFINE c == [cons EXCEPT !.remote = remote]
  <2>1. c \in ConsumerType /\ c.rules = cons.rules /\ c.nextRulesId = cons.nextRulesId /\ c.remote = remote
    BY <1>1, <1>6 DEF ConsumerType
  <2>2. cons' = ScheduleAll(c)
    BY <1>2
  <2>. HIDE DEF c
  <2>. QED BY <2>1, <2>2, ScheduleCases
<1>8. /\ History' /\ hist'.added = hist.added /\ hist'.faults = hist.faults /\ hist'.got = hist.got
      /\ hist'.skipped = hist.skipped /\ hist'.again = hist.again /\ hist'.dropped = d
      /\ hist.added \in Nat /\ hist.faults \in Nat
  <2>1. d \in BOOLEAN
    BY <1>1 DEF History
  <2>. HIDE DEF d
  <2>2. hist' = [got |-> hist.got, again |-> hist.again, skipped |-> hist.skipped, dropped |-> d,
                 added |-> hist.added, faults |-> hist.faults]
    BY <1>1, <1>2 DEF History
  <2>. QED BY <2>1, <2>2, <1>1, <1>2 DEF History
<1>9. Ruled'
  BY <1>1, <1>7, <1>8 DEF Ruled
<1>10. ConsumerMoves
  <2>1. hist.dropped => hist'.dropped
    BY <1>8
  <2>. HIDE DEF d
  <2>. QED BY <2>1, <1>2, <1>3, <1>7, <1>8, <1>9 DEF ConsumerMoves
<1>11. CASE cons.remote = NoCache /\ cons'.remote = NoCache
  BY <1>2, <1>10, <1>11, NoCacheSafe
<1>12. CASE cons.remote # NoCache /\ cons'.remote = NoCache
  <2>1. hist'.dropped
    BY <1>8, <1>12
  <2>2. cons.remote.state = "IDLE"
    BY <1>5, <1>6, <1>7, <1>12 DEF remote, SameWork
  <2>. QED BY <2>1, <2>2, <1>2, <1>10, <1>12, IdleHasNoSession, ForgetSafe
<1>13. CASE cons.remote # NoCache /\ cons'.remote # NoCache
  <2>1. cons'.remote = known
    BY <1>7, <1>13 DEF remote
  <2>2. cons'.nextRulesId >= cons.nextRulesId /\ RulesAdded
    BY <1>7, Bounds DEF RulesAdded
  <2>. QED BY <2>1, <2>2, <1>2, <1>5, <1>10, <1>13, CarryOn
<1>14. CASE cons.remote = NoCache /\ cons'.remote # NoCache
  <2>1. cons'.remote = fresh
    BY <1>7, <1>14 DEF remote
  <2>2. /\ prod' = prod /\ Producer' /\ Top' = Top /\ RangePeers'
    BY <1>2, <1>3, ProducerStays
  <2>3. sess' = NoSession /\ NoSession \notin SessionType
    BY <1>2, <1>14, IdleHasNoSession
  <2>4. Remote(cons'.remote, Top, prod.curChangeId, cons'.nextRulesId)
    BY <2>1, <1>3, <1>4 DEF fresh, Remote
  <2>5. Consuming'
    BY <2>2, <2>4, <1>7, <1>9 DEF Consuming
  <2>6. Done'
    BY <2>1 DEF Done, fresh
  <2>7. Session'
    BY <2>3 DEF Session
  <2>8. NotAgain'
    BY <1>10, NotAgainStays DEF ConsumerMoves
  <2>9. Calm' => Once'
    <3>. SUFFICES ASSUME Calm' PROVE Once'
      OBVIOUS
    <3>1. Once
      BY <1>10, CalmBefore DEF ConsumerMoves
    <3>2. hist'.got = {}
      BY <3>1, <1>8, <1>14 DEF Once, Marked
    <3>3. Covered' /\ Routed'
      BY <3>2 DEF Covered, Routed
    <3>4. cons'.remote.routed = {}
      BY <2>1 DEF fresh
    <3>. QED BY <2>3, <3>3, <3>4, <1>14 DEF Once, Marked
  <2>. QED BY <2>2, <2>5, <2>6, <2>7, <2>8, <2>9, <1>8 DEF SignalsInv
<1>. QED BY <1>11, <1>12, <1>13, <1>14

\* The alarm of a consumer that has nothing to do.
LEMMA RestSafe ==
  ASSUME SignalsInv, Rest
  PROVE  SignalsInv'
<1>1. Producer /\ Consuming /\ History /\ cons \in ConsumerType /\ Ruled
  BY DEF SignalsInv, Consuming
<1>2. cons' = [cons EXCEPT !.alarm = FALSE] /\ prod' = prod /\ sess' = sess /\ air' = air /\ hist' = hist
  BY DEF Rest
<1>3. /\ cons' \in ConsumerType /\ cons'.rules = cons.rules /\ cons'.nextRulesId = cons.nextRulesId
      /\ cons'.remote = cons.remote
  BY <1>1, <1>2 DEF ConsumerType
<1>4. ConsumerMoves
  <2>1. History' /\ Ruled'
    BY <1>1, <1>2, <1>3 DEF History, Ruled
  <2>2. hist.added \in Nat /\ hist.faults \in Nat
    BY <1>1 DEF History
  <2>. QED BY <2>1, <2>2, <1>1, <1>2, <1>3 DEF ConsumerMoves, Producer
<1>5. cons.remote # NoCache => SameWork(cons.remote, cons'.remote) /\ cons'.remote.changeId <= Top
  BY <1>1, <1>3, Bounds DEF SameWork, Consuming, Remote, RemoteType
<1>6. cons'.nextRulesId >= cons.nextRulesId /\ RulesAdded
  BY <1>3, Bounds DEF RulesAdded
<1>. QED BY <1>2, <1>3, <1>4, <1>5, <1>6, NoCacheSafe, CarryOn

\* What WorkItem asks for: either the signals up to the mark for the rules
\* after their mark, or the signals after the mark for all the rules.
LEMMA WorkAsks ==
  ASSUME SignalsInv, cons.remote # NoCache, PendingWork(cons) # "NONE"
  PROVE  LET w == WorkItem(cons)
             r == cons.remote
         IN  /\ w \in RemoteType /\ Asking(w, cons.nextRulesId) /\ w.toRulesId = cons.nextRulesId
             /\ \/ w.toChangeId = r.changeId + 1
                \/ r.haveReceived /\ r.appliedRulesId < cons.nextRulesId - 1
             /\ w.state = r.state /\ w.ifaces = r.ifaces /\ w.changeId = r.changeId
             /\ w.haveReceived = r.haveReceived /\ w.receivedChangeId = r.receivedChangeId
             /\ w.appliedRulesId = r.appliedRulesId /\ w.retries = r.retries /\ w.routed = r.routed
<1>. DEFINE w == WorkItem(cons)
            r == cons.remote
            n == cons.nextRulesId
            a == r.appliedRulesId
            v == r.receivedChangeId
<1>1. Consuming /\ Ruled /\ Remote(r, Top, prod.curChangeId, n)
  BY DEF SignalsInv, Consuming
<1>2. r \in RemoteType /\ r.changeId \in 0 .. Top /\ a \in Marks(MaxRules) /\ v \in Marks(MaxPush)
  BY <1>1, Bounds DEF Remote, RemoteType
<1>3. n \in 0 .. MaxRules /\ Top \in -1 .. MaxPush - 1 /\ prod.curChangeId <= MaxPush
  BY Bounds
<1>4. a \in Int /\ v \in Int /\ Half \in Int /\ -Half \in Int
  BY <1>2, Numbers DEF Marks
<1>5. IS_GREATER(Plus(n, -1), a) <=> n - 1 > Val(a)
  <2>1. Plus(n, -1) \in Marks(MaxRules) /\ Val(Plus(n, -1)) = n - 1
    <3>1. CASE n = 0
      <4>1. Plus(n, -1) = Modulus - 1
        BY <3>1, Numbers, PlusValue
      <4>. QED BY <3>1, <4>1 DEF Marks, Val
    <3>2. CASE n # 0
      <4>1. Plus(n, -1) = n - 1
        BY <3>2, <1>3, Numbers, PlusValue
      <4>. QED BY <3>2, <4>1, <1>3, Numbers DEF Marks, Val
    <3>. QED BY <3>1, <3>2
  <2>. QED BY <2>1, <1>2, Greater, Numbers
<1>6. IS_GREATER(r.changeId, v) <=> r.changeId > Val(v)
  <2>1. r.changeId \in Marks(MaxPush) /\ Val(r.changeId) = r.changeId
    BY <1>2, <1>3, Numbers DEF Marks, Val
  <2>. QED BY <2>1, <1>2, Greater, Numbers
<1>7. CASE PendingWork(cons) = "APPLY_NEW_RULES"
  <2>1. r.haveReceived /\ n - 1 > Val(a)
    BY <1>5, <1>7 DEF PendingWork
  <2>2. w = [r EXCEPT !.fromChangeId = Plus(v, -Half), !.toChangeId = Plus(v, 1),
                      !.fromRulesId = Plus(a, 1), !.toRulesId = n]
    BY <1>7, Zenon DEF WorkItem
  <2>3. v \in 0 .. Top /\ Val(v) = v /\ Val(a) = a /\ a \in 0 .. n - 2
    BY <2>1, <1>2, <1>3, MarkSet, Bounds
  <2>4. Plus(v, 1) = v + 1
    BY <2>3, <1>3, Numbers, PlusValue
  <2>5. Plus(v, -Half) \in Int /\ Plus(a, 1) \in Int
    BY <1>4, Numbers DEF Plus
  <2>. HIDE DEF w, n, a, v, r
  <2>6. /\ w \in RemoteType /\ w.fromChangeId = Plus(v, -Half) /\ w.toChangeId = v + 1
        /\ w.fromRulesId = Plus(a, 1) /\ w.toRulesId = n
        /\ w.state = r.state /\ w.ifaces = r.ifaces /\ w.changeId = r.changeId
        /\ w.haveReceived = r.haveReceived /\ w.receivedChangeId = r.receivedChangeId
        /\ w.appliedRulesId = r.appliedRulesId /\ w.retries = r.retries /\ w.routed = r.routed
    <3>1. v + 1 \in Int /\ n \in Int
      BY <2>3, <1>3
    <3>. QED BY <2>2, <2>4, <2>5, <3>1, <1>2 DEF RemoteType
  <2>7. \A x \in 0 .. MaxPush : SignalDue(w, x) <=> x <= v
    <3>1. \A x \in 0 .. MaxPush : SignalDue(w, x) <=> x < v + 1
      BY <2>3, <2>6, <1>2, <1>3, RangeBefore, Numbers DEF SignalDue
    <3>. QED BY <3>1, <2>3
  <2>8. \A y \in 0 .. MaxRules : RuleDue(w, y) <=> Val(a) < y /\ y < n
    BY <2>1, <2>3, <2>6, <1>2, <1>3, RangeAfter, Numbers DEF RuleDue
  <2>9. NewRules(w)
    BY <2>1, <2>6, <2>7, <2>8 DEF NewRules, v, a
  <2>10. v <= r.changeId
    BY <2>1, MarkSet DEF r, v
  <2>11. w.toChangeId \in 1 .. r.changeId + 1 /\ w.toRulesId \in 1 .. n /\ Val(a) <= n - 1 /\ a < n - 1
    BY <2>3, <2>6, <2>10, <1>2, <1>3
  <2>12. Asking(w, n)
    BY <2>6, <2>9, <2>11 DEF Asking, a
  <2>. QED BY <2>1, <2>6, <2>11, <2>12 DEF w, r, n, a
<1>8. CASE PendingWork(cons) = "REQUEST_NEW_SIGNALS"
  <2>1. ~(r.haveReceived /\ n - 1 > Val(a)) /\ r.changeId > Val(v) /\ cons.rules # << >>
    <3>1. /\ ~(r.haveReceived /\ IS_GREATER(Plus(n, -1), a)) /\ IS_GREATER(r.changeId, v)
          /\ IsMatch(cons, Plus(a, -Half), n)
      BY <1>8, Zenon DEF PendingWork
    <3>2. cons.rules # << >>
      BY <3>1 DEF IsMatch
    <3>. QED BY <3>1, <3>2, <1>5, <1>6
  <2>2. w = [r EXCEPT !.fromChangeId = Plus(v, 1), !.toChangeId = Plus(r.changeId, 1),
                      !.fromRulesId = Plus(a, -Half), !.toRulesId = n]
    BY <1>8, Zenon DEF WorkItem
  <2>3. n > 0 /\ Val(a) < n /\ (r.haveReceived => a = n - 1)
    <3>1. n > 0
      BY <2>1, <1>1 DEF Ruled
    <3>2. r.haveReceived => Val(a) = a /\ a < n /\ a \in Int
      BY MarkSet
    <3>3. ~r.haveReceived => Val(a) = -1
      BY <1>1 DEF Remote, Val
    <3>. QED BY <3>1, <3>2, <3>3, <2>1, <1>3
  <2>4. Plus(r.changeId, 1) = r.changeId + 1
    BY <1>2, <1>3, Numbers, PlusValue
  <2>5. Plus(v, 1) \in Int /\ Plus(a, -Half) \in Int
    BY <1>4, Numbers DEF Plus
  <2>. HIDE DEF w, n, a, v, r
  <2>6. /\ w \in RemoteType /\ w.fromChangeId = Plus(v, 1) /\ w.toChangeId = r.changeId + 1
        /\ w.fromRulesId = Plus(a, -Half) /\ w.toRulesId = n
        /\ w.state = r.state /\ w.ifaces = r.ifaces /\ w.changeId = r.changeId
        /\ w.haveReceived = r.haveReceived /\ w.receivedChangeId = r.receivedChangeId
        /\ w.appliedRulesId = r.appliedRulesId /\ w.retries = r.retries /\ w.routed = r.routed
    <3>1. r.changeId + 1 \in Int /\ n \in Int
      BY <1>2, <1>3
    <3>. QED BY <2>2, <2>4, <2>5, <3>1, <1>2 DEF RemoteType
  <2>7. \A x \in 0 .. MaxPush : SignalDue(w, x) <=> Val(v) < x /\ x < w.toChangeId
    <3>1. r.changeId + 1 \in 0 .. MaxPush + 1 /\ Val(v) < r.changeId + 1
      <4>1. Val(v) \in Int /\ r.changeId \in 0 .. MaxPush
        BY <1>2, <1>3, Numbers DEF Marks, Val
      <4>. QED BY <4>1, <2>1, Numbers
    <3>. QED BY <3>1, <2>6, <1>2, RangeAfter, Numbers DEF SignalDue
  <2>8. \A y \in 0 .. MaxRules : RuleDue(w, y) <=> y < n
    BY <2>3, <2>6, <1>2, <1>3, RangeBefore, Numbers DEF RuleDue
  <2>9. NewSignals(w)
    <3>1. Val(v) < w.toChangeId - 1
      BY <2>1, <2>6, <1>2
    <3>. QED BY <2>3, <2>6, <2>7, <2>8, <3>1 DEF NewSignals, v, a
  <2>10. w.toChangeId \in 1 .. r.changeId + 1 /\ w.toRulesId \in 1 .. n /\ Val(a) <= n - 1
    <3>1. Val(a) \in Int
      BY <1>2, Numbers DEF Marks, Val
    <3>. QED BY <2>3, <2>6, <1>2, <1>3, <3>1
  <2>11. Asking(w, n)
    BY <2>6, <2>9, <2>10 DEF Asking, a
  <2>. QED BY <2>6, <2>11 DEF w, r, n, a
<1>9. PendingWork(cons) \in {"APPLY_NEW_RULES", "REQUEST_NEW_SIGNALS", "NONE"}
  BY Zenon DEF PendingWork
<1>. QED BY <1>7, <1>8, <1>9

\* A session is asked for, or the attempt fails at once.  What earlier
\* sessions have routed lies in the range unless rules have been added since.
LEMMA NextWork ==
  ASSUME SignalsInv, ConsumerMoves, cons.remote # NoCache, cons.remote.state = "IDLE",
         cons'.rules = cons.rules, cons'.nextRulesId = cons.nextRulesId, cons'.remote # NoCache,
         Remote(cons'.remote, Top, prod.curChangeId, cons.nextRulesId),
         cons'.remote.haveReceived = cons.remote.haveReceived,
         cons'.remote.receivedChangeId = cons.remote.receivedChangeId,
         cons'.remote.appliedRulesId = cons.remote.appliedRulesId,
         cons'.remote.routed = cons.remote.routed, cons'.remote.changeId = cons.remote.changeId,
         sess' \in {NoSession, [pc |-> "joining"]}, sess' # NoSession => cons'.remote.state = "IN_PROGRESS",
         cons'.remote.state = "IN_PROGRESS" =>
           /\ cons'.remote.toRulesId = cons.nextRulesId
           /\ \/ cons'.remote.toChangeId = cons.remote.changeId + 1
              \/ cons.remote.haveReceived /\ cons.remote.appliedRulesId < cons.nextRulesId - 1
  PROVE  SignalsInv'
<1>1. Producer /\ Consuming /\ Session /\ History /\ Done /\ (Calm => Once)
  BY DEF SignalsInv
<1>2. /\ prod' = prod /\ Producer' /\ Top' = Top /\ RangePeers'
      /\ \A k \in Keys : Stored(k)' <=> Stored(k)
  BY ProducerStays DEF ConsumerMoves
<1>3. Consuming'
  BY <1>2 DEF Consuming, ConsumerMoves
<1>4. sess' \notin SessionType
  BY DEF NoSession, SessionType
<1>5. Session'
  BY <1>4 DEF Session
<1>6. Done'
  BY <1>1, <1>2 DEF Done, Has, Tuple, ConsumerMoves
<1>7. NotAgain'
  BY NotAgainStays DEF ConsumerMoves
<1>8. Calm' => Once'
  <2>. SUFFICES ASSUME Calm' PROVE Once'
    OBVIOUS
  <2>1. Once /\ Calm
    BY CalmBefore DEF ConsumerMoves
  <2>2. Covered'
    BY <2>1, <1>2 DEF Once, Marked, Covered, ConsumerMoves
  <2>3. Routed'
    <3>1. CASE cons.remote.routed = {}
      BY <3>1 DEF Routed
    <3>2. CASE cons.remote.routed # {}
      <4>1. hist.faults > 0
        BY <2>1, <3>2 DEF Once, Marked
      <4>2. cons.nextRulesId <= 1
        BY <4>1, <2>1, <1>1, Bounds DEF Calm, History, Consuming, Ruled
      <4>3. ~(cons.remote.haveReceived /\ cons.remote.appliedRulesId < cons.nextRulesId - 1)
        BY <4>2, MarkSet, Bounds
      <4>4. Routed
        BY <2>1 DEF Once, Marked
      <4>5. cons.remote.changeId \in Nat /\ \A k \in Keys : Stored(k) => prod.localCache[k].id \in Nat
        BY <1>1, Bounds DEF Consuming, Remote, RemoteType
      <4>. QED BY <1>2, <4>3, <4>4, <4>5 DEF Routed, ConsumerMoves
    <3>. QED BY <3>1, <3>2
  <2>4. hist'.faults >= hist.faults /\ hist.faults \in Nat /\ hist'.faults \in Nat
    BY <1>1 DEF ConsumerMoves, History
  <2>. QED BY <2>1, <2>2, <2>3, <2>4, <1>4 DEF Once, Marked
<1>. QED BY <1>2, <1>3, <1>5, <1>6, <1>7, <1>8 DEF SignalsInv, ConsumerMoves

\* Work.
LEMMA WorkSafe ==
  ASSUME SignalsInv, Work
  PROVE  SignalsInv'
<1>1. Producer /\ Consuming /\ History /\ cons \in ConsumerType /\ Ruled
  BY DEF SignalsInv, Consuming
<1>. DEFINE r == cons.remote
            w == WorkItem(cons)
            item == [w EXCEPT !.retries = w.retries + 1]
<1>2. /\ cons.remote # NoCache /\ cons.remote.state = "IDLE" /\ PendingWork(cons) # "NONE"
      /\ prod' = prod /\ air' = air
  BY DEF Work, HasWork
<1>3. /\ w \in RemoteType /\ Asking(w, cons.nextRulesId) /\ w.toRulesId = cons.nextRulesId
      /\ \/ w.toChangeId = r.changeId + 1
         \/ r.haveReceived /\ r.appliedRulesId < cons.nextRulesId - 1
      /\ w.state = r.state /\ w.ifaces = r.ifaces /\ w.changeId = r.changeId
      /\ w.haveReceived = r.haveReceived /\ w.receivedChangeId = r.receivedChangeId
      /\ w.appliedRulesId = r.appliedRulesId /\ w.retries = r.retries /\ w.routed = r.routed
  BY <1>2, WorkAsks
<1>4. sess = NoSession /\ r \in RemoteType /\ Remote(r, Top, prod.curChangeId, cons.nextRulesId)
  BY <1>1, <1>2, IdleHasNoSession DEF Consuming, Remote
<1>5. hist.added \in Nat /\ hist.faults \in Nat /\ air \subseteq Names \X (0 .. Top)
  BY <1>1 DEF History, Producer
<1>6. CASE r.retries >= MaxRetries
  <2>. DEFINE d == hist.dropped \/ (cons.remote # NoCache /\ [cons EXCEPT !.remote = NoCache, !.alarm = FALSE].remote = NoCache)
  <2>1. cons' = [cons EXCEPT !.remote = NoCache, !.alarm = FALSE] /\ sess' = sess /\ hist' = [hist EXCEPT !.dropped = d]
    BY <1>6 DEF Work, Consumer
  <2>2. /\ cons' \in ConsumerType /\ cons'.rules = cons.rules /\ cons'.nextRulesId = cons.nextRulesId
        /\ cons'.remote = NoCache
    BY <2>1, <1>1 DEF ConsumerType
  <2>3. d = TRUE
    <3>1. [cons EXCEPT !.remote = NoCache, !.alarm = FALSE].remote = NoCache
      BY <1>1 DEF ConsumerType
    <3>. QED BY <3>1, <1>2
  <2>. HIDE DEF d
  <2>4. hist' = [got |-> hist.got, again |-> hist.again, skipped |-> hist.skipped, dropped |-> TRUE,
                 added |-> hist.added, faults |-> hist.faults]
    BY <2>1, <2>3, <1>1 DEF History
  <2>5. History' /\ Ruled'
    BY <2>2, <2>4, <1>1, <1>2 DEF History, Ruled
  <2>6. ConsumerMoves
    BY <2>2, <2>4, <2>5, <1>2, <1>5 DEF ConsumerMoves
  <2>. QED BY <2>1, <2>2, <2>4, <2>6, <1>4, ForgetSafe
<1>7. ASSUME ~(r.retries >= MaxRetries)
      PROVE  /\ item \in RemoteType /\ Asking(item, cons.nextRulesId) /\ item.toRulesId = cons.nextRulesId
             /\ item.toChangeId = w.toChangeId /\ item.state = r.state /\ item.changeId = r.changeId
             /\ item.haveReceived = r.haveReceived /\ item.receivedChangeId = r.receivedChangeId
             /\ item.appliedRulesId = r.appliedRulesId /\ item.routed = r.routed
             /\ item.fromChangeId = w.fromChangeId /\ item.fromRulesId = w.fromRulesId
  <2>. HIDE DEF w
  <2>1. w.retries + 1 \in 0 .. MaxRetries
    BY <1>3, <1>4, <1>7, SessionlessAssumption DEF RemoteType
  <2>2. item \in RemoteType
    BY <2>1, <1>3 DEF RemoteType
  <2>3. /\ item.toRulesId = w.toRulesId /\ item.toChangeId = w.toChangeId /\ item.state = w.state
        /\ item.changeId = w.changeId
        /\ item.haveReceived = w.haveReceived /\ item.receivedChangeId = w.receivedChangeId
        /\ item.appliedRulesId = w.appliedRulesId /\ item.routed = w.routed
        /\ item.fromChangeId = w.fromChangeId /\ item.fromRulesId = w.fromRulesId
    BY <2>1, <1>3 DEF RemoteType
  <2>. HIDE DEF item
  <2>4. Asking(item, cons.nextRulesId)
    BY <2>3, <1>3 DEF Asking, NewRules, NewSignals, SignalDue, RuleDue
  <2>. QED BY <2>2, <2>3, <2>4, <1>3
<1>. HIDE DEF item
<1>8. CASE /\ ~(r.retries >= MaxRetries)
           /\ cons' = [cons EXCEPT !.remote = [item EXCEPT !.state = "IN_PROGRESS"], !.alarm = FALSE]
           /\ sess' = [pc |-> "joining"] /\ hist' = hist
  <2>. DEFINE s == [item EXCEPT !.state = "IN_PROGRESS"]
  <2>1. /\ s \in RemoteType /\ s.state = "IN_PROGRESS"
        /\ s.toRulesId = item.toRulesId /\ s.toChangeId = item.toChangeId
        /\ s.changeId = item.changeId
        /\ s.haveReceived = item.haveReceived /\ s.receivedChangeId = item.receivedChangeId
        /\ s.appliedRulesId = item.appliedRulesId /\ s.routed = item.routed
        /\ s.fromChangeId = item.fromChangeId /\ s.fromRulesId = item.fromRulesId
    BY <1>7, <1>8 DEF RemoteType
  <2>2. cons' = [cons EXCEPT !.remote = s, !.alarm = FALSE]
    BY <1>8
  <2>. HIDE DEF s
  <2>3. Asking(s, cons.nextRulesId)
    BY <2>1, <1>7, <1>8 DEF Asking, NewRules, NewSignals, SignalDue, RuleDue
  <2>4. Remote(s, Top, prod.curChangeId, cons.nextRulesId)
    BY <2>1, <2>3, <1>4, <1>7, <1>8 DEF Remote
  <2>5. /\ cons' \in ConsumerType /\ cons'.rules = cons.rules /\ cons'.nextRulesId = cons.nextRulesId
        /\ cons'.remote = s
    BY <2>1, <2>2, <1>1 DEF ConsumerType
  <2>6. s # NoCache
    BY <2>1 DEF NoCache
  <2>7. ConsumerMoves
    <3>1. History' /\ Ruled'
      BY <2>5, <1>1, <1>2, <1>8 DEF History, Ruled
    <3>. QED BY <3>1, <2>5, <1>2, <1>5, <1>8 DEF ConsumerMoves
  <2>. QED BY <2>1, <2>4, <2>5, <2>6, <2>7, <1>2, <1>3, <1>7, <1>8, NextWork
<1>9. CASE /\ ~(r.retries >= MaxRetries)
           /\ hist' = [hist EXCEPT !.faults = hist.faults + 1]
           /\ cons' = [cons EXCEPT !.remote = item] /\ sess' = sess
  <2>1. Remote(item, Top, prod.curChangeId, cons.nextRulesId)
    BY <1>4, <1>7, <1>9 DEF Remote
  <2>2. /\ cons' \in ConsumerType /\ cons'.rules = cons.rules /\ cons'.nextRulesId = cons.nextRulesId
        /\ cons'.remote = item
    BY <1>1, <1>7, <1>9 DEF ConsumerType
  <2>3. item # NoCache /\ item.state = "IDLE"
    BY <1>2, <1>7, <1>9 DEF NoCache
  <2>4. hist' = [got |-> hist.got, again |-> hist.again, skipped |-> hist.skipped, dropped |-> hist.dropped,
                 added |-> hist.added, faults |-> hist.faults + 1]
    BY <1>1, <1>9 DEF History
  <2>5. History' /\ Ruled'
    BY <2>2, <2>4, <1>1, <1>2, <1>5 DEF History, Ruled
  <2>6. ConsumerMoves
    BY <2>2, <2>4, <2>5, <1>2, <1>5 DEF ConsumerMoves
  <2>. QED BY <2>1, <2>2, <2>3, <2>6, <1>2, <1>4, <1>7, <1>9, NextWork
<1>10. \/ r.retries >= MaxRetries
       \/ /\ ~(r.retries >= MaxRetries)
          /\ cons' = [cons EXCEPT !.remote = [item EXCEPT !.state = "IN_PROGRESS"], !.alarm = FALSE]
          /\ sess' = [pc |-> "joining"] /\ hist' = hist
       \/ /\ ~(r.retries >= MaxRetries)
          /\ hist' = [hist EXCEPT !.faults = hist.faults + 1]
          /\ cons' = [cons EXCEPT !.remote = item] /\ sess' = sess
  BY Zenon DEF Work, Failed, item
<1>. QED BY <1>6, <1>8, <1>9, <1>10

\* JoinSessionCB: the request goes out.
LEMMA JoinedSafe ==
  ASSUME SignalsInv, NEW peer \in Peers, Joined(peer)
  PROVE  SignalsInv'
<1>1. Producer /\ Consuming /\ Session /\ History /\ Done /\ RangePeers /\ (Calm => Once) /\ NotAgain
  BY DEF SignalsInv
<1>. DEFINE r == cons.remote
            due == {i \in DOMAIN cons.rules : InRange(r.fromRulesId, r.toRulesId, cons.rules[i].id)}
            match == IF peer = "match" THEN {Wants[cons.rules[i].client] : i \in due} ELSE {}
<1>2. /\ sess.pc = "joining" /\ prod' = prod /\ cons' = cons /\ hist' = hist /\ air' = air
      /\ sess' = [pc |-> "asked", peer |-> peer, from |-> r.fromChangeId, to |-> r.toChangeId, key |-> 1,
                  match |-> match, erased |-> FALSE, wire |-> << >>]
  <2>1. peer # "signals"
    BY <1>1 DEF RangePeers
  <2>. QED BY <2>1, Zenon DEF Joined
<1>3. match \in SUBSET Ifaces /\ (match # {} => \A i \in due : Wants[cons.rules[i].client] \in match)
  <2>1. \A i \in DOMAIN cons.rules : Wants[cons.rules[i].client] \in Ifaces
    BY Bounds, SessionlessAssumption
  <2>. QED BY <2>1
<1>4. sess # NoSession /\ r # NoCache /\ r.state = "IN_PROGRESS"
  BY <1>1, <1>2 DEF Session, NoSession
<1>5. r.fromChangeId \in Int /\ r.toChangeId \in Int
  BY <1>1, <1>4 DEF Consuming, Remote, RemoteType
<1>. HIDE DEF match
<1>6. /\ sess' \in SessionType /\ sess'.pc = "asked" /\ sess'.from = r.fromChangeId /\ sess'.to = r.toChangeId
      /\ sess'.key = 1 /\ sess'.match = match /\ sess'.wire = << >> /\ sess' # NoSession
  BY <1>2, <1>3, <1>5 DEF SessionType, NoSession
<1>7. OnWire' = {}
  BY <1>6 DEF OnWire
<1>8. Serving'
  BY <1>2, <1>3, <1>6, <1>7 DEF Serving, RuleDue
<1>9. Passed'
  <2>1. \A k \in Keys : ~(k < 1)
    BY SessionlessAssumption, FS_CardinalityType
  <2>. QED BY <2>1, <1>6 DEF Passed
<1>10. Session'
  BY <1>2, <1>4, <1>6, <1>8, <1>9 DEF Session
<1>11. Fresh'
  BY <1>7 DEF Fresh
<1>12. Producer' /\ RangePeers' /\ Top' = Top /\ \A k \in Keys : Stored(k)' <=> Stored(k)
  BY <1>1, <1>2, ProducerStays DEF Producer
<1>13. Consuming' /\ History' /\ NotAgain'
  BY <1>1, <1>2, <1>12 DEF Consuming, Ruled, History, NotAgain
<1>14. Done'
  BY <1>1, <1>2, <1>12 DEF Done, Has, Tuple
<1>15. Calm' => Marked'
  BY <1>1, <1>2, <1>12 DEF Calm, Once, Marked, Covered, Routed
<1>. QED BY <1>10, <1>11, <1>12, <1>13, <1>14, <1>15 DEF SignalsInv, Once

\* A session that fails leaves the marks where they are.
LEMMA SessionFailsSafe ==
  ASSUME SignalsInv, SessionFails
  PROVE  SignalsInv'
<1>1. Producer /\ Consuming /\ Session /\ History /\ Done /\ cons \in ConsumerType /\ Ruled
  BY DEF SignalsInv, Consuming
<1>. DEFINE r == cons.remote
            s == [r EXCEPT !.state = "IDLE"]
            c == [cons EXCEPT !.remote = s]
            d == hist.dropped \/ cons'.remote = NoCache
<1>2. /\ sess.pc # "none" /\ sess' = NoSession /\ prod' = prod /\ air' = air
      /\ cons' = ScheduleWork(c)
  BY DEF SessionFails, Retry
<1>3. hist' = [got |-> hist.got, again |-> hist.again, skipped |-> hist.skipped, dropped |-> d,
               added |-> hist.added, faults |-> hist.faults + 1]
  BY <1>1 DEF SessionFails, Failed, History
<1>4. sess # NoSession /\ r # NoCache /\ r.state = "IN_PROGRESS"
  BY <1>1, <1>2 DEF Session, NoSession
<1>5. Remote(r, Top, prod.curChangeId, cons.nextRulesId) /\ r \in RemoteType /\ Asking(r, cons.nextRulesId)
  BY <1>1, <1>4 DEF Consuming, Remote
<1>6. /\ s \in RemoteType /\ s.state = "IDLE" /\ s.changeId = r.changeId /\ s.haveReceived = r.haveReceived
      /\ s.receivedChangeId = r.receivedChangeId /\ s.appliedRulesId = r.appliedRulesId
      /\ s.routed = r.routed
  BY <1>5 DEF RemoteType
<1>. HIDE DEF s
<1>7. s # NoCache /\ Remote(s, Top, prod.curChangeId, cons.nextRulesId)
  BY <1>5, <1>6 DEF Remote, NoCache
<1>8. /\ c \in ConsumerType /\ c.rules = cons.rules /\ c.nextRulesId = cons.nextRulesId /\ c.remote = s
  BY <1>1, <1>6 DEF ConsumerType
<1>. HIDE DEF c
<1>9. /\ cons' \in ConsumerType /\ cons'.rules = cons.rules /\ cons'.nextRulesId = cons.nextRulesId
      /\ cons'.remote \in {s, NoCache}
  <2>1. cons' \in {c, [c EXCEPT !.remote = NoCache], [c EXCEPT !.alarm = TRUE]}
    BY <1>2, Zenon DEF ScheduleWork
  <2>. QED BY <2>1, <1>8 DEF ConsumerType
<1>10. hist.added \in Nat /\ hist.faults \in Nat /\ air \subseteq Names \X (0 .. Top)
  BY <1>1 DEF History, Producer
<1>11. /\ History' /\ hist'.added = hist.added /\ hist'.faults = hist.faults + 1 /\ hist'.got = hist.got
       /\ hist'.skipped = hist.skipped /\ hist'.again = hist.again /\ hist'.dropped = d
  <2>1. d \in BOOLEAN
    BY <1>1 DEF History
  <2>. HIDE DEF d
  <2>. QED BY <2>1, <1>1, <1>2, <1>3, <1>10 DEF History
<1>12. ConsumerMoves
  <2>1. hist.dropped => hist'.dropped
    BY <1>11
  <2>2. Ruled'
    BY <1>1, <1>9, <1>11 DEF Ruled
  <2>. HIDE DEF d
  <2>. QED BY <2>1, <2>2, <1>2, <1>9, <1>10, <1>11 DEF ConsumerMoves
<1>13. CASE cons'.remote = NoCache
  <2>1. hist'.dropped
    BY <1>11, <1>13
  <2>. QED BY <2>1, <1>2, <1>12, <1>13, ForgetSafe
<1>14. CASE cons'.remote = s
  <2>1. /\ Producer' /\ Top' = Top /\ RangePeers' /\ \A k \in Keys : Stored(k)' <=> Stored(k)
    BY <1>2, <1>10, ProducerStays
  <2>2. Consuming'
    BY <2>1, <1>2, <1>7, <1>9, <1>12, <1>14 DEF Consuming, ConsumerMoves
  <2>3. sess' \notin SessionType /\ Session'
    BY <1>2 DEF Session, SessionType, NoSession
  <2>4. Done'
    BY <2>1, <1>1, <1>2, <1>4, <1>6, <1>9, <1>11, <1>14 DEF Done, Has, Tuple
  <2>5. NotAgain'
    BY <1>12, NotAgainStays DEF ConsumerMoves
  <2>6. Calm' => Once'
    <3>. SUFFICES ASSUME Calm' PROVE Once'
      OBVIOUS
    <3>1. Marked
      BY <1>12, CalmBefore DEF ConsumerMoves, Once
    <3>2. Covered'
      BY <2>1, <3>1, <1>2, <1>4, <1>6, <1>11, <1>14 DEF Marked, Covered
    <3>3. Routed'
      BY <2>1, <3>1, <1>2, <1>4, <1>6, <1>9, <1>11, <1>14 DEF Marked, Routed
    <3>4. hist'.faults > 0
      BY <1>10, <1>11
    <3>. QED BY <2>3, <3>2, <3>3, <3>4, <1>7, <1>14 DEF Once, Marked
  <2>. QED BY <2>1, <2>2, <2>3, <2>4, <2>5, <2>6, <1>11 DEF SignalsInv
<1>. QED BY <1>9, <1>13, <1>14

\* Routing leaves the rest of the cache alone.
SameButRouted(r, s) ==
  /\ s.state = r.state /\ s.haveReceived = r.haveReceived /\ s.receivedChangeId = r.receivedChangeId
  /\ s.appliedRulesId = r.appliedRulesId /\ s.changeId = r.changeId
  /\ s.fromChangeId = r.fromChangeId /\ s.toChangeId = r.toChangeId
  /\ s.fromRulesId = r.fromRulesId /\ s.toRulesId = r.toRulesId

\* RouteSessionlessMessage: what a session has sent arrives, and for the
\* first time unless it is remembered as routed.
LEMMA RouteSafe ==
  ASSUME SignalsInv, Route
  PROVE  SignalsInv'
<1>1. Producer /\ Consuming /\ Session /\ History /\ Done /\ NotAgain /\ (Calm => Once) /\ cons \in ConsumerType /\ Ruled
  BY DEF SignalsInv, Consuming
<1>0. PICK k, serial : k = Head(sess.wire)[1] /\ serial = Head(sess.wire)[2]
  OBVIOUS
<1>. DEFINE r == cons.remote
            to == {<<cons.rules[i].client, cons.rules[i].id, serial>> : i \in
                    {i \in DOMAIN cons.rules : /\ InRange(r.fromRulesId, r.toRulesId, cons.rules[i].id)
                                               /\ Wants[cons.rules[i].client] = Iface[k]}}
<1>2. /\ sess.pc \in {"serving", "left"} /\ sess.wire # << >> /\ prod' = prod /\ air' = air
      /\ sess' = [sess EXCEPT !.wire = Tail(sess.wire)]
  BY DEF Route
<1>3. \/ /\ serial \in r.routed /\ hist' = [hist EXCEPT !.skipped = hist.skipped \cup (to \ hist.got)] /\ cons' = cons
      \/ /\ serial \notin r.routed /\ cons' = [cons EXCEPT !.remote = [r EXCEPT !.routed = r.routed \cup {serial}]]
         /\ hist' = [hist EXCEPT !.got = hist.got \cup to, !.again = hist.again \/ to \cap hist.got # {}]
  <2>. HIDE DEF to
  <2>1. to = {<<cons.rules[i].client, cons.rules[i].id, Head(sess.wire)[2]>> : i \in
               {i \in DOMAIN cons.rules : /\ InRange(r.fromRulesId, r.toRulesId, cons.rules[i].id)
                                          /\ Wants[cons.rules[i].client] = Iface[Head(sess.wire)[1]]}}
    BY <1>0, Zenon DEF to
  <2>2. CASE Head(sess.wire)[2] \in cons.remote.routed
    <3>1. hist' = [hist EXCEPT !.skipped = hist.skipped \cup (to \ hist.got)] /\ cons' = cons
      BY <2>1, <2>2, Zenon DEF Route
    <3>. QED BY <3>1, <2>2, <1>0
  <2>3. CASE Head(sess.wire)[2] \notin cons.remote.routed
    <3>1. hist' = [hist EXCEPT !.got = hist.got \cup to, !.again = hist.again \/ to \cap hist.got # {}]
      BY <2>1, <2>3, Zenon DEF Route
    <3>2. cons' = [cons EXCEPT !.remote.routed = @ \cup {Head(sess.wire)[2]}]
      BY <2>3, Zenon DEF Route
    <3>3. cons' = [cons EXCEPT !.remote = [r EXCEPT !.routed = r.routed \cup {serial}]]
      BY <3>2, <1>0
    <3>. QED BY <3>1, <3>3, <2>3, <1>0
  <2>. QED BY <2>2, <2>3
<1>4. sess \in SessionType /\ sess # NoSession
  BY <1>1, <1>2 DEF Session, NoSession
<1>5. Serving /\ Passed /\ r # NoCache /\ r.state = "IN_PROGRESS"
  BY <1>1, <1>4 DEF Session
<1>6. Remote(r, Top, prod.curChangeId, cons.nextRulesId) /\ r \in RemoteType /\ Asking(r, cons.nextRulesId)
  BY <1>1, <1>5 DEF Consuming, Remote
<1>7. /\ Head(sess.wire) = <<k, serial>> /\ <<k, serial>> \in OnWire /\ k \in Keys /\ serial \in 1 .. MaxPush
      /\ serial <= prod.serial /\ Tail(sess.wire) \in Seq(Keys \X (1 .. MaxPush))
  <2>1. sess.wire \in Seq(Keys \X (1 .. MaxPush))
    BY <1>4 DEF SessionType
  <2>2. Head(sess.wire) \in Keys \X (1 .. MaxPush) /\ Head(sess.wire) = sess.wire[1] /\ 1 \in DOMAIN sess.wire
        /\ Tail(sess.wire) \in Seq(Keys \X (1 .. MaxPush))
    BY <2>1, <1>2
  <2>3. Head(sess.wire) = <<k, serial>> /\ k \in Keys /\ serial \in 1 .. MaxPush
    BY <2>2, <1>0
  <2>4. <<k, serial>> \in OnWire
    BY <2>2, <2>3 DEF OnWire
  <2>5. serial <= prod.serial
    BY <2>4, <1>5 DEF Serving
  <2>. QED BY <2>2, <2>3, <2>4, <2>5
<1>8. /\ sess' \in SessionType /\ sess'.key = sess.key /\ sess'.from = sess.from /\ sess'.to = sess.to
      /\ sess'.match = sess.match /\ sess'.pc = sess.pc /\ sess'.wire = Tail(sess.wire) /\ sess' # NoSession
  <2>. DEFINE tail == Tail(sess.wire)
  <2>1. tail \in Seq(Keys \X (1 .. MaxPush)) /\ sess' = [sess EXCEPT !.wire = tail]
    BY <1>2, <1>7
  <2>. HIDE DEF tail
  <2>2. /\ sess' \in SessionType /\ sess'.key = sess.key /\ sess'.from = sess.from /\ sess'.to = sess.to
        /\ sess'.match = sess.match /\ sess'.pc = sess.pc /\ sess'.wire = tail
    BY <2>1, <1>4 DEF SessionType
  <2>3. sess' # NoSession
    BY <2>2, <1>2 DEF NoSession
  <2>. QED BY <2>2, <2>3 DEF tail
<1>9. OnWire' \subseteq OnWire /\ OnWire \subseteq OnWire' \cup {<<k, serial>>}
  <2>. DEFINE s == sess.wire
              S == Keys \X (1 .. MaxPush)
  <2>1. s \in Seq(S) /\ s # << >> /\ s[1] = <<k, serial>>
    BY <1>2, <1>4, <1>7 DEF SessionType
  <2>. HIDE DEF s, S
  <2>2. /\ \A p \in DOMAIN Tail(s) : p + 1 \in DOMAIN s /\ Tail(s)[p] = s[p + 1]
        /\ \A p \in DOMAIN s : p = 1 \/ (p - 1 \in DOMAIN Tail(s) /\ Tail(s)[p - 1] = s[p])
    BY <2>1
  <2>3. OnWire' = {Tail(s)[p] : p \in DOMAIN Tail(s)} /\ OnWire = {s[p] : p \in DOMAIN s}
    BY <1>8 DEF OnWire, s
  <2>4. ASSUME NEW e \in OnWire' PROVE e \in OnWire
    <3>1. PICK p \in DOMAIN Tail(s) : e = Tail(s)[p]
      BY <2>3, <2>4
    <3>. QED BY <3>1, <2>2, <2>3
  <2>5. ASSUME NEW e \in OnWire, e # <<k, serial>> PROVE e \in OnWire'
    <3>1. PICK p \in DOMAIN s : e = s[p]
      BY <2>3, <2>5
    <3>2. p - 1 \in DOMAIN Tail(s) /\ Tail(s)[p - 1] = s[p]
      BY <3>1, <2>1, <2>2, <2>5
    <3>. QED BY <3>1, <3>2, <2>3
  <2>. QED BY <2>4, <2>5
<1>10. \A i \in DOMAIN cons.rules : Concerns(i, k) => Tuple(i, serial) \in to
  BY DEF Concerns, Tuple, RuleDue
<1>11. \A t \in to : /\ t \in Clients \X Nat \X (1 .. MaxPush) /\ t[3] = serial
                     /\ \E i \in DOMAIN cons.rules : Concerns(i, k) /\ t = Tuple(i, serial) /\ t[2] = cons.rules[i].id
  <2>1. ASSUME NEW i \in DOMAIN cons.rules PROVE Tuple(i, serial) \in Clients \X Nat \X (1 .. MaxPush)
    BY <2>1, <1>7, Bounds DEF Tuple
  <2>. QED BY <2>1 DEF Concerns, Tuple, RuleDue
<1>. HIDE DEF to
\* The two cases: what they have in common.
<1>12. /\ cons' \in ConsumerType /\ cons'.rules = cons.rules /\ cons'.nextRulesId = cons.nextRulesId
       /\ cons'.remote # NoCache /\ cons'.remote.routed = r.routed \cup {serial}
       /\ SameButRouted(r, cons'.remote)
  <2>1. CASE serial \in r.routed
    BY <2>1, <1>1, <1>3, <1>5 DEF SameButRouted
  <2>2. CASE serial \notin r.routed
    <3>. DEFINE s == [r EXCEPT !.routed = r.routed \cup {serial}]
    <3>1. s \in RemoteType /\ s.routed = r.routed \cup {serial} /\ s # NoCache
          /\ SameButRouted(r, s)
      <4>1. r.routed \cup {serial} \in SUBSET (1 .. MaxPush)
        BY <1>6, <1>7 DEF RemoteType
      <4>2. s \in RemoteType /\ s.routed = r.routed \cup {serial}
        BY <4>1, <1>6 DEF RemoteType
      <4>3. s.state \in {"IDLE", "IN_PROGRESS"} /\ NoCache.state = "NONE"
        BY <4>2 DEF RemoteType, NoCache
      <4>4. SameButRouted(r, s)
        BY <1>6 DEF RemoteType, SameButRouted
      <4>. QED BY <4>2, <4>3, <4>4
    <3>2. cons' = [cons EXCEPT !.remote = s]
      BY <1>3, <2>2
    <3>. HIDE DEF s
    <3>. QED BY <3>1, <3>2, <1>1 DEF ConsumerType
  <2>. QED BY <2>1, <2>2
<1>13. /\ hist'.got \cup hist'.skipped = hist.got \cup hist.skipped \cup to
       /\ hist'.got \subseteq hist.got \cup to
       /\ hist'.added = hist.added /\ hist'.faults = hist.faults /\ hist'.dropped = hist.dropped
       /\ hist'.again = (hist.again \/ (serial \notin r.routed /\ to \cap hist.got # {}))
       /\ History'
  <2>1. to \subseteq Clients \X Nat \X (1 .. MaxPush) /\ \A t \in to : t[3] <= prod.serial
    BY <1>7, <1>11
  <2>2. CASE serial \in r.routed
    <3>1. hist' = [got |-> hist.got, again |-> hist.again, skipped |-> hist.skipped \cup (to \ hist.got),
                   dropped |-> hist.dropped, added |-> hist.added, faults |-> hist.faults]
      BY <2>2, <1>1, <1>3 DEF History
    <3>2. History'
      BY <2>1, <3>1, <1>1, <1>2 DEF History
    <3>3. hist'.again = (hist.again \/ (serial \notin r.routed /\ to \cap hist.got # {}))
      BY <2>2, <3>1, <1>1 DEF History
    <3>. QED BY <3>1, <3>2, <3>3
  <2>3. CASE serial \notin r.routed
    <3>. DEFINE a == (hist.again \/ to \cap hist.got # {})
    <3>1. hist' = [got |-> hist.got \cup to, again |-> a, skipped |-> hist.skipped,
                   dropped |-> hist.dropped, added |-> hist.added, faults |-> hist.faults]
      BY <2>3, <1>1, <1>3 DEF History
    <3>2. a \in BOOLEAN
      BY <1>1 DEF History
    <3>3. a = (hist.again \/ (serial \notin r.routed /\ to \cap hist.got # {}))
      BY <2>3
    <3>. HIDE DEF a
    <3>4. History'
      BY <2>1, <3>1, <3>2, <1>1, <1>2 DEF History
    <3>. QED BY <3>1, <3>3, <3>4
  <2>. QED BY <2>2, <2>3
<1>14. /\ Producer' /\ RangePeers' /\ Top' = Top /\ \A l \in Keys : Stored(l)' <=> Stored(l)
  BY <1>1, <1>2, ProducerStays DEF Producer
<1>15. /\ \A x : SignalDue(cons'.remote, x) <=> SignalDue(r, x)
       /\ \A y : RuleDue(cons'.remote, y) <=> RuleDue(r, y)
  BY <1>12 DEF SameButRouted, SignalDue, RuleDue
<1>16. Consuming'
  <2>1. cons'.remote \in RemoteType
    BY <1>12 DEF ConsumerType
  <2>2. Asking(cons'.remote, cons.nextRulesId)
    BY <1>6, <1>12, <1>15 DEF Asking, NewRules, NewSignals, SameButRouted
  <2>3. Remote(cons'.remote, Top, prod.curChangeId, cons.nextRulesId)
    BY <2>1, <2>2, <1>6, <1>12 DEF Remote, SameButRouted
  <2>4. Ruled'
    BY <1>1, <1>12, <1>13 DEF Ruled
  <2>. QED BY <2>3, <2>4, <1>2, <1>12, <1>14 DEF Consuming
<1>17. Serving'
  BY <1>2, <1>5, <1>8, <1>9, <1>12, <1>15 DEF Serving, SameButRouted
<1>18. Passed'
  <2>1. ASSUME NEW i \in DOMAIN cons.rules, NEW l \in Keys, l < sess.key, Stored(l),
               SignalDue(r, prod.localCache[l].id), Concerns(i, l)
        PROVE  \/ <<l, prod.localCache[l].serial>> \in OnWire'
               \/ Tuple(i, prod.localCache[l].serial) \in hist'.got \cup hist'.skipped
    <3>1. <<l, prod.localCache[l].serial>> \in OnWire \/ Has(i, prod.localCache[l].serial)
      BY <2>1, <1>5 DEF Passed
    <3>2. CASE Has(i, prod.localCache[l].serial)
      BY <3>2, <1>13 DEF Has
    <3>3. CASE <<l, prod.localCache[l].serial>> = <<k, serial>>
      <4>1. l = k /\ prod.localCache[l].serial = serial
        BY <3>3
      <4>. QED BY <4>1, <2>1, <1>10, <1>13
    <3>. QED BY <3>1, <3>2, <3>3, <1>9
  <2>. QED BY <2>1, <1>2, <1>8, <1>12, <1>14, <1>15 DEF Passed, Concerns, Has, Tuple
<1>19. Session'
  BY <1>5, <1>8, <1>12, <1>17, <1>18 DEF Session, SameButRouted
<1>20. Done'
  <2>1. \A x : \A i \in DOMAIN cons.rules : Has(i, x) => Tuple(i, x) \in hist'.got \cup hist'.skipped
    BY <1>13 DEF Has
  <2>. QED BY <2>1, <1>1, <1>2, <1>5, <1>12, <1>14 DEF Done, Has, Tuple, SameButRouted
<1>21. NotAgain'
  <2>1. CASE ~Calm
    BY <2>1, <1>13 DEF NotAgain, Calm
  <2>2. CASE Calm
    <3>1. Fresh
      BY <2>2, <1>1, <1>4 DEF Once
    <3>2. serial \in r.routed \/ to \cap hist.got = {}
      <4>1. \A i \in DOMAIN cons.rules : Concerns(i, k) => Tuple(i, serial) \notin hist.got \/ serial \in r.routed
        BY <3>1, <1>7 DEF Fresh
      <4>. QED BY <4>1, <1>11
    <3>3. hist'.again => hist.again
      BY <3>2, <1>13
    <3>. QED BY <3>3, <1>1, <1>13 DEF NotAgain
  <2>. QED BY <2>1, <2>2
<1>22. Calm' => Once'
  <2>. SUFFICES ASSUME Calm' PROVE Once'
    OBVIOUS
  <2>1. Once /\ Covered /\ Routed /\ Fresh
    BY <1>1, <1>4, <1>5, <1>13 DEF Calm, Once, Marked
  <2>2. Covered'
    <3>1. ASSUME NEW t \in hist'.got, NEW l \in Keys, Stored(l), prod.localCache[l].serial = t[3]
          PROVE  \/ t[3] \in r.routed \cup {serial}
                 \/ prod.localCache[l].id <= Val(r.receivedChangeId) /\ t[2] <= Val(r.appliedRulesId)
      BY <2>1, <3>1, <1>11, <1>13 DEF Covered
    <3>. QED BY <3>1, <1>2, <1>12, <1>14 DEF Covered, SameButRouted
  <2>3. Routed'
    <3>1. ASSUME NEW t \in hist'.got, NEW l \in Keys, Stored(l), prod.localCache[l].serial = t[3],
                 t[3] \in r.routed \cup {serial}
          PROVE  /\ t[2] < cons.nextRulesId /\ prod.localCache[l].id <= r.changeId
                 /\ t[2] < r.toRulesId /\ prod.localCache[l].id < r.toChangeId
      <4>1. /\ t[2] \in Nat /\ prod.localCache[l].id \in 0 .. MaxPush /\ r.toRulesId \in 1 .. cons.nextRulesId
            /\ r.toChangeId \in 1 .. r.changeId + 1 /\ r.changeId \in Nat /\ cons.nextRulesId \in Nat
            /\ Val(r.receivedChangeId) <= r.toChangeId - 1 /\ Val(r.appliedRulesId) <= r.toRulesId - 1
            /\ Val(r.receivedChangeId) \in Int /\ Val(r.appliedRulesId) \in Int
        <5>1. t[2] \in Nat
          BY <3>1, <1>1, <1>11, <1>13 DEF History
        <5>2. prod.localCache[l].id \in 0 .. MaxPush /\ cons.nextRulesId \in Nat
          BY <3>1, Bounds
        <5>3. Val(r.receivedChangeId) \in Int /\ Val(r.appliedRulesId) \in Int /\ r.changeId \in Nat
          BY <1>6, Numbers DEF RemoteType, Marks, Val
        <5>4. Val(r.receivedChangeId) <= r.toChangeId - 1
          <6>1. r.toChangeId \in Int
            BY <1>6 DEF RemoteType
          <6>2. NewRules(r) => Val(r.receivedChangeId) = r.receivedChangeId
            BY <1>5, MarkSet DEF NewRules
          <6>. QED BY <6>1, <6>2, <5>3, <1>6 DEF Asking, NewRules, NewSignals
        <5>. QED BY <5>1, <5>2, <5>3, <5>4, <1>6 DEF Asking
      <4>2. CASE t \in hist.got /\ t[3] \in r.routed
        BY <4>2, <3>1, <2>1, <1>5 DEF Routed
      <4>3. CASE t \in hist.got /\ t[3] \notin r.routed
        <5>1. prod.localCache[l].id <= Val(r.receivedChangeId) /\ t[2] <= Val(r.appliedRulesId)
          BY <4>3, <3>1, <2>1 DEF Covered
        <5>. QED BY <5>1, <4>1
      <4>4. CASE t \in to
        <5>1. PICK i \in DOMAIN cons.rules : Concerns(i, k) /\ t[2] = cons.rules[i].id
          BY <4>4, <1>11
        <5>2. t[3] = serial
          BY <4>4, <1>11
        <5>3. SignalDue(r, prod.localCache[l].id)
          BY <5>2, <3>1, <2>1, <1>7 DEF Fresh
        <5>4. RuleDue(r, cons.rules[i].id) /\ cons.rules[i].id \in 0 .. MaxRules
          BY <5>1, Bounds DEF Concerns
        <5>5. t[2] < r.toRulesId /\ prod.localCache[l].id < r.toChangeId
          BY <5>1, <5>3, <5>4, <4>1, <1>5, <1>6, DueBounds
        <5>. QED BY <5>5, <4>1
      <4>. QED BY <4>2, <4>3, <4>4, <3>1, <1>13
    <3>. QED BY <3>1, <1>2, <1>12, <1>14 DEF Routed, SameButRouted
  <2>4. Fresh'
    <3>1. ASSUME NEW e \in OnWire', NEW i \in DOMAIN cons.rules, Concerns(i, e[1]), Tuple(i, e[2]) \in hist'.got
          PROVE  e[2] \in r.routed \cup {serial}
      <4>1. CASE Tuple(i, e[2]) \in to
        BY <4>1, <1>11 DEF Tuple
      <4>2. CASE Tuple(i, e[2]) \in hist.got
        BY <4>2, <3>1, <2>1, <1>9 DEF Fresh
      <4>. QED BY <4>1, <4>2, <3>1, <1>13
    <3>2. ASSUME NEW e \in OnWire', NEW l \in Keys, Stored(l), prod.localCache[l].serial = e[2]
          PROVE  SignalDue(r, prod.localCache[l].id)
      BY <3>2, <2>1, <1>9 DEF Fresh
    <3>. QED BY <3>1, <3>2, <1>2, <1>12, <1>14, <1>15 DEF Fresh, Concerns, Tuple
  <2>. QED BY <2>2, <2>3, <2>4, <1>5, <1>12 DEF Once, Marked, SameButRouted
<1>. QED BY <1>13, <1>14, <1>16, <1>19, <1>20, <1>21, <1>22 DEF SignalsInv

\* The later of the mark and the end of a range, as DoSessionLost takes it,
\* is the end of the range.
LEMMA LastValue ==
  ASSUME NEW n \in Nat, n + 1 < Half, NEW to \in 1 .. n + 1, NEW known \in Marks(n), Val(known) <= to - 1
  PROVE  /\ Plus(to, -1) = to - 1
         /\ IS_GREATER(Plus(to, -1), known) <=> Val(known) < to - 1
         /\ (IF IS_GREATER(Plus(to, -1), known) THEN Plus(to, -1) ELSE known) = to - 1
<1>1. Plus(to, -1) = to - 1
  BY Numbers, PlusValue
<1>2. to - 1 \in Marks(n) /\ Val(to - 1) = to - 1
  BY Numbers DEF Marks, Val
<1>3. IS_GREATER(to - 1, known) <=> to - 1 > Val(known)
  BY <1>2, Greater
<1>4. Val(known) \in Int
  BY Numbers DEF Marks, Val
<1>5. Val(known) = to - 1 => known = to - 1
  BY Numbers DEF Marks, Val
<1>. QED BY <1>1, <1>3, <1>4, <1>5

\* The cache after a session whose producer has left it.
Received(r, s) ==
  /\ s \in RemoteType /\ s.state = "IDLE" /\ s.haveReceived /\ s.changeId = r.changeId /\ s.routed = {}
  /\ s.receivedChangeId = r.toChangeId - 1 /\ s.appliedRulesId = r.toRulesId - 1

\* DoSessionLost moves the marks to the ends of the ranges, or what is left
\* to do exhausts the retries.
LEMMA GotAllMarks ==
  ASSUME SignalsInv, sess.pc = "left"
  PROVE  /\ GotAll(cons) \in ConsumerType /\ GotAll(cons).rules = cons.rules
         /\ GotAll(cons).nextRulesId = cons.nextRulesId
         /\ GotAll(cons).remote = NoCache \/ Received(cons.remote, GotAll(cons).remote)
<1>1. Producer /\ Consuming /\ Session /\ cons \in ConsumerType
  BY DEF SignalsInv, Consuming
<1>. DEFINE r == cons.remote
            last(to, known) == IF IS_GREATER(Plus(to, -1), known) THEN Plus(to, -1) ELSE known
            rules == last(r.toRulesId, r.appliedRulesId)
            ids == last(r.toChangeId, r.receivedChangeId)
            have == r.haveReceived \/ IS_GREATER(Plus(r.toChangeId, -1), r.receivedChangeId)
            s == [r EXCEPT !.state = "IDLE", !.retries = 0, !.routed = {}, !.appliedRulesId = rules,
                           !.receivedChangeId = ids, !.haveReceived = have]
            c == [cons EXCEPT !.remote = s]
<1>2. GotAll(cons) = ScheduleAll(c)
  BY DEF GotAll
<1>3. sess \in SessionType /\ sess # NoSession
  BY <1>1 DEF Session, NoSession
<1>4. Serving /\ r # NoCache /\ r.state = "IN_PROGRESS"
  BY <1>1, <1>3 DEF Session
<1>5. Remote(r, Top, prod.curChangeId, cons.nextRulesId) /\ r \in RemoteType /\ Asking(r, cons.nextRulesId)
  BY <1>1, <1>4 DEF Consuming, Remote
<1>6. /\ r.toRulesId \in 1 .. MaxRules + 1 /\ r.appliedRulesId \in Marks(MaxRules)
      /\ Val(r.appliedRulesId) <= r.toRulesId - 1
  BY <1>5, Bounds, Numbers DEF Asking, RemoteType
<1>7. /\ r.toChangeId \in 1 .. MaxPush + 1 /\ r.toChangeId <= MaxPush /\ r.receivedChangeId \in Marks(MaxPush)
  <2>1. r.toChangeId = sess.to /\ sess.to <= prod.curChangeId
    BY <1>4 DEF Serving
  <2>. QED BY <2>1, <1>5, Bounds, Numbers DEF Asking, RemoteType
<1>8. Val(r.receivedChangeId) <= r.toChangeId - 1 /\ (r.haveReceived \/ Val(r.receivedChangeId) < r.toChangeId - 1)
  <2>1. CASE NewRules(r)
    <3>1. Val(r.receivedChangeId) = r.receivedChangeId /\ r.receivedChangeId \in Int
      BY <2>1, <1>4, MarkSet DEF NewRules
    <3>. QED BY <2>1, <3>1, <1>7 DEF NewRules
  <2>2. CASE NewSignals(r)
    <3>1. Val(r.receivedChangeId) \in Int
      BY <1>7, Numbers DEF Marks, Val
    <3>. QED BY <2>2, <3>1, <1>7 DEF NewSignals
  <2>. QED BY <2>1, <2>2, <1>5 DEF Asking
<1>9. rules = r.toRulesId - 1 /\ rules \in Marks(MaxRules)
  <2>1. rules = r.toRulesId - 1
    BY <1>6, Numbers, LastValue
  <2>2. r.toRulesId - 1 \in Marks(MaxRules)
    BY <1>6, Numbers DEF Marks
  <2>. QED BY <2>1, <2>2
<1>10. ids = r.toChangeId - 1 /\ ids \in Marks(MaxPush) /\ have = TRUE
  <2>1. ids = r.toChangeId - 1 /\ (IS_GREATER(Plus(r.toChangeId, -1), r.receivedChangeId) <=> Val(r.receivedChangeId) < r.toChangeId - 1)
    BY <1>7, <1>8, Numbers, LastValue
  <2>2. r.toChangeId - 1 \in Marks(MaxPush)
    BY <1>7, Numbers DEF Marks
  <2>3. have = TRUE
    BY <2>1, <1>8
  <2>. QED BY <2>1, <2>2, <2>3
<1>. HIDE DEF rules, ids, have
<1>11. Received(r, s) /\ s # NoCache
  <2>1. 0 \in 0 .. MaxRetries /\ have \in BOOLEAN
    BY <1>10, SessionlessAssumption
  <2>2. /\ s \in RemoteType /\ s.state = "IDLE" /\ s.haveReceived = have /\ s.changeId = r.changeId /\ s.routed = {}
        /\ s.receivedChangeId = ids /\ s.appliedRulesId = rules
    BY <2>1, <1>5, <1>9, <1>10 DEF RemoteType
  <2>. QED BY <2>2, <1>9, <1>10 DEF Received, NoCache
<1>. HIDE DEF s
<1>12. c \in ConsumerType /\ c.rules = cons.rules /\ c.nextRulesId = cons.nextRulesId /\ c.remote = s
  BY <1>1, <1>11 DEF ConsumerType, Received
<1>. HIDE DEF c
<1>13. GotAll(cons) \in {c, [c EXCEPT !.remote = NoCache], [c EXCEPT !.alarm = TRUE]}
  BY <1>2, Scheduled
<1>. QED BY <1>11, <1>12, <1>13 DEF ConsumerType

\* RemoteEndLeft: all that was asked for has been received.
LEMMA RemoteEndLeftSafe ==
  ASSUME SignalsInv, RemoteEndLeft
  PROVE  SignalsInv'
<1>1. Producer /\ Consuming /\ Session /\ History /\ Done /\ cons \in ConsumerType /\ Ruled
  BY DEF SignalsInv, Consuming
<1>. DEFINE r == cons.remote
            d == hist.dropped \/ (cons.remote # NoCache /\ cons'.remote = NoCache)
<1>2. /\ sess.pc = "left" /\ sess.wire = << >> /\ sess' = NoSession /\ prod' = prod /\ air' = air
      /\ cons' = GotAll(cons) /\ hist' = [hist EXCEPT !.dropped = d]
  BY DEF RemoteEndLeft, Consumer
<1>3. sess \in SessionType /\ sess # NoSession
  BY <1>1, <1>2 DEF Session, NoSession
<1>4. Serving /\ Passed /\ r # NoCache /\ r.state = "IN_PROGRESS"
  BY <1>1, <1>3 DEF Session
<1>5. Remote(r, Top, prod.curChangeId, cons.nextRulesId) /\ r \in RemoteType /\ Asking(r, cons.nextRulesId)
  BY <1>1, <1>4 DEF Consuming, Remote
<1>6. /\ cons' \in ConsumerType /\ cons'.rules = cons.rules /\ cons'.nextRulesId = cons.nextRulesId
      /\ cons'.remote = NoCache \/ Received(r, cons'.remote)
  BY <1>2, GotAllMarks
<1>7. hist' = [got |-> hist.got, again |-> hist.again, skipped |-> hist.skipped, dropped |-> d,
               added |-> hist.added, faults |-> hist.faults]
  BY <1>1, <1>2 DEF History
<1>8. /\ History' /\ hist'.added = hist.added /\ hist'.faults = hist.faults /\ hist'.got = hist.got
      /\ hist'.skipped = hist.skipped /\ hist'.again = hist.again /\ hist'.dropped = d
  <2>1. d \in BOOLEAN
    BY <1>1 DEF History
  <2>. HIDE DEF d
  <2>. QED BY <2>1, <1>1, <1>2, <1>7 DEF History
<1>9. ConsumerMoves
  <2>1. hist.dropped => hist'.dropped
    BY <1>8
  <2>2. Ruled'
    BY <1>1, <1>6, <1>8 DEF Ruled
  <2>3. hist.added \in Nat /\ hist.faults \in Nat /\ air \subseteq Names \X (0 .. Top)
    BY <1>1 DEF History, Producer
  <2>. HIDE DEF d
  <2>. QED BY <2>1, <2>2, <2>3, <1>2, <1>6, <1>8 DEF ConsumerMoves
<1>10. CASE cons'.remote = NoCache
  <2>1. hist'.dropped
    BY <1>4, <1>8, <1>10
  <2>. QED BY <2>1, <1>2, <1>9, <1>10, ForgetSafe
<1>11. CASE Received(r, cons'.remote)
  <2>1. /\ Producer' /\ Top' = Top /\ RangePeers' /\ \A k \in Keys : Stored(k)' <=> Stored(k)
    BY <1>2, <1>9, ProducerStays DEF ConsumerMoves
  <2>2. cons'.remote # NoCache
    BY <1>11 DEF Received, NoCache
  <2>3. /\ r.toChangeId \in Int /\ r.toChangeId <= prod.curChangeId /\ r.toChangeId <= r.changeId + 1
        /\ r.toRulesId \in Int /\ r.toRulesId <= cons.nextRulesId /\ r.changeId \in Int
        /\ prod.curChangeId \in Int /\ cons.nextRulesId \in Int
    <3>1. r.toChangeId = sess.to /\ sess.to <= prod.curChangeId
      BY <1>2, <1>4 DEF Serving
    <3>2. r.toChangeId \in Int /\ r.toRulesId \in Int /\ r.changeId \in Int
      BY <1>5 DEF RemoteType
    <3>. QED BY <3>1, <3>2, <1>5, Bounds DEF Asking
  <2>4. Consuming'
    <3>1. Remote(cons'.remote, Top, prod.curChangeId, cons.nextRulesId)
      BY <2>3, <1>5, <1>11 DEF Remote, Received
    <3>. QED BY <3>1, <2>1, <1>2, <1>6, <1>9 DEF Consuming, ConsumerMoves
  <2>5. sess' \notin SessionType /\ Session'
    BY <1>2 DEF Session, SessionType, NoSession
  <2>6. \A k \in Keys : k < sess.key
    <3>1. Cardinality(Keys) \in Nat /\ Keys = 1 .. Cardinality(Keys)
      BY SessionlessAssumption, FS_CardinalityType
    <3>2. sess.key \in Nat /\ sess.key \notin Keys /\ sess.key > 0
      BY <1>2, <1>3, <1>4 DEF Serving, SessionType
    <3>. HIDE DEF r
    <3>3. sess.key > Cardinality(Keys)
      BY <3>1, <3>2
    <3>. QED BY <3>1, <3>2, <3>3
  <2>7. OnWire = {}
    BY <1>2 DEF OnWire
\* What lies before the ends of the ranges the clients have.
  <2>8. ASSUME NEW i \in DOMAIN cons.rules, NEW k \in Keys, Stored(k), Wants[cons.rules[i].client] = Iface[k],
               prod.localCache[k].id <= r.toChangeId - 1, cons.rules[i].id <= r.toRulesId - 1
        PROVE  Has(i, prod.localCache[k].serial)
    <3>. DEFINE x == prod.localCache[k].id
                y == cons.rules[i].id
    <3>1. x \in 0 .. MaxPush /\ y \in 0 .. MaxRules
      BY <2>8, Bounds
    <3>2. SignalDue(r, x) /\ RuleDue(r, y) => Has(i, prod.localCache[k].serial)
      BY <2>6, <2>7, <2>8, <1>4 DEF Passed, Concerns
    <3>3. r.haveReceived /\ x <= r.receivedChangeId /\ y <= r.appliedRulesId => Has(i, prod.localCache[k].serial)
      BY <2>8, <1>1, <1>4 DEF Done
    <3>. HIDE DEF x, y
    <3>4. CASE NewRules(r)
      <4>1. /\ Val(r.appliedRulesId) = r.appliedRulesId /\ r.appliedRulesId \in Int /\ r.receivedChangeId \in Int
            /\ r.toChangeId = r.receivedChangeId + 1 /\ r.haveReceived
        BY <3>4, <1>4, MarkSet DEF NewRules
      <4>2. x <= r.receivedChangeId /\ y < r.toRulesId
        BY <4>1, <3>1, <2>3, <2>8 DEF x, y
      <4>3. SignalDue(r, x) /\ (r.appliedRulesId < y => RuleDue(r, y))
        BY <4>1, <4>2, <3>1, <3>4 DEF NewRules
      <4>. QED BY <4>1, <4>2, <4>3, <3>1, <3>2, <3>3
    <3>5. CASE NewSignals(r)
      <4>1. x < r.toChangeId /\ y < r.toRulesId /\ y <= r.toRulesId - 1
        BY <3>1, <2>3, <2>8 DEF x, y
      <4>2. RuleDue(r, y)
        BY <4>1, <3>1, <3>5 DEF NewSignals
      <4>3. Val(r.receivedChangeId) < x => SignalDue(r, x)
        BY <4>1, <3>1, <3>5 DEF NewSignals
      <4>4. CASE ~(Val(r.receivedChangeId) < x)
        <5>1. r.receivedChangeId \in Marks(MaxPush) /\ (~r.haveReceived => r.receivedChangeId = Modulus - 1)
          BY <1>5 DEF Remote, RemoteType
        <5>2. r.haveReceived
          BY <4>4, <5>1, <3>1, Numbers DEF Val
        <5>3. /\ r.appliedRulesId = r.toRulesId - 1 /\ Val(r.receivedChangeId) = r.receivedChangeId
              /\ r.receivedChangeId \in Int
          BY <5>2, <3>5, <1>4, MarkSet DEF NewSignals
        <5>. QED BY <5>2, <5>3, <4>1, <4>4, <3>1, <3>3
      <4>. QED BY <4>2, <4>3, <4>4, <3>2
    <3>. QED BY <3>4, <3>5, <1>5 DEF Asking
  <2>9. Done'
    <3>1. \A x : \A i \in DOMAIN cons.rules : Has(i, x) => Tuple(i, x) \in hist'.got \cup hist'.skipped
      BY <1>8 DEF Has
    <3>. QED BY <3>1, <2>1, <2>8, <1>2, <1>6, <1>11 DEF Done, Has, Tuple, Received
  <2>10. NotAgain'
    BY <1>9, NotAgainStays DEF ConsumerMoves
  <2>11. Calm' => Once'
    <3>. SUFFICES ASSUME Calm' PROVE Once'
      OBVIOUS
    <3>1. Covered /\ Routed
      BY <1>4, <1>9, CalmBefore DEF ConsumerMoves, Once, Marked
    <3>2. ASSUME NEW t \in hist.got, NEW k \in Keys, Stored(k), prod.localCache[k].serial = t[3]
          PROVE  prod.localCache[k].id <= r.toChangeId - 1 /\ t[2] <= r.toRulesId - 1
      <4>1. t[2] \in Nat /\ prod.localCache[k].id \in Nat
        BY <3>2, <1>1, Bounds DEF History
      <4>2. CASE t[3] \in r.routed
        <5>1. t[2] < r.toRulesId /\ prod.localCache[k].id < r.toChangeId
          BY <4>2, <3>1, <3>2, <1>4 DEF Routed
        <5>. QED BY <5>1, <4>1, <2>3
      <4>3. CASE t[3] \notin r.routed
        <5>1. prod.localCache[k].id <= Val(r.receivedChangeId) /\ t[2] <= Val(r.appliedRulesId)
          BY <4>3, <3>1, <3>2 DEF Covered
        <5>2. Val(r.appliedRulesId) \in Int /\ Val(r.receivedChangeId) \in Int
          BY <1>5, Numbers DEF RemoteType, Marks, Val
        <5>3. Val(r.receivedChangeId) <= r.toChangeId - 1
          <6>1. NewRules(r) => Val(r.receivedChangeId) = r.receivedChangeId
            BY <1>4, MarkSet DEF NewRules
          <6>. QED BY <6>1, <5>2, <2>3, <1>5 DEF Asking, NewRules, NewSignals
        <5>. QED BY <5>1, <5>2, <5>3, <4>1, <2>3, <1>5 DEF Asking
      <4>. QED BY <4>2, <4>3
    <3>3. Covered'
      <4>1. Val(r.toChangeId - 1) = r.toChangeId - 1 /\ Val(r.toRulesId - 1) = r.toRulesId - 1
        BY <2>3, Bounds, Numbers DEF Val
      <4>. QED BY <4>1, <3>2, <2>1, <1>2, <1>8, <1>11 DEF Covered, Received
    <3>4. Routed' /\ cons'.remote.routed = {}
      BY <1>11 DEF Routed, Received
    <3>. QED BY <3>3, <3>4, <2>2, <2>5 DEF Once, Marked
  <2>. QED BY <2>1, <2>4, <2>5, <2>9, <2>10, <2>11, <1>8 DEF SignalsInv
<1>. QED BY <1>6, <1>10, <1>11

----------------------------------------------------------------------------
(* The invariant holds *)

\* At the start nothing is stored, received or asked for.
LEMMA InitSafe ==
  ASSUME RangePeers, Init
  PROVE  SignalsInv
<1>1. /\ prod = [localCache |-> [k \in Keys |-> NoSignal], curChangeId |-> 0, advanceChangeId |-> FALSE,
                 ads |-> [n \in Names |-> None], alarm |-> FALSE, serial |-> 0]
      /\ cons = [rules |-> << >>, nextRulesId |-> 0, finding |-> {}, remote |-> NoCache, alarm |-> FALSE]
      /\ sess = NoSession /\ air = {}
      /\ hist = [got |-> {}, again |-> FALSE, skipped |-> {}, dropped |-> FALSE, added |-> 0, faults |-> 0]
  BY DEF Init
<1>2. Producer
  <2>1. prod \in ProducerType
    BY <1>1, Numbers DEF ProducerType
  <2>2. Top = -1 /\ prod.serial = 0 /\ \A k \in Keys : ~Stored(k)
    BY <1>1 DEF Top, Stored
  <2>3. \A n \in Names : prod.ads[n] = -1
    BY <1>1 DEF None
  <2>. QED BY <2>1, <2>2, <2>3, <1>1 DEF Producer
<1>3. Consuming
  <2>1. << >> \in Seq(RuleType)
    OBVIOUS
  <2>. QED BY <2>1, <1>1, Numbers DEF Consuming, ConsumerType, Ruled
<1>4. NoSession \notin SessionType
  BY DEF NoSession, SessionType
<1>5. Session
  BY <1>1, <1>4 DEF Session
<1>6. History /\ NotAgain /\ Done
  BY <1>1 DEF History, NotAgain, Done
<1>7. Once
  BY <1>1, <1>4 DEF Once, Marked
<1>. QED BY <1>2, <1>3, <1>5, <1>6, <1>7 DEF SignalsInv

\* Every step of the producer, the consumer and the session keeps it.
LEMMA StepSafe ==
  ASSUME SignalsInv, [Next]_vars
  PROVE  SignalsInv'
<1>1. CASE UNCHANGED vars
  <2>1. prod' = prod /\ cons' = cons /\ sess' = sess /\ air' = air /\ hist' = hist
    BY <1>1 DEF vars
  <2>2. Top' = Top /\ OnWire' = OnWire /\ (\A k \in Keys : Stored(k)' <=> Stored(k))
    BY <2>1 DEF Top, OnWire, Stored
  <2>3. RangePeers' /\ Producer' /\ Consuming' /\ History' /\ NotAgain'
    BY <2>1, <2>2 DEF SignalsInv, RangePeers, Producer, Consuming, Ruled, History, NotAgain
  <2>4. Session'
    BY <2>1, <2>2 DEF SignalsInv, Session, Serving, Passed, Concerns, Has, Tuple
  <2>5. Done'
    BY <2>1, <2>2 DEF SignalsInv, Done, Has, Tuple
  <2>6. (Calm => Once)'
    BY <2>1, <2>2 DEF SignalsInv, Calm, Once, Marked, Covered, Routed, Fresh, Concerns, Tuple
  <2>. QED BY <2>3, <2>4, <2>5, <2>6 DEF SignalsInv
<1>2. ASSUME NEW k \in Keys, PushMessage(k) PROVE SignalsInv'
  BY <1>2, PushSafe
<1>3. ASSUME NEW k \in Keys, CancelMessage(k) PROVE SignalsInv'
  BY <1>3, CancelSafe
<1>4. CASE Advertise
  BY <1>4, AdvertiseSafe
<1>5. CASE Request
  BY <1>5, RequestSafe
<1>6. CASE Serve
  BY <1>6, ServeSafe
<1>7. CASE Leave
  BY <1>7, LeaveSafe
<1>8. ASSUME NEW e \in Clients, AddRule(e) PROVE SignalsInv'
  BY <1>8, AddRuleSafe
<1>9. ASSUME NEW e \in Clients, RemoveRule(e) PROVE SignalsInv'
  BY <1>9, RemoveRuleSafe
<1>10. ASSUME NEW ad, Found(ad) PROVE SignalsInv'
  BY <1>10, FoundSafe
<1>11. ASSUME NEW peer \in Peers, Joined(peer) PROVE SignalsInv'
  BY <1>11, JoinedSafe
<1>12. CASE Work
  BY <1>12, WorkSafe
<1>13. CASE Rest
  BY <1>13, RestSafe
<1>14. CASE SessionFails
  BY <1>14, SessionFailsSafe
<1>15. CASE Route
  BY <1>15, RouteSafe
<1>16. CASE RemoteEndLeft
  BY <1>16, RemoteEndLeftSafe
<1>17. CASE NameOwnerChanged(Cancels)
  BY <1>17, NameOwnerSafe
<1>18. ASSUME NEW range, LateRequest(range) PROVE SignalsInv'
  BY <1>18, LateRequestSafe
<1>. QED
  BY <1>17, <1>18, <1>1, <1>2, <1>3, <1>4, <1>5, <1>6, <1>7, <1>8, <1>9, <1>10, <1>11, <1>12, <1>13, <1>14, <1>15, <1>16 DEF Next

\* The plain numbers of Done are those that IS_GREATER compares.
LEMMA DoneIsComplete ==
  ASSUME SignalsInv
  PROVE  Complete
<1>. SUFFICES ASSUME cons.remote # NoCache, cons.remote.haveReceived,
                     NEW i \in DOMAIN cons.rules, NEW k \in Keys,
                     Stored(k), Wants[cons.rules[i].client] = Iface[k],
                     ~IS_GREATER(prod.localCache[k].id, cons.remote.receivedChangeId),
                     ~IS_GREATER(cons.rules[i].id, cons.remote.appliedRulesId)
              PROVE  Has(i, prod.localCache[k].serial)
  BY DEF Complete, Has, Tuple
<1>. DEFINE x == prod.localCache[k].id
            y == cons.rules[i].id
            a == cons.remote.receivedChangeId
            b == cons.remote.appliedRulesId
<1>1. x \in 0 .. MaxPush /\ y \in 0 .. MaxRules /\ a \in 0 .. MaxPush /\ b \in 0 .. MaxRules
  BY Bounds, MarkSet
<1>2. ~IS_GREATER(x, a) /\ ~IS_GREATER(y, b)
  OBVIOUS
<1>. HIDE DEF x, y, a, b
<1>3. /\ {x, a} \subseteq Marks(MaxPush) /\ Val(x) = x /\ Val(a) = a
      /\ {y, b} \subseteq Marks(MaxRules) /\ Val(y) = y /\ Val(b) = b
  BY <1>1, Numbers DEF Marks, Val
<1>4. x <= a
  <2>1. IS_GREATER(x, a) <=> Val(x) > Val(a)
    BY <1>3, Numbers, Greater
  <2>. QED BY <2>1, <1>1, <1>2, <1>3
<1>5. y <= b
  <2>1. IS_GREATER(y, b) <=> Val(y) > Val(b)
    BY <1>3, Numbers, Greater
  <2>. QED BY <2>1, <1>1, <1>2, <1>3
<1>. QED BY <1>4, <1>5 DEF SignalsInv, Done, x, y, a, b

\* What the consumer records as received its clients have been given,
\* whatever is stored, replaced, cancelled, added, removed or lost while
\* HandleRangeRequest, RouteSessionlessMessage and DoSessionLost run.
THEOREM SignalsComplete == RangePeers /\ Spec => []Complete
<1>1. RangePeers /\ Init => SignalsInv
  BY InitSafe
<1>2. SignalsInv /\ [Next]_vars => SignalsInv'
  BY StepSafe
<1>3. SignalsInv => Complete
  BY DoneIsComplete
<1>. QED BY <1>1, <1>2, <1>3, PTL DEF Spec

\* RouteSessionlessMessage gives no client the same signal twice by the same
\* rule, unless a cache was forgotten or a rule added after a failure.
THEOREM SignalsOnce == RangePeers /\ Spec => []NotAgain
<1>1. RangePeers /\ Init => SignalsInv
  BY InitSafe
<1>2. SignalsInv /\ [Next]_vars => SignalsInv'
  BY StepSafe
<1>3. SignalsInv => NotAgain
  BY DEF SignalsInv
<1>. QED BY <1>1, <1>2, <1>3, PTL DEF Spec

LateTyped == late \subseteq Int \X Int

\* A request that outlives its session has the session's range.
LEMMA LateTypedStep ==
  ASSUME SignalsInv, LateTyped, [Next]_vars
  PROVE  LateTyped'
<1>1. CASE SessionFails
  <2>1. sess.pc = "asked" => sess \in SessionType
    BY DEF SignalsInv, Session, NoSession
  <2>2. sess \in SessionType => sess.from \in Int /\ sess.to \in Int
    BY DEF SessionType
  <2>. QED BY <1>1, <2>1, <2>2 DEF SessionFails, LateTyped
<1>2. ASSUME NEW range, LateRequest(range) PROVE LateTyped'
  BY <1>2 DEF LateRequest, LateTyped
<1>3. CASE late' = late
  BY <1>3 DEF LateTyped
<1>. QED
  BY <1>1, <1>2, <1>3 DEF Next, vars, PushMessage, CancelMessage, NameOwnerChanged, Advertise, Request, Serve, Leave,
     AddRule, RemoveRule, Found, Joined, Work, Rest, Route, RemoteEndLeft

\* The invariant has the types in it.
LEMMA SignalsTypes ==
  ASSUME SignalsInv, LateTyped
  PROVE  TypeOK
<1>1. Producer /\ Consuming /\ Session
  BY DEF SignalsInv
<1>2. Ids = 0 .. Modulus - 1 /\ 0 .. MaxPush \subseteq Ids /\ 0 .. MaxRules \subseteq Ids
  BY Numbers DEF Ids
<1>3. prod.localCache \in [Keys -> {NoSignal} \cup [id : Ids, serial : Serials]]
  <2>1. prod.localCache \in [Keys -> {NoSignal} \cup [id : Nat, serial : Nat]]
    BY <1>1 DEF Producer, ProducerType
  <2>2. ASSUME NEW k \in Keys PROVE prod.localCache[k] \in {NoSignal} \cup [id : Ids, serial : Serials]
    BY <2>2, <1>2, Bounds DEF Stored, Serials
  <2>. QED BY <2>1, <2>2
<1>4. prod.ads \in [Names -> Ids \cup {None}]
  <2>1. prod.ads \in [Names -> Nat \cup {None}] /\ \A n \in Names : prod.ads[n] <= Top
    BY <1>1 DEF Producer, ProducerType
  <2>2. ASSUME NEW n \in Names PROVE prod.ads[n] \in Ids \cup {None}
    BY <2>1, <2>2, Bounds, Numbers DEF Ids, None
  <2>. QED BY <2>1, <2>2
<1>5. {prod.alarm, prod.advanceChangeId, cons.alarm} \subseteq BOOLEAN /\ cons.finding \subseteq Names
  BY <1>1 DEF Producer, ProducerType, Consuming, ConsumerType
<1>6. cons.rules \in Seq([client : Clients, id : Ids])
  <2>1. cons.rules \in Seq(RuleType)
    BY <1>1 DEF Consuming, ConsumerType
  <2>2. ASSUME NEW i \in DOMAIN cons.rules PROVE cons.rules[i] \in [client : Clients, id : Ids]
    <3>1. cons.rules[i] \in RuleType
      BY <2>1, <2>2
    <3>. QED BY <3>1, <2>2, <1>2, Bounds DEF RuleType
  <2>. DEFINE S == [client : Clients, id : Ids]
              n == Len(cons.rules)
  <2>3. n \in Nat /\ cons.rules \in [1 .. n -> S]
    BY <2>1, <2>2
  <2>. HIDE DEF n, S
  <2>4. cons.rules \in Seq(S)
    BY <2>3, SeqDef, Zenon
  <2>. QED BY <2>4 DEF S
<1>7. ASSUME cons.remote # NoCache
      PROVE  /\ cons.remote.ifaces \subseteq Ifaces /\ cons.remote.retries \in 0 .. MaxRetries
             /\ cons.remote.routed \subseteq Serials
             /\ {cons.remote.changeId, cons.remote.receivedChangeId, cons.remote.appliedRulesId} \subseteq Ids
  <2>1. cons.remote \in RemoteType /\ cons.remote.changeId <= Top
    BY <1>1, <1>7 DEF Consuming, Remote
  <2>2. cons.remote.ifaces \subseteq Ifaces /\ cons.remote.retries \in 0 .. MaxRetries /\ cons.remote.routed \subseteq Serials
    BY <2>1 DEF RemoteType, Serials
  <2>3. cons.remote.changeId \in Ids
    BY <2>1, Bounds, Numbers DEF RemoteType, Ids
  <2>4. cons.remote.receivedChangeId \in Ids /\ cons.remote.appliedRulesId \in Ids
    BY <2>1, Numbers DEF RemoteType, Marks, Ids
  <2>. QED BY <2>2, <2>3, <2>4
<1>8. sess # NoSession => cons.remote.state = "IN_PROGRESS"
  BY <1>1 DEF Session
<1>9. air \subseteq Names \X Ids
  <2>1. 0 .. Top \subseteq Ids
    BY Bounds, Numbers DEF Ids
  <2>. QED BY <2>1, <1>1 DEF Producer
<1>10. prod.curChangeId \in Ids /\ prod.serial \in 0 .. MaxPush /\ cons.nextRulesId \in Ids
  BY <1>2, Bounds
<1>. QED BY <1>3, <1>4, <1>5, <1>6, <1>7, <1>8, <1>9, <1>10 DEF TypeOK, LateTyped

\* Every field keeps its type: no id wraps around, no cache is retried more
\* than MAX_JOINSESSION_RETRIES times, and a session has a cache in progress.
THEOREM SignalsTyped == RangePeers /\ Spec => []TypeOK
<1>1. RangePeers /\ Init => SignalsInv
  BY InitSafe
<1>2. SignalsInv /\ [Next]_vars => SignalsInv'
  BY StepSafe
<1>3. Init => LateTyped
  BY DEF Init, LateTyped
<1>4. SignalsInv /\ LateTyped /\ [Next]_vars => LateTyped'
  BY LateTypedStep
<1>5. SignalsInv /\ LateTyped => TypeOK
  BY SignalsTypes
<1>. QED BY <1>1, <1>2, <1>3, <1>4, <1>5, PTL DEF Spec

=============================================================================
