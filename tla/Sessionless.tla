---------------------------- MODULE Sessionless ----------------------------
(***************************************************************************)
(* SessionlessObj: signals without a session.  The daemon of the producer  *)
(* stores them in its local cache, numbers them with change ids and        *)
(* advertises the newest id; the daemon of the consumer, whose clients     *)
(* have match rules numbered with rules ids, joins a session to fetch a    *)
(* range of change ids for a range of rules, and leaves it.  The module    *)
(* has one object in each role; the other role of each is idle.            *)
(***************************************************************************)
EXTENDS Integers, Sequences, FiniteSets

CONSTANTS Keys,        \* 1 .. K: the keys of the local cache in their order
          Ifaces,      \* the interfaces
          Iface,       \* the interface of each key
          Clients,     \* the consumer's clients
          Wants,       \* the interface in each client's rule
          Peers,       \* what a producer may be found to understand
          Modulus,     \* of the change ids and rules ids (2^32)
          MaxRetries,  \* MAX_JOINSESSION_RETRIES (50)
          MaxPush,     \* signals pushed
          MaxRules,    \* rules added
          Leavers,     \* clients that may remove a rule
          Repeaters,   \* clients that may add their rule again
          Cancels,     \* the keys of a sender that cancels and may leave
          Expiring,    \* keys whose signals may expire
          Heard,       \* advertised names that reach the consumer
          MaxFaults    \* sessions that fail

ASSUME SessionlessAssumption ==
  /\ IsFiniteSet(Keys) /\ Keys = 1 .. Cardinality(Keys) /\ Iface \in [Keys -> Ifaces] /\ Wants \in [Clients -> Ifaces]
  /\ Peers \subseteq {"match", "range", "signals"} /\ Leavers \cup Repeaters \subseteq Clients
  /\ Cancels \subseteq Keys /\ Expiring \subseteq Keys /\ Heard \subseteq Ifaces \cup {"any"}
  /\ MaxRetries \in Nat /\ MaxPush \in Nat /\ MaxRules \in Nat /\ MaxFaults \in Nat
  /\ Modulus \in Nat /\ MaxPush + 1 < (Modulus - 1) \div 2 /\ MaxRules + 1 < (Modulus - 1) \div 2

VARIABLES prod,  \* the producer's object
          cons,  \* the consumer's object, with its cache of the producer
          sess,  \* the session between them and what is on its way in it
          air,   \* advertised names that the consumer has not been told of
          hist,  \* what the clients got
          late   \* requests of sessions that the consumer has lost

vars == <<prod, cons, sess, air, hist, late>>

----------------------------------------------------------------------------
(* Numbers that wrap around *)

Plus(a, b) == (a + b) % Modulus
Half == (Modulus - 1) \div 2

IN_WINDOW(beg, sz, p) ==
  LET end == Plus(beg, sz)
  IN  \/ end > beg /\ p >= beg /\ p < end
      \/ end < beg /\ ~(p < beg /\ p >= end)

IS_GREATER(a, b) == IN_WINDOW(b, Half, a) /\ a # b

InRange(from, to, p) == IN_WINDOW(from, Plus(to, -from), p)

----------------------------------------------------------------------------

\* The v0 name is advertised for signals of any interface.
Wildcard == "any"
Names == Ifaces \cup {Wildcard}
None == -1
NoSignal == [id |-> None, serial |-> 0]
NoCache == [state |-> "NONE"]
NoSession == [pc |-> "none"]

Init ==
  /\ prod = [localCache |-> [k \in Keys |-> NoSignal], curChangeId |-> 0, advanceChangeId |-> FALSE,
             ads |-> [n \in Names |-> None], alarm |-> FALSE, serial |-> 0]
  /\ cons = [rules |-> << >>, nextRulesId |-> 0, finding |-> {}, remote |-> NoCache, alarm |-> FALSE]
  /\ sess = NoSession /\ air = {} /\ late = {}
  /\ hist = [got |-> {}, again |-> FALSE, skipped |-> {}, dropped |-> FALSE, added |-> 0, faults |-> 0]

----------------------------------------------------------------------------
(* The producer *)

Stored(k) == prod.localCache[k] # NoSignal

\* A signal replaces the one with the same key.
PushMessage(k) ==
  /\ prod.serial < MaxPush
  /\ prod' = [prod EXCEPT !.localCache[k] = [id |-> prod.curChangeId, serial |-> prod.serial + 1],
                          !.advanceChangeId = TRUE, !.alarm = TRUE, !.serial = @ + 1]
  /\ UNCHANGED <<cons, sess, air, hist, late>>

\* CancelMessage, of one signal.
CancelMessage(k) ==
  /\ k \in Cancels /\ Stored(k)
  /\ prod' = [prod EXCEPT !.localCache[k] = NoSignal, !.alarm = TRUE]
  /\ UNCHANGED <<cons, sess, air, hist, late>>

\* NameOwnerChanged: the sender of these signals leaves.  The advertiser is
\* alerted only if no signal of any sender is left.
NameOwnerChanged(ks) ==
  LET cache == [k \in Keys |-> IF k \in ks THEN NoSignal ELSE prod.localCache[k]]
  IN  /\ \E k \in ks : Stored(k)
      /\ prod' = [prod EXCEPT !.localCache = cache,
                              !.alarm = @ \/ \A k \in Keys : cache[k] = NoSignal]
      /\ UNCHANGED <<cons, sess, air, hist, late>>

\* What to advertise: the highest change id of each interface and of all.
Newest(cache, n) ==
  LET ids == {cache[k].id : k \in {k \in Keys : cache[k] # NoSignal /\ n \in {Iface[k], Wildcard}}}
  IN  IF ids = {} THEN None ELSE CHOOSE a \in ids : \A b \in ids : a >= b

UpdateAdvertisements(cache, ads) ==
  [n \in Names |-> LET new == Newest(cache, n)
                   IN  IF new # None /\ ads[n] # None /\ ~IS_GREATER(new, ads[n]) THEN ads[n] ELSE new]

\* AlarmTriggered in the producer.
Advertise ==
  /\ prod.alarm
  /\ \E old \in SUBSET {k \in Expiring : Stored(k)} :
       LET cache == [k \in Keys |-> IF k \in old THEN NoSignal ELSE prod.localCache[k]]
           ads == UpdateAdvertisements(cache, prod.ads)
       IN  /\ prod' = [prod EXCEPT !.localCache = cache, !.ads = ads, !.alarm = FALSE]
           /\ air' = air \cup {<<n, ads[n]>> : n \in {n \in Heard : ads[n] \notin {None, prod.ads[n]}}}
  /\ UNCHANGED <<cons, sess, hist, late>>

\* Mutant: the change id is not advanced by a request.
Request_SameId ==
  /\ sess.pc = "asked" /\ UNCHANGED prod
  /\ sess' = [sess EXCEPT !.pc = "serving", !.to = IF sess.peer = "signals" THEN Plus(prod.curChangeId, 1) ELSE @]
  /\ UNCHANGED <<cons, air, hist, late>>

\* HandleRangeRequest: the next signal that is stored gets a new change id.
AdvanceChangeId(p) ==
  IF p.advanceChangeId THEN [p EXCEPT !.curChangeId = Plus(@, 1), !.advanceChangeId = FALSE] ELSE p

Request ==
  /\ sess.pc = "asked"
  /\ prod' = AdvanceChangeId(prod)
  /\ sess' = [sess EXCEPT !.pc = "serving", !.to = IF sess.peer = "signals" THEN Plus(prod.curChangeId, 1) ELSE @]
  /\ UNCHANGED <<cons, air, hist, late>>

\* ... one key after the other, with the lock released for each signal sent.
Serve ==
  /\ sess.pc = "serving" /\ sess.key \in Keys
  /\ LET k == sess.key
         due == Stored(k) /\ InRange(sess.from, sess.to, prod.localCache[k].id)
         send == due /\ (sess.match = {} \/ Iface[k] \in sess.match)
     IN  \/ /\ due /\ k \in Expiring
            /\ prod' = [prod EXCEPT !.localCache[k] = NoSignal]
            /\ sess' = [sess EXCEPT !.key = @ + 1, !.erased = TRUE]
         \/ /\ UNCHANGED prod
            /\ sess' = [sess EXCEPT !.key = @ + 1,
                 !.wire = IF send THEN Append(@, <<k, prod.localCache[k].serial>>) ELSE @]
  /\ UNCHANGED <<cons, air, hist, late>>

\* ... and then the producer leaves the session.
Leave ==
  /\ sess.pc = "serving" /\ sess.key \notin Keys
  /\ prod' = [prod EXCEPT !.alarm = @ \/ sess.erased]
  /\ sess' = [sess EXCEPT !.pc = "left"]
  /\ UNCHANGED <<cons, air, hist, late>>

\* The same for a request on its way when the session was lost: no signal
\* arrives any more, but those of the range that have expired are erased.
LateRequest(range) ==
  /\ range \in late /\ late' = late \ {range}
  /\ \E old \in SUBSET {k \in Expiring : Stored(k) /\ InRange(range[1], range[2], prod.localCache[k].id)} :
       prod' = [AdvanceChangeId(prod) EXCEPT
                  !.localCache = [k \in Keys |-> IF k \in old THEN NoSignal ELSE prod.localCache[k]],
                  !.alarm = @ \/ old # {}]
  /\ UNCHANGED <<cons, sess, air, hist>>

----------------------------------------------------------------------------
(* The consumer: what there is to do *)

\* The wildcard's interface is no rule's.  All names of this producer carry
\* version 1, so that the branch for version 0 is not taken.
IsMatch(c, from, to) ==
  \E i \in DOMAIN c.rules : /\ InRange(from, to, c.rules[i].id)
                            /\ Wants[c.rules[i].client] \in c.remote.ifaces

PendingWork(c) ==
  IF c.remote.haveReceived /\ IS_GREATER(Plus(c.nextRulesId, -1), c.remote.appliedRulesId)
  THEN IF IsMatch(c, Plus(c.remote.appliedRulesId, 1), c.nextRulesId) THEN "APPLY_NEW_RULES" ELSE "NONE"
  ELSE IF /\ IS_GREATER(c.remote.changeId, c.remote.receivedChangeId)
          /\ IsMatch(c, Plus(c.remote.appliedRulesId, -Half), c.nextRulesId)
       THEN "REQUEST_NEW_SIGNALS" ELSE "NONE"

\* ScheduleWork for one cache: the alarm will come at nextJoinTime.
ScheduleWork(c) ==
  IF c.remote.state # "IDLE" THEN c
  ELSE IF c.remote.retries >= MaxRetries THEN [c EXCEPT !.remote = NoCache]
  ELSE [c EXCEPT !.alarm = TRUE]

\* ... and for all with work to do.
ScheduleAll(c) ==
  IF c.remote = NoCache THEN c ELSE IF PendingWork(c) = "NONE" THEN c ELSE ScheduleWork(c)

\* The cache is forgotten when its retries are exhausted.
Consumer(c) ==
  /\ cons' = c
  /\ hist' = [hist EXCEPT !.dropped = @ \/ (cons.remote # NoCache /\ c.remote = NoCache)]

HasRule(e) == \E i \in DOMAIN cons.rules : cons.rules[i].client = e

\* A discovery that starts reports the names that are advertised already.
AddRule(e) ==
  LET isNewRule == ~HasRule(e)
      new == [client |-> e, id |-> cons.nextRulesId]
      added == [cons EXCEPT !.rules = Append(@, new), !.nextRulesId = IF isNewRule THEN Plus(@, 1) ELSE @]
  IN  /\ hist.added < MaxRules /\ (isNewRule \/ e \in Repeaters)
      /\ cons' = [ScheduleAll(added) EXCEPT !.finding = @ \cup {Wants[e], Wildcard}]
      /\ hist' = [hist EXCEPT !.added = @ + 1, !.dropped = @ \/ (cons.remote # cons'.remote)]
      /\ air' = air \cup {<<n, prod.ads[n]>> : n \in
                            {n \in Heard \cap (cons'.finding \ cons.finding) : prod.ads[n] # None}}
      /\ UNCHANGED <<prod, sess, late>>

\* RemoveRule takes the oldest of the client's rules that are equal.
RemoveRule(e) ==
  LET first == CHOOSE i \in DOMAIN cons.rules :
                 /\ cons.rules[i].client = e
                 /\ \A j \in 1 .. i - 1 : cons.rules[j].client # e
      rest == SubSeq(cons.rules, 1, first - 1) \o SubSeq(cons.rules, first + 1, Len(cons.rules))
  IN  /\ e \in Leavers /\ HasRule(e)
      /\ cons' = [cons EXCEPT !.rules = rest, !.finding = IF rest = << >> THEN {} ELSE @]
      /\ UNCHANGED <<prod, sess, air, hist, late>>

\* FoundAdvertisedNameHandler: names come late and in any order.
Found(ad) ==
  /\ ad \in air /\ ad[1] \in cons.finding
  /\ LET iface == {ad[1]} \ {Wildcard}
         id == ad[2]
         fresh == [state |-> "IDLE", ifaces |-> iface, changeId |-> id, haveReceived |-> FALSE,
                   receivedChangeId |-> Modulus - 1, appliedRulesId |-> Modulus - 1, retries |-> 0,
                   fromChangeId |-> 0, toChangeId |-> 0, fromRulesId |-> 0, toRulesId |-> 0, routed |-> {}]
         remote == IF cons.remote = NoCache THEN fresh
                   ELSE [cons.remote EXCEPT !.ifaces = @ \cup iface,
                                            !.changeId = IF IS_GREATER(id, @) THEN id ELSE @]
     IN  Consumer(ScheduleAll([cons EXCEPT !.remote = remote]))
  /\ air' = air \ {ad} /\ UNCHANGED <<prod, sess, late>>

----------------------------------------------------------------------------
(* The consumer: sessions *)

Fault == hist.faults < MaxFaults
Failed == [hist EXCEPT !.faults = @ + 1]

\* Mutant: the range starts at the last id received instead of after it.
WorkItem_Overlap(c) ==
  LET r == c.remote
  IN  IF PendingWork(c) = "APPLY_NEW_RULES"
      THEN [r EXCEPT !.fromChangeId = Plus(r.receivedChangeId, -Half),
                     !.toChangeId = Plus(r.receivedChangeId, 1),
                     !.fromRulesId = Plus(r.appliedRulesId, 1), !.toRulesId = c.nextRulesId]
      ELSE [r EXCEPT !.fromChangeId = r.receivedChangeId,
                     !.toChangeId = Plus(r.changeId, 1),
                     !.fromRulesId = Plus(r.appliedRulesId, -Half), !.toRulesId = c.nextRulesId]

\* The ranges to ask for.
WorkItem(c) ==
  LET r == c.remote
  IN  IF PendingWork(c) = "APPLY_NEW_RULES"
      THEN [r EXCEPT !.fromChangeId = Plus(r.receivedChangeId, -Half),
                     !.toChangeId = Plus(r.receivedChangeId, 1),
                     !.fromRulesId = Plus(r.appliedRulesId, 1), !.toRulesId = c.nextRulesId]
      ELSE [r EXCEPT !.fromChangeId = Plus(r.receivedChangeId, 1),
                     !.toChangeId = Plus(r.changeId, 1),
                     !.fromRulesId = Plus(r.appliedRulesId, -Half), !.toRulesId = c.nextRulesId]

HasWork == cons.remote # NoCache /\ cons.remote.state = "IDLE" /\ PendingWork(cons) # "NONE"

\* AlarmTriggered in the consumer, with something to do.
Work ==
  /\ cons.alarm /\ HasWork
  /\ LET item == [WorkItem(cons) EXCEPT !.retries = @ + 1]
     IN  IF cons.remote.retries >= MaxRetries
         THEN /\ Consumer([cons EXCEPT !.remote = NoCache, !.alarm = FALSE]) /\ UNCHANGED sess
         ELSE \/ /\ cons' = [cons EXCEPT !.remote = [item EXCEPT !.state = "IN_PROGRESS"], !.alarm = FALSE]
                 /\ sess' = [pc |-> "joining"] /\ UNCHANGED hist
              \/ /\ Fault /\ hist' = Failed
                 /\ cons' = [cons EXCEPT !.remote = item] /\ UNCHANGED sess
  /\ UNCHANGED <<prod, air, late>>

\* ... and with nothing to do.
Rest ==
  /\ cons.alarm /\ ~HasWork
  /\ cons' = [cons EXCEPT !.alarm = FALSE] /\ UNCHANGED <<prod, sess, air, hist, late>>

\* DoSessionLost, after the other end has left: "We got all the signals".
GotAll(c) ==
  LET r == c.remote
      last(to, known) == IF IS_GREATER(Plus(to, -1), known) THEN Plus(to, -1) ELSE known
  IN  ScheduleAll([c EXCEPT !.remote =
        [r EXCEPT !.state = "IDLE", !.retries = 0, !.routed = {},
                  !.appliedRulesId = last(r.toRulesId, r.appliedRulesId),
                  !.receivedChangeId = last(r.toChangeId, r.receivedChangeId),
                  !.haveReceived = @ \/ IS_GREATER(Plus(r.toChangeId, -1), r.receivedChangeId)]])

\* Mutant: a failed session is not scheduled again.
Retry_Forgotten(c) == [c EXCEPT !.remote.state = "IDLE"]

\* ... and after an error.
Retry(c) == ScheduleWork([c EXCEPT !.remote.state = "IDLE"])

\* JoinSessionCB.  A producer without RequestRange is no use if more was
\* advertised meanwhile.
Joined(peer) ==
  /\ sess.pc = "joining"
  /\ LET r == cons.remote
         due == {i \in DOMAIN cons.rules : InRange(r.fromRulesId, r.toRulesId, cons.rules[i].id)}
     IN  IF peer = "signals" /\ r.toChangeId # Plus(r.changeId, 1)
         THEN Consumer(GotAll(cons)) /\ sess' = NoSession
         ELSE /\ sess' = [pc |-> "asked", peer |-> peer, from |-> r.fromChangeId, to |-> r.toChangeId, key |-> 1,
                          match |-> IF peer = "match" THEN {Wants[cons.rules[i].client] : i \in due} ELSE {},
                          erased |-> FALSE, wire |-> << >>]
              /\ UNCHANGED <<cons, hist>>
  /\ UNCHANGED <<prod, air, late>>

\* The session cannot be joined, the request cannot be sent, the session is
\* lost before the producer leaves it, and may still serve a request.
SessionFails ==
  /\ sess.pc # "none" /\ Fault /\ sess' = NoSession
  /\ cons' = Retry(cons)
  /\ hist' = [Failed EXCEPT !.dropped = @ \/ cons'.remote = NoCache]
  /\ \/ UNCHANGED late
     \/ sess.pc = "asked" /\ late' = late \cup {<<sess.from, sess.to>>}
  /\ UNCHANGED <<prod, air>>

\* RouteSessionlessMessage: to the clients with a rule in the range.
Route ==
  /\ sess.pc \in {"serving", "left"} /\ sess.wire # << >>
  /\ LET k == Head(sess.wire)[1]
         serial == Head(sess.wire)[2]
         r == cons.remote
         to == {<<cons.rules[i].client, cons.rules[i].id, serial>> : i \in
                 {i \in DOMAIN cons.rules : /\ InRange(r.fromRulesId, r.toRulesId, cons.rules[i].id)
                                            /\ Wants[cons.rules[i].client] = Iface[k]}}
     IN  IF serial \in r.routed
         THEN hist' = [hist EXCEPT !.skipped = @ \cup (to \ hist.got)] /\ UNCHANGED cons
         ELSE /\ cons' = [cons EXCEPT !.remote.routed = @ \cup {serial}]
              /\ hist' = [hist EXCEPT !.got = @ \cup to, !.again = @ \/ to \cap hist.got # {}]
  /\ sess' = [sess EXCEPT !.wire = Tail(@)] /\ UNCHANGED <<prod, air, late>>

\* SessionLostWithReason comes after the signals.
RemoteEndLeft ==
  /\ sess.pc = "left" /\ sess.wire = << >> /\ sess' = NoSession
  /\ Consumer(GotAll(cons)) /\ UNCHANGED <<prod, air, late>>

----------------------------------------------------------------------------

Next ==
  \/ \E k \in Keys : PushMessage(k) \/ CancelMessage(k)
  \/ NameOwnerChanged(Cancels)
  \/ Advertise \/ Request \/ Serve \/ Leave
  \/ \E range \in late : LateRequest(range)
  \/ \E e \in Clients : AddRule(e) \/ RemoveRule(e)
  \/ \E ad \in air : Found(ad)
  \/ (\E peer \in Peers : Joined(peer))
  \/ Work \/ Rest \/ SessionFails \/ Route \/ RemoteEndLeft

Spec == Init /\ [][Next]_vars

\* Timers go off, handlers run, a session that does not fail makes
\* progress, and a name that stays advertised is found.
Fairness ==
  /\ WF_vars(Advertise) /\ WF_vars(Request \/ Serve \/ Leave) /\ WF_vars(Work \/ Rest)
  /\ WF_vars((\E peer \in Peers : Joined(peer)) \/ Route \/ RemoteEndLeft)
  /\ \A n \in Heard : WF_vars(Found(<<n, prod.ads[n]>>))

FairSpec == Spec /\ Fairness

----------------------------------------------------------------------------
(* Properties *)

Ids == 0 .. Modulus - 1
Serials == 1 .. MaxPush

\* Every field has its type: ids stay below the modulus, the retries below
\* their limit.
TypeOK ==
  /\ prod.localCache \in [Keys -> {NoSignal} \cup [id : Ids, serial : Serials]]
  /\ prod.curChangeId \in Ids /\ prod.ads \in [Names -> Ids \cup {None}] /\ prod.serial \in 0 .. MaxPush
  /\ {prod.alarm, prod.advanceChangeId, cons.alarm} \subseteq BOOLEAN
  /\ cons.rules \in Seq([client : Clients, id : Ids]) /\ cons.nextRulesId \in Ids /\ cons.finding \subseteq Names
  /\ cons.remote # NoCache =>
       /\ cons.remote.ifaces \subseteq Ifaces /\ cons.remote.retries \in 0 .. MaxRetries /\ cons.remote.routed \subseteq Serials
       /\ {cons.remote.changeId, cons.remote.receivedChangeId, cons.remote.appliedRulesId} \subseteq Ids
  /\ sess # NoSession => cons.remote.state = "IN_PROGRESS"
  /\ air \subseteq Names \X Ids /\ late \subseteq Int \X Int

\* What the consumer records as received it has received: a signal that is
\* still stored, with a change id up to receivedChangeId, has been given to
\* every client with a rule up to appliedRulesId that wants it (or was passed
\* over in a retry as routed already).  DoSessionLost moves both marks to the
\* ends of the ranges that were asked for, while the producer stores,
\* replaces and cancels signals during the whole exchange: a new one must not
\* get a change id that some consumer has been served already
\* (HandleRangeRequest's curChangeId), and rules that were added meanwhile
\* must stay out of the range.
Complete ==
  cons.remote # NoCache =>
    \A i \in DOMAIN cons.rules, k \in Keys :
      LET rule == cons.rules[i]
          signal == prod.localCache[k]
      IN  /\ Stored(k) /\ Wants[rule.client] = Iface[k] /\ cons.remote.haveReceived
          /\ ~IS_GREATER(signal.id, cons.remote.receivedChangeId)
          /\ ~IS_GREATER(rule.id, cons.remote.appliedRulesId)
          => <<rule.client, rule.id, signal.serial>> \in hist.got \cup hist.skipped

\* No client gets the same signal twice by the same rule: sessions that
\* succeed ask for ranges that do not overlap, and routedMessages stops what a
\* failed session had delivered.  That list is lost when the cache is
\* forgotten, and cleared early when a rule was added between the failure and
\* the retry.
NotAgain == hist.again => hist.dropped \/ (hist.faults > 0 /\ hist.added > 1)

\* PendingWork's NONE means what SessionlessObj.h says, "we have received all
\* signals": nothing newer is advertised that some rule wants.
NoneMeansDone ==
  cons.remote # NoCache /\ PendingWork(cons) = "NONE"
    => ~( /\ IS_GREATER(cons.remote.changeId, cons.remote.receivedChangeId)
          /\ IsMatch(cons, Plus(cons.remote.appliedRulesId, -Half), cons.nextRulesId))

Delivered(e, serial) ==
  \E i \in DOMAIN cons.rules : /\ cons.rules[i].client = e
                               /\ <<e, cons.rules[i].id, serial>> \in hist.got \cup hist.skipped

AllDelivered ==
  \A e \in Clients, k \in Keys :
    HasRule(e) /\ Stored(k) /\ Wants[e] = Iface[k] => Delivered(e, prod.localCache[k].serial)

\* Again and again every client with a rule has every stored signal that the
\* rule wants: no alarm, advertisement, join, request or retry is forgotten,
\* whatever failed and whatever was stored or added during a session, and no
\* exchange repeats for ever.  Except that a cache is given up after
\* MAX_JOINSESSION_RETRIES, and that PendingWork may answer NONE too early
\* (NoneMeansDone).
SignalsArrive == []<>(AllDelivered \/ hist.dropped \/ ~NoneMeansDone)

=============================================================================
