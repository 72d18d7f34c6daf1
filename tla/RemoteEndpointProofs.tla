------------------------ MODULE RemoteEndpointProofs ------------------------
(***************************************************************************)
(* The proofs about RemoteEndpoint.tla and IODispatch.tla: the invariant   *)
(* of the dispatcher, which each of its calls keeps (IoInv, Step), the     *)
(* endpoint's part in it (DispatchInv), and on top of both the transmit    *)
(* queue (QueueInv).                                                       *)
(***************************************************************************)
EXTENDS RemoteEndpoint, SequenceTheorems, TLAPS

\* The alarms of one side of the stream, and its exit alarms.
SideAlarms(s) == {i \in AlarmIds : SideOf(i[1]) = s /\ i[1] # "exit"}
ExitAlarms == {i \in AlarmIds : i[1] = "exit"}

\* Where an alarm, or the thread that serves it, can be; and where one of a
\* kind can be.
Pcs == {"free", "pending", "taken", "reload", "noted", "read", "readTimeout", "probed",
        "write", "writeTimeout", "disabled", "delivered",
        "exitRead", "exitWrite", "exitCallback", "exitErase"}

PcsOf(kind) ==
  {"free", "pending"} \cup
  (CASE kind = "read" -> {"read", "noted"}
     [] kind = "readTimeout" -> {"taken", "reload", "readTimeout", "probed", "noted"}
     [] kind = "write" -> {"write", "delivered", "disabled", "noted"}
     [] kind = "writeTimeout" -> {"taken", "reload", "writeTimeout", "noted"}
     [] OTHER -> {"exitRead", "exitWrite", "exitCallback", "exitErase"})

\* The dispatcher's fields and their values.
Dispatchers ==
  [state : {"NONE", "RUNNING", "STOPPING", "STOPPED"}, enable : [Sides -> BOOLEAN],
   inProgress : [Sides -> BOOLEAN], mainAdding : [Sides -> BOOLEAN],
   alarm : [Sides -> AlarmIds \cup {NoAlarm}], alarms : [AlarmIds -> Pcs],
   reload : BOOLEAN, crit : BOOLEAN, alerted : BOOLEAN,
   pc : {"wait", "events", "remove"}, check : SUBSET Sides,
   signaled : Seq(Sides \cup {"stop"}), prev : AlarmIds \cup {NoAlarm}, fault : BOOLEAN]

\* Every alarm is where one of its kind can be.
Placed(d) == \A i \in AlarmIds : d.alarms[i] \in PcsOf(i[1])

\* The entry's alarm of a side is the only alarm of that side: a new one is
\* added after the old one was served or removed.  This is what keeps two
\* callbacks of a side apart.
Holds(d, s) ==
  \A i \in AlarmIds : (i \in SideAlarms(s) /\ d.alarms[i] # "free") <=> d.alarm[s] = i

\* The main thread adds an alarm only after it has set readInProgress or
\* writeInProgress.
Adding(d) == \A s \in Sides : d.mainAdding[s] => d.inProgress[s]

\* While the main thread waits for the removal of a timeout alarm it has the
\* side marked, and waits for the entry's alarm of that side.
Removing(d) ==
  d.pc = "remove" => /\ d.signaled # << >> /\ Head(d.signaled) \in Sides
                     /\ d.mainAdding[Head(d.signaled)]
                     /\ d.prev = d.alarm[Head(d.signaled)]

\* A write alarm stands for the write in progress, and the main thread is not
\* about to add another.
Writing(d) ==
  \A i \in AlarmIds : i[1] = "write" /\ d.alarms[i] # "free" =>
    d.inProgress["write"] /\ ~d.mainAdding["write"]

\* With writing disabled there is no write alarm, but the one whose thread has
\* just disabled it: EnableWriteCallbackNow may add one.
Off(d) ==
  d.state = "RUNNING" /\ ~d.enable["write"] =>
    /\ ~d.mainAdding["write"]
    /\ \A i \in SideAlarms("write") : d.alarms[i] \in {"free", "disabled"}

\* One exit alarm, added with the state STOPPED.
ExitOnce(d) ==
  /\ \A i \in ExitAlarms : d.alarms[i] # "free" => d.state = "STOPPED"
  /\ \A i, j \in ExitAlarms : d.alarms[i] # "free" /\ d.alarms[j] # "free" => i = j

\* The exit alarm's thread goes on when the alarms of a side are gone.
ExitClears(d) ==
  \A i \in ExitAlarms :
    /\ d.alarms[i] \in {"exitWrite", "exitCallback", "exitErase"} => d.alarm["read"] = NoAlarm
    /\ d.alarms[i] \in {"exitCallback", "exitErase"} => d.alarm["write"] = NoAlarm

\* The entry is erased when no alarm of the stream is left.
Gone(d) == d.state = "NONE" => \A s \in Sides : d.alarm[s] = NoAlarm

\* The invariant of the dispatcher; the last part is that AlarmTriggered never
\* finds an alarm without its entry.
IoInv(d) ==
  /\ d \in Dispatchers /\ Placed(d) /\ (\A s \in Sides : Holds(d, s))
  /\ Adding(d) /\ Removing(d) /\ Writing(d) /\ Off(d)
  /\ ExitOnce(d) /\ ExitClears(d) /\ Gone(d) /\ ~d.fault

\* The dispatcher is not in use yet; it has no alarm left and none comes.
Unused(d) == d.state = "NONE" /\ \A s \in Sides : ~d.mainAdding[s]
Over(d) == d.state \in {"NONE", "STOPPED"} /\ \A s \in Sides : d.alarm[s] = NoAlarm

\* What the endpoint relies on when the dispatcher goes from d to e: nobody
\* enters or leaves these two places of WriteCallback, and a dispatcher that is
\* not in use, or at its end, stays so.
Special == {"disabled", "delivered"}

Keeps(d, e) ==
  /\ \A i \in AlarmIds : d.alarms[i] \in Special \/ e.alarms[i] \in Special =>
       e.alarms[i] = d.alarms[i]
  /\ Unused(d) => Unused(e)
  /\ Over(d) => Over(e)

\* The dispatcher's invariant is kept, and so is what the endpoint relies on.
Step(d, e) == IoInv(e) /\ Keeps(d, e)

----------------------------------------------------------------------------

\* The alarms, and the values that are none.
LEMMA AlarmIdFacts ==
  /\ NoAlarm \notin AlarmIds /\ Owner \notin AlarmIds /\ Nobody \notin AlarmIds
  /\ \A i \in AlarmIds : i[1] \in Kinds
  /\ \A k \in Kinds : <<k, 1>> \in AlarmIds
  BY AlarmsAssumption DEF NoAlarm, Owner, Nobody, AlarmIds, Kinds

\* AddAlarm finds a free alarm when no alarm of the kind is in use.
LEMMA FreshFree ==
  ASSUME NEW d, NEW k \in Kinds, \A i \in AlarmIds : i[1] = k => d.alarms[i] = "free"
  PROVE  Fresh(d, k) \in AlarmIds /\ Fresh(d, k)[1] = k /\ d.alarms[Fresh(d, k)] = "free"
<1> DEFINE P(i) == /\ i[1] = k /\ d.alarms[i] = "free"
                   /\ \A n \in 1 .. i[2] - 1 : d.alarms[<<k, n>>] # "free"
<1>1. <<k, 1>> \in AlarmIds /\ P(<<k, 1>>)
  BY AlarmIdFacts
<1>2. \E i \in AlarmIds : P(i)
  BY <1>1
<1> HIDE DEF P
<1>3. (CHOOSE i \in AlarmIds : P(i)) \in AlarmIds /\ P(CHOOSE i \in AlarmIds : P(i))
  BY <1>2
<1>4. Fresh(d, k) = CHOOSE i \in AlarmIds : P(i)
  BY DEF Fresh, P
<1> QED
  BY <1>3, <1>4 DEF P

\* The alarms are those of the two sides and the exit alarms.
LEMMA SideFacts ==
  /\ Sides = {"read", "write"}
  /\ \A s \in Sides : SideAlarms(s) \subseteq AlarmIds \ ExitAlarms
  /\ SideAlarms("read") \cap SideAlarms("write") = {}
  /\ AlarmIds = SideAlarms("read") \cup SideAlarms("write") \cup ExitAlarms
  /\ ExitAlarms \subseteq AlarmIds
  /\ \A i \in AlarmIds : i[1] \in {"read", "readTimeout"} => i \in SideAlarms("read")
  /\ \A i \in AlarmIds : i[1] \in {"write", "writeTimeout"} => i \in SideAlarms("write")
  /\ \A i \in SideAlarms("read") : i[1] \in {"read", "readTimeout"}
  /\ \A i \in SideAlarms("write") : i[1] \in {"write", "writeTimeout"}
  BY AlarmIdFacts DEF Sides, SideAlarms, ExitAlarms, SideOf, Kinds

\* PcsOf, kind by kind.
LEMMA PcsOfFacts ==
  /\ \A k \in Kinds : PcsOf(k) \subseteq Pcs
  /\ PcsOf("read") = {"free", "pending", "read", "noted"}
  /\ PcsOf("readTimeout") = {"free", "pending", "taken", "reload", "readTimeout", "probed", "noted"}
  /\ PcsOf("write") = {"free", "pending", "write", "delivered", "disabled", "noted"}
  /\ PcsOf("writeTimeout") = {"free", "pending", "taken", "reload", "writeTimeout", "noted"}
  /\ PcsOf("exit") = {"free", "pending", "exitRead", "exitWrite", "exitCallback", "exitErase"}
<1>1. PcsOf("read") = {"free", "pending", "read", "noted"}
  BY DEF PcsOf
<1>2. PcsOf("readTimeout") = {"free", "pending", "taken", "reload", "readTimeout", "probed", "noted"}
  BY DEF PcsOf
<1>3. PcsOf("write") = {"free", "pending", "write", "delivered", "disabled", "noted"}
  BY DEF PcsOf
<1>4. PcsOf("writeTimeout") = {"free", "pending", "taken", "reload", "writeTimeout", "noted"}
  BY DEF PcsOf
<1>5. PcsOf("exit") = {"free", "pending", "exitRead", "exitWrite", "exitCallback", "exitErase"}
  BY DEF PcsOf
<1>6. \A k \in Kinds : PcsOf(k) \subseteq Pcs
  BY <1>1, <1>2, <1>3, <1>4, <1>5 DEF Kinds, Pcs
<1> QED
  BY <1>1, <1>2, <1>3, <1>4, <1>5, <1>6

----------------------------------------------------------------------------
(* Steps of one alarm *)

\* Two calls of the dispatcher in one step of the model.
LEMMA StepTrans ==
  ASSUME NEW d, NEW e, NEW f, Step(d, e), Step(e, f)
  PROVE  Step(d, f)
  BY DEF Step, Keeps

\* No call.
LEMMA StepSame ==
  ASSUME NEW d, IoInv(d)
  PROVE  Step(d, d)
  BY DEF Step, Keeps

\* The parts of IoInv, with the two sides apart.
LEMMA IoInvParts ==
  ASSUME NEW d, IoInv(d)
  PROVE  /\ d \in Dispatchers /\ Placed(d) /\ Holds(d, "read") /\ Holds(d, "write")
         /\ Adding(d) /\ Removing(d) /\ Writing(d) /\ Off(d)
         /\ ExitOnce(d) /\ ExitClears(d) /\ Gone(d) /\ ~d.fault
  BY DEF IoInv, Sides

\* A thread moves from one place of a read or write callback to another.
LEMMA GotoSide ==
  ASSUME NEW d, IoInv(d), NEW i \in AlarmIds, i \notin ExitAlarms, d.alarms[i] \notin {"free", "disabled"},
         NEW pc \in PcsOf(i[1]), pc # "free"
  PROVE  /\ IoInv(Goto(d, i, pc))
         /\ d.alarms[i] \notin Special /\ pc \notin Special => Keeps(d, Goto(d, i, pc))
<1> DEFINE e == Goto(d, i, pc)
<1>0. /\ d \in Dispatchers /\ Placed(d) /\ Holds(d, "read") /\ Holds(d, "write")
      /\ Adding(d) /\ Removing(d) /\ Writing(d) /\ Off(d)
      /\ ExitOnce(d) /\ ExitClears(d) /\ Gone(d) /\ ~d.fault
  BY IoInvParts
<1>1. /\ e.state = d.state /\ e.enable = d.enable /\ e.inProgress = d.inProgress
      /\ e.mainAdding = d.mainAdding /\ e.alarm = d.alarm /\ e.pc = d.pc
      /\ e.signaled = d.signaled /\ e.prev = d.prev /\ e.fault = d.fault
      /\ e.alarms = [d.alarms EXCEPT ![i] = pc]
  BY <1>0 DEF Dispatchers, Goto
<1>2. pc \in Pcs /\ d.alarms \in [AlarmIds -> Pcs]
  BY <1>0, AlarmIdFacts, PcsOfFacts DEF Dispatchers
<1>3. e \in Dispatchers
  BY <1>0, <1>2 DEF Dispatchers, Goto
<1>4. \A j \in AlarmIds : e.alarms[j] = IF j = i THEN pc ELSE d.alarms[j]
  BY <1>1, <1>2
<1> HIDE DEF e
<1>5. Placed(e)
  BY <1>0, <1>4 DEF Placed
<1>6. Holds(e, "read") /\ Holds(e, "write")
  BY <1>0, <1>1, <1>4 DEF Holds
<1>7. Adding(e) /\ Removing(e) /\ Gone(e) /\ ~e.fault
  BY <1>0, <1>1 DEF Adding, Removing, Gone
<1>8. Writing(e)
  BY <1>0, <1>1, <1>4 DEF Writing
<1>9. Off(e)
  BY <1>0, <1>1, <1>4, SideFacts DEF Off
<1>10. ExitOnce(e) /\ ExitClears(e)
  BY <1>0, <1>1, <1>4, SideFacts DEF ExitOnce, ExitClears
<1>11. d.alarms[i] \notin Special /\ pc \notin Special => Keeps(d, e)
  BY <1>1, <1>4 DEF Keeps, Unused, Over
<1> QED
  BY <1>3, <1>5, <1>6, <1>7, <1>8, <1>9, <1>10, <1>11 DEF IoInv, e, Sides

\* The exit alarm's thread moves on when it has removed the alarms of a side.
LEMMA GotoExit ==
  ASSUME NEW d, IoInv(d), NEW i \in ExitAlarms, d.alarms[i] # "free",
         NEW pc \in PcsOf("exit"), pc # "free",
         pc \in {"exitWrite", "exitCallback", "exitErase"} => d.alarm["read"] = NoAlarm,
         pc \in {"exitCallback", "exitErase"} => d.alarm["write"] = NoAlarm
  PROVE  /\ IoInv(Goto(d, i, pc))
         /\ d.alarms[i] \notin Special /\ pc \notin Special => Keeps(d, Goto(d, i, pc))
<1> DEFINE e == Goto(d, i, pc)
<1>0. /\ d \in Dispatchers /\ Placed(d) /\ Holds(d, "read") /\ Holds(d, "write")
      /\ Adding(d) /\ Removing(d) /\ Writing(d) /\ Off(d)
      /\ ExitOnce(d) /\ ExitClears(d) /\ Gone(d) /\ ~d.fault
  BY IoInvParts
<1>1. /\ e.state = d.state /\ e.enable = d.enable /\ e.inProgress = d.inProgress
      /\ e.mainAdding = d.mainAdding /\ e.alarm = d.alarm /\ e.pc = d.pc
      /\ e.signaled = d.signaled /\ e.prev = d.prev /\ e.fault = d.fault
      /\ e.alarms = [d.alarms EXCEPT ![i] = pc]
  BY <1>0 DEF Dispatchers, Goto
<1>2. pc \in Pcs /\ d.alarms \in [AlarmIds -> Pcs] /\ i \in AlarmIds /\ i[1] = "exit"
  BY <1>0, PcsOfFacts DEF Dispatchers, ExitAlarms, Kinds
<1>3. e \in Dispatchers
  BY <1>0, <1>2 DEF Dispatchers, Goto
<1>4. \A j \in AlarmIds : e.alarms[j] = IF j = i THEN pc ELSE d.alarms[j]
  BY <1>1, <1>2
<1> HIDE DEF e
<1>5. Placed(e)
  BY <1>0, <1>2, <1>4 DEF Placed
<1>6. Holds(e, "read") /\ Holds(e, "write")
  BY <1>0, <1>1, <1>4, SideFacts DEF Holds
<1>7. Adding(e) /\ Removing(e) /\ Gone(e) /\ ~e.fault
  BY <1>0, <1>1 DEF Adding, Removing, Gone
<1>8. Writing(e)
  BY <1>0, <1>1, <1>2, <1>4 DEF Writing
<1>9. Off(e)
  BY <1>0, <1>1, <1>4, SideFacts DEF Off
<1>10. ExitOnce(e) /\ ExitClears(e)
  BY <1>0, <1>1, <1>2, <1>4, SideFacts DEF ExitOnce, ExitClears
<1>11. d.alarms[i] \notin Special /\ pc \notin Special => Keeps(d, e)
  BY <1>1, <1>4 DEF Keeps, Unused, Over
<1> QED
  BY <1>3, <1>5, <1>6, <1>7, <1>8, <1>9, <1>10, <1>11 DEF IoInv, e, Sides

\* What the end of an alarm changes.
LEMMA DoneFields ==
  ASSUME NEW d \in Dispatchers, NEW i \in AlarmIds
  PROVE  LET e == Done(d, i) IN
         /\ e \in Dispatchers
         /\ e.state = d.state /\ e.enable = d.enable /\ e.inProgress = d.inProgress
         /\ e.mainAdding = d.mainAdding /\ e.pc = d.pc /\ e.signaled = d.signaled /\ e.fault = d.fault
         /\ e.reload = d.reload /\ e.crit = d.crit /\ e.alerted = d.alerted /\ e.check = d.check
         /\ e.prev = (IF d.prev = i THEN NoAlarm ELSE d.prev)
         /\ \A s \in Sides : e.alarm[s] = IF d.alarm[s] = i THEN NoAlarm ELSE d.alarm[s]
         /\ \A j \in AlarmIds : e.alarms[j] = IF j = i THEN "free" ELSE d.alarms[j]
<1> DEFINE e == Done(d, i)
<1>1. d.alarm \in [Sides -> AlarmIds \cup {NoAlarm}] /\ d.alarms \in [AlarmIds -> Pcs] /\ "free" \in Pcs
  BY DEF Dispatchers, Pcs
<1>2. /\ e.state = d.state /\ e.enable = d.enable /\ e.inProgress = d.inProgress
      /\ e.mainAdding = d.mainAdding /\ e.pc = d.pc /\ e.signaled = d.signaled /\ e.fault = d.fault
      /\ e.reload = d.reload /\ e.crit = d.crit /\ e.alerted = d.alerted /\ e.check = d.check
      /\ e.prev = (IF d.prev = i THEN NoAlarm ELSE d.prev)
      /\ e.alarm = [s \in Sides |-> IF d.alarm[s] = i THEN NoAlarm ELSE d.alarm[s]]
      /\ e.alarms = [d.alarms EXCEPT ![i] = "free"]
  BY DEF Dispatchers, Done
<1>3. /\ [s \in Sides |-> IF d.alarm[s] = i THEN NoAlarm ELSE d.alarm[s]] \in [Sides -> AlarmIds \cup {NoAlarm}]
      /\ [d.alarms EXCEPT ![i] = "free"] \in [AlarmIds -> Pcs]
  BY <1>1
<1>4. e \in Dispatchers
  BY <1>2, <1>3 DEF Dispatchers, Done
<1> QED
  BY <1>1, <1>2, <1>4

\* The end of a read or write callback keeps the invariant.
LEMMA DoneSide ==
  ASSUME NEW d, IoInv(d), NEW i \in AlarmIds, i \notin ExitAlarms
  PROVE  /\ IoInv(Done(d, i))
         /\ d.alarms[i] \notin Special => Keeps(d, Done(d, i))
<1> DEFINE e == Done(d, i)
<1>0. /\ d \in Dispatchers /\ Placed(d) /\ Holds(d, "read") /\ Holds(d, "write")
      /\ Adding(d) /\ Removing(d) /\ Writing(d) /\ Off(d)
      /\ ExitOnce(d) /\ ExitClears(d) /\ Gone(d) /\ ~d.fault
  BY IoInvParts
<1>1. /\ e \in Dispatchers
      /\ e.state = d.state /\ e.enable = d.enable /\ e.inProgress = d.inProgress
      /\ e.mainAdding = d.mainAdding /\ e.pc = d.pc /\ e.signaled = d.signaled /\ e.fault = d.fault
      /\ e.prev = (IF d.prev = i THEN NoAlarm ELSE d.prev)
      /\ \A s \in Sides : e.alarm[s] = IF d.alarm[s] = i THEN NoAlarm ELSE d.alarm[s]
      /\ \A j \in AlarmIds : e.alarms[j] = IF j = i THEN "free" ELSE d.alarms[j]
  BY <1>0, DoneFields
<1> HIDE DEF e
<1>5. Placed(e)
  BY <1>0, <1>1 DEF Placed, PcsOf
<1>6. Holds(e, "read") /\ Holds(e, "write")
  BY <1>0, <1>1, AlarmIdFacts, SideFacts DEF Holds
<1>7. Adding(e) /\ Gone(e) /\ ~e.fault
  BY <1>0, <1>1 DEF Adding, Gone
<1>7a. Removing(e)
  BY <1>0, <1>1 DEF Removing
<1>8. Writing(e)
  BY <1>0, <1>1 DEF Writing
<1>9. Off(e)
  BY <1>0, <1>1, SideFacts DEF Off
<1>10. ExitOnce(e) /\ ExitClears(e)
  BY <1>0, <1>1, SideFacts DEF ExitOnce, ExitClears
<1>11. d.alarms[i] \notin Special => Keeps(d, e)
  BY <1>1 DEF Keeps, Unused, Over, Special
<1> QED
  BY <1>1, <1>5, <1>6, <1>7, <1>7a, <1>8, <1>9, <1>10, <1>11 DEF IoInv, e, Sides

----------------------------------------------------------------------------
(* Steps that leave the alarms alone *)

\* A step that leaves the alarms alone keeps the invariant if it keeps the
\* parts about the entry's flags.
LEMMA SameAlarms ==
  ASSUME NEW d, IoInv(d), NEW e \in Dispatchers,
         e.alarms = d.alarms, e.alarm = d.alarm, e.fault = d.fault,
         e.state = d.state \/ (d.state = "RUNNING" /\ e.state = "STOPPING"),
         d.state = "NONE" => \A s \in Sides : e.mainAdding[s] => d.mainAdding[s],
         Adding(e), Removing(e), Writing(e), Off(e)
  PROVE  Step(d, e)
<1>0. /\ d \in Dispatchers /\ Placed(d) /\ Holds(d, "read") /\ Holds(d, "write")
      /\ ExitOnce(d) /\ ExitClears(d) /\ Gone(d) /\ ~d.fault
  BY IoInvParts
<1>1. Placed(e) /\ Holds(e, "read") /\ Holds(e, "write")
  BY <1>0 DEF Placed, Holds
<1>2. ExitOnce(e)
  BY <1>0 DEF ExitOnce
<1>3. ExitClears(e) /\ Gone(e) /\ ~e.fault
  BY <1>0 DEF ExitClears, Gone
<1>4. Keeps(d, e)
  BY DEF Keeps, Unused, Over
<1> QED
  BY <1>1, <1>2, <1>3, <1>4 DEF Step, IoInv, Sides

\* A step of the main thread's own fields keeps the invariant.
LEMMA Frame ==
  ASSUME NEW d, IoInv(d), NEW e \in Dispatchers, Removing(e),
         e.alarms = d.alarms, e.alarm = d.alarm, e.fault = d.fault,
         e.state = d.state, e.enable = d.enable, e.inProgress = d.inProgress,
         e.mainAdding = d.mainAdding
  PROVE  Step(d, e)
<1>0. Adding(d) /\ Writing(d) /\ Off(d)
  BY IoInvParts
<1>1. Adding(e) /\ Writing(e) /\ Off(e)
  BY <1>0 DEF Adding, Writing, Off
<1> QED
  BY <1>1, SameAlarms

\* IODispatch's alert of the main thread.
LEMMA AlertInv ==
  ASSUME NEW d, IoInv(d)
  PROVE  Step(d, Alert(d))
<1>1. d \in Dispatchers /\ Removing(d)
  BY IoInvParts
<1>2. Alert(d) \in Dispatchers /\ Removing(Alert(d))
  BY <1>1 DEF Alert, Dispatchers, Removing
<1> QED
  BY <1>1, <1>2, Frame DEF Alert, Dispatchers

\* StopStream.
LEMMA StopStreamInv ==
  ASSUME NEW d, IoInv(d)
  PROVE  Step(d, StopStream(d))
<1>1. /\ d \in Dispatchers /\ Adding(d) /\ Removing(d) /\ Writing(d)
  BY IoInvParts
<1>2. CASE d.state \in {"NONE", "STOPPED"}
  BY <1>2, StepSame DEF StopStream
<1>3. CASE d.state \notin {"NONE", "STOPPED"}
  <2> DEFINE e == [d EXCEPT !.state = "STOPPING", !.reload = FALSE]
  <2>1. StopStream(d) = Alert(e)
    BY <1>3 DEF StopStream
  <2>2. /\ e \in Dispatchers /\ e.state = "STOPPING" /\ e.pc = d.pc /\ e.signaled = d.signaled
        /\ e.alarms = d.alarms /\ e.alarm = d.alarm /\ e.fault = d.fault /\ e.prev = d.prev
        /\ e.inProgress = d.inProgress /\ e.mainAdding = d.mainAdding
    BY <1>1 DEF Dispatchers
  <2>3. d.state \in {"RUNNING", "STOPPING"}
    BY <1>1, <1>3 DEF Dispatchers
  <2> HIDE DEF e
  <2>4. Adding(e) /\ Removing(e) /\ Writing(e) /\ Off(e)
    BY <1>1, <2>2 DEF Adding, Removing, Writing, Off
  <2>5. Step(d, e)
    BY <2>2, <2>3, <2>4, SameAlarms
  <2>6. Step(e, Alert(e))
    BY <2>5, AlertInv DEF Step
  <2> QED
    BY <2>1, <2>5, <2>6, StepTrans
<1> QED
  BY <1>2, <1>3

\* DisableReadCallback.
LEMMA DisableReadInv ==
  ASSUME NEW d, IoInv(d)
  PROVE  Step(d, DisableReadCallback(d))
<1>1. /\ d \in Dispatchers /\ Adding(d) /\ Removing(d) /\ Writing(d) /\ Off(d)
  BY IoInvParts
<1> DEFINE e == [d EXCEPT !.enable["read"] = FALSE]
<1>2. /\ e \in Dispatchers /\ e.state = d.state /\ e.pc = d.pc /\ e.signaled = d.signaled
      /\ e.alarms = d.alarms /\ e.alarm = d.alarm /\ e.fault = d.fault /\ e.prev = d.prev
      /\ e.inProgress = d.inProgress /\ e.mainAdding = d.mainAdding
      /\ e.enable["write"] = d.enable["write"]
  BY <1>1 DEF Dispatchers, Sides
<1>3. DisableReadCallback(d) = IF d.state # "RUNNING" THEN d ELSE Alert(e)
  BY DEF DisableReadCallback, DisableCallback
<1> HIDE DEF e
<1>4. Adding(e) /\ Removing(e) /\ Writing(e) /\ Off(e)
  BY <1>1, <1>2 DEF Adding, Removing, Writing, Off
<1>5. Step(d, e)
  BY <1>2, <1>4, SameAlarms
<1>6. Step(e, Alert(e))
  BY <1>5, AlertInv DEF Step
<1> QED
  BY <1>3, <1>5, <1>6, StepTrans, StepSame

\* What Event::Wait returns: the sides of the stream and the stop event.
LEMMA SelectIsSeq ==
  ASSUME NEW d \in Dispatchers, NEW ready
  PROVE  Select(d, ready) \in Seq(Sides \cup {"stop"})
<1> DEFINE T == Sides \cup {"stop"}
           on(s) == IF s \in d.check \cap ready THEN <<s>> ELSE << >>
           a == IF d.alerted THEN <<"stop">> ELSE << >>
<1>0. << >> \in Seq(T) /\ \A x \in T : <<x>> \in Seq(T)
  OBVIOUS
<1>1. a \in Seq(T)
  <2>1. <<"stop">> \in Seq(T)
    BY <1>0
  <2> QED
    BY <1>0, <2>1
<1>2. on("read") \in Seq(T) /\ on("write") \in Seq(T)
  <2>1. <<"read">> \in Seq(T) /\ <<"write">> \in Seq(T)
    BY <1>0 DEF Sides
  <2> QED
    BY <1>0, <2>1
<1>3. Select(d, ready) = a \o on("read") \o on("write")
  BY DEF Select
<1> HIDE DEF T, on, a
<1>4. a \o on("read") \in Seq(T)
  BY <1>1, <1>2, ConcatProperties
<1>5. (a \o on("read")) \o on("write") \in Seq(T)
  BY <1>2, <1>4, ConcatProperties
<1> QED
  BY <1>3, <1>5 DEF T

\* The main thread wakes up.
LEMMA WokenInv ==
  ASSUME NEW d, IoInv(d), NEW signaled \in Seq(Sides \cup {"stop"})
  PROVE  Step(d, Woken(d, signaled))
<1>1. d \in Dispatchers
  BY IoInvParts
<1>2. Woken(d, signaled) \in Dispatchers /\ Woken(d, signaled).pc = "events"
  BY <1>1 DEF Woken, Dispatchers
<1>5. /\ Woken(d, signaled).alarms = d.alarms /\ Woken(d, signaled).alarm = d.alarm
      /\ Woken(d, signaled).fault = d.fault /\ Woken(d, signaled).state = d.state
      /\ Woken(d, signaled).enable = d.enable /\ Woken(d, signaled).inProgress = d.inProgress
      /\ Woken(d, signaled).mainAdding = d.mainAdding
  BY <1>1 DEF Woken, Dispatchers
<1>6. Removing(Woken(d, signaled))
  BY <1>2 DEF Removing
<1> QED
  BY <1>2, <1>5, <1>6, Frame

\* The main thread reloads the events it waits for.
LEMMA LoadInv ==
  ASSUME NEW d, IoInv(d)
  PROVE  Step(d, Load(d))
<1>1. d \in Dispatchers
  BY IoInvParts
<1>2. Load(d) \in Dispatchers /\ Load(d).pc = "wait"
  BY <1>1 DEF Load, Dispatchers
<1>5. /\ Load(d).alarms = d.alarms /\ Load(d).alarm = d.alarm
      /\ Load(d).fault = d.fault /\ Load(d).state = d.state
      /\ Load(d).enable = d.enable /\ Load(d).inProgress = d.inProgress
      /\ Load(d).mainAdding = d.mainAdding
  BY <1>1 DEF Load, Dispatchers
<1>6. Removing(Load(d))
  BY <1>2 DEF Removing
<1> QED
  BY <1>2, <1>5, <1>6, Frame

\* The main thread is done with one signalled event.
LEMMA HandledInv ==
  ASSUME NEW d, IoInv(d), d.signaled # << >>
  PROVE  Step(d, Handled(d))
<1>1. d \in Dispatchers
  BY IoInvParts
<1>2. d.signaled \in Seq(Sides \cup {"stop"})
  BY <1>1 DEF Dispatchers
<1>3. Tail(d.signaled) \in Seq(Sides \cup {"stop"})
  BY <1>2
<1>4. Handled(d) \in Dispatchers /\ Handled(d).pc = "events"
  BY <1>1, <1>3 DEF Handled, Dispatchers
<1>5. /\ Handled(d).alarms = d.alarms /\ Handled(d).alarm = d.alarm
      /\ Handled(d).fault = d.fault /\ Handled(d).state = d.state
      /\ Handled(d).enable = d.enable /\ Handled(d).inProgress = d.inProgress
      /\ Handled(d).mainAdding = d.mainAdding
  BY <1>1 DEF Handled, Dispatchers
<1>6. Removing(Handled(d))
  BY <1>4 DEF Removing
<1> QED
  BY <1>4, <1>5, <1>6, Frame

\* StartStream, which finds the entry gone or not made yet, makes it without an
\* alarm.
LEMMA StartStreamInv ==
  ASSUME NEW d, IoInv(d), d.state = "NONE", \A s \in Sides : ~d.mainAdding[s]
  PROVE  IoInv(StartStream(d)) /\ StartStream(d).alarms = d.alarms
<1>0. /\ d \in Dispatchers /\ Placed(d) /\ Holds(d, "read") /\ Holds(d, "write")
      /\ Adding(d) /\ Removing(d) /\ Writing(d) /\ Off(d)
      /\ ExitOnce(d) /\ ExitClears(d) /\ Gone(d) /\ ~d.fault
  BY IoInvParts
<1> DEFINE e == [d EXCEPT !.state = "RUNNING", !.enable = [s \in Sides |-> s = "write"],
                          !.inProgress = Both(FALSE), !.reload = FALSE]
<1>1. [s \in Sides |-> s = "write"] \in [Sides -> BOOLEAN] /\ Both(FALSE) \in [Sides -> BOOLEAN]
  BY DEF Both
<1>2. /\ e \in Dispatchers /\ e.state = "RUNNING" /\ e.pc = d.pc /\ e.signaled = d.signaled
      /\ e.alarms = d.alarms /\ e.alarm = d.alarm /\ e.fault = d.fault /\ e.prev = d.prev
      /\ e.mainAdding = d.mainAdding /\ e.enable = [s \in Sides |-> s = "write"]
  BY <1>0, <1>1 DEF Dispatchers
<1>3. StartStream(d) = Alert(e)
  BY DEF StartStream
<1>4. e.enable["write"]
  BY <1>2 DEF Sides
<1> HIDE DEF e
<1>5. \A i \in AlarmIds : d.alarms[i] = "free"
  BY <1>0, SideFacts, AlarmIdFacts DEF Gone, Holds, ExitOnce
<1>6. Adding(e) /\ Removing(e) /\ Off(e) /\ Gone(e) /\ ~e.fault
  BY <1>0, <1>2, <1>4 DEF Adding, Removing, Off, Gone
<1>7. Placed(e) /\ Holds(e, "read") /\ Holds(e, "write")
  BY <1>0, <1>2 DEF Placed, Holds
<1>8. Writing(e) /\ ExitOnce(e) /\ ExitClears(e)
  BY <1>2, <1>5, SideFacts DEF Writing, ExitOnce, ExitClears
<1>9. IoInv(e)
  BY <1>2, <1>6, <1>7, <1>8 DEF IoInv, Sides
<1>10. IoInv(Alert(e)) /\ Alert(e).alarms = d.alarms
  BY <1>2, <1>9, AlertInv DEF Step, Alert, Dispatchers
<1> QED
  BY <1>3, <1>10

----------------------------------------------------------------------------
(* Steps that add and remove alarms *)

\* A new alarm of a side is added when the old one is gone.
LEMMA AddSide ==
  ASSUME NEW d, IoInv(d), NEW s \in Sides, NEW kind \in Kinds, kind # "exit", SideOf(kind) = s,
         d.alarm[s] = NoAlarm, d.state = "RUNNING", ~d.mainAdding[s],
         s = "write" => d.enable["write"], kind = "write" => d.inProgress["write"]
  PROVE  Step(d, AddSideAlarm(d, s, kind))
<1> DEFINE f == Fresh(d, kind)
           e == AddSideAlarm(d, s, kind)
<1>0. /\ d \in Dispatchers /\ Placed(d) /\ Holds(d, "read") /\ Holds(d, "write")
      /\ Adding(d) /\ Removing(d) /\ Writing(d) /\ Off(d)
      /\ ExitOnce(d) /\ ExitClears(d) /\ Gone(d) /\ ~d.fault
  BY IoInvParts
<1>1. s \in {"read", "write"} /\ Holds(d, s)
  BY <1>0, SideFacts
<1>2. \A i \in AlarmIds : i[1] = kind => d.alarms[i] = "free"
  BY <1>1, AlarmIdFacts DEF Holds, SideAlarms
<1>3. f \in AlarmIds /\ f[1] = kind /\ d.alarms[f] = "free"
  BY <1>2, FreshFree
<1>4. f \in SideAlarms(s) /\ f \notin ExitAlarms /\ f # NoAlarm
  BY <1>3, AlarmIdFacts DEF SideAlarms, ExitAlarms
<1>5. /\ e.state = d.state /\ e.enable = d.enable /\ e.inProgress = d.inProgress
      /\ e.mainAdding = d.mainAdding /\ e.pc = d.pc
      /\ e.signaled = d.signaled /\ e.prev = d.prev /\ e.fault = d.fault
      /\ e.alarm = [d.alarm EXCEPT ![s] = f]
      /\ e.alarms = [d.alarms EXCEPT ![f] = "pending"]
  BY <1>0 DEF Dispatchers, AddSideAlarm, AddAlarm
<1>6. /\ d.alarm \in [Sides -> AlarmIds \cup {NoAlarm}] /\ d.alarms \in [AlarmIds -> Pcs]
      /\ "pending" \in Pcs
  BY <1>0 DEF Dispatchers, Pcs
<1>7. /\ [d.alarm EXCEPT ![s] = f] \in [Sides -> AlarmIds \cup {NoAlarm}]
      /\ [d.alarms EXCEPT ![f] = "pending"] \in [AlarmIds -> Pcs]
  BY <1>3, <1>6
<1>8. e \in Dispatchers
  BY <1>0, <1>7 DEF Dispatchers, AddSideAlarm, AddAlarm
<1>9. /\ \A t \in Sides : e.alarm[t] = IF t = s THEN f ELSE d.alarm[t]
      /\ \A j \in AlarmIds : e.alarms[j] = IF j = f THEN "pending" ELSE d.alarms[j]
  BY <1>3, <1>5, <1>6
<1> HIDE DEF e, f
<1>10. Placed(e)
  BY <1>0, <1>9 DEF Placed, PcsOf
<1>11. Holds(e, "read") /\ Holds(e, "write")
  BY <1>0, <1>1, <1>3, <1>4, <1>9, SideFacts, AlarmIdFacts DEF Holds
<1>12. Adding(e) /\ ~e.fault /\ Gone(e)
  BY <1>0, <1>5 DEF Adding, Gone
<1>13. Removing(e)
  BY <1>0, <1>5, <1>9 DEF Removing
<1>14. Writing(e)
  BY <1>0, <1>3, <1>5, <1>9 DEF Writing, SideOf
<1>15. Off(e)
  BY <1>0, <1>1, <1>4, <1>5, <1>9, SideFacts DEF Off
<1>16. \A i \in ExitAlarms : d.alarms[i] = "free" /\ e.alarms[i] = "free"
  BY <1>0, <1>4, <1>9, SideFacts DEF ExitOnce
<1>17. ExitOnce(e) /\ ExitClears(e)
  BY <1>16 DEF ExitOnce, ExitClears
<1>18. IoInv(e)
  BY <1>8, <1>10, <1>11, <1>12, <1>13, <1>14, <1>15, <1>17 DEF IoInv, Sides
<1>19. Keeps(d, e)
  BY <1>3, <1>5, <1>9 DEF Keeps, Unused, Over, Special
<1> QED
  BY <1>18, <1>19 DEF Step, e

\* What RemoveAlarm leaves of an alarm that is not served.
LEMMA RemoveSide ==
  ASSUME NEW d, IoInv(d), NEW s \in Sides
  PROVE  LET e == RemoveAlarm(d, d.alarm[s]) IN
         /\ Step(d, e) /\ e.state = d.state /\ e.enable = d.enable /\ e.inProgress = d.inProgress
         /\ e.mainAdding = d.mainAdding /\ e.pc = d.pc /\ e.signaled = d.signaled
         /\ ~Served(d, d.alarm[s]) => e.alarm[s] = NoAlarm
         /\ \A t \in Sides : d.alarm[t] = NoAlarm => e.alarm[t] = NoAlarm
         /\ \A i \in AlarmIds : e.alarms[i] \in {"free", d.alarms[i]}
         /\ \A i \in ExitAlarms : e.alarms[i] = d.alarms[i]
<1> DEFINE i == d.alarm[s]
           e == RemoveAlarm(d, i)
<1>1. d \in Dispatchers /\ Holds(d, s)
  BY IoInvParts, SideFacts
<1>2. i \in AlarmIds \cup {NoAlarm}
  BY <1>1 DEF Dispatchers
<1>3. CASE i # NoAlarm /\ d.alarms[i] = "pending"
  <2>1. i \in AlarmIds /\ i \in SideAlarms(s)
    BY <1>1, <1>2, <1>3 DEF Holds
  <2>2. i \notin ExitAlarms
    BY <2>1, SideFacts
  <2>3. e = Done(d, i)
    BY <1>3 DEF RemoveAlarm
  <2>4. Step(d, Done(d, i))
    BY <1>3, <2>1, <2>2, DoneSide DEF Step, Special
  <2> QED
    BY <1>1, <2>1, <2>2, <2>3, <2>4, DoneFields, SideFacts
<1>4. CASE ~(i # NoAlarm /\ d.alarms[i] = "pending")
  <2>1. e = d
    BY <1>4 DEF RemoveAlarm
  <2>2. ~Served(d, i) => i = NoAlarm
    BY <1>4 DEF Served
  <2>3. Step(d, e)
    BY <2>1, StepSame
  <2> QED
    BY <2>1, <2>2, <2>3
<1> QED
  BY <1>3, <1>4

\* The main thread's stop event: it turns STOPPING into STOPPED and adds the
\* exit alarm, once.
LEMMA StopEventInv ==
  ASSUME NEW d, IoInv(d), d.signaled # << >>
  PROVE  Step(d, StopEvent(d))
<1>0. /\ d \in Dispatchers /\ Placed(d) /\ Holds(d, "read") /\ Holds(d, "write")
      /\ Adding(d) /\ Removing(d) /\ Writing(d) /\ Off(d)
      /\ ExitOnce(d) /\ ExitClears(d) /\ Gone(d) /\ ~d.fault
  BY IoInvParts
<1> DEFINE r == [d EXCEPT !.alerted = FALSE]
           z == [r EXCEPT !.state = "STOPPED"]
           e == AddAlarm(z, "exit")
<1>1. /\ r \in Dispatchers /\ r.state = d.state /\ r.enable = d.enable /\ r.inProgress = d.inProgress
      /\ r.mainAdding = d.mainAdding /\ r.alarm = d.alarm /\ r.alarms = d.alarms /\ r.pc = d.pc
      /\ r.signaled = d.signaled /\ r.prev = d.prev /\ r.fault = d.fault
  BY <1>0 DEF Dispatchers
<1>2. Removing(r)
  BY <1>0, <1>1 DEF Removing
<1>3. Step(d, r)
  BY <1>1, <1>2, Frame
<1>4. CASE d.state # "STOPPING"
  <2>1. StopEvent(d) = Handled(r)
    BY <1>4 DEF StopEvent
  <2>2. Step(r, Handled(r))
    BY <1>1, <1>3, HandledInv DEF Step
  <2> QED
    BY <1>3, <2>1, <2>2, StepTrans
<1>5. CASE d.state = "STOPPING"
  <2>1. StopEvent(d) = Handled(e)
    BY <1>5 DEF StopEvent
  <2>2. /\ z \in Dispatchers /\ z.state = "STOPPED" /\ z.enable = d.enable /\ z.inProgress = d.inProgress
        /\ z.mainAdding = d.mainAdding /\ z.alarm = d.alarm /\ z.alarms = d.alarms /\ z.pc = d.pc
        /\ z.signaled = d.signaled /\ z.prev = d.prev /\ z.fault = d.fault
    BY <1>0 DEF Dispatchers
  <2> HIDE DEF z, r
  <2> DEFINE f == Fresh(z, "exit")
  <2>3. \A i \in ExitAlarms : d.alarms[i] = "free"
    BY <1>0, <1>5 DEF ExitOnce
  <2>4. \A i \in AlarmIds : i[1] = "exit" => z.alarms[i] = "free"
    BY <2>2, <2>3 DEF ExitAlarms
  <2>5. f \in AlarmIds /\ f[1] = "exit" /\ f \in ExitAlarms
    BY <2>4, FreshFree DEF Kinds, ExitAlarms
  <2>6. /\ e.state = "STOPPED" /\ e.enable = d.enable /\ e.inProgress = d.inProgress
        /\ e.mainAdding = d.mainAdding /\ e.pc = d.pc /\ e.alarm = d.alarm
        /\ e.signaled = d.signaled /\ e.prev = d.prev /\ e.fault = d.fault
        /\ e.alarms = [d.alarms EXCEPT ![f] = "pending"]
    BY <2>2 DEF Dispatchers, AddAlarm
  <2>7. d.alarms \in [AlarmIds -> Pcs] /\ "pending" \in Pcs
    BY <1>0 DEF Dispatchers, Pcs
  <2>8. e \in Dispatchers
    BY <2>2, <2>7 DEF Dispatchers, AddAlarm
  <2>9. \A j \in AlarmIds : e.alarms[j] = IF j = f THEN "pending" ELSE d.alarms[j]
    BY <2>5, <2>6, <2>7
  <2> HIDE DEF e, f
  <2>10. Placed(e)
    BY <1>0, <2>9 DEF Placed, PcsOf
  <2>11. Holds(e, "read") /\ Holds(e, "write")
    BY <1>0, <2>3, <2>5, <2>6, <2>9, SideFacts DEF Holds
  <2>12. Adding(e) /\ ~e.fault /\ Gone(e) /\ Removing(e) /\ Off(e)
    BY <1>0, <2>6 DEF Adding, Gone, Removing, Off
  <2>13. Writing(e)
    BY <1>0, <2>5, <2>6, <2>9 DEF Writing
  <2>14. ExitOnce(e) /\ ExitClears(e)
    BY <2>3, <2>5, <2>6, <2>9 DEF ExitOnce, ExitClears
  <2>15. IoInv(e)
    BY <2>8, <2>10, <2>11, <2>12, <2>13, <2>14 DEF IoInv, Sides
  <2>16. Step(d, e)
    BY <1>5, <2>3, <2>5, <2>6, <2>9, <2>15 DEF Step, Keeps, Unused, Over, Special
  <2>17. Step(e, Handled(e))
    BY <2>6, <2>15, HandledInv
  <2> QED
    BY <2>1, <2>16, <2>17, StepTrans
<1> QED
  BY <1>4, <1>5

\* The main thread sees a socket ready: it marks the side, and waits for the
\* removal of the side's timeout alarm.
LEMMA SideEventInv ==
  ASSUME NEW d, IoInv(d), d.signaled # << >>, NEW s \in Sides, s = Head(d.signaled)
  PROVE  Step(d, SideEvent(d, s))
<1>0. /\ d \in Dispatchers /\ Placed(d) /\ Holds(d, "read") /\ Holds(d, "write")
      /\ Adding(d) /\ Removing(d) /\ Writing(d) /\ Off(d)
      /\ ExitOnce(d) /\ ExitClears(d) /\ Gone(d) /\ ~d.fault
  BY IoInvParts
<1>1. CASE ~(d.state = "RUNNING" /\ d.enable[s] /\ ~d.inProgress[s])
  BY <1>1, HandledInv DEF SideEvent
<1>2. CASE d.state = "RUNNING" /\ d.enable[s] /\ ~d.inProgress[s]
  <2> DEFINE e == [d EXCEPT !.inProgress[s] = TRUE, !.mainAdding[s] = TRUE,
                            !.prev = d.alarm[s], !.pc = "remove"]
  <2>1. SideEvent(d, s) = e
    BY <1>2 DEF SideEvent
  <2>2. /\ e.state = d.state /\ e.enable = d.enable /\ e.alarm = d.alarm /\ e.alarms = d.alarms
        /\ e.signaled = d.signaled /\ e.fault = d.fault /\ e.pc = "remove" /\ e.prev = d.alarm[s]
        /\ e.inProgress = [d.inProgress EXCEPT ![s] = TRUE]
        /\ e.mainAdding = [d.mainAdding EXCEPT ![s] = TRUE]
    BY <1>0 DEF Dispatchers
  <2>3. d.inProgress \in [Sides -> BOOLEAN] /\ d.mainAdding \in [Sides -> BOOLEAN]
        /\ d.alarm[s] \in AlarmIds \cup {NoAlarm}
    BY <1>0 DEF Dispatchers
  <2>4. e \in Dispatchers
    BY <1>0, <2>3 DEF Dispatchers
  <2>5. /\ \A t \in Sides : e.inProgress[t] <=> t = s \/ d.inProgress[t]
        /\ \A t \in Sides : e.mainAdding[t] <=> t = s \/ d.mainAdding[t]
    BY <2>2, <2>3
  <2> HIDE DEF e
  <2>6. Adding(e) /\ Removing(e)
    BY <1>0, <2>2, <2>5 DEF Adding, Removing
  <2>7. Writing(e)
    BY <1>0, <1>2, <2>2, <2>5, SideFacts DEF Writing
  <2>8. Off(e)
    BY <1>0, <1>2, <2>2, <2>5, SideFacts DEF Off
  <2>9. Step(d, e)
    BY <1>2, <2>2, <2>4, <2>6, <2>7, <2>8, SameAlarms
  <2> QED
    BY <2>1, <2>9
<1> QED
  BY <1>1, <1>2

\* The timeout alarm is removed: the main thread adds the alarm of the
\* callback, unless the stream stops.
LEMMA SideRemovedInv ==
  ASSUME NEW d, IoInv(d), d.pc = "remove", ~Served(d, d.prev)
  PROVE  Step(d, SideRemoved(d, Head(d.signaled)))
<1> DEFINE s == Head(d.signaled)
           r == RemoveAlarm(d, d.prev)
           m == [r EXCEPT !.mainAdding[s] = FALSE, !.prev = NoAlarm]
           n == Handled(m)
<1>0. d \in Dispatchers /\ Adding(d) /\ Removing(d) /\ Off(d)
  BY IoInvParts
<1>1. /\ d.signaled # << >> /\ s \in Sides /\ d.mainAdding[s] /\ d.prev = d.alarm[s]
      /\ d.inProgress[s]
  BY <1>0 DEF Removing, Adding
<1>2. /\ Step(d, r) /\ IoInv(r) /\ r.state = d.state /\ r.enable = d.enable /\ r.inProgress = d.inProgress
      /\ r.mainAdding = d.mainAdding /\ r.pc = d.pc /\ r.signaled = d.signaled
      /\ r.alarm[s] = NoAlarm
  BY <1>1, RemoveSide DEF Step
<1> HIDE DEF s, r
<1>3. r \in Dispatchers /\ Adding(r) /\ Writing(r) /\ Off(r) /\ Holds(r, s)
  BY <1>1, <1>2, IoInvParts, SideFacts
<1>4. r.mainAdding \in [Sides -> BOOLEAN]
  BY <1>3 DEF Dispatchers
<1>5. /\ m \in Dispatchers
      /\ m.state = d.state /\ m.enable = d.enable /\ m.alarm = r.alarm /\ m.alarms = r.alarms
      /\ m.signaled = d.signaled /\ m.fault = r.fault /\ m.inProgress = d.inProgress
      /\ m.mainAdding = [r.mainAdding EXCEPT ![s] = FALSE] /\ m.pc = d.pc
  BY <1>2, <1>3 DEF Dispatchers
<1>6. \A t \in Sides : m.mainAdding[t] <=> t # s /\ d.mainAdding[t]
  BY <1>2, <1>4, <1>5
<1>7. /\ n \in Dispatchers /\ n.pc = "events"
      /\ n.state = d.state /\ n.enable = d.enable /\ n.alarm = r.alarm /\ n.alarms = r.alarms
      /\ n.fault = r.fault /\ n.inProgress = d.inProgress /\ n.mainAdding = m.mainAdding
  <2>1. m.signaled \in Seq(Sides \cup {"stop"}) /\ m.signaled # << >>
    BY <1>1, <1>5 DEF Dispatchers
  <2>2. Tail(m.signaled) \in Seq(Sides \cup {"stop"})
    BY <2>1
  <2> HIDE DEF m
  <2> QED
    BY <1>5, <2>2 DEF Dispatchers, Handled
<1>8. SideRemoved(d, s) = IF d.state = "RUNNING" THEN Handled(AddSideAlarm(m, s, s)) ELSE n
  BY DEF SideRemoved, r
<1>9. d.state = "RUNNING" => Handled(AddSideAlarm(m, s, s)) = AddSideAlarm(n, s, s)
  <2> HIDE DEF m
  <2>1. m.alarms = n.alarms
    BY <1>5, <1>7
  <2>2. Fresh(m, s) = Fresh(n, s)
    BY <2>1 DEF Fresh
  <2> QED
    BY <1>5, <2>2 DEF Handled, AddSideAlarm, AddAlarm, Dispatchers
<1> HIDE DEF m, n
<1>10. Adding(n) /\ Removing(n)
  BY <1>2, <1>3, <1>6, <1>7 DEF Adding, Removing
<1>11. Writing(n)
  BY <1>2, <1>3, <1>6, <1>7, SideFacts DEF Writing
<1>12. Off(n)
  BY <1>2, <1>3, <1>6, <1>7, SideFacts DEF Off
<1>13. Step(d, n) /\ IoInv(n)
  <2>1. Step(r, n)
    BY <1>2, <1>6, <1>7, <1>10, <1>11, <1>12, SameAlarms
  <2> QED
    BY <1>2, <2>1, StepTrans DEF Step
<1>14. CASE d.state = "RUNNING"
  <2>1. s = "write" => n.enable["write"]
    BY <1>0, <1>1, <1>7, <1>14 DEF Off
  <2>2. s \in Kinds /\ s # "exit" /\ SideOf(s) = s
    BY <1>1 DEF Sides, Kinds, SideOf
  <2>3. n.alarm[s] = NoAlarm /\ n.state = "RUNNING" /\ ~n.mainAdding[s]
    BY <1>1, <1>2, <1>6, <1>7, <1>14
  <2>4. s = "write" => n.inProgress["write"]
    BY <1>1, <1>7
  <2>5. Step(n, AddSideAlarm(n, s, s))
    BY <1>1, <1>13, <2>1, <2>2, <2>3, <2>4, AddSide
  <2>6. Step(d, AddSideAlarm(n, s, s))
    BY <1>13, <2>5, StepTrans
  <2> QED
    BY <1>8, <1>9, <1>14, <2>6 DEF s
<1>15. CASE d.state # "RUNNING"
  BY <1>8, <1>13, <1>15 DEF s
<1> QED
  BY <1>14, <1>15

\* The side s is enabled, and its old alarm is gone if a new one is added.
LEMMA EnableCallbackInv ==
  ASSUME NEW d, IoInv(d), NEW s \in Sides, NEW timed \in BOOLEAN,
         (timed \/ s = "write") => d.alarm[s] = NoAlarm
  PROVE  Step(d, EnableCallback(d, s, timed))
<1> DEFINE on == [d EXCEPT !.enable[s] = TRUE]
           off == [on EXCEPT !.inProgress[s] = FALSE]
           kind == IF s = "read" THEN "readTimeout" ELSE "writeTimeout"
<1>0. /\ d \in Dispatchers /\ Holds(d, s)
      /\ Adding(d) /\ Removing(d) /\ Writing(d) /\ Off(d)
  BY IoInvParts, SideFacts
<1>1. d.enable \in [Sides -> BOOLEAN] /\ d.inProgress \in [Sides -> BOOLEAN]
  BY <1>0 DEF Dispatchers
<1>2. /\ on \in Dispatchers
      /\ on.state = d.state /\ on.alarm = d.alarm /\ on.alarms = d.alarms /\ on.fault = d.fault
      /\ on.signaled = d.signaled /\ on.pc = d.pc /\ on.prev = d.prev
      /\ on.inProgress = d.inProgress /\ on.mainAdding = d.mainAdding
      /\ on.enable = [d.enable EXCEPT ![s] = TRUE]
  BY <1>0 DEF Dispatchers
<1>3. \A t \in Sides : on.enable[t] <=> t = s \/ d.enable[t]
  BY <1>1, <1>2
<1> HIDE DEF on
<1>4. Step(d, on)
  <2>1. Adding(on) /\ Removing(on) /\ Writing(on)
    BY <1>0, <1>2 DEF Adding, Removing, Writing
  <2>2. Off(on)
    BY <1>0, <1>2, <1>3, SideFacts DEF Off
  <2> QED
    BY <1>2, <2>1, <2>2, SameAlarms
<1>5. CASE d.state # "RUNNING"
  <2>1. EnableCallback(d, s, timed) = d
    BY <1>5 DEF EnableCallback
  <2> QED
    BY <2>1, StepSame
<1>6. CASE d.state = "RUNNING" /\ d.mainAdding[s]
  <2>1. EnableCallback(d, s, timed) = on
    BY <1>6 DEF EnableCallback, on
  <2> QED
    BY <1>4, <2>1
<1>7. CASE d.state = "RUNNING" /\ ~d.mainAdding[s]
  <2>1. on.inProgress \in [Sides -> BOOLEAN]
    BY <1>2 DEF Dispatchers
  <2>2. /\ off \in Dispatchers
        /\ off.state = d.state /\ off.alarm = d.alarm /\ off.alarms = d.alarms /\ off.fault = d.fault
        /\ off.signaled = d.signaled /\ off.pc = d.pc /\ off.prev = d.prev
        /\ off.mainAdding = d.mainAdding /\ off.enable = on.enable
        /\ off.inProgress = [on.inProgress EXCEPT ![s] = FALSE]
    BY <1>2 DEF Dispatchers
  <2>3. \A t \in Sides : off.inProgress[t] <=> t # s /\ d.inProgress[t]
    BY <1>2, <2>1, <2>2
  <2>4. EnableCallback(d, s, timed) =
          IF timed THEN Alert([AddSideAlarm(on, s, kind) EXCEPT !.inProgress[s] = FALSE])
          ELSE Alert(off)
    <3>1. EnableCallback(d, s, timed) =
            Alert([(IF timed THEN AddSideAlarm(on, s, kind) ELSE on) EXCEPT !.inProgress[s] = FALSE])
      BY <1>7 DEF EnableCallback, on
    <3> QED
      BY <3>1
  <2>5. [AddSideAlarm(on, s, kind) EXCEPT !.inProgress[s] = FALSE] = AddSideAlarm(off, s, kind)
    <3>1. Fresh(on, kind) = Fresh(off, kind)
      <4>1. on.alarms = off.alarms
        BY <1>2, <2>2
      <4> HIDE DEF off, kind
      <4> QED
        BY <4>1 DEF Fresh
    <3> HIDE DEF kind
    <3> QED
      BY <1>2, <3>1 DEF AddSideAlarm, AddAlarm, Dispatchers
  <2> HIDE DEF off
  <2>6. Step(d, off)
    <3>1. Adding(off) /\ Removing(off)
      BY <1>0, <1>7, <2>2, <2>3 DEF Adding, Removing
    <3>2. Writing(off)
      <4>1. CASE s = "write"
        <5>1. \A i \in AlarmIds : i[1] = "write" => d.alarms[i] = "free"
          BY <1>0, <4>1, SideFacts, AlarmIdFacts DEF Holds
        <5> QED
          BY <2>2, <5>1 DEF Writing
      <4>2. CASE s # "write"
        BY <1>0, <2>2, <2>3, <4>2, SideFacts DEF Writing
      <4> QED
        BY <4>1, <4>2
    <3>3. Off(off)
      <4>1. Off(on)
        BY <1>4, IoInvParts DEF Step
      <4> QED
        BY <1>2, <2>2, <4>1 DEF Off
    <3> QED
      BY <2>2, <3>1, <3>2, <3>3, SameAlarms
  <2>7. CASE ~timed
    <3>1. Step(off, Alert(off))
      BY <2>6, AlertInv DEF Step
    <3> QED
      BY <2>4, <2>6, <2>7, <3>1, StepTrans
  <2>8. CASE timed
    <3>1. kind \in Kinds /\ kind # "exit" /\ SideOf(kind) = s /\ kind # "write"
      BY SideFacts DEF Kinds, SideOf
    <3>2. s = "write" => off.enable["write"]
      BY <1>3, <2>2, SideFacts
    <3> HIDE DEF kind
    <3> DEFINE e == AddSideAlarm(off, s, kind)
    <3>3. Step(off, e)
      BY <1>7, <2>2, <2>6, <2>8, <3>1, <3>2, AddSide DEF Step
    <3> HIDE DEF e
    <3>4. Step(d, e) /\ Step(e, Alert(e))
      BY <2>6, <3>3, AlertInv, StepTrans DEF Step
    <3>5. EnableCallback(d, s, timed) = Alert(e)
      BY <2>4, <2>5, <2>8 DEF e
    <3> QED
      BY <3>4, <3>5, StepTrans
  <2> QED
    BY <2>7, <2>8
<1> QED
  BY <1>5, <1>6, <1>7

\* EnableTimeoutCallback, when no thread serves the timeout alarm it replaces:
\* its RemoveAlarm does not wait.
LEMMA EnableTimeoutInv ==
  ASSUME NEW d, IoInv(d), NEW timed \in BOOLEAN,
         timed /\ d.state = "RUNNING" /\ ~d.inProgress["read"] /\ ~d.mainAdding["read"] =>
           ~Served(d, d.alarm["read"])
  PROVE  Step(d, EnableTimeoutCallback(d, timed))
<1>1. CASE d.state # "RUNNING" \/ d.inProgress["read"] \/ d.mainAdding["read"]
  BY <1>1, StepSame DEF EnableTimeoutCallback
<1>2. CASE ~(d.state # "RUNNING" \/ d.inProgress["read"] \/ d.mainAdding["read"])
  <2> DEFINE r == RemoveAlarm(d, d.alarm["read"])
  <2>1. EnableTimeoutCallback(d, timed) = IF timed THEN AddSideAlarm(r, "read", "readTimeout") ELSE r
    BY <1>2 DEF EnableTimeoutCallback
  <2>2. /\ Step(d, r) /\ r.state = d.state /\ r.mainAdding = d.mainAdding
        /\ timed => r.alarm["read"] = NoAlarm
    BY <1>2, RemoveSide DEF Sides
  <2> HIDE DEF r
  <2>3. timed => Step(r, AddSideAlarm(r, "read", "readTimeout"))
    BY <1>2, <2>2, AddSide DEF Step, Sides, Kinds, SideOf
  <2> QED
    BY <2>1, <2>2, <2>3, StepTrans
<1> QED
  BY <1>1, <1>2

\* EnableWriteCallbackNow, which PushMessage calls under the lock that the
\* writer holds while it disables the callback.
LEMMA EnableWriteNowInv ==
  ASSUME NEW d, IoInv(d), NEW full \in BOOLEAN, \A i \in AlarmIds : d.alarms[i] # "disabled"
  PROVE  Step(d, EnableWriteCallbackNow(d, full))
<1>1. CASE d.state # "RUNNING" \/ d.enable["write"] \/ d.mainAdding["write"]
  BY <1>1, StepSame DEF EnableWriteCallbackNow
<1>2. CASE ~(d.state # "RUNNING" \/ d.enable["write"] \/ d.mainAdding["write"])
  <2> DEFINE on == [d EXCEPT !.enable["write"] = TRUE]
             a == [on EXCEPT !.inProgress["write"] = FALSE, !.alarm["write"] = NoAlarm]
             b == [on EXCEPT !.inProgress["write"] = TRUE]
  <2>0. /\ d \in Dispatchers /\ Holds(d, "write")
        /\ Adding(d) /\ Removing(d) /\ Writing(d) /\ Off(d)
    BY IoInvParts
  <2>1. EnableWriteCallbackNow(d, full) = IF full THEN Alert(a) ELSE AddSideAlarm(b, "write", "write")
    BY <1>2 DEF EnableWriteCallbackNow
  <2>2. \A i \in SideAlarms("write") : d.alarms[i] = "free"
    BY <1>2, <2>0, SideFacts DEF Off
  <2>3. d.alarm["write"] = NoAlarm
    BY <2>0, <2>2 DEF Holds, Dispatchers, Sides
  <2>4. "write" \in Sides /\ d.enable \in [Sides -> BOOLEAN] /\ d.inProgress \in [Sides -> BOOLEAN]
        /\ d.alarm \in [Sides -> AlarmIds \cup {NoAlarm}]
    BY <2>0 DEF Dispatchers, Sides
  <2>5. [d.alarm EXCEPT !["write"] = NoAlarm] = d.alarm
    BY <2>3, <2>4
  <2>6. /\ a \in Dispatchers
        /\ a.state = d.state /\ a.alarm = d.alarm /\ a.alarms = d.alarms /\ a.fault = d.fault
        /\ a.signaled = d.signaled /\ a.pc = d.pc /\ a.prev = d.prev
        /\ a.mainAdding = d.mainAdding /\ a.enable = [d.enable EXCEPT !["write"] = TRUE]
        /\ a.inProgress = [d.inProgress EXCEPT !["write"] = FALSE]
    BY <2>0, <2>4, <2>5 DEF Dispatchers
  <2>7. /\ b \in Dispatchers
        /\ b.state = d.state /\ b.alarm = d.alarm /\ b.alarms = d.alarms /\ b.fault = d.fault
        /\ b.signaled = d.signaled /\ b.pc = d.pc /\ b.prev = d.prev
        /\ b.mainAdding = d.mainAdding /\ b.enable = [d.enable EXCEPT !["write"] = TRUE]
        /\ b.inProgress = [d.inProgress EXCEPT !["write"] = TRUE]
    BY <2>0, <2>4 DEF Dispatchers
  <2>8. /\ \A t \in Sides : a.inProgress[t] <=> t # "write" /\ d.inProgress[t]
        /\ \A t \in Sides : b.inProgress[t] <=> t = "write" \/ d.inProgress[t]
        /\ a.enable["write"] /\ b.enable["write"]
    BY <2>4, <2>6, <2>7
  <2> HIDE DEF a, b
  <2>9. \A i \in AlarmIds : i[1] = "write" => d.alarms[i] = "free"
    BY <2>2, SideFacts
  <2>10. Adding(a) /\ Removing(a) /\ Writing(a) /\ Off(a)
    BY <1>2, <2>0, <2>6, <2>8, <2>9 DEF Adding, Removing, Writing, Off
  <2>11. Adding(b) /\ Removing(b) /\ Writing(b) /\ Off(b)
    BY <1>2, <2>0, <2>7, <2>8, <2>9 DEF Adding, Removing, Writing, Off
  <2>12. Step(d, a) /\ Step(d, b)
    BY <2>6, <2>7, <2>10, <2>11, SameAlarms
  <2>13. Step(b, AddSideAlarm(b, "write", "write"))
    BY <1>2, <2>3, <2>4, <2>7, <2>8, <2>12, AddSide DEF Step, Kinds, SideOf
  <2>14. Step(a, Alert(a))
    BY <2>12, AlertInv DEF Step
  <2> QED
    BY <2>1, <2>12, <2>13, <2>14, StepTrans
<1> QED
  BY <1>1, <1>2

----------------------------------------------------------------------------
(* AlarmTriggered, the exit alarm and the writer that has nothing to write *)

\* An alarm in use is the entry's alarm of its side, or the exit alarm.
LEMMA AlarmOfSide ==
  ASSUME NEW d, IoInv(d), NEW i \in AlarmIds, d.alarms[i] # "free"
  PROVE  /\ i[1] = "exit" => i \in ExitAlarms /\ d.state = "STOPPED"
         /\ i[1] # "exit" => /\ i \notin ExitAlarms /\ SideOf(i[1]) \in Sides
                             /\ d.alarm[SideOf(i[1])] = i /\ d.state # "NONE"
<1>1. Holds(d, "read") /\ Holds(d, "write") /\ ExitOnce(d) /\ Gone(d)
  BY IoInvParts
<1>2. CASE i[1] = "exit"
  BY <1>1, <1>2 DEF ExitAlarms, ExitOnce
<1>3. CASE i[1] # "exit"
  <2> DEFINE s == SideOf(i[1])
  <2>1. s \in Sides /\ i \in SideAlarms(s)
    BY <1>3 DEF SideAlarms, SideOf, Sides
  <2>2. Holds(d, s)
    BY <1>1, <2>1 DEF Sides
  <2>3. d.alarm[s] = i
    BY <2>1, <2>2 DEF Holds
  <2> QED
    BY <1>1, <1>3, <2>1, <2>3, AlarmIdFacts DEF Gone, ExitAlarms
<1> QED
  BY <1>2, <1>3

\* AlarmTriggered finds the entry, and starts the callback or gives up.
LEMMA AlarmTriggeredInv ==
  ASSUME NEW d, IoInv(d), NEW i \in AlarmIds, d.alarms[i] \in {"pending", "taken"}
  PROVE  Step(d, AlarmTriggered(d, i))
<1> DEFINE s == SideOf(i[1])
<1>0. /\ d \in Dispatchers /\ Adding(d) /\ Removing(d) /\ Writing(d) /\ Off(d)
  BY IoInvParts
<1>1. d.state # "NONE" /\ s \in Sides /\ i[1] \in Kinds
  BY AlarmOfSide, AlarmIdFacts DEF SideOf, Sides
<1>2. CASE i[1] = "exit"
  <2>1. AlarmTriggered(d, i) = Goto(d, i, "exitRead")
    BY <1>1, <1>2 DEF AlarmTriggered, SideOf
  <2>2. i \in ExitAlarms /\ "exitRead" \in PcsOf("exit")
    BY <1>2, PcsOfFacts DEF ExitAlarms
  <2>3. IoInv(Goto(d, i, "exitRead")) /\ Keeps(d, Goto(d, i, "exitRead"))
    BY <2>2, GotoExit DEF Special
  <2> QED
    BY <2>1, <2>3 DEF Step
<1>3. CASE d.state = "RUNNING" /\ i[1] = s /\ d.enable[s]
  <2>1. AlarmTriggered(d, i) = Goto(d, i, s)
    BY <1>1, <1>3 DEF AlarmTriggered, Sides
  <2>2. i[1] # "exit" /\ i \notin ExitAlarms /\ s \in PcsOf(i[1]) /\ s # "free" /\ s \notin Special
    BY <1>1, <1>3, PcsOfFacts DEF Sides, ExitAlarms, Special
  <2> HIDE DEF s
  <2>3. IoInv(Goto(d, i, s)) /\ Keeps(d, Goto(d, i, s))
    BY <2>2, GotoSide DEF Special
  <2> QED
    BY <2>1, <2>3 DEF Step
<1>4. CASE d.state = "RUNNING" /\ i[1] # s /\ i[1] # "exit"
  <2> DEFINE e == [d EXCEPT !.inProgress[s] = TRUE]
  <2>1. /\ d.enable[s] => AlarmTriggered(d, i) = Goto(e, i, "reload")
        /\ ~d.enable[s] => AlarmTriggered(d, i) = Done(e, i)
    BY <1>1, <1>4 DEF AlarmTriggered
  <2>2. i \notin ExitAlarms /\ "reload" \in PcsOf(i[1])
    BY <1>1, <1>4, PcsOfFacts DEF ExitAlarms, Kinds, SideOf
  <2>3. d.inProgress \in [Sides -> BOOLEAN]
    BY <1>0 DEF Dispatchers
  <2>4. /\ e \in Dispatchers
        /\ e.state = d.state /\ e.alarm = d.alarm /\ e.alarms = d.alarms /\ e.fault = d.fault
        /\ e.signaled = d.signaled /\ e.pc = d.pc /\ e.prev = d.prev
        /\ e.mainAdding = d.mainAdding /\ e.enable = d.enable
        /\ e.inProgress = [d.inProgress EXCEPT ![s] = TRUE]
    BY <1>0, <1>1 DEF Dispatchers
  <2>5. \A t \in Sides : d.inProgress[t] => e.inProgress[t]
    BY <2>3, <2>4
  <2> HIDE DEF e, s
  <2>6. Adding(e) /\ Removing(e) /\ Writing(e) /\ Off(e)
    BY <1>0, <2>4, <2>5, SideFacts DEF Adding, Removing, Writing, Off
  <2>7. Step(d, e)
    BY <2>4, <2>6, SameAlarms
  <2>8. IoInv(Goto(e, i, "reload")) /\ Keeps(e, Goto(e, i, "reload"))
    BY <2>2, <2>4, <2>7, GotoSide DEF Special, Step
  <2>9. IoInv(Done(e, i)) /\ Keeps(e, Done(e, i))
    BY <2>2, <2>4, <2>7, DoneSide DEF Special, Step
  <2> QED
    BY <2>1, <2>7, <2>8, <2>9, StepTrans DEF Step
<1>5. CASE /\ i[1] # "exit"
           /\ ~(d.state = "RUNNING" /\ (i[1] # s \/ d.enable[s]))
  <2>1. AlarmTriggered(d, i) = Done(d, i)
    BY <1>1, <1>5 DEF AlarmTriggered
  <2>2. i \notin ExitAlarms
    BY <1>5 DEF ExitAlarms
  <2>3. IoInv(Done(d, i)) /\ Keeps(d, Done(d, i))
    BY <2>2, DoneSide DEF Special
  <2> QED
    BY <2>1, <2>3 DEF Step
<1> QED
  BY <1>2, <1>3, <1>4, <1>5

\* The exit alarm's thread has removed the alarms of a side.
LEMMA ExitRemovedInv ==
  ASSUME NEW d, IoInv(d), NEW i \in ExitAlarms,
         \/ d.alarms[i] = "exitRead" /\ ~Served(d, d.alarm["read"])
         \/ d.alarms[i] = "exitWrite" /\ ~Served(d, d.alarm["write"])
  PROVE  /\ d.alarms[i] = "exitRead" => Step(d, ExitRemoved(d, i, "read", "exitWrite"))
         /\ d.alarms[i] = "exitWrite" => Step(d, ExitRemoved(d, i, "write", "exitCallback"))
<1>0. ExitClears(d)
  BY IoInvParts
<1>1. ASSUME d.alarms[i] = "exitRead"
      PROVE  Step(d, ExitRemoved(d, i, "read", "exitWrite"))
  <2> DEFINE r == RemoveAlarm(d, d.alarm["read"])
  <2>1. Step(d, r) /\ r.alarm["read"] = NoAlarm /\ r.alarms[i] = "exitRead"
    BY <1>1, RemoveSide DEF Sides
  <2>2. ExitRemoved(d, i, "read", "exitWrite") = Goto(r, i, "exitWrite")
    BY DEF ExitRemoved
  <2> HIDE DEF r
  <2>3. Step(r, Goto(r, i, "exitWrite"))
    BY <2>1, GotoExit, PcsOfFacts DEF Special, Step
  <2> QED
    BY <2>1, <2>2, <2>3, StepTrans
<1>2. ASSUME d.alarms[i] = "exitWrite"
      PROVE  Step(d, ExitRemoved(d, i, "write", "exitCallback"))
  <2> DEFINE r == RemoveAlarm(d, d.alarm["write"])
  <2>0. d.alarm["read"] = NoAlarm
    BY <1>0, <1>2 DEF ExitClears
  <2>1. Step(d, r) /\ r.alarm["write"] = NoAlarm /\ r.alarm["read"] = NoAlarm /\ r.alarms[i] = "exitWrite"
    BY <1>2, <2>0, RemoveSide DEF Sides
  <2>2. ExitRemoved(d, i, "write", "exitCallback") = Goto(r, i, "exitCallback")
    BY DEF ExitRemoved
  <2> HIDE DEF r
  <2>3. Step(r, Goto(r, i, "exitCallback"))
    BY <2>1, GotoExit, PcsOfFacts DEF Special, Step
  <2> QED
    BY <2>1, <2>2, <2>3, StepTrans
<1> QED
  BY <1>1, <1>2

\* The exit alarm's thread erases the entry.
LEMMA ExitErasedInv ==
  ASSUME NEW d, IoInv(d), NEW i \in ExitAlarms, d.alarms[i] = "exitErase"
  PROVE  Step(d, ExitErased(d, i))
<1> DEFINE z == [d EXCEPT !.state = "NONE"]
           e == Done(z, i)
<1>0. /\ d \in Dispatchers /\ Placed(d) /\ Holds(d, "read") /\ Holds(d, "write")
      /\ Adding(d) /\ Removing(d) /\ Writing(d) /\ Off(d)
      /\ ExitOnce(d) /\ ExitClears(d) /\ Gone(d) /\ ~d.fault
  BY IoInvParts
<1>1. /\ z \in Dispatchers /\ z.state = "NONE" /\ z.enable = d.enable /\ z.inProgress = d.inProgress
      /\ z.mainAdding = d.mainAdding /\ z.alarm = d.alarm /\ z.alarms = d.alarms /\ z.pc = d.pc
      /\ z.signaled = d.signaled /\ z.prev = d.prev /\ z.fault = d.fault
  BY <1>0 DEF Dispatchers
<1>2. i \in AlarmIds
  BY SideFacts
<1>3. ExitErased(d, i) = e
  BY DEF ExitErased
<1> HIDE DEF z
<1>4. /\ e \in Dispatchers
      /\ e.state = "NONE" /\ e.enable = d.enable /\ e.inProgress = d.inProgress
      /\ e.mainAdding = d.mainAdding /\ e.pc = d.pc /\ e.signaled = d.signaled /\ e.fault = d.fault
      /\ e.prev = (IF d.prev = i THEN NoAlarm ELSE d.prev)
      /\ \A s \in Sides : e.alarm[s] = IF d.alarm[s] = i THEN NoAlarm ELSE d.alarm[s]
      /\ \A j \in AlarmIds : e.alarms[j] = IF j = i THEN "free" ELSE d.alarms[j]
  BY <1>1, <1>2, DoneFields
<1> HIDE DEF e
<1>5. d.alarm["read"] = NoAlarm /\ d.alarm["write"] = NoAlarm
  BY <1>0 DEF ExitClears
<1>6. \A s \in Sides : e.alarm[s] = NoAlarm /\ d.alarm[s] = NoAlarm
  BY <1>4, <1>5, SideFacts
<1>7. \A j \in AlarmIds : e.alarms[j] = "free"
  BY <1>0, <1>2, <1>4, <1>5, SideFacts, AlarmIdFacts DEF ExitOnce, Holds
<1>8. Placed(e)
  BY <1>7 DEF Placed, PcsOf
<1>9. Holds(e, "read") /\ Holds(e, "write")
  BY <1>6, <1>7, AlarmIdFacts, SideFacts DEF Holds
<1>10. Adding(e) /\ Writing(e) /\ Off(e) /\ Gone(e) /\ ~e.fault
  BY <1>0, <1>4, <1>6, <1>7 DEF Adding, Writing, Off, Gone
<1>11. Removing(e)
  <2>1. d.pc = "remove" => Head(d.signaled) \in Sides /\ d.prev = NoAlarm
    BY <1>0, <1>6 DEF Removing
  <2> QED
    BY <1>0, <1>4, <1>6, <2>1, <1>2, AlarmIdFacts DEF Removing
<1>12. ExitOnce(e) /\ ExitClears(e)
  BY <1>7, SideFacts DEF ExitOnce, ExitClears
<1>13. IoInv(e)
  BY <1>4, <1>8, <1>9, <1>10, <1>11, <1>12 DEF IoInv, Sides
<1>14. d.state = "STOPPED"
  BY <1>0 DEF ExitOnce
<1>15. \A j \in AlarmIds : d.alarms[j] \notin Special
  BY <1>0, <1>4, <1>7 DEF Special
<1>16. Keeps(d, e)
  BY <1>4, <1>6, <1>7, <1>14, <1>15 DEF Keeps, Unused, Over, Special
<1> QED
  BY <1>3, <1>13, <1>16 DEF Step

\* WriteCallback finds the queue empty and disables itself.
LEMMA DisabledInv ==
  ASSUME NEW d, IoInv(d), NEW i \in AlarmIds, d.alarms[i] = "write"
  PROVE  LET e == Goto(DisableWriteCallback(d), i, "disabled") IN
         /\ IoInv(e) /\ d.alarm["write"] = i /\ d.state # "NONE"
         /\ \A j \in AlarmIds : e.alarms[j] = IF j = i THEN "disabled" ELSE d.alarms[j]
<1> DEFINE z == IF d.state = "RUNNING" THEN [d EXCEPT !.enable["write"] = FALSE, !.alerted = TRUE] ELSE d
           e == Goto(z, i, "disabled")
<1>0. /\ d \in Dispatchers /\ Placed(d) /\ Holds(d, "read") /\ Holds(d, "write")
      /\ Adding(d) /\ Removing(d) /\ Writing(d) /\ Off(d)
      /\ ExitOnce(d) /\ ExitClears(d) /\ Gone(d) /\ ~d.fault
  BY IoInvParts
<1>1. i[1] = "write"
  BY <1>0, AlarmIdFacts, PcsOfFacts DEF Placed, Kinds
<1>2. d.alarm["write"] = i /\ d.state # "NONE"
  BY <1>1, AlarmOfSide DEF SideOf
<1>3. i \in SideAlarms("write") /\ i \notin ExitAlarms /\ i # NoAlarm
  BY <1>1, AlarmIdFacts, SideFacts
<1>4. DisableWriteCallback(d) = z
  BY <1>0 DEF DisableWriteCallback, DisableCallback, Alert, Dispatchers
<1>5. /\ z \in Dispatchers /\ z.state = d.state /\ z.inProgress = d.inProgress
      /\ z.mainAdding = d.mainAdding /\ z.alarm = d.alarm /\ z.alarms = d.alarms /\ z.pc = d.pc
      /\ z.signaled = d.signaled /\ z.prev = d.prev /\ z.fault = d.fault
  BY <1>0 DEF Dispatchers, Sides
<1> HIDE DEF z
<1>6. d.alarms \in [AlarmIds -> Pcs] /\ "disabled" \in Pcs
  BY <1>0 DEF Dispatchers, Pcs
<1>7. /\ e \in Dispatchers /\ e.state = d.state /\ e.inProgress = d.inProgress
      /\ e.mainAdding = d.mainAdding /\ e.alarm = d.alarm /\ e.pc = d.pc
      /\ e.signaled = d.signaled /\ e.prev = d.prev /\ e.fault = d.fault
      /\ e.alarms = [d.alarms EXCEPT ![i] = "disabled"]
  BY <1>5, <1>6 DEF Dispatchers, Goto
<1>8. \A j \in AlarmIds : e.alarms[j] = IF j = i THEN "disabled" ELSE d.alarms[j]
  BY <1>6, <1>7
<1> HIDE DEF e
<1>9. Placed(e)
  BY <1>0, <1>1, <1>8, PcsOfFacts DEF Placed
<1>10. Holds(e, "read") /\ Holds(e, "write")
  BY <1>0, <1>3, <1>7, <1>8 DEF Holds
<1>11. Adding(e) /\ Removing(e) /\ Gone(e) /\ ~e.fault
  BY <1>0, <1>7 DEF Adding, Removing, Gone
<1>12. Writing(e)
  BY <1>0, <1>7, <1>8 DEF Writing
<1>13. Off(e)
  <2>1. ~d.mainAdding["write"]
    BY <1>0, <1>1 DEF Writing
  <2>2. \A j \in SideAlarms("write") : e.alarms[j] \in {"free", "disabled"}
    BY <1>0, <1>2, <1>8, SideFacts DEF Holds
  <2> QED
    BY <1>7, <2>1, <2>2 DEF Off
<1>14. ExitOnce(e) /\ ExitClears(e)
  BY <1>0, <1>3, <1>7, <1>8, SideFacts DEF ExitOnce, ExitClears
<1>15. IoInv(e)
  BY <1>7, <1>9, <1>10, <1>11, <1>12, <1>13, <1>14 DEF IoInv, Sides
<1> QED
  BY <1>2, <1>4, <1>8, <1>15 DEF e

----------------------------------------------------------------------------
(* The endpoint on top of the dispatcher *)

\* The endpoint's fields.
EpFields == {"txQueue", "txWaitQueue", "getNextMsg", "cur", "begun", "stopping", "exitCount",
             "idleTimeoutCount", "idleTimeout", "lock", "accepted", "written", "expired"}

EpShape == ep = [f \in EpFields |-> ep[f]] /\ ep.idleTimeout \in BOOLEAN

\* Between DisableWriteCallback and its return the writer has the lock, so
\* that PushMessage cannot enable the callback in between.
LockHeld == \A i \in AlarmIds : io.alarms[i] = "disabled" => ep.lock = i
\* Before Start the dispatcher has nothing to do; after the exit callback it
\* has no alarm left.
NotBegun == user = "new" => Unused(io) /\ ep.exitCount = 0
ExitOver == ep.exitCount # 0 => Over(io)

\* The invariant of the dispatcher and the endpoint's part in it.
DispatchInv == IoInv(io) /\ EpShape /\ LockHeld /\ NotBegun /\ ExitOver

\* SetLinkTimeout replaces a timeout alarm that a thread has just taken: the
\* alarm it leaves behind is not the one the entry knows of any more.
Overtakes ==
  /\ SetLinkTimeout /\ ep'.idleTimeout
  /\ io.state = "RUNNING" /\ ~io.inProgress["read"] /\ ~io.mainAdding["read"]
  /\ Served(io, io.alarm["read"])

\* A step of the dispatcher that the endpoint does not see.
Quiet ==
  /\ Step(io, io') /\ EpShape' /\ ep'.lock = ep.lock /\ ep'.exitCount = ep.exitCount
  /\ user' = "new" => user = "new"

\* Such a step keeps the invariant.
LEMMA QuietInv ==
  ASSUME DispatchInv, Quiet
  PROVE  DispatchInv'
<1>1. IoInv(io') /\ Keeps(io, io')
  BY DEF Quiet, Step
<1>2. LockHeld'
  BY <1>1 DEF Quiet, DispatchInv, LockHeld, Keeps, Special
<1>3. NotBegun' /\ ExitOver'
  BY <1>1 DEF Quiet, DispatchInv, NotBegun, ExitOver, Keeps
<1> QED
  BY <1>1, <1>2, <1>3 DEF DispatchInv, Quiet

\* Nothing has happened yet.
LEMMA InitInv == Init => DispatchInv
<1> SUFFICES ASSUME Init PROVE DispatchInv
  OBVIOUS
<1>1. /\ io.state = "NONE" /\ io.mainAdding = Both(FALSE) /\ io.alarm = Both(NoAlarm)
      /\ io.alarms = [i \in AlarmIds |-> "free"] /\ io.pc = "wait" /\ ~io.fault
      /\ io.inProgress = Both(FALSE)
  BY DEF Init, NewDispatch
<1>2. Both(FALSE) \in [Sides -> BOOLEAN] /\ Both(NoAlarm) \in [Sides -> AlarmIds \cup {NoAlarm}]
      /\ [i \in AlarmIds |-> "free"] \in [AlarmIds -> Pcs]
  BY DEF Both, Pcs
<1>3. io \in Dispatchers
  <2>1. << >> \in Seq(Sides \cup {"stop"}) /\ {} \in SUBSET Sides
    OBVIOUS
  <2>2. NewDispatch \in Dispatchers
    BY <1>2, <2>1 DEF NewDispatch, Dispatchers
  <2> QED
    BY <2>2 DEF Init
<1>4. \A s \in Sides : ~io.mainAdding[s] /\ io.alarm[s] = NoAlarm
  BY <1>1 DEF Both
<1>5. \A i \in AlarmIds : io.alarms[i] = "free"
  BY <1>1
<1>6. Placed(io)
  BY <1>5 DEF Placed, PcsOf
<1>7. \A s \in Sides : Holds(io, s)
  BY <1>4, <1>5, AlarmIdFacts DEF Holds
<1>8. Adding(io) /\ Removing(io) /\ Writing(io) /\ Off(io) /\ Gone(io)
  BY <1>1, <1>4, <1>5 DEF Adding, Removing, Writing, Off, Gone
<1>9. ExitOnce(io) /\ ExitClears(io)
  BY <1>5, SideFacts DEF ExitOnce, ExitClears
<1>10. IoInv(io)
  BY <1>1, <1>3, <1>6, <1>7, <1>8, <1>9 DEF IoInv
<1>11. EpShape /\ ep.exitCount = 0
  BY DEF Init, NewEndpoint, EpShape, EpFields
<1> QED
  BY <1>1, <1>4, <1>5, <1>10, <1>11 DEF DispatchInv, LockHeld, NotBegun, ExitOver, Unused

\* The steps of IODispatch::Run.
LEMMA MainQuiet ==
  ASSUME DispatchInv, Main
  PROVE  Quiet
<1>0. IoInv(io) /\ EpShape /\ io \in Dispatchers
  BY IoInvParts DEF DispatchInv
<1>1. UNCHANGED <<ep, user>>
  BY DEF Main, MainWake, MainLoad, MainEvent, MainRemove, Dispatch
<1>2. ASSUME MainWake PROVE Step(io, io')
  <2>1. io' = Woken(io, Select(io, Ready)) /\ Select(io, Ready) \in Seq(Sides \cup {"stop"})
    BY <1>0, <1>2, SelectIsSeq DEF MainWake, Dispatch
  <2> QED
    BY <1>0, <2>1, WokenInv
<1>3. ASSUME MainLoad PROVE Step(io, io')
  BY <1>0, <1>3, LoadInv DEF MainLoad, Dispatch
<1>4. ASSUME MainEvent PROVE Step(io, io')
  <2>1. io.signaled # << >> /\ io.signaled \in Seq(Sides \cup {"stop"})
    BY <1>0, <1>4 DEF MainEvent, Dispatchers
  <2>2. Head(io.signaled) \in Sides \cup {"stop"}
    BY <2>1
  <2>3. io' = IF Head(io.signaled) = "stop" THEN StopEvent(io) ELSE SideEvent(io, Head(io.signaled))
    BY <1>4 DEF MainEvent, Dispatch
  <2> QED
    BY <1>0, <2>1, <2>2, <2>3, StopEventInv, SideEventInv
<1>5. ASSUME MainRemove PROVE Step(io, io')
  BY <1>0, <1>5, SideRemovedInv DEF MainRemove, Dispatch
<1> QED
  BY <1>0, <1>1, <1>2, <1>3, <1>4, <1>5 DEF Main, Quiet, EpShape

\* Who takes the endpoint's lock finds no writer on its way out.
LEMMA UnlockedFree ==
  ASSUME DispatchInv, Unlocked
  PROVE  \A i \in AlarmIds : io.alarms[i] # "disabled"
  BY AlarmIdFacts DEF DispatchInv, LockHeld, Unlocked

\* PushMessage puts a message into the queue and enables the write callback.
LEMMA AcceptQuiet ==
  ASSUME DispatchInv, Unlocked, NEW t, NEW q, Accept(t, q), UNCHANGED user
  PROVE  Quiet
<1>1. IoInv(io) /\ EpShape /\ \A i \in AlarmIds : io.alarms[i] # "disabled"
  BY UnlockedFree DEF DispatchInv
<1>2. io' \in {io, EnableWriteCallbackNow(io, FALSE), EnableWriteCallbackNow(io, TRUE)}
  BY DEF Accept
<1>3. Step(io, io')
  BY <1>1, <1>2, StepSame, EnableWriteNowInv
<1>4. EpShape' /\ ep'.lock = ep.lock /\ ep'.exitCount = ep.exitCount
  BY <1>1 DEF Accept, EpShape, EpFields
<1> QED
  BY <1>3, <1>4 DEF Quiet

\* PushMessage tries once, and accepts the message or waits.
LEMMA RoundQuiet ==
  ASSUME DispatchInv, Unlocked, NEW t, Round(t), UNCHANGED user
  PROVE  Quiet
<1>1. PICK q : IF Len(q) < MaxTxQueue THEN Accept(t, q)
               ELSE /\ ep' = [ep EXCEPT !.txWaitQueue = <<t>> \o SelectSeq(@, LAMBDA u : u # t)]
                    /\ push' = [push EXCEPT ![t].pc = "wait", ![t].alert = @ /\ push[t].pc = "enter"]
                    /\ UNCHANGED <<io, sock>>
  BY DEF Round
<1>2. CASE Len(q) < MaxTxQueue
  BY <1>1, <1>2, AcceptQuiet
<1>3. CASE ~(Len(q) < MaxTxQueue)
  <2>1. io' = io /\ ep' = [ep EXCEPT !.txWaitQueue = <<t>> \o SelectSeq(@, LAMBDA u : u # t)]
    BY <1>1, <1>3
  <2>2. IoInv(io) /\ EpShape
    BY DEF DispatchInv
  <2>3. EpShape' /\ ep'.lock = ep.lock /\ ep'.exitCount = ep.exitCount
    BY <2>1, <2>2 DEF EpShape, EpFields
  <2> QED
    BY <2>1, <2>2, <2>3, StepSame DEF Quiet
<1> QED
  BY <1>2, <1>3

\* The steps of PushMessage.
LEMMA PushStepQuiet ==
  ASSUME DispatchInv, NEW t, PushStep(t)
  PROVE  Quiet
<1>1. Unlocked /\ UNCHANGED user
  BY DEF PushStep, PushEnter, PushAlerted, PushTimedOut
<1>2. CASE Round(t)
  BY <1>1, <1>2, RoundQuiet
<1>3. CASE ~Round(t)
  <2>1. io' = io /\ ep' = [ep EXCEPT !.txWaitQueue = SelectSeq(@, LAMBDA u : u # t)]
    BY <1>3 DEF PushStep, PushEnter, PushAlerted, PushTimedOut
  <2>2. IoInv(io) /\ EpShape
    BY DEF DispatchInv
  <2>3. EpShape' /\ ep'.lock = ep.lock /\ ep'.exitCount = ep.exitCount
    BY <2>1, <2>2 DEF EpShape, EpFields
  <2> QED
    BY <1>1, <2>1, <2>2, <2>3, StepSame DEF Quiet
<1> QED
  BY <1>2, <1>3

\* Whoever leaves io and ep alone.
LEMMA SameQuiet ==
  ASSUME DispatchInv, UNCHANGED <<io, ep>>, user' = "new" => user = "new"
  PROVE  Quiet
  BY StepSame DEF DispatchInv, Quiet, EpShape

\* Where a thread is tells the kind of its alarm.
LEMMA AlarmKind ==
  ASSUME IoInv(io), NEW i \in AlarmIds
  PROVE  /\ io.alarms[i] = "read" => i[1] = "read"
         /\ io.alarms[i] \in {"readTimeout", "probed"} => i[1] = "readTimeout"
         /\ io.alarms[i] \in {"write", "delivered", "disabled"} => i[1] = "write"
         /\ io.alarms[i] = "writeTimeout" => i[1] = "writeTimeout"
         /\ io.alarms[i] \in {"taken", "reload"} => i[1] \in {"readTimeout", "writeTimeout"}
         /\ io.alarms[i] \in {"exitRead", "exitWrite", "exitCallback", "exitErase"} => i \in ExitAlarms
         /\ io.alarms[i] \in {"read", "readTimeout", "probed", "write", "delivered", "disabled",
                              "writeTimeout", "taken", "reload", "noted"} => i \notin ExitAlarms
<1>1. io.alarms[i] \in PcsOf(i[1]) /\ i[1] \in Kinds
  BY IoInvParts, AlarmIdFacts DEF Placed
<1>2. CASE i[1] = "read"
  BY <1>1, <1>2, PcsOfFacts DEF ExitAlarms
<1>3. CASE i[1] = "readTimeout"
  BY <1>1, <1>3, PcsOfFacts DEF ExitAlarms
<1>4. CASE i[1] = "write"
  BY <1>1, <1>4, PcsOfFacts DEF ExitAlarms
<1>5. CASE i[1] = "writeTimeout"
  BY <1>1, <1>5, PcsOfFacts DEF ExitAlarms
<1>6. CASE i[1] = "exit"
  BY <1>1, <1>6, PcsOfFacts DEF ExitAlarms
<1> QED
  BY <1>1, <1>2, <1>3, <1>4, <1>5, <1>6 DEF Kinds

\* A callback that moves on.
LEMMA GotoStep ==
  ASSUME NEW d, IoInv(d), NEW i \in AlarmIds, i \notin ExitAlarms,
         d.alarms[i] \notin Special \cup {"free"},
         NEW pc \in PcsOf(i[1]), pc \notin Special \cup {"free"}
  PROVE  Step(d, Goto(d, i, pc))
  BY GotoSide DEF Step, Special

\* A callback that ends.
LEMMA DoneStep ==
  ASSUME NEW d, IoInv(d), NEW i \in AlarmIds, i \notin ExitAlarms, d.alarms[i] \notin Special
  PROVE  Step(d, Done(d, i))
  BY DoneSide DEF Step

\* A callback that fails ends in the same place on either side.
LEMMA NotedPc ==
  ASSUME NEW i \in AlarmIds, i \notin ExitAlarms
  PROVE  "noted" \in PcsOf(i[1])
  BY AlarmIdFacts, PcsOfFacts DEF Kinds, ExitAlarms

\* A callback that fails stops the stream.
LEMMA FailQuiet ==
  ASSUME DispatchInv, NEW i \in AlarmIds, i \notin ExitAlarms,
         io.alarms[i] \notin Special \cup {"free"}, Fail(i)
  PROVE  Quiet
<1>1. IoInv(io) /\ EpShape
  BY DEF DispatchInv
<1> DEFINE z == StopStream(io)
<1>2. Step(io, z) /\ z.alarms = io.alarms
  <2>1. Step(io, z)
    BY <1>1, StopStreamInv
  <2>2. io \in Dispatchers
    BY <1>1, IoInvParts
  <2>3. z.alarms = io.alarms
    BY <2>2 DEF StopStream, Alert, Dispatchers
  <2> QED
    BY <2>1, <2>3
<1>3. io' = Goto(z, i, "noted") /\ user' = user /\ ep' = [ep EXCEPT !.stopping = TRUE]
  BY DEF Fail
<1> HIDE DEF z
<1>4. Step(z, Goto(z, i, "noted"))
  BY <1>2, NotedPc, GotoStep DEF Step, Special
<1>5. Step(io, io')
  BY <1>2, <1>3, <1>4, StepTrans
<1>6. EpShape' /\ ep'.lock = ep.lock /\ ep'.exitCount = ep.exitCount
  BY <1>1, <1>3 DEF EpShape, EpFields
<1> QED
  BY <1>3, <1>5, <1>6 DEF Quiet

\* A callback returns and is enabled again, or watched by a timeout.
LEMMA DoneEnableStep ==
  ASSUME IoInv(io), NEW i \in AlarmIds, i \notin ExitAlarms, io.alarms[i] \notin Special \cup {"free"},
         NEW timed \in BOOLEAN
  PROVE  Step(io, EnableCallback(Done(io, i), SideOf(i[1]), timed))
<1> DEFINE z == Done(io, i)
           s == SideOf(i[1])
<1>1. Step(io, z)
  BY DoneStep
<1>2. s \in Sides /\ io.alarm[s] = i /\ io \in Dispatchers
  BY AlarmOfSide, IoInvParts DEF ExitAlarms
<1>3. z.alarm[s] = NoAlarm
  BY <1>2, DoneFields
<1> HIDE DEF z, s
<1>4. Step(z, EnableCallback(z, s, timed))
  BY <1>1, <1>2, <1>3, EnableCallbackInv DEF Step
<1> QED
  BY <1>1, <1>4, StepTrans DEF z, s

----------------------------------------------------------------------------
(* The callbacks *)

\* AlarmTriggered up to the callback.
LEMMA TriggerQuiet ==
  ASSUME DispatchInv, NEW i \in AlarmIds, Take(i) \/ Trigger(i) \/ Timeout(i)
  PROVE  Quiet
<1>1. IoInv(io) /\ EpShape /\ i[1] \in Kinds
  BY AlarmIdFacts DEF DispatchInv
<1>2. UNCHANGED <<ep, user>>
  BY DEF Take, Trigger, Timeout, Dispatch
<1>3. ASSUME Take(i) PROVE Step(io, io')
  <2>1. io' = Goto(io, i, "taken") /\ io.alarms[i] = "pending" /\ i[1] \in {"readTimeout", "writeTimeout"}
    BY <1>3 DEF Take, Dispatch, At
  <2>2. i \notin ExitAlarms /\ "taken" \in PcsOf(i[1])
    BY <2>1, PcsOfFacts DEF ExitAlarms
  <2> QED
    BY <1>1, <2>1, <2>2, GotoStep DEF Special
<1>4. ASSUME Trigger(i) PROVE Step(io, io')
  <2>1. io' = AlarmTriggered(io, i) /\ io.alarms[i] \in {"pending", "taken"}
    BY <1>4 DEF Trigger, Dispatch, At
  <2> QED
    BY <1>1, <2>1, AlarmTriggeredInv
<1>5. ASSUME Timeout(i) PROVE Step(io, io')
  <2>1. io' = Goto(io, i, i[1]) /\ io.alarms[i] = "reload"
    BY <1>5 DEF Timeout, Dispatch, At
  <2>2. i \notin ExitAlarms /\ i[1] \in {"readTimeout", "writeTimeout"}
    BY <1>1, <2>1, AlarmKind
  <2>3. i[1] \in PcsOf(i[1])
    BY <2>2, PcsOfFacts
  <2> QED
    BY <1>1, <2>1, <2>2, <2>3, GotoStep DEF Special
<1> QED
  BY <1>1, <1>2, <1>3, <1>4, <1>5 DEF Quiet, EpShape

\* The steps of ReadCallback.
LEMMA ReadQuiet ==
  ASSUME DispatchInv, NEW i \in AlarmIds,
         ReadMessage(i) \/ ReadBlocked(i) \/ ReadFailed(i) \/ ReadTimedOut(i) \/ Probed(i) \/ Noted(i)
  PROVE  Quiet
<1>1. IoInv(io) /\ EpShape /\ io \in Dispatchers /\ ep.idleTimeout \in BOOLEAN
  BY IoInvParts DEF DispatchInv, EpShape
<1>2. CASE ReadMessage(i)
  <2>1. /\ io.alarms[i] = "read" /\ user' = user /\ ep' = [ep EXCEPT !.idleTimeoutCount = 0]
        /\ io' \in {io, Goto(DisableReadCallback(io), i, "noted")}
    BY <1>2 DEF ReadMessage, At
  <2>2. i \notin ExitAlarms
    BY <1>1, <2>1, AlarmKind
  <2> DEFINE z == DisableReadCallback(io)
  <2>3. z.alarms = io.alarms
    BY <1>1 DEF DisableReadCallback, DisableCallback, Alert, Dispatchers
  <2>4. Step(io, z)
    BY <1>1, DisableReadInv
  <2> HIDE DEF z
  <2>5. Step(z, Goto(z, i, "noted"))
    BY <2>1, <2>2, <2>3, <2>4, NotedPc, GotoStep DEF Step, Special
  <2>6. Step(io, io')
    BY <1>1, <2>1, <2>4, <2>5, StepTrans, StepSame DEF z
  <2>7. EpShape' /\ ep'.lock = ep.lock /\ ep'.exitCount = ep.exitCount
    BY <1>1, <2>1 DEF EpShape, EpFields
  <2> QED
    BY <2>1, <2>6, <2>7 DEF Quiet
<1>3. CASE ReadBlocked(i) \/ Probed(i)
  <2>1. /\ io.alarms[i] \in {"read", "probed"} /\ UNCHANGED <<ep, user>>
        /\ io' = EnableCallback(Done(io, i), "read", ep.idleTimeout)
    BY <1>3 DEF ReadBlocked, Probed, At, Dispatch, EnableReadCallback
  <2>2. i \notin ExitAlarms /\ SideOf(i[1]) = "read"
    BY <1>1, <2>1, AlarmKind DEF SideOf
  <2>3. Step(io, io')
    BY <1>1, <2>1, <2>2, DoneEnableStep DEF Special
  <2> QED
    BY <1>1, <2>1, <2>3 DEF Quiet, EpShape
<1>4. CASE ReadFailed(i)
  <2>1. io.alarms[i] = "read" /\ Fail(i)
    BY <1>4 DEF ReadFailed, At
  <2>2. i \notin ExitAlarms
    BY <1>1, <2>1, AlarmKind
  <2> QED
    BY <2>1, <2>2, FailQuiet DEF Special
<1>5. CASE ReadTimedOut(i)
  <2>1. io.alarms[i] = "readTimeout"
    BY <1>5 DEF ReadTimedOut, At
  <2>2. i \notin ExitAlarms /\ i[1] = "readTimeout"
    BY <1>1, <2>1, AlarmKind
  <2>3. CASE Fail(i)
    BY <2>1, <2>2, <2>3, FailQuiet DEF Special
  <2>4. CASE ~Fail(i)
    <3>1. /\ io' = Goto(io, i, "probed") /\ user' = user
          /\ ep' = [ep EXCEPT !.idleTimeoutCount = @ + 1]
      BY <1>5, <2>4 DEF ReadTimedOut
    <3>2. "probed" \in PcsOf(i[1])
      BY <2>2, PcsOfFacts
    <3>3. Step(io, io')
      BY <1>1, <2>1, <2>2, <3>1, <3>2, GotoStep DEF Special
    <3>4. EpShape' /\ ep'.lock = ep.lock /\ ep'.exitCount = ep.exitCount
      BY <1>1, <3>1 DEF EpShape, EpFields
    <3> QED
      BY <3>1, <3>3, <3>4 DEF Quiet
  <2> QED
    BY <2>3, <2>4
<1>6. CASE Noted(i)
  <2>1. io.alarms[i] = "noted" /\ io' = Done(io, i) /\ UNCHANGED <<ep, user>>
    BY <1>6 DEF Noted, At, Dispatch
  <2>2. i \notin ExitAlarms
    BY <1>1, <2>1, AlarmKind
  <2>3. Step(io, io')
    BY <1>1, <2>1, <2>2, DoneStep DEF Special
  <2> QED
    BY <1>1, <2>1, <2>3 DEF Quiet, EpShape
<1> QED
  BY <1>2, <1>3, <1>4, <1>5, <1>6

\* WriteCallback, with a full or a broken socket.
LEMMA WriteQuiet ==
  ASSUME DispatchInv, NEW i \in AlarmIds, TakeMessage(i) \/ WriteBlocked(i) \/ WriteFailed(i)
  PROVE  Quiet
<1>1. IoInv(io) /\ EpShape
  BY DEF DispatchInv
<1>2. CASE TakeMessage(i)
  <2>1. /\ UNCHANGED <<io, user>>
        /\ ep' = [ep EXCEPT !.getNextMsg = FALSE, !.cur = Last(ep.txQueue), !.begun = FALSE,
                            !.txWaitQueue = IF @ = << >> THEN @ ELSE Front(@)]
    BY <1>2 DEF TakeMessage
  <2>2. EpShape' /\ ep'.lock = ep.lock /\ ep'.exitCount = ep.exitCount
    BY <1>1, <2>1 DEF EpShape, EpFields
  <2> QED
    BY <1>1, <2>1, <2>2, StepSame DEF Quiet
<1>3. CASE WriteBlocked(i)
  <2>1. /\ io.alarms[i] = "write" /\ user' = user /\ ep' = [ep EXCEPT !.begun = TRUE]
        /\ io' = EnableCallback(Done(io, i), "write", TRUE)
    BY <1>3 DEF WriteBlocked, At, EnableWriteCallback
  <2>2. i \notin ExitAlarms /\ SideOf(i[1]) = "write"
    BY <1>1, <2>1, AlarmKind DEF SideOf
  <2>3. Step(io, io')
    BY <1>1, <2>1, <2>2, DoneEnableStep DEF Special
  <2>4. EpShape' /\ ep'.lock = ep.lock /\ ep'.exitCount = ep.exitCount
    BY <1>1, <2>1 DEF EpShape, EpFields
  <2> QED
    BY <2>1, <2>3, <2>4 DEF Quiet
<1>4. CASE WriteFailed(i)
  <2>1. io.alarms[i] \in {"write", "writeTimeout"} /\ Fail(i)
    BY <1>4 DEF WriteFailed, At
  <2>2. i \notin ExitAlarms
    BY <1>1, <2>1, AlarmKind
  <2> QED
    BY <2>1, <2>2, FailQuiet DEF Special
<1> QED
  BY <1>2, <1>3, <1>4

\* The two places of WriteCallback that Quiet leaves out.
LEMMA WriterInv ==
  ASSUME DispatchInv, NEW i \in AlarmIds, NoMessage(i) \/ Disabled(i) \/ Deliver(i) \/ Delivered(i)
  PROVE  DispatchInv'
<1>1. IoInv(io) /\ EpShape /\ LockHeld /\ io \in Dispatchers
  BY IoInvParts DEF DispatchInv
<1>2. /\ io.alarms[i] \in {"write", "disabled", "delivered"} /\ user' = user
      /\ i \notin ExitAlarms /\ i[1] = "write"
  BY <1>1, AlarmKind DEF NoMessage, Disabled, Deliver, Delivered, At
<1>3. io.alarm["write"] = i /\ io.state # "NONE"
  BY <1>1, <1>2, AlarmOfSide DEF SideOf
<1>4. ~Unused(io) /\ ~Over(io)
  BY <1>3, AlarmIdFacts, SideFacts DEF Unused, Over
<1>5. user # "new" /\ ep.exitCount = 0
  BY <1>4 DEF DispatchInv, NotBegun, ExitOver
<1>6. EpShape' /\ ep'.exitCount = ep.exitCount
  BY <1>1 DEF EpShape, EpFields, NoMessage, Disabled, Deliver, Delivered
<1>7. SUFFICES IoInv(io') /\ LockHeld'
  BY <1>2, <1>5, <1>6 DEF DispatchInv, NotBegun, ExitOver
<1>8. CASE NoMessage(i)
  <2>1. /\ io.alarms[i] = "write" /\ io' = Goto(DisableWriteCallback(io), i, "disabled") /\ Unlocked
        /\ ep' = [ep EXCEPT !.lock = i]
    BY <1>8 DEF NoMessage, At
  <2>2. IoInv(io') /\ \A j \in AlarmIds : io'.alarms[j] = IF j = i THEN "disabled" ELSE io.alarms[j]
    BY <1>1, <2>1, DisabledInv
  <2>3. \A j \in AlarmIds : io.alarms[j] # "disabled"
    BY <2>1, UnlockedFree
  <2>4. ep'.lock = i
    BY <1>1, <2>1 DEF EpShape, EpFields
  <2> QED
    BY <2>2, <2>3, <2>4 DEF LockHeld
<1>9. CASE Disabled(i)
  <2>1. io.alarms[i] = "disabled" /\ io' = Done(io, i)
    BY <1>9 DEF Disabled, At
  <2>2. IoInv(io')
    BY <1>1, <1>2, <2>1, DoneSide
  <2>3. \A j \in AlarmIds : io'.alarms[j] = IF j = i THEN "free" ELSE io.alarms[j]
    BY <1>1, <2>1, DoneFields
  <2>4. \A j \in AlarmIds : io'.alarms[j] # "disabled"
    BY <1>1, <2>1, <2>3 DEF LockHeld
  <2> QED
    BY <2>2, <2>4 DEF LockHeld
<1>10. CASE Deliver(i) \/ Delivered(i)
  <2>1. PICK pc \in {"write", "delivered"} :
          io' = Goto(io, i, pc) /\ io.alarms[i] \in {"write", "delivered"}
    BY <1>10 DEF Deliver, Delivered, At
  <2>2. pc \in PcsOf(i[1]) /\ pc # "free"
    BY <1>2, PcsOfFacts
  <2>3. IoInv(io')
    BY <1>1, <1>2, <2>1, <2>2, GotoSide
  <2>4. io'.alarms = [io.alarms EXCEPT ![i] = pc] /\ io.alarms \in [AlarmIds -> Pcs]
    BY <1>1, <2>1 DEF Goto, Dispatchers
  <2>5. ep'.lock = ep.lock
    BY <1>1, <1>10 DEF EpShape, EpFields, Deliver, Delivered
  <2> QED
    BY <1>1, <2>3, <2>4, <2>5 DEF LockHeld
<1> QED
  BY <1>8, <1>9, <1>10

\* The steps of the exit alarm's thread keep the dispatcher's invariant ...
LEMMA ExitStep ==
  ASSUME DispatchInv, NEW i \in AlarmIds,
         \/ ExitRemoves(i, "read", "exitRead", "exitWrite")
         \/ ExitRemoves(i, "write", "exitWrite", "exitCallback")
         \/ ExitCallback(i) \/ ExitErases(i)
  PROVE  /\ Step(io, io') /\ user' = user /\ EpShape' /\ ep'.lock = ep.lock
         /\ ep'.exitCount # ep.exitCount => user # "new" /\ Over(io')
<1>1. IoInv(io) /\ EpShape /\ io \in Dispatchers /\ ExitClears(io)
  BY IoInvParts DEF DispatchInv
<1>2. io.alarms[i] \in {"exitRead", "exitWrite", "exitCallback", "exitErase"} /\ user' = user
  BY DEF ExitRemoves, ExitCallback, ExitErases, At, Dispatch
<1>3. i \in ExitAlarms
  BY <1>1, <1>2, AlarmKind
<1>4. CASE UNCHANGED <<io, ep>>
  BY <1>1, <1>2, <1>4, StepSame DEF EpShape
<1>5. CASE ExitRemoves(i, "read", "exitRead", "exitWrite") /\ ~UNCHANGED <<io, ep>>
  <2>1. /\ io.alarms[i] = "exitRead" /\ ~Served(io, io.alarm["read"]) /\ ep' = ep
        /\ io' = ExitRemoved(io, i, "read", "exitWrite")
    BY <1>5 DEF ExitRemoves, At, Dispatch
  <2> QED
    BY <1>1, <1>2, <1>3, <2>1, ExitRemovedInv DEF EpShape
<1>6. CASE ExitRemoves(i, "write", "exitWrite", "exitCallback") /\ ~UNCHANGED <<io, ep>>
  <2>1. /\ io.alarms[i] = "exitWrite" /\ ~Served(io, io.alarm["write"]) /\ ep' = ep
        /\ io' = ExitRemoved(io, i, "write", "exitCallback")
    BY <1>6 DEF ExitRemoves, At, Dispatch
  <2> QED
    BY <1>1, <1>2, <1>3, <2>1, ExitRemovedInv DEF EpShape
<1>7. CASE ExitErases(i)
  <2>1. io.alarms[i] = "exitErase" /\ ep' = ep /\ io' = ExitErased(io, i)
    BY <1>7 DEF ExitErases, At, Dispatch
  <2> QED
    BY <1>1, <1>2, <1>3, <2>1, ExitErasedInv DEF EpShape
<1>8. CASE ExitCallback(i)
  <2>1. /\ io.alarms[i] = "exitCallback" /\ io' = Goto(io, i, "exitErase")
        /\ ep' = [ep EXCEPT !.exitCount = 1]
    BY <1>8 DEF ExitCallback, At
  <2>2. io.alarm["read"] = NoAlarm /\ io.alarm["write"] = NoAlarm
    BY <1>1, <1>3, <2>1 DEF ExitClears
  <2>3. Step(io, io')
    BY <1>1, <1>3, <2>1, <2>2, GotoExit, PcsOfFacts DEF Step, Special
  <2>4. io.state = "STOPPED"
    BY <1>1, <1>3, <2>1, IoInvParts DEF ExitOnce
  <2>5. Over(io')
    <3>1. Over(io)
      BY <2>2, <2>4, SideFacts DEF Over
    <3> QED
      BY <2>3, <3>1 DEF Step, Keeps
  <2>6. EpShape' /\ ep'.lock = ep.lock
    BY <1>1, <2>1 DEF EpShape, EpFields
  <2>7. user # "new"
    BY <2>4 DEF DispatchInv, NotBegun, Unused
  <2> QED
    BY <1>2, <2>3, <2>5, <2>6, <2>7
<1> QED
  BY <1>4, <1>5, <1>6, <1>7, <1>8

\* ... and the endpoint's: ExitCallback comes after the alarms of both sides.
LEMMA ExitInv ==
  ASSUME DispatchInv, NEW i \in AlarmIds,
         \/ ExitRemoves(i, "read", "exitRead", "exitWrite")
         \/ ExitRemoves(i, "write", "exitWrite", "exitCallback")
         \/ ExitCallback(i) \/ ExitErases(i)
  PROVE  DispatchInv'
<1>1. /\ Step(io, io') /\ user' = user /\ EpShape' /\ ep'.lock = ep.lock
      /\ ep'.exitCount # ep.exitCount => user # "new" /\ Over(io')
  BY ExitStep
<1>2. CASE ep'.exitCount = ep.exitCount
  <2>1. Quiet
    BY <1>1, <1>2 DEF Quiet
  <2> QED
    BY <2>1, QuietInv
<1>3. CASE ep'.exitCount # ep.exitCount
  <2>1. LockHeld'
    BY <1>1 DEF DispatchInv, LockHeld, Step, Keeps, Special
  <2> QED
    BY <1>1, <1>3, <2>1 DEF DispatchInv, NotBegun, ExitOver, Step
<1> QED
  BY <1>2, <1>3

----------------------------------------------------------------------------
(* The owner, the step, the theorems *)

\* Start.
LEMMA StartInv ==
  ASSUME DispatchInv, Start
  PROVE  DispatchInv'
<1>1. /\ IoInv(io) /\ EpShape /\ LockHeld /\ Unused(io) /\ ep.exitCount = 0
      /\ user' # "new" /\ ep' = ep /\ io' = StartStream(io)
  BY DEF DispatchInv, NotBegun, Start
<1>2. IoInv(io') /\ io'.alarms = io.alarms
  BY <1>1, StartStreamInv DEF Unused
<1>3. LockHeld'
  BY <1>1, <1>2 DEF LockHeld
<1> QED
  BY <1>1, <1>2, <1>3 DEF DispatchInv, EpShape, NotBegun, ExitOver

\* The owner's other calls: Stop, StopAfterTxEmpty, Join.
LEMMA OwnerInv ==
  ASSUME DispatchInv, Started \/ Stop \/ StopAfterTxEmpty \/ Stopped \/ Join \/ JoinFailed
  PROVE  DispatchInv'
<1>1. /\ IoInv(io) /\ EpShape /\ LockHeld /\ user' # "new"
  BY DEF DispatchInv, Started, Stop, StopAfterTxEmpty, Stopped, Join, JoinFailed
<1>2. Step(io, io')
  <2>1. CASE Started
    BY <1>1, <2>1, EnableCallbackInv DEF Started, EnableReadCallback, Sides
  <2>2. CASE Stop \/ StopAfterTxEmpty
    BY <1>1, <2>2, StopStreamInv DEF Stop, StopAfterTxEmpty
  <2>3. CASE Stopped \/ Join \/ JoinFailed
    BY <1>1, <2>3, StepSame DEF Stopped, Join, JoinFailed
  <2> QED
    BY <2>1, <2>2, <2>3
<1>3. EpShape' /\ ep'.exitCount = ep.exitCount
  BY <1>1 DEF EpShape, EpFields, Started, Stop, StopAfterTxEmpty, Stopped, Join, JoinFailed
<1>4. CASE ep'.lock = ep.lock
  <2>1. Quiet
    BY <1>1, <1>2, <1>3, <1>4 DEF Quiet
  <2> QED
    BY <2>1, QuietInv
<1>5. CASE ep'.lock # ep.lock
  <2>1. ep.lock \in {Nobody, Owner}
    BY <1>1, <1>5 DEF Started, Stop, StopAfterTxEmpty, Stopped, Join, JoinFailed, Unlocked,
                      EpShape, EpFields
  <2>2. \A i \in AlarmIds : io.alarms[i] # "disabled"
    BY <1>1, <2>1, AlarmIdFacts DEF LockHeld
  <2>3. LockHeld'
    BY <1>2, <2>2 DEF Step, Keeps, LockHeld, Special
  <2> QED
    BY <1>1, <1>2, <1>3, <2>3 DEF DispatchInv, NotBegun, ExitOver, Step, Keeps
<1> QED
  BY <1>4, <1>5

\* SetLinkTimeout, unless it overtakes a timeout.
LEMMA SetLinkTimeoutInv ==
  ASSUME DispatchInv, SetLinkTimeout, ~Overtakes
  PROVE  DispatchInv'
<1>1. PICK on \in BOOLEAN : ep' = [ep EXCEPT !.idleTimeout = on] /\ io' = EnableTimeoutCallback(io, on)
  BY DEF SetLinkTimeout
<1>2. IoInv(io) /\ EpShape /\ user' = user
  BY DEF DispatchInv, SetLinkTimeout
<1>3. EpShape' /\ ep'.idleTimeout = on /\ ep'.lock = ep.lock /\ ep'.exitCount = ep.exitCount
  BY <1>1, <1>2 DEF EpShape, EpFields
<1>4. on /\ io.state = "RUNNING" /\ ~io.inProgress["read"] /\ ~io.mainAdding["read"] =>
        ~Served(io, io.alarm["read"])
  BY <1>3 DEF Overtakes
<1>5. Step(io, io')
  BY <1>1, <1>2, <1>4, EnableTimeoutInv
<1>6. Quiet
  BY <1>2, <1>3, <1>5 DEF Quiet
<1> QED
  BY <1>6, QuietInv

\* The steps of the threads that serve alarms.
LEMMA CallbackInv ==
  ASSUME DispatchInv, NEW i \in AlarmIds, Callback(i)
  PROVE  DispatchInv'
<1>1. CASE Take(i) \/ Trigger(i) \/ Timeout(i)
  BY <1>1, TriggerQuiet, QuietInv
<1>2. CASE ReadMessage(i) \/ ReadBlocked(i) \/ ReadFailed(i) \/ ReadTimedOut(i) \/ Probed(i) \/ Noted(i)
  BY <1>2, ReadQuiet, QuietInv
<1>3. CASE TakeMessage(i) \/ WriteBlocked(i) \/ WriteFailed(i)
  BY <1>3, WriteQuiet, QuietInv
<1>4. CASE NoMessage(i) \/ Disabled(i) \/ Deliver(i) \/ Delivered(i)
  BY <1>4, WriterInv
<1>5. CASE \/ ExitRemoves(i, "read", "exitRead", "exitWrite")
           \/ ExitRemoves(i, "write", "exitWrite", "exitCallback")
           \/ ExitCallback(i) \/ ExitErases(i)
  BY <1>5, ExitInv
<1> QED
  BY <1>1, <1>2, <1>3, <1>4, <1>5 DEF Callback

\* Every step keeps the invariant.
LEMMA DispatchStep ==
  ASSUME DispatchInv, [Next]_vars, ~Overtakes
  PROVE  DispatchInv'
<1>1. CASE UNCHANGED <<io, ep, user>>
  BY <1>1, SameQuiet, QuietInv
<1>2. CASE Main
  BY <1>2, MainQuiet, QuietInv
<1>3. CASE User
  BY <1>3, StartInv, OwnerInv DEF User
<1>4. CASE SetLinkTimeout
  BY <1>4, SetLinkTimeoutInv
<1>5. CASE Stop \/ StopAfterTxEmpty
  BY <1>5, OwnerInv
<1>6. CASE \E t \in Threads : PushStep(t)
  BY <1>6, PushStepQuiet, QuietInv
<1>7. CASE \E i \in AlarmIds : Callback(i)
  BY <1>7, CallbackInv
<1>8. CASE (\E p \in Pushers : PushMessage(p)) \/ Arrive \/ Close \/ Block \/ Unblock
  BY <1>1, <1>8 DEF PushMessage, Arrive, Close, Block, Unblock
<1>9. CASE UNCHANGED vars
  BY <1>1, <1>9 DEF vars
<1> QED
  BY <1>2, <1>3, <1>4, <1>5, <1>6, <1>7, <1>8, <1>9 DEF Next

\* No call of SetLinkTimeout overtakes a timeout.  It may: EnableTimeoutCallback
\* takes only an alarm that waits out of the timer.
NoOvertaking == [][~Overtakes]_vars

\* The invariant of dispatcher and endpoint holds in every state of every
\* behaviour in which SetLinkTimeout overtakes no timeout: for any number of
\* pushers, messages and events, and any length of the queue.
THEOREM DispatchInvariant == Spec /\ NoOvertaking => []DispatchInv
<1>1. Init => DispatchInv
  BY InitInv
<1>2. DispatchInv /\ [Next]_vars /\ [~Overtakes]_vars => DispatchInv'
  <2> SUFFICES ASSUME DispatchInv, [Next]_vars, [~Overtakes]_vars PROVE DispatchInv'
    OBVIOUS
  <2>1. CASE ~Overtakes
    BY <2>1, DispatchStep
  <2>2. CASE UNCHANGED vars
    <3>1. UNCHANGED <<io, ep>> /\ (user' = "new" => user = "new")
      BY <2>2 DEF vars
    <3> QED
      BY <3>1, SameQuiet, QuietInv
  <2> QED
    BY <2>1, <2>2
<1> QED
  BY <1>1, <1>2, PTL DEF Spec, NoOvertaking

\* What the invariant says about callbacks and about the exit.
LEMMA DispatchImplies ==
  ASSUME DispatchInv
  PROVE  OneCallback /\ ExitIsLast
<1>1. /\ IoInv(io) /\ Holds(io, "read") /\ Holds(io, "write") /\ ~io.fault
  BY IoInvParts DEF DispatchInv
<1>2. OneCallback
  <2> SUFFICES ASSUME NEW s \in Sides, NEW i \in AlarmIds, NEW j \in AlarmIds,
                      SideOf(i[1]) = s, io.alarms[i] \in InCallback,
                      SideOf(j[1]) = s, io.alarms[j] \in InCallback
               PROVE  i = j
    BY DEF OneCallback
  <2>1. i \notin ExitAlarms /\ j \notin ExitAlarms /\ io.alarms[i] # "free" /\ io.alarms[j] # "free"
    BY <1>1, AlarmKind DEF InCallback
  <2>2. i[1] # "exit" /\ j[1] # "exit"
    BY <2>1 DEF ExitAlarms
  <2>3. io.alarm[s] = i /\ io.alarm[s] = j
    BY <1>1, <2>1, <2>2, AlarmOfSide
  <2> QED
    BY <2>3
<1>3. ExitIsLast
  <2> SUFFICES ASSUME ep.exitCount = 1, NEW i \in AlarmIds, i[1] # "exit" PROVE io.alarms[i] = "free"
    BY <1>1 DEF ExitIsLast
  <2>1. \A s \in Sides : io.alarm[s] = NoAlarm
    BY DEF DispatchInv, ExitOver, Over
  <2>2. io.alarms[i] # "free" => SideOf(i[1]) \in Sides /\ io.alarm[SideOf(i[1])] = i
    BY <1>1, AlarmOfSide
  <2> QED
    BY <2>1, <2>2, AlarmIdFacts
<1> QED
  BY <1>2, <1>3

\* Two threads are never in ReadCallback, or in WriteCallback, of the same
\* endpoint, so that currentReadMsg, currentWriteMsg and getNextMsg need no
\* lock: the entry's alarm of a side is the only one of that side.
THEOREM CallbacksExclude == Spec /\ NoOvertaking => []OneCallback
  BY DispatchInvariant, DispatchImplies, PTL

\* No alarm is left after the exit callback, and AlarmTriggered never comes to
\* its assert(false): the exit alarm's thread removes the alarms of both sides
\* before it calls ExitCallback and erases the entry.
THEOREM ExitComesLast == Spec /\ NoOvertaking => []ExitIsLast
  BY DispatchInvariant, DispatchImplies, PTL

\* In particular: nobody calls SetLinkTimeout.
LEMMA NoLinkTimeout ==
  ASSUME "link" \notin Events
  PROVE  Spec => NoOvertaking
<1>1. ~Overtakes
  BY DEF Overtakes, SetLinkTimeout, Spend
<1> QED
  BY <1>1, PTL DEF NoOvertaking

\* An endpoint whose link timeout is never set has one callback of a side at a
\* time and an exit callback that comes last, without a further condition.
THEOREM EndpointsWithoutLinkTimeout ==
  ASSUME "link" \notin Events
  PROVE  Spec => [](OneCallback /\ ExitIsLast)
  BY NoLinkTimeout, CallbacksExclude, ExitComesLast, PTL

----------------------------------------------------------------------------
(* The transmit queue *)

\* WriteCallback is between DeliverNonBlocking and pop_back.
Delivering == \E i \in AlarmIds : io.alarms[i] = "delivered"

\* The queue and what was written are sequences of messages.
QueueType == ep.txQueue \in Seq(Nat) /\ ep.written \in Seq(Nat) /\ ep.accepted \in Nat

\* The written messages are the first ones, the queue has the last ones.
InSequence ==
  /\ \A n \in 1 .. Len(ep.written) : ep.written[n] = n
  /\ \A n \in 1 .. Len(ep.txQueue) : ep.txQueue[n] = ep.accepted + 1 - n

\* Each message is in one of them; the one being delivered is in both.
AllThere ==
  /\ Delivering => Len(ep.written) + Len(ep.txQueue) = ep.accepted + 1
  /\ ~Delivering => Len(ep.written) + Len(ep.txQueue) = ep.accepted

\* currentWriteMsg is the oldest message of the queue until it is delivered:
\* pushers only add at the other end.
Current ==
  /\ Delivering => ~ep.getNextMsg /\ ep.txQueue # << >>
  /\ ~ep.getNextMsg /\ ~Delivering => ep.txQueue # << >> /\ ep.cur = Last(ep.txQueue)

\* The invariant of the transmit queue.
QueueInv == QueueType /\ InSequence /\ AllThere /\ Current

\* One message more, written or queued; the number of the oldest in the queue.
LEMMA OneMore ==
  ASSUME NEW a \in Nat, NEW b \in Nat, NEW c \in Nat, a + b = c
  PROVE  a + (1 + b) = c + 1 /\ (a + 1) + b = c + 1 /\ (c + 1) - b = a + 1
  OBVIOUS

\* One message less in the queue.
LEMMA OneLess ==
  ASSUME NEW a \in Nat, NEW b \in Nat, NEW c \in Nat, a + b = c + 1
  PROVE  a + (b - 1) = c
  OBVIOUS

\* A step that leaves the queue and the writer alone.
LEMMA QueueSame ==
  ASSUME QueueInv, Delivering' <=> Delivering, ep'.txQueue = ep.txQueue, ep'.written = ep.written,
         ep'.accepted = ep.accepted, ep'.getNextMsg = ep.getNextMsg, ep'.cur = ep.cur
  PROVE  QueueInv'
<1>1. QueueType' /\ InSequence'
  BY DEF QueueInv, QueueType, InSequence
<1>2. AllThere'
  BY DEF QueueInv, AllThere
<1>3. Current'
  BY DEF QueueInv, Current
<1> QED
  BY <1>1, <1>2, <1>3 DEF QueueInv

\* Other steps do not move the thread that delivers a message.
LEMMA StepDelivering ==
  ASSUME Step(io, io')
  PROVE  Delivering' <=> Delivering
  BY DEF Step, Keeps, Special, Delivering

\* One thread is in WriteCallback.
LEMMA WriteAlone ==
  ASSUME IoInv(io), NEW i \in AlarmIds, NEW j \in AlarmIds,
         io.alarms[i] \in {"write", "delivered", "disabled"},
         io.alarms[j] \in {"write", "delivered", "disabled"}
  PROVE  i = j
  BY AlarmKind, AlarmOfSide DEF SideOf

\* The queue is empty.
LEMMA InitQueue == Init => QueueInv
<1> SUFFICES ASSUME Init PROVE QueueInv
  OBVIOUS
<1>1. /\ ep.txQueue = << >> /\ ep.written = << >> /\ ep.accepted = 0 /\ ep.getNextMsg
      /\ io.alarms = [i \in AlarmIds |-> "free"]
  BY DEF Init, NewDispatch, NewEndpoint
<1>2. ~Delivering
  BY <1>1 DEF Delivering
<1> QED
  BY <1>1, <1>2 DEF QueueInv, QueueType, InSequence, AllThere, Current

\* PushMessage adds the newest message in front.
LEMMA AcceptQueue ==
  ASSUME DispatchInv, QueueInv, Unlocked, NEW t, Accept(t, ep.txQueue), UNCHANGED user
  PROVE  QueueInv'
<1> DEFINE n == ep.accepted + 1
<1>1. EpShape /\ QueueType /\ InSequence /\ AllThere /\ Current
  BY DEF DispatchInv, QueueInv
<1>2. /\ ep'.txQueue = <<n>> \o ep.txQueue /\ ep'.accepted = n /\ ep'.written = ep.written
      /\ ep'.getNextMsg = ep.getNextMsg /\ ep'.cur = ep.cur
  BY <1>1 DEF Accept, EpShape, EpFields
<1>3. Delivering' <=> Delivering
  BY AcceptQuiet, StepDelivering DEF Quiet
<1>4. n \in Nat /\ <<n>> \in Seq(Nat) /\ ep.txQueue \in Seq(Nat) /\ Len(ep.txQueue) \in Nat
      /\ Len(<<n>>) = 1 /\ <<n>>[1] = n
  BY <1>1 DEF QueueType
<1>5. /\ ep'.txQueue \in Seq(Nat) /\ Len(ep'.txQueue) = 1 + Len(ep.txQueue)
      /\ ep'.txQueue[1] = n
      /\ \A k \in 2 .. Len(ep'.txQueue) : ep'.txQueue[k] = ep.txQueue[k - 1]
  <2> HIDE DEF n
  <2> QED
    BY <1>2, <1>4, ConcatProperties
<1>6. QueueType'
  BY <1>1, <1>2, <1>4, <1>5 DEF QueueType
<1>7. InSequence'
  <2>1. \A k \in 1 .. Len(ep'.written) : ep'.written[k] = k
    BY <1>1, <1>2 DEF InSequence
  <2>2. ASSUME NEW k \in 1 .. Len(ep'.txQueue) PROVE ep'.txQueue[k] = ep'.accepted + 1 - k
    <3>1. CASE k = 1
      BY <1>1, <1>2, <1>5, <3>1 DEF QueueType
    <3>2. CASE k # 1
      <4>1. k \in 2 .. Len(ep'.txQueue) /\ k - 1 \in 1 .. Len(ep.txQueue)
        BY <1>4, <1>5, <3>2
      <4>2. ep.txQueue[k - 1] = ep.accepted + 1 - (k - 1)
        BY <1>1, <4>1 DEF InSequence
      <4>3. ep'.txQueue[k] = ep.accepted + 1 - (k - 1) /\ ep.accepted \in Int /\ k \in Int
        BY <1>1, <1>5, <4>1, <4>2 DEF QueueType
      <4>4. ep'.accepted = ep.accepted + 1
        BY <1>2
      <4> QED
        BY <4>3, <4>4
    <3> QED
      BY <3>1, <3>2
  <2> QED
    BY <2>1, <2>2 DEF InSequence
<1>8. AllThere'
  <2>1. /\ Len(ep'.written) = Len(ep.written) /\ Len(ep'.txQueue) = 1 + Len(ep.txQueue)
        /\ ep'.accepted = ep.accepted + 1 /\ Len(ep.written) \in Nat /\ ep.accepted \in Nat
    BY <1>1, <1>2, <1>5 DEF QueueType
  <2>2. CASE Delivering
    <3>1. Len(ep.written) + Len(ep.txQueue) = ep.accepted + 1
      BY <1>1, <2>2 DEF AllThere
    <3>2. Len(ep.written) + (1 + Len(ep.txQueue)) = (ep.accepted + 1) + 1
      <4>1. ep.accepted + 1 \in Nat
        BY <2>1
      <4> QED
        BY <1>4, <2>1, <3>1, <4>1, OneMore
    <3>3. Len(ep'.written) + Len(ep'.txQueue) = ep'.accepted + 1
      BY <2>1, <3>2
    <3> QED
      BY <1>3, <2>2, <3>3 DEF AllThere
  <2>3. CASE ~Delivering
    <3>1. Len(ep.written) + Len(ep.txQueue) = ep.accepted
      BY <1>1, <2>3 DEF AllThere
    <3>2. Len(ep.written) + (1 + Len(ep.txQueue)) = ep.accepted + 1
      BY <1>4, <2>1, <3>1, OneMore
    <3>3. Len(ep'.written) + Len(ep'.txQueue) = ep'.accepted
      BY <2>1, <3>2
    <3> QED
      BY <1>3, <2>3, <3>3 DEF AllThere
  <2> QED
    BY <2>2, <2>3
<1>9. Current'
  <2>1. ep'.txQueue # << >>
    BY <1>4, <1>5
  <2>2. ep.txQueue # << >> => Last(ep'.txQueue) = Last(ep.txQueue)
    <3> SUFFICES ASSUME ep.txQueue # << >> PROVE Last(ep'.txQueue) = Last(ep.txQueue)
      OBVIOUS
    <3>1. Len(ep.txQueue) >= 1
      BY <1>4
    <3>2. Len(ep'.txQueue) \in 2 .. Len(ep'.txQueue) /\ Len(ep'.txQueue) - 1 = Len(ep.txQueue)
      BY <1>4, <1>5, <3>1
    <3> QED
      BY <1>5, <3>2 DEF Last
  <2> QED
    BY <1>1, <1>2, <1>3, <2>1, <2>2 DEF Current
<1> QED
  BY <1>6, <1>7, <1>8, <1>9 DEF QueueInv

\* PushMessage adds a message to the queue or leaves it alone, if no message
\* has a time to live.
LEMMA PushQueue ==
  ASSUME DispatchInv, QueueInv, Expiring = {}, NEW t, PushStep(t)
  PROVE  QueueInv'
<1>1. Unlocked /\ UNCHANGED user /\ EpShape
  BY DEF PushStep, PushEnter, PushAlerted, PushTimedOut, DispatchInv
<1>2. Delivering' <=> Delivering
  BY PushStepQuiet, StepDelivering DEF Quiet
<1>3. CASE Accept(t, ep.txQueue)
  BY <1>1, <1>3, AcceptQueue
<1>4. CASE ~Accept(t, ep.txQueue)
  <2>1. \E w : ep' = [ep EXCEPT !.txWaitQueue = w]
    <3>1. CASE Round(t)
      <4>1. RemoveExpired(ep.txQueue) = {ep.txQueue}
        BY DEF RemoveExpired
      <4>2. IF Len(ep.txQueue) < MaxTxQueue THEN Accept(t, ep.txQueue)
            ELSE ep' = [ep EXCEPT !.txWaitQueue = <<t>> \o SelectSeq(@, LAMBDA u : u # t)]
        BY <3>1, <4>1 DEF Round
      <4> QED
        BY <1>4, <4>2
    <3>2. CASE ~Round(t)
      BY <3>2 DEF PushStep, PushEnter, PushAlerted, PushTimedOut
    <3> QED
      BY <3>1, <3>2
  <2>2. /\ ep'.txQueue = ep.txQueue /\ ep'.written = ep.written /\ ep'.accepted = ep.accepted
        /\ ep'.getNextMsg = ep.getNextMsg /\ ep'.cur = ep.cur
    BY <1>1, <2>1 DEF EpShape, EpFields
  <2> QED
    BY <1>2, <2>2, QueueSame
<1> QED
  BY <1>3, <1>4

\* The steps of WriteCallback that take the oldest message, write it and pop it.
LEMMA WriterQueue ==
  ASSUME DispatchInv, QueueInv, Expiring = {}, NEW i \in AlarmIds,
         NoMessage(i) \/ Disabled(i) \/ TakeMessage(i) \/ Deliver(i) \/ Delivered(i)
  PROVE  QueueInv'
<1>1. /\ IoInv(io) /\ EpShape /\ QueueType /\ InSequence /\ AllThere /\ Current /\ io \in Dispatchers
      /\ io.alarms \in [AlarmIds -> Pcs]
  BY IoInvParts DEF DispatchInv, QueueInv, Dispatchers
<1>2. Len(ep.txQueue) \in Nat /\ Len(ep.written) \in Nat /\ ep.txQueue \in Seq(Nat) /\ ep.written \in Seq(Nat)
      /\ ep.accepted \in Nat
  BY <1>1 DEF QueueType
<1>3. io.alarms[i] # "delivered" /\ io.alarms[i] \in {"write", "disabled"} => ~Delivering
  BY <1>1, WriteAlone DEF Delivering
<1>4. CASE NoMessage(i) \/ Disabled(i)
  <2>1. \A j \in AlarmIds : j # i => io'.alarms[j] = io.alarms[j]
    BY <1>1, <1>4, DisabledInv, DoneFields DEF NoMessage, Disabled, At
  <2>2. io'.alarms[i] \in {"free", "disabled"} /\ io.alarms[i] \in {"write", "disabled"}
    BY <1>1, <1>4, DisabledInv, DoneFields DEF NoMessage, Disabled, At
  <2>3. Delivering' <=> Delivering
    BY <2>1, <2>2 DEF Delivering
  <2>4. /\ ep'.txQueue = ep.txQueue /\ ep'.written = ep.written /\ ep'.accepted = ep.accepted
        /\ ep'.getNextMsg = ep.getNextMsg /\ ep'.cur = ep.cur
    BY <1>1, <1>4 DEF EpShape, EpFields, NoMessage, Disabled
  <2> QED
    BY <2>3, <2>4, QueueSame
<1>5. CASE TakeMessage(i)
  <2>1. io' = io /\ io.alarms[i] = "write" /\ ep.txQueue # << >>
    BY <1>5 DEF TakeMessage, At
  <2>2. /\ ep'.txQueue = ep.txQueue /\ ep'.written = ep.written /\ ep'.accepted = ep.accepted
        /\ ~ep'.getNextMsg /\ ep'.cur = Last(ep.txQueue)
    BY <1>1, <1>5 DEF EpShape, EpFields, TakeMessage
  <2>3. ~Delivering /\ ~Delivering'
    BY <1>3, <2>1 DEF Delivering
  <2>4. QueueType' /\ InSequence' /\ AllThere'
    BY <1>1, <2>2, <2>3 DEF QueueType, InSequence, AllThere
  <2>5. Current'
    BY <2>1, <2>2, <2>3 DEF Current
  <2> QED
    BY <2>4, <2>5 DEF QueueInv
<1>6. CASE Deliver(i)
  <2>1. io.alarms[i] = "write" /\ ~ep.getNextMsg /\ io' = Goto(io, i, "delivered")
    BY <1>6 DEF Deliver, At
  <2>2. ep' = [ep EXCEPT !.written = Append(@, ep.cur), !.cur = 0]
    BY <1>6 DEF Deliver
  <2>3. /\ ep'.txQueue = ep.txQueue /\ ep'.written = Append(ep.written, ep.cur)
        /\ ep'.accepted = ep.accepted /\ ep'.getNextMsg = ep.getNextMsg
    BY <1>1, <2>2 DEF EpShape, EpFields
  <2>4. io'.alarms = [io.alarms EXCEPT ![i] = "delivered"]
    BY <1>1, <2>1 DEF Goto, Dispatchers
  <2>5. ~Delivering /\ Delivering'
    BY <1>1, <1>3, <2>1, <2>4 DEF Delivering
  <2>6. ep.txQueue # << >> /\ ep.cur = Last(ep.txQueue)
    BY <1>1, <2>1, <2>5 DEF Current
  <2>7. Len(ep.txQueue) \in 1 .. Len(ep.txQueue)
    BY <1>2, <2>6
  <2>8. ep.cur = ep.accepted + 1 - Len(ep.txQueue)
    BY <1>1, <2>6, <2>7 DEF InSequence, Last
  <2>8a. Len(ep.written) + Len(ep.txQueue) = ep.accepted
    BY <1>1, <2>5 DEF AllThere
  <2>9. ep.cur = Len(ep.written) + 1
    <3> DEFINE lw == Len(ep.written)
               lq == Len(ep.txQueue)
               ac == ep.accepted
    <3>1. lw \in Nat /\ lq \in Nat /\ ac \in Nat /\ lw + lq = ac
      BY <1>2, <2>8a
    <3>3. ep.cur = ac + 1 - lq
      BY <2>8
    <3> HIDE DEF lw, lq, ac
    <3>2. ep.cur = lw + 1
      BY <3>1, <3>3
    <3> QED
      BY <3>2 DEF lw
  <2>10. /\ ep'.written \in Seq(Nat) /\ Len(ep'.written) = Len(ep.written) + 1
         /\ \A k \in 1 .. Len(ep'.written) : ep'.written[k] = k
    <3>1. ep.cur \in Nat
      BY <1>2, <2>9
    <3>2. /\ ep'.written \in Seq(Nat) /\ Len(ep'.written) = Len(ep.written) + 1
          /\ \A k \in 1 .. Len(ep.written) : ep'.written[k] = ep.written[k]
          /\ ep'.written[Len(ep.written) + 1] = ep.cur
      BY <1>2, <2>3, <3>1, AppendProperties
    <3>3. ASSUME NEW k \in 1 .. Len(ep'.written) PROVE ep'.written[k] = k
      <4>1. k \in 1 .. Len(ep.written) \/ k = Len(ep.written) + 1
        BY <1>2, <3>2
      <4> QED
        BY <1>1, <2>9, <3>2, <4>1 DEF InSequence
    <3> QED
      BY <3>2, <3>3
  <2>11. QueueType' /\ InSequence'
    BY <1>1, <2>3, <2>10 DEF QueueType, InSequence
  <2>12. AllThere'
    <3>1. (Len(ep.written) + 1) + Len(ep.txQueue) = ep.accepted + 1
      BY <1>2, <2>8a, OneMore
    <3>2. Len(ep'.written) + Len(ep'.txQueue) = ep'.accepted + 1
      BY <2>3, <2>10, <3>1
    <3> QED
      BY <2>5, <3>2 DEF AllThere
  <2>13. Current'
    BY <2>1, <2>3, <2>5, <2>6 DEF Current
  <2> QED
    BY <2>11, <2>12, <2>13 DEF QueueInv
<1>7. CASE Delivered(i)
  <2>1. io.alarms[i] = "delivered" /\ io' = Goto(io, i, "write")
    BY <1>7 DEF Delivered, At
  <2>2. /\ ep'.txQueue = Front(ep.txQueue) /\ ep'.written = ep.written
        /\ ep'.accepted = ep.accepted /\ ep'.getNextMsg
    BY <1>1, <1>7 DEF Delivered, EpShape, EpFields
  <2>3. io'.alarms = [io.alarms EXCEPT ![i] = "write"]
    BY <1>1, <2>1 DEF Goto, Dispatchers
  <2>4. Delivering
    BY <2>1 DEF Delivering
  <2>5. ~Delivering'
    <3>1. \A j \in AlarmIds : io.alarms[j] = "delivered" => j = i
      BY <1>1, <2>1, WriteAlone
    <3> QED
      BY <1>1, <2>3, <3>1 DEF Delivering
  <2>6. ep.txQueue # << >>
    BY <1>1, <2>4 DEF Current
  <2>7. /\ ep'.txQueue \in Seq(Nat) /\ Len(ep'.txQueue) = Len(ep.txQueue) - 1
        /\ \A k \in 1 .. Len(ep'.txQueue) : ep'.txQueue[k] = ep.txQueue[k]
    <3>1. Len(ep.txQueue) >= 1
      BY <1>2, <2>6
    <3> QED
      BY <1>2, <2>2, <3>1 DEF Front
  <2>8. QueueType' /\ InSequence'
    BY <1>1, <1>2, <2>2, <2>7 DEF QueueType, InSequence
  <2>9. AllThere'
    <3>1. Len(ep.written) + Len(ep.txQueue) = ep.accepted + 1
      BY <1>1, <2>4 DEF AllThere
    <3>2. Len(ep.written) + (Len(ep.txQueue) - 1) = ep.accepted
      <4> DEFINE lw == Len(ep.written)
                 lq == Len(ep.txQueue)
                 ac == ep.accepted
      <4>1. lw \in Nat /\ lq \in Nat /\ ac \in Nat /\ lw + lq = ac + 1
        BY <1>2, <3>1
      <4> HIDE DEF lw, lq, ac
      <4>2. lw + (lq - 1) = ac
        BY <4>1
      <4> QED
        BY <4>2 DEF lw, lq, ac
    <3>3. Len(ep'.written) + Len(ep'.txQueue) = ep'.accepted
      BY <2>2, <2>7, <3>2
    <3> QED
      BY <2>5, <3>3 DEF AllThere
  <2>10. Current'
    BY <2>2, <2>5 DEF Current
  <2> QED
    BY <2>8, <2>9, <2>10 DEF QueueInv
<1> QED
  BY <1>4, <1>5, <1>6, <1>7

\* Every step keeps the queue.
LEMMA QueueStep ==
  ASSUME DispatchInv, QueueInv, Expiring = {}, [Next]_vars, ~Overtakes
  PROVE  QueueInv'
<1>0. EpShape /\ IoInv(io) /\ ep.idleTimeout \in BOOLEAN
  BY DEF DispatchInv, EpShape
<1>1. CASE UNCHANGED <<io, ep>>
  <2>1. Delivering' <=> Delivering
    BY <1>1 DEF Delivering
  <2> QED
    BY <1>1, <2>1, QueueSame
<1>2. CASE Main
  <2>1. ep' = ep
    BY <1>2 DEF Main, MainWake, MainLoad, MainEvent, MainRemove, Dispatch
  <2>2. Delivering' <=> Delivering
    BY <1>2, MainQuiet, StepDelivering DEF Quiet
  <2> QED
    BY <2>1, <2>2, QueueSame
<1>3. CASE Start
  <2>1. ep' = ep /\ io'.alarms = io.alarms
    BY <1>0, <1>3, StartStreamInv DEF Start, DispatchInv, NotBegun, Unused
  <2>2. Delivering' <=> Delivering
    BY <2>1 DEF Delivering
  <2> QED
    BY <2>1, <2>2, QueueSame
<1>4. CASE Started \/ Stop \/ StopAfterTxEmpty \/ Stopped \/ Join \/ JoinFailed
  <2>1. Step(io, io')
    <3>1. CASE Started
      BY <1>0, <3>1, EnableCallbackInv DEF Started, EnableReadCallback, Sides
    <3>2. CASE Stop \/ StopAfterTxEmpty
      BY <1>0, <3>2, StopStreamInv DEF Stop, StopAfterTxEmpty
    <3>3. CASE Stopped \/ Join \/ JoinFailed
      BY <1>0, <3>3, StepSame DEF Stopped, Join, JoinFailed
    <3> QED
      BY <1>4, <3>1, <3>2, <3>3
  <2>2. /\ ep'.txQueue = ep.txQueue /\ ep'.written = ep.written /\ ep'.accepted = ep.accepted
        /\ ep'.getNextMsg = ep.getNextMsg /\ ep'.cur = ep.cur
    BY <1>0, <1>4 DEF EpShape, EpFields, Started, Stop, StopAfterTxEmpty, Stopped, Join, JoinFailed
  <2> QED
    BY <2>1, <2>2, StepDelivering, QueueSame
<1>5. CASE SetLinkTimeout
  <2>1. PICK on \in BOOLEAN : ep' = [ep EXCEPT !.idleTimeout = on] /\ io' = EnableTimeoutCallback(io, on)
    BY <1>5 DEF SetLinkTimeout
  <2>2. /\ ep'.txQueue = ep.txQueue /\ ep'.written = ep.written /\ ep'.accepted = ep.accepted
        /\ ep'.getNextMsg = ep.getNextMsg /\ ep'.cur = ep.cur /\ ep'.idleTimeout = on
    BY <1>0, <2>1 DEF EpShape, EpFields
  <2>3. on /\ io.state = "RUNNING" /\ ~io.inProgress["read"] /\ ~io.mainAdding["read"] =>
          ~Served(io, io.alarm["read"])
    BY <1>5, <2>2 DEF Overtakes
  <2>4. Step(io, io')
    BY <1>0, <2>1, <2>3, EnableTimeoutInv
  <2> QED
    BY <2>2, <2>4, StepDelivering, QueueSame
<1>6. CASE \E t \in Threads : PushStep(t)
  BY <1>6, PushQueue
<1>7. ASSUME NEW i \in AlarmIds, Callback(i) PROVE QueueInv'
  <2>1. CASE NoMessage(i) \/ Disabled(i) \/ TakeMessage(i) \/ Deliver(i) \/ Delivered(i)
    BY <2>1, WriterQueue
  <2>2. CASE ~(NoMessage(i) \/ Disabled(i) \/ TakeMessage(i) \/ Deliver(i) \/ Delivered(i))
    <3>1. Delivering' <=> Delivering
      <4>1. CASE Take(i) \/ Trigger(i) \/ Timeout(i)
        BY <4>1, TriggerQuiet, StepDelivering DEF Quiet
      <4>2. CASE ReadMessage(i) \/ ReadBlocked(i) \/ ReadFailed(i) \/ ReadTimedOut(i) \/ Probed(i) \/ Noted(i)
        BY <4>2, ReadQuiet, StepDelivering DEF Quiet
      <4>3. CASE WriteBlocked(i) \/ WriteFailed(i)
        BY <4>3, WriteQuiet, StepDelivering DEF Quiet
      <4>4. CASE \/ ExitRemoves(i, "read", "exitRead", "exitWrite")
                 \/ ExitRemoves(i, "write", "exitWrite", "exitCallback")
                 \/ ExitCallback(i) \/ ExitErases(i)
        <5>1. Step(io, io')
          BY <4>4, ExitStep
        <5> QED
          BY <5>1, StepDelivering
      <4> QED
        BY <1>7, <2>2, <4>1, <4>2, <4>3, <4>4 DEF Callback
    <3>2. /\ ep'.txQueue = ep.txQueue /\ ep'.written = ep.written /\ ep'.accepted = ep.accepted
          /\ ep'.getNextMsg = ep.getNextMsg /\ ep'.cur = ep.cur
      <4>1. \/ ep' = ep \/ ep' = [ep EXCEPT !.idleTimeoutCount = 0]
            \/ ep' = [ep EXCEPT !.idleTimeoutCount = @ + 1] \/ ep' = [ep EXCEPT !.begun = TRUE]
            \/ ep' = [ep EXCEPT !.stopping = TRUE] \/ ep' = [ep EXCEPT !.exitCount = 1]
        BY <1>7, <2>2 DEF Callback, Take, Trigger, Timeout, ReadMessage, ReadBlocked, ReadFailed,
             ReadTimedOut, Probed, Noted, WriteBlocked, WriteFailed, Fail, ExitRemoves,
             ExitCallback, ExitErases, Dispatch
      <4> QED
        BY <1>0, <4>1 DEF EpShape, EpFields
    <3> QED
      BY <3>1, <3>2, QueueSame
  <2> QED
    BY <2>1, <2>2
<1>8. CASE (\E p \in Pushers : PushMessage(p)) \/ Arrive \/ Close \/ Block \/ Unblock
  BY <1>1, <1>8 DEF PushMessage, Arrive, Close, Block, Unblock
<1>9. CASE UNCHANGED vars
  BY <1>1, <1>9 DEF vars
<1> QED
  BY <1>2, <1>3, <1>4, <1>5, <1>6, <1>7, <1>8, <1>9 DEF Next, User

\* What is written and what waits are all the messages, in order.
LEMMA QueueImplies ==
  ASSUME QueueInv
  PROVE  NoneLost
<1> DEFINE w == ep.written
           u == Unsent
           r == Reverse(u)
<1>1. QueueType /\ InSequence /\ AllThere /\ Current
  BY DEF QueueInv
<1>2. /\ w \in Seq(Nat) /\ Len(w) \in Nat /\ ep.accepted \in Nat
      /\ ep.txQueue \in Seq(Nat) /\ Len(ep.txQueue) \in Nat
  BY <1>1 DEF QueueType
<1>3. /\ u \in Seq(Nat) /\ Len(u) \in Nat /\ Len(w) + Len(u) = ep.accepted
      /\ \A k \in 1 .. Len(u) : u[k] = ep.accepted + 1 - k
  <2>1. CASE Delivering
    <3>1. u = Front(ep.txQueue)
      BY <2>1 DEF Unsent, Delivering
    <3>2. Len(ep.txQueue) >= 1
      BY <1>1, <1>2, <2>1 DEF Current
    <3>3. u \in Seq(Nat) /\ Len(u) = Len(ep.txQueue) - 1 /\ \A k \in 1 .. Len(u) : u[k] = ep.txQueue[k]
      <4> HIDE DEF u
      <4> QED
        BY <1>2, <3>1, <3>2 DEF Front
    <3>4. Len(w) + Len(ep.txQueue) = ep.accepted + 1
      BY <1>1, <2>1 DEF AllThere
    <3> HIDE DEF u, w
    <3>5. Len(u) \in Nat /\ Len(w) + Len(u) = ep.accepted
      <4>1. Len(w) + (Len(ep.txQueue) - 1) = ep.accepted
        BY <1>2, <3>4, OneLess
      <4> QED
        BY <1>2, <3>2, <3>3, <4>1
    <3>6. \A k \in 1 .. Len(u) : k \in 1 .. Len(ep.txQueue)
      BY <1>2, <3>3
    <3> QED
      BY <1>1, <3>3, <3>5, <3>6 DEF InSequence
  <2>2. CASE ~Delivering
    <3>1. u = ep.txQueue
      BY <2>2 DEF Unsent, Delivering
    <3>2. Len(w) + Len(ep.txQueue) = ep.accepted
      BY <1>1, <2>2 DEF AllThere
    <3> HIDE DEF u, w
    <3> QED
      BY <1>1, <1>2, <3>1, <3>2 DEF InSequence
  <2> QED
    BY <2>1, <2>2
<1> HIDE DEF u
<1>4. /\ r \in Seq(Nat) /\ Len(r) = Len(u)
      /\ \A k \in 1 .. Len(r) : r[k] = Len(w) + k
  <2>1. r = [k \in 1 .. Len(u) |-> u[(Len(u) - k) + 1]]
    BY DEF Reverse
  <2>2. \A k \in 1 .. Len(u) : (Len(u) - k) + 1 \in 1 .. Len(u)
    BY <1>3
  <2>3. \A k \in 1 .. Len(u) : u[(Len(u) - k) + 1] \in Nat
    BY <1>3, <2>2, ElementOfSeq
  <2>4. r \in [1 .. Len(u) -> Nat]
    BY <2>1, <2>3
  <2>5. r \in Seq(Nat) /\ Len(r) = Len(u)
    BY <1>3, <2>4, IsASeq, LenProperties
  <2>6. ASSUME NEW k \in 1 .. Len(u) PROVE r[k] = Len(w) + k
    <3>1. r[k] = u[(Len(u) - k) + 1]
      BY <2>1
    <3>2. u[(Len(u) - k) + 1] = ep.accepted + 1 - ((Len(u) - k) + 1)
      BY <1>3, <2>2
    <3> HIDE DEF r, w
    <3> QED
      BY <1>2, <1>3, <3>1, <3>2
  <2> QED
    BY <2>5, <2>6
<1> HIDE DEF r
<1>5. \A k \in 1 .. Len(w) : w[k] = k
  BY <1>1 DEF InSequence
<1> HIDE DEF w
<1>6. /\ w \o r \in Seq(Nat) /\ Len(w \o r) = ep.accepted
      /\ \A k \in 1 .. ep.accepted : (w \o r)[k] = IF k <= Len(w) THEN w[k] ELSE r[k - Len(w)]
  <2>1. /\ w \o r \in Seq(Nat) /\ Len(w \o r) = Len(w) + Len(r)
        /\ \A k \in 1 .. Len(w) + Len(r) : (w \o r)[k] = IF k <= Len(w) THEN w[k] ELSE r[k - Len(w)]
    BY <1>2, <1>4, ConcatProperties
  <2>2. Len(w) + Len(r) = ep.accepted
    BY <1>3, <1>4
  <2> QED
    BY <2>1, <2>2
<1>7. ASSUME NEW k \in 1 .. ep.accepted PROVE (w \o r)[k] = k
  <2>1. CASE k <= Len(w)
    BY <1>2, <1>5, <1>6, <2>1
  <2>2. CASE ~(k <= Len(w))
    <3>1. k - Len(w) \in 1 .. Len(r)
      BY <1>2, <1>3, <1>4, <2>2
    <3>2. r[k - Len(w)] = Len(w) + (k - Len(w))
      BY <1>4, <3>1
    <3> QED
      BY <1>2, <1>6, <2>2, <3>2
  <2> QED
    BY <2>1, <2>2
<1>8. w \o r = [k \in 1 .. ep.accepted |-> (w \o r)[k]]
  BY <1>6, LenProperties
<1>9. w \o r = [k \in 1 .. ep.accepted |-> k]
  BY <1>7, <1>8
<1> QED
  BY <1>9 DEF NoneLost, w, r, u

\* Every accepted message is written once and in the order of acceptance, or
\* still in the queue, however pushers, partial writes, timeouts and the end of
\* the endpoint interleave, as long as no message has a time to live (then
\* PushMessage may drop one) and SetLinkTimeout overtakes no timeout.
THEOREM MessagesInOrder ==
  ASSUME Expiring = {}
  PROVE  Spec /\ NoOvertaking => []NoneLost
<1>1. Init => DispatchInv /\ QueueInv
  BY InitInv, InitQueue
<1>2. DispatchInv /\ QueueInv /\ [Next]_vars /\ [~Overtakes]_vars => QueueInv'
  <2> SUFFICES ASSUME DispatchInv, QueueInv, [Next]_vars, [~Overtakes]_vars PROVE QueueInv'
    OBVIOUS
  <2>1. CASE ~Overtakes
    BY <2>1, QueueStep
  <2>2. CASE UNCHANGED vars
    <3>1. UNCHANGED <<io, ep>>
      BY <2>2 DEF vars
    <3>2. Delivering' <=> Delivering
      BY <3>1 DEF Delivering
    <3> QED
      BY <3>1, <3>2, QueueSame
  <2> QED
    BY <2>1, <2>2
<1>3. QueueInv => NoneLost
  BY QueueImplies
<1> QED
  BY <1>1, <1>2, <1>3, DispatchInvariant, PTL DEF Spec, NoOvertaking
=============================================================================
