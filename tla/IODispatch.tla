----------------------------- MODULE IODispatch -----------------------------
(***************************************************************************)
(* IODispatch: one thread that waits for the sockets of all streams, and a *)
(* timer whose threads make the callbacks.  The module has the entry of    *)
(* one stream, the alarms of that stream and the main thread.  Each        *)
(* section under IODispatch::lock is an operator from the dispatcher       *)
(* before it to the dispatcher after it; what waits is a program counter.  *)
(***************************************************************************)
EXTENDS Integers, Sequences

CONSTANT MaxSame   \* as many alarms of one kind as a stream can have at once

ASSUME AlarmsAssumption == MaxSame \in Nat \ {0}

Sides == {"read", "write"}
Kinds == {"read", "write", "readTimeout", "writeTimeout", "exit"}
AlarmIds == Kinds \X (1 .. MaxSame)
NoAlarm == <<"none", 0>>
Both(v) == [s \in Sides |-> v]

\* The entry of the stream (state, and for each side enable, inProgress,
\* mainAdding and its last alarm, while that is pending or served), the
\* alarms with the threads that serve them, the main thread (pc, check,
\* signaled, prev) and the flags by which it and the others find each other.
NewDispatch ==
  [state |-> "NONE", enable |-> Both(FALSE), inProgress |-> Both(FALSE),
   mainAdding |-> Both(FALSE), alarm |-> Both(NoAlarm),
   alarms |-> [i \in AlarmIds |-> "free"],
   reload |-> TRUE, crit |-> TRUE, alerted |-> FALSE,
   pc |-> "wait", check |-> {}, signaled |-> << >>, prev |-> NoAlarm, fault |-> FALSE]

----------------------------------------------------------------------------
(* The timer *)

Fresh(io, kind) ==
  CHOOSE i \in AlarmIds : /\ i[1] = kind /\ io.alarms[i] = "free"
                          /\ \A n \in 1 .. i[2] - 1 : io.alarms[<<kind, n>>] # "free"

Goto(io, i, pc) == [io EXCEPT !.alarms[i] = pc]

\* An alarm that was served or removed; who still refers to it finds nothing.
Done(io, i) ==
  [io EXCEPT !.alarms[i] = "free", !.prev = IF @ = i THEN NoAlarm ELSE @,
             !.alarm = [s \in Sides |-> IF @[s] = i THEN NoAlarm ELSE @[s]]]

AddAlarm(io, kind) ==
  [io EXCEPT !.alarms[Fresh(io, kind)] = "pending"]

\* ... and keep it as the alarm of side s.
AddSideAlarm(io, s, kind) == [AddAlarm(io, kind) EXCEPT !.alarm[s] = Fresh(io, kind)]

RemoveAlarm(io, i) ==
  IF i # NoAlarm /\ io.alarms[i] = "pending" THEN Done(io, i) ELSE io

\* A thread is serving the alarm: the blocking form of RemoveAlarm waits.
Served(io, i) == i # NoAlarm /\ io.alarms[i] # "pending"

----------------------------------------------------------------------------
(* Calls *)

Alert(io) == [io EXCEPT !.alerted = TRUE]

\* What the loops "while (!reload && crit && isRunning)" wait for.
Reloaded(io) == io.reload \/ ~io.crit

StartStream(io) ==
  Alert([io EXCEPT !.state = "RUNNING", !.enable = [s \in Sides |-> s = "write"],
                   !.inProgress = Both(FALSE), !.reload = FALSE])

\* Mutant: the main thread is not told.
StopSilently(io) ==
  IF io.state \in {"NONE", "STOPPED"} THEN io ELSE [io EXCEPT !.state = "STOPPING", !.reload = FALSE]

\* The call then waits for Reloaded.
StopStream(io) ==
  IF io.state \in {"NONE", "STOPPED"} THEN io
  ELSE Alert([io EXCEPT !.state = "STOPPING", !.reload = FALSE])

EnableCallback(io, s, timed) ==
  LET on == [io EXCEPT !.enable[s] = TRUE]
      set == IF timed THEN AddSideAlarm(on, s, IF s = "read" THEN "readTimeout" ELSE "writeTimeout")
             ELSE on
  IN  CASE io.state # "RUNNING" -> io
        [] io.state = "RUNNING" /\ io.mainAdding[s] -> on
        [] OTHER -> Alert([set EXCEPT !.inProgress[s] = FALSE])

EnableReadCallback(io, timed) == EnableCallback(io, "read", timed)
EnableWriteCallback(io) == EnableCallback(io, "write", TRUE)

EnableTimeoutCallback(io, timed) ==
  IF io.state # "RUNNING" \/ io.inProgress["read"] \/ io.mainAdding["read"] THEN io
  ELSE LET removed == RemoveAlarm(io, io.alarm["read"])
       IN  IF timed THEN AddSideAlarm(removed, "read", "readTimeout") ELSE removed

\* full: the timer has no room for another alarm.
EnableWriteCallbackNow(io, full) ==
  IF io.state # "RUNNING" \/ io.enable["write"] \/ io.mainAdding["write"] THEN io
  ELSE LET on == [io EXCEPT !.enable["write"] = TRUE]
       IN  IF full THEN Alert([on EXCEPT !.inProgress["write"] = FALSE, !.alarm["write"] = NoAlarm])
           ELSE AddSideAlarm([on EXCEPT !.inProgress["write"] = TRUE], "write", "write")

\* The call then waits for Reloaded.
DisableCallback(io, s) ==
  IF io.state # "RUNNING" THEN io ELSE Alert([io EXCEPT !.enable[s] = FALSE])

DisableReadCallback(io) == DisableCallback(io, "read")
DisableWriteCallback(io) == DisableCallback(io, "write")

----------------------------------------------------------------------------
(* Run, the main thread *)

\* The events to wait for.
Load(io) ==
  [io EXCEPT !.reload = TRUE, !.crit = TRUE, !.pc = "wait",
             !.check = {s \in Sides : io.state = "RUNNING" /\ io.enable[s] /\ ~io.inProgress[s]}]

\* Event::Wait, given the sides of the socket that are ready.
Select(io, ready) ==
  LET on(s) == IF s \in io.check \cap ready THEN <<s>> ELSE << >>
  IN  (IF io.alerted THEN <<"stop">> ELSE << >>) \o on("read") \o on("write")

Woken(io, signaled) ==
  [io EXCEPT !.crit = FALSE, !.reload = TRUE, !.pc = "events", !.check = {}, !.signaled = signaled]

\* The event is handled: on with the next one.
Handled(io) == [io EXCEPT !.signaled = Tail(@), !.pc = "events"]

StopEvent(io) ==
  LET reset == [io EXCEPT !.alerted = FALSE]
  IN  Handled(IF io.state = "STOPPING" THEN AddAlarm([reset EXCEPT !.state = "STOPPED"], "exit")
              ELSE reset)

\* Mutant: the timeout alarm stays.
SideEventKeeps(io, s) ==
  IF io.state = "RUNNING" /\ io.enable[s] /\ ~io.inProgress[s]
  THEN [io EXCEPT !.inProgress[s] = TRUE, !.mainAdding[s] = TRUE, !.prev = NoAlarm, !.pc = "remove"]
  ELSE Handled(io)

\* The socket is ready: first the timeout alarm of that side has to go.
SideEvent(io, s) ==
  IF io.state = "RUNNING" /\ io.enable[s] /\ ~io.inProgress[s]
  THEN [io EXCEPT !.inProgress[s] = TRUE, !.mainAdding[s] = TRUE,
                  !.prev = io.alarm[s], !.pc = "remove"]
  ELSE Handled(io)

\* ... and then, not served any more, to be replaced by one that is due.
SideRemoved(io, s) ==
  LET removed == [RemoveAlarm(io, io.prev) EXCEPT !.mainAdding[s] = FALSE, !.prev = NoAlarm]
  IN  Handled(IF io.state = "RUNNING" THEN AddSideAlarm(removed, s, s) ELSE removed)

----------------------------------------------------------------------------
(* AlarmTriggered, as far as the callback; each callback has a name *)

SideOf(kind) == IF kind \in {"read", "readTimeout"} THEN "read" ELSE "write"

\* A timeout has the side set in progress before the main thread is waited for;
\* a side that is disabled gets no callback, and the wait is not shown then.
AlarmTriggered(io, i) ==
  LET kind == i[1]
      s == SideOf(kind)
      timed == [io EXCEPT !.inProgress[s] = TRUE]
      timeout == io.state = "RUNNING" /\ kind # s /\ kind # "exit"
  IN  CASE io.state = "NONE" -> [Done(io, i) EXCEPT !.fault = TRUE]
        [] io.state # "NONE" /\ kind = "exit" -> Goto(io, i, "exitRead")
        [] io.state = "RUNNING" /\ kind = s /\ io.enable[s] -> Goto(io, i, s)
        [] timeout /\ io.enable[s] -> Goto(timed, i, "reload")
        [] timeout /\ ~io.enable[s] -> Done(timed, i)
        [] OTHER -> Done(io, i)

\* The exit alarm removes the alarms of both sides, waiting for callbacks.
ExitRemoved(io, i, s, pc) == Goto(RemoveAlarm(io, io.alarm[s]), i, pc)

\* ... and after the exit callback the entry.
ExitErased(io, i) == Done([io EXCEPT !.state = "NONE"], i)
=============================================================================
