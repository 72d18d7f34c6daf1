--------------------------- MODULE RemoteEndpoint ---------------------------
(***************************************************************************)
(* A remote endpoint: the queue that the daemon's threads fill and the     *)
(* write callback empties, the read callback with its idle probes, and the *)
(* way from Stop to the exit callback, on top of IODispatch.               *)
(***************************************************************************)
EXTENDS IODispatch, SequencesExt

CONSTANTS Pushers,       \* threads that call PushMessage
          Quota,         \* how many messages each of them pushes
          MaxTxQueue,    \* MAX_TX_QUEUE_SIZE (30)
          MaxIdleProbes, \* maxIdleProbes
          Expiring,      \* the messages with a time to live that may run out
          Events,        \* what happens besides, of the following ...
          MaxEvents      \* ... and how often

\* What arrives: a message, a request to probe, a message after which the
\* connection cannot go on, the reply after which armRxPause stops reading.
Arrivals == {"message", "probe", "bad", "pause"}

\* Besides, the other end closes the connection or takes no more bytes;
\* SetLinkTimeout is called; the timer has no room for an alarm (of 96).
EventKinds == Arrivals \cup {"close", "block", "link", "full"}

\* The threads that push or serve alarms, and the one that owns the endpoint.
Threads == Pushers \cup AlarmIds
Owner == <<"owner", 0>>
Nobody == <<"none", 0>>

ASSUME EndpointAssumption ==
  /\ Quota \in [Pushers -> Nat] /\ MaxTxQueue \in Nat \ {0, 1} /\ MaxIdleProbes \in Nat
  /\ Events \subseteq EventKinds /\ MaxEvents \in Nat /\ Expiring \subseteq Nat
  /\ Pushers \cap (AlarmIds \cup {Owner, Nobody}) = {}

VARIABLES io,      \* the dispatcher
          ep,      \* the endpoint
          push,    \* the call of PushMessage each thread is in, if any
          user,    \* the thread that starts, stops and joins the endpoint
          sock     \* the socket: what has arrived and whether it takes bytes

vars == <<io, ep, push, user, sock>>

\* A message is the number of its acceptance.  txQueue has the newest first;
\* written is what went to the socket, expired what was dropped as too old.
\* cur is currentWriteMsg, begun its writeState.  lock is the thread that
\* keeps internal->lock over several steps.
NewEndpoint ==
  [txQueue |-> << >>, txWaitQueue |-> << >>, getNextMsg |-> TRUE, cur |-> 0, begun |-> FALSE, stopping |-> FALSE,
   exitCount |-> 0, idleTimeoutCount |-> 0, idleTimeout |-> FALSE, lock |-> Nobody,
   accepted |-> 0, written |-> << >>, expired |-> {}]

\* alert is the thread's stopEvent, code its alertCode.
NoPush == [pc |-> "idle", alert |-> FALSE, code |-> "none", left |-> 0, closing |-> FALSE]

Init ==
  /\ io = NewDispatch /\ ep = NewEndpoint /\ user = "new"
  /\ push = [t \in Threads |-> [NoPush EXCEPT !.left = IF t \in Pushers THEN Quota[t] ELSE 0]]
  /\ sock = [inbox |-> << >>, closed |-> FALSE, blocked |-> FALSE, left |-> MaxEvents]

\* The socket after an event of one kind.
Spend(kind) == kind \in Events /\ sock.left > 0
Spent == [sock EXCEPT !.left = @ - 1]

Unlocked == ep.lock = Nobody

Ready == {s \in Sides : \/ sock.closed
                        \/ s = "read" /\ sock.inbox # << >>
                        \/ s = "write" /\ ~sock.blocked}

----------------------------------------------------------------------------
(* The thread of IODispatch *)

Dispatch(next) == io' = next /\ UNCHANGED <<ep, push, user, sock>>

MainWake == /\ io.pc = "wait" /\ Select(io, Ready) # << >>
            /\ Dispatch(Woken(io, Select(io, Ready)))

MainLoad == io.pc = "events" /\ io.signaled = << >> /\ Dispatch(Load(io))

MainEvent == /\ io.pc = "events" /\ io.signaled # << >>
             /\ Dispatch(IF Head(io.signaled) = "stop" THEN StopEvent(io)
                         ELSE SideEvent(io, Head(io.signaled)))

MainRemove == /\ io.pc = "remove" /\ ~Served(io, io.prev)
              /\ Dispatch(SideRemoved(io, Head(io.signaled)))

Main == MainWake \/ MainLoad \/ MainEvent \/ MainRemove

----------------------------------------------------------------------------
(* PushMessage *)

\* The call is made by a thread that then is at "enter", unless stopping.
Call(t) == [push EXCEPT ![t].pc = "enter"]

Return(t, closing) == [push EXCEPT ![t].pc = "idle", ![t].closing = closing]

\* Mutant: only a queue that was empty at the call has the writer enabled.
AcceptWasEmpty(t, q) ==
  /\ ep' = [ep EXCEPT !.txQueue = <<ep.accepted + 1>> \o q, !.accepted = @ + 1,
                      !.txWaitQueue = SelectSeq(@, LAMBDA u : u # t)]
  /\ io' = IF q = << >> /\ push[t].pc = "enter" THEN EnableWriteCallbackNow(io, FALSE) ELSE io
  /\ push' = Return(t, FALSE) /\ UNCHANGED sock

\* The message of thread t goes into the queue q.
Accept(t, q) ==
  /\ ep' = [ep EXCEPT !.txQueue = <<ep.accepted + 1>> \o q, !.accepted = @ + 1,
                      !.expired = @ \cup (ToSet(ep.txQueue) \ ToSet(q)),
                      !.txWaitQueue = SelectSeq(@, LAMBDA u : u # t)]
  /\ \/ io' = (IF q = << >> THEN EnableWriteCallbackNow(io, FALSE) ELSE io) /\ UNCHANGED sock
     \/ q = << >> /\ Spend("full") /\ io' = EnableWriteCallbackNow(io, TRUE) /\ sock' = Spent
  /\ push' = Return(t, FALSE)

\* At most one entry whose time to live has run out leaves the queue.
RemoveExpired(q) == {q} \cup {SelectSeq(q, LAMBDA m : m # old) : old \in ToSet(q) \cap Expiring}

\* One round of the loop over the full queue.
Round(t) ==
  \E q \in IF Len(ep.txQueue) < MaxTxQueue /\ push[t].pc = "enter" THEN {ep.txQueue}
           ELSE RemoveExpired(ep.txQueue) :
        IF Len(q) < MaxTxQueue THEN Accept(t, q)
        ELSE /\ ep' = [ep EXCEPT !.txWaitQueue = <<t>> \o SelectSeq(@, LAMBDA u : u # t)]
             /\ push' = [push EXCEPT ![t].pc = "wait", ![t].alert = @ /\ push[t].pc = "enter"]
             /\ UNCHANGED <<io, sock>>

PushEnter(t) == push[t].pc = "enter" /\ Unlocked /\ Round(t) /\ UNCHANGED user

\* Event::Wait ends with an alert.  Only the code of ExitCallback ends the
\* loop: after any other alert, and after the timeout, it goes on, stopping
\* or not.
PushAlerted(t) ==
  /\ push[t].pc = "wait" /\ push[t].alert /\ Unlocked
  /\ IF push[t].code = "dead"
     THEN /\ push' = [Return(t, TRUE) EXCEPT ![t].alert = FALSE]
          /\ ep' = [ep EXCEPT !.txWaitQueue = SelectSeq(@, LAMBDA u : u # t)] /\ UNCHANGED <<io, sock>>
     ELSE Round(t)
  /\ UNCHANGED user

PushMessage(p) ==
  /\ push[p].pc = "idle" /\ push[p].left > 0 /\ user # "new"
  /\ push' = [IF ep.stopping THEN Return(p, TRUE) ELSE Call(p) EXCEPT ![p].left = @ - 1]
  /\ UNCHANGED <<io, ep, user, sock>>

\* Event::Wait ends after 20 s, or when the first time to live runs out.
PushTimedOut(t) ==
  /\ push[t].pc = "wait" /\ ~push[t].alert /\ Unlocked /\ Round(t) /\ UNCHANGED user

PushStep(t) == PushEnter(t) \/ PushAlerted(t) \/ PushTimedOut(t)

----------------------------------------------------------------------------
(* The callbacks: alarm i is served *)

InCallback == {"read", "readTimeout", "probed", "write", "writeTimeout", "disabled", "delivered"}

At(i, pc) == io.alarms[i] = pc /\ push[i].pc = "idle"

\* A thread of the timer takes the alarm and then the lock of the dispatcher.
\* In between another thread may remove or replace an alarm of a timeout.
Take(i) == /\ At(i, "pending") /\ i[1] \in {"readTimeout", "writeTimeout"}
           /\ Dispatch(Goto(io, i, "taken"))

Trigger(i) == /\ At(i, IF i[1] \in {"readTimeout", "writeTimeout"} THEN "taken" ELSE "pending")
              /\ Dispatch(AlarmTriggered(io, i))

\* A timeout callback, once the main thread has taken note.
Timeout(i) == /\ At(i, "reload") /\ Reloaded(io)
              /\ Dispatch(Goto(io, i, i[1]))

\* ReadCallback: the next message, or none yet, or the end of the stream.
ReadMessage(i) ==
  /\ At(i, "read") /\ ~push[i].closing /\ sock.inbox # << >>
  /\ sock' = [sock EXCEPT !.inbox = Tail(@)]
  /\ ep' = [ep EXCEPT !.idleTimeoutCount = 0]
  /\ push' = CASE Head(sock.inbox) = "bad" -> Return(i, TRUE)
               [] Head(sock.inbox) = "probe" -> IF ep.stopping THEN Return(i, TRUE) ELSE Call(i)
               [] OTHER -> push
  /\ io' = IF Head(sock.inbox) = "pause" THEN Goto(DisableReadCallback(io), i, "noted") ELSE io
  /\ UNCHANGED user

ReadBlocked(i) ==
  /\ At(i, "read") /\ ~push[i].closing /\ sock.inbox = << >> /\ ~sock.closed /\ Unlocked
  /\ Dispatch(EnableReadCallback(Done(io, i), ep.idleTimeout))

\* The callback gives the endpoint up.
Fail(i) == /\ ep' = [ep EXCEPT !.stopping = TRUE]
           /\ push' = [push EXCEPT ![i] = NoPush]
           /\ io' = Goto(StopStream(io), i, "noted") /\ UNCHANGED <<user, sock>>

ReadFailed(i) ==
  At(i, "read") /\ (push[i].closing \/ (sock.inbox = << >> /\ sock.closed)) /\ Fail(i)

ReadTimedOut(i) ==
  /\ At(i, "readTimeout")
  /\ IF ep.idleTimeoutCount < MaxIdleProbes
     THEN /\ ep' = [ep EXCEPT !.idleTimeoutCount = @ + 1]
          /\ push' = IF ep.stopping THEN push ELSE Call(i)
          /\ io' = Goto(io, i, "probed") /\ UNCHANGED <<user, sock>>
     ELSE Fail(i)

\* The probe is on its way: wait for an answer.
Probed(i) ==
  /\ At(i, "probed") /\ Unlocked /\ push' = [push EXCEPT ![i] = NoPush]
  /\ io' = EnableReadCallback(Done(io, i), ep.idleTimeout) /\ UNCHANGED <<ep, user, sock>>

\* StopStream and DisableReadCallback wait until the main thread has taken note.
Noted(i) == At(i, "noted") /\ Reloaded(io) /\ Dispatch(Done(io, i))

\* Mutant: the message at the other end of the queue.
TakeNewest(i) ==
  /\ At(i, "write") /\ ep.getNextMsg /\ Unlocked /\ ep.txQueue # << >>
  /\ ep' = [ep EXCEPT !.getNextMsg = FALSE, !.cur = Head(ep.txQueue), !.begun = FALSE,
                      !.txWaitQueue = IF @ = << >> THEN @ ELSE Front(@)]
  /\ push' = IF ep.txWaitQueue = << >> THEN push
             ELSE [push EXCEPT ![Last(ep.txWaitQueue)].alert = TRUE]
  /\ UNCHANGED <<io, user, sock>>

\* WriteCallback: the oldest message; room is announced to who waits longest.
TakeMessage(i) ==
  /\ At(i, "write") /\ ep.getNextMsg /\ Unlocked /\ ep.txQueue # << >>
  /\ ep' = [ep EXCEPT !.getNextMsg = FALSE, !.cur = Last(ep.txQueue), !.begun = FALSE,
                      !.txWaitQueue = IF @ = << >> THEN @ ELSE Front(@)]
  /\ push' = IF ep.txWaitQueue = << >> THEN push
             ELSE [push EXCEPT ![Last(ep.txWaitQueue)].alert = TRUE]
  /\ UNCHANGED <<io, user, sock>>

\* Nothing to write: disabled with the lock held until Reloaded.
NoMessage(i) ==
  /\ At(i, "write") /\ ep.getNextMsg /\ Unlocked /\ ep.txQueue = << >>
  /\ io' = Goto(DisableWriteCallback(io), i, "disabled")
  /\ ep' = [ep EXCEPT !.lock = i] /\ UNCHANGED <<push, user, sock>>

Disabled(i) == /\ At(i, "disabled") /\ Reloaded(io) /\ io' = Done(io, i)
               /\ ep' = [ep EXCEPT !.lock = Nobody] /\ UNCHANGED <<push, user, sock>>

Deliver(i) ==
  /\ At(i, "write") /\ ~ep.getNextMsg /\ ~sock.closed /\ ~sock.blocked
  /\ \/ ep' = [ep EXCEPT !.written = Append(@, ep.cur), !.cur = 0]
     \/ /\ ep.cur \in Expiring /\ ~ep.begun
        /\ ep' = [ep EXCEPT !.expired = @ \cup {ep.cur}, !.cur = 0]
  /\ io' = Goto(io, i, "delivered") /\ UNCHANGED <<push, user, sock>>

Delivered(i) ==
  /\ At(i, "delivered") /\ Unlocked
  /\ ep' = [ep EXCEPT !.txQueue = Front(@), !.getNextMsg = TRUE]
  /\ io' = Goto(io, i, "write") /\ UNCHANGED <<push, user, sock>>

WriteBlocked(i) ==
  /\ At(i, "write") /\ ~ep.getNextMsg /\ ~sock.closed /\ sock.blocked /\ Unlocked
  /\ ep' = [ep EXCEPT !.begun = TRUE]
  /\ io' = EnableWriteCallback(Done(io, i)) /\ UNCHANGED <<push, user, sock>>

WriteFailed(i) == \/ At(i, "write") /\ ~ep.getNextMsg /\ sock.closed /\ Fail(i)
                  \/ At(i, "writeTimeout") /\ Fail(i)

\* Mutant: RemoveAlarm that does not wait.
ExitLeaves(i, s, here, next) == At(i, here) /\ Dispatch(ExitRemoved(io, i, s, next))

\* The exit alarm: ForceRemoveAlarm for both sides, with alerts for a thread
\* that is serving the alarm.
ExitRemoves(i, s, here, next) ==
  /\ At(i, here)
  /\ IF Served(io, io.alarm[s])
     THEN /\ push' = [push EXCEPT ![io.alarm[s]].alert = TRUE, ![io.alarm[s]].code = "force"]
          /\ push' # push /\ UNCHANGED <<io, ep, user, sock>>
     ELSE Dispatch(ExitRemoved(io, i, s, next))

\* ExitCallback wakes who waits for room in the queue, unregisters the
\* endpoint and closes the stream.
ExitCallback(i) ==
  /\ At(i, "exitCallback") /\ Unlocked /\ io' = Goto(io, i, "exitErase")
  /\ push' = [t \in Threads |-> IF t \in ToSet(ep.txWaitQueue)
                                THEN [push[t] EXCEPT !.alert = TRUE, !.code = "dead"] ELSE push[t]]
  /\ ep' = [ep EXCEPT !.exitCount = 1] /\ UNCHANGED <<user, sock>>

ExitErases(i) == At(i, "exitErase") /\ Dispatch(ExitErased(io, i))

Callback(i) ==
  \/ Take(i) \/ Trigger(i) \/ Timeout(i)
  \/ ReadMessage(i) \/ ReadBlocked(i) \/ ReadFailed(i) \/ ReadTimedOut(i) \/ Probed(i)
  \/ Noted(i)
  \/ TakeMessage(i) \/ NoMessage(i) \/ Disabled(i) \/ Deliver(i) \/ Delivered(i)
  \/ WriteBlocked(i) \/ WriteFailed(i)
  \/ ExitRemoves(i, "read", "exitRead", "exitWrite")
  \/ ExitRemoves(i, "write", "exitWrite", "exitCallback")
  \/ ExitCallback(i) \/ ExitErases(i)

----------------------------------------------------------------------------
(* The owner of the endpoint *)

\* Start: the stream first, to write only; then registered, then to read.
Start == /\ user = "new" /\ user' = "starting" /\ io' = StartStream(io)
         /\ UNCHANGED <<ep, push, sock>>

Started == /\ user = "starting" /\ user' = "started" /\ io' = EnableReadCallback(io, FALSE)
           /\ UNCHANGED <<ep, push, sock>>

SetLinkTimeout ==
  /\ user = "started" /\ Spend("link") /\ Unlocked
  /\ \E on \in BOOLEAN :
       /\ ep' = [ep EXCEPT !.idleTimeout = on]
       /\ io' = EnableTimeoutCallback(io, on)
  /\ sock' = Spent /\ UNCHANGED <<push, user>>

Stop == /\ user = "started" /\ user' = "stopping"
        /\ io' = StopStream(io) /\ UNCHANGED <<ep, push, sock>>

\* The queue is empty, or the time for that is over.
StopAfterTxEmpty ==
  /\ user = "started" /\ Unlocked /\ user' = "stopping"
  /\ ep' = [ep EXCEPT !.lock = Owner] /\ io' = StopStream(io) /\ UNCHANGED <<push, sock>>

Stopped ==
  /\ user = "stopping" /\ Reloaded(io) /\ user' = "joining"
  /\ ep' = [ep EXCEPT !.stopping = TRUE, !.lock = IF @ = Owner THEN Nobody ELSE @]
  /\ UNCHANGED <<io, push, sock>>

Join == /\ user = "joining" /\ ep.exitCount = 1 /\ user' = "joined"
        /\ UNCHANGED <<io, ep, push, sock>>

\* The transport joins an endpoint that failed.
JoinFailed == /\ user = "started" /\ ep.exitCount = 1 /\ user' = "joined"
              /\ UNCHANGED <<io, ep, push, sock>>

User == Start \/ Started \/ Stopped \/ Join \/ JoinFailed

----------------------------------------------------------------------------
(* The other end *)

Arrive == /\ ~sock.closed /\ user # "new"
          /\ \E m \in Arrivals :
               Spend(m) /\ sock' = [Spent EXCEPT !.inbox = Append(@, m)]
          /\ UNCHANGED <<io, ep, push, user>>

Close == /\ ~sock.closed /\ user # "new" /\ Spend("close")
         /\ sock' = [Spent EXCEPT !.closed = TRUE]
         /\ UNCHANGED <<io, ep, push, user>>

Block == /\ ~sock.blocked /\ user # "new" /\ Spend("block")
         /\ sock' = [Spent EXCEPT !.blocked = TRUE]
         /\ UNCHANGED <<io, ep, push, user>>

Unblock == /\ sock.blocked /\ sock' = [sock EXCEPT !.blocked = FALSE]
           /\ UNCHANGED <<io, ep, push, user>>

Next ==
  \/ Main \/ User \/ SetLinkTimeout \/ Stop \/ StopAfterTxEmpty
  \/ \E p \in Pushers : PushMessage(p)
  \/ \E t \in Threads : PushStep(t)
  \/ \E i \in AlarmIds : Callback(i)
  \/ Arrive \/ Close \/ Block \/ Unblock

Spec == Init /\ [][Next]_vars

\* Threads run, Event::Wait with a timeout returns, alarms fire.  Nothing is
\* assumed of the other end, of who pushes messages or stops the endpoint.
Fairness == /\ WF_vars(Main) /\ WF_vars(User)
            /\ \A t \in Threads : WF_vars(PushStep(t))
            /\ \A i \in AlarmIds : WF_vars(Callback(i))

FairSpec == Spec /\ Fairness

----------------------------------------------------------------------------
(* Properties *)

\* The fields of every record have the values that the code gives them, and
\* txQueue never holds more than MAX_TX_QUEUE_SIZE messages.
TypeOK ==
  /\ io.state \in {"NONE", "RUNNING", "STOPPING", "STOPPED"} /\ io.fault \in BOOLEAN
  /\ io.enable \in [Sides -> BOOLEAN] /\ io.inProgress \in [Sides -> BOOLEAN]
  /\ io.mainAdding \in [Sides -> BOOLEAN] /\ io.alarm \in [Sides -> AlarmIds \cup {NoAlarm}]
  /\ io.alarms \in [AlarmIds -> {"free", "pending", "taken", "reload"} \cup InCallback
                                \cup {"noted", "exitRead", "exitWrite", "exitCallback", "exitErase"}]
  /\ io.reload \in BOOLEAN /\ io.crit \in BOOLEAN /\ io.alerted \in BOOLEAN
  /\ io.pc \in {"wait", "events", "remove"} /\ io.check \subseteq Sides
  /\ io.signaled \in Seq(Sides \cup {"stop"}) /\ io.prev \in AlarmIds \cup {NoAlarm}
  /\ ep.txQueue \in Seq(1 .. ep.accepted) /\ Len(ep.txQueue) <= MaxTxQueue
  /\ ep.txWaitQueue \in Seq(Threads) /\ ep.lock \in Threads \cup {Owner, Nobody}
  /\ ep.cur \in 0 .. ep.accepted /\ ep.exitCount \in {0, 1}
  /\ ep.written \in Seq(1 .. ep.accepted) /\ ep.expired \subseteq Expiring
  /\ \A t \in Threads : /\ push[t].pc \in {"idle", "enter", "wait"}
                        /\ push[t].code \in {"none", "dead", "force"}
  /\ user \in {"new", "starting", "started", "stopping", "joining", "joined"}
  /\ sock.inbox \in Seq(Arrivals) /\ sock.left \in 0 .. MaxEvents

\* What is in the queue and not yet written: between DeliverNonBlocking and
\* pop_back the oldest entry is both.
Unsent == IF \E i \in AlarmIds : io.alarms[i] = "delivered" THEN Front(ep.txQueue) ELSE ep.txQueue

\* However PushMessage, partial writes, timeouts and the end of the endpoint
\* interleave: what was written to the socket and what is still queued are
\* together the accepted messages, each once and in the order of acceptance.
NoneLost == ep.written \o Reverse(Unsent) = [m \in 1 .. ep.accepted |-> m]

\* Two threads are never in the callback of the same side: ReadCallback and
\* WriteCallback use currentReadMsg, currentWriteMsg and getNextMsg without a
\* lock and rely on readInProgress, writeInProgress and the removal of the
\* timeout alarm before the next callback.
OneCallback ==
  \A s \in Sides : \A i, j \in {a \in AlarmIds : SideOf(a[1]) = s /\ io.alarms[a] \in InCallback} : i = j

\* After the exit callback, which closes the stream, no alarm of the stream is
\* left to call back, and none finds its entry gone (AlarmTriggered has
\* assert(false) there).
ExitIsLast ==
  /\ ~io.fault
  /\ ep.exitCount = 1 => \A i \in AlarmIds : i[1] # "exit" => io.alarms[i] = "free"

\* An endpoint that stops, or fails, gets its exit callback, for which Join
\* waits, unless a callback is waiting in PushMessage for room in the queue.
StopCompletes == ep.stopping ~> (ep.exitCount = 1 \/ \E i \in AlarmIds : push[i].pc = "wait")

\* The queue is emptied or the endpoint goes down, whatever full queues, lost
\* rounds of waiting and full sockets there are on the way.  A socket that is
\* full before the first write is not watched by any timeout.
QueueDrains ==
  ep.txQueue # << >> ~> (ep.txQueue = << >> \/ ep.stopping \/ (sock.blocked /\ ep.getNextMsg))

\* The comment in PushMessage on the loop over the full queue: "Remove a queue
\* entry whose TTLs is expired if possible": no other message is dropped.
OnlyExpiredRemoved ==
  1 .. ep.accepted \subseteq ToSet(ep.written) \cup ToSet(ep.txQueue) \cup Expiring

\* The comment at the head of PushMessage: "Don't continue if this endpoint is
\* in the process of being closed.  Otherwise we risk deadlock".  No thread
\* stays in PushMessage for ever.
PushReturns == \A t \in Threads : push[t].pc # "idle" ~> push[t].pc = "idle"
=============================================================================
