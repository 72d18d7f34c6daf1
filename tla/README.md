# A verification project for the AllJoyn routing node

`uid-basic` bundles the AllJoyn distributed bus: a C++ routing node and client
library, a thin client library in C, language bindings and a set of services.
This directory holds TLA+ models of its concurrent and protocol code, the TLC
configurations that check them on small instances, and TLAPS proofs of results
that hold for every instance. The parts that are modelled are those where most
can go wrong silently:

- **ARDP**, the reliable datagram protocol that carries bus traffic over UDP
  (`alljoyn_core/router/ArdpProtocol.cc`), and above it the **UDP transport**,
  where four kinds of threads share one endpoint (`router/UDPTransport.cc`);
- **SLAP**, the serial link between a routing node and a thin client, of which
  the repository has two independent implementations (`common/src/SLAPStream.cc`
  and `src/components/alljoyn/core/ajtcl/src/aj_serial*.c`);
- the **remote endpoint** of all stream transports on top of **IODispatch**
  (`alljoyn_core/src/RemoteEndpoint.cc`, `common/src/IODispatch.cc`);
- **sessionless signals** (`alljoyn_core/router/SessionlessObj.cc`).

Paths below are relative to `src/components/alljoyn/core/alljoyn/` unless they
begin with `src/`; line numbers without a file are those of `ArdpProtocol.cc`.

## Inventory

| Component | State it keeps | Operations | Interacts with | Hard behaviour, and what makes it correct |
|---|---|---|---|---|
| ARDP protocol (`alljoyn_core/router/ArdpProtocol.cc`) | a list of connection records: state, send window and slots (`SND`, `SBUF`), receive window and slots (`RCV`, `RBUF`), EACK mask, five kinds of timers | `ARDP_StartPassive`, `_Connect`, `_Accept`, `_Send`, `_RecvReady`, `_Disconnect`, `_ReleaseConnection`, `_Run` | called by the UDP transport under `m_ardpLock`; calls it back (`AcceptCb`, `ConnectCb`, `DisconnectCb`, `RecvCb`, `SendCb`, `SendWindowCb`) | loss, repetition and reordering; premature and late timers; reuse of slots; wrap-around. Messages arrive once and in order, every send buffer comes back once, a receipt means consumption, every handshake and teardown ends |
| UDP transport (`router/UDPTransport.cc`) | endpoint lists, `ArdpStream` counters, connect-thread table, worker queue | `Connect`, `Listen`, `Disconnect`, the `Do…Cb` handlers, endpoint management | ARDP below, endpoints and router above; main thread, dispatcher thread and user threads | callbacks are queued: a callback meets a record or an endpoint that has moved on. Every endpoint passes its life cycle once, no thread waits for ever |
| TCP transport (`router/TCPTransport.cc`) | endpoint and auth lists | accept, authenticate, connect, exit | endpoints, name service | threads that end while others look at them |
| Packet engine (`router/packetengine/`) | channels, windows, ACK state | connect, push, pull, disconnect | its own threads and alarms | a second sliding-window protocol |
| SLAP serial link (`common/src/SLAP*.cc`; `ajtcl/src/aj_serial*.c`) | at each end: link state, three-bit sequence numbers, free, queued, sent and received packets, timers | write, read, packet received, resend, acknowledge, repeat link packet, close, reopen | the UART; the daemon's timer and dispatcher; the client's one thread and the UART's callbacks | loss, repetition and early timers; either end restarts in the middle of traffic. The bytes read are those written, the ends belong to each other, the link comes up again |
| Daemon router, name table, rules (`router/DaemonRouter.cc`, `NameTable.cc`, …) | owners and queues of bus names, endpoints, session routes | add and remove endpoint or alias, push a message | every endpoint | a name has one owner, queues are kept in order, change callbacks match the table |
| Sessions (`router/AllJoynObj.cc`) | session map, advertisements, bus-to-bus links | bind, join, leave, detach | three nodes by method calls | multi-step calls that time out; both ends agree on membership |
| Sessionless signals (`router/SessionlessObj.cc`) | local cache with change ids, advertisements; a cache for each remote producer with the marks of what was received and applied | push, cancel, advertise, serve a request; add and remove rule, find, join, route, retry | name service, sessions, router | ranges that wrap, requests that race with new signals and new rules, sessions that fail half-way. No signal is skipped or given twice, and all arrive |
| Name service (`router/ns/`) | advertised and searched names with timers | advertise, find, cancel, refresh | multicast sockets | mostly timing |
| Remote endpoints (`src/RemoteEndpoint.cc`) | transmit queue, waiting threads, message being read and written, idle counters | push, read and write callbacks, link timeout, stop, join | I/O dispatcher below; the router's threads above | stop during a callback; full queue; waiting senders. Messages are written once and in order, the exit callback is the last and comes |
| Platform layer (`common/src/Timer.cc`, `IODispatch.cc`, …) | alarms, timer threads with one controller, stream table | add, remove, replace alarm; enable, disable, stop stream | everything | hand-over of the controller, removal of an alarm that runs |
| Bus attachment, proxies and objects (`src/BusAttachment.cc`, …) | listeners, reply contexts | method calls, signals, registration | client transport | a reply races with its timeout |
| Messages and marshalling; policy and configuration; authentication and key store | wire formats, rules, keys | parse and build; match; exchange | – | data and cryptography rather than control |
| Thin library `src/components/alljoyn/core/ajtcl` | one connection, NVRAM, link timeout | single-threaded API | UART or sockets | NVRAM compaction, probe timeouts |
| About, base services, bindings, samples | per-service properties | request handlers | the client API | no protocol of their own |

`PROJECT.json` lists the components with their files and what is modelled of
each, and under `hazards` the places in the modelled code that tests hardly
reach, each at its line with the properties that watch it.

## Modules

| Module | What it is |
|---|---|
| `ArdpSeq` | sequence numbers modulo `SeqSize` (2^32 in the code): `SEQ32_LT`, `SEQ32_LET`, `IN_RANGE` |
| `ArdpRcvMsk` | the EACK mask: words of bits and the number of words in use; `AddRcvMsk`, `UpdateRcvMsk` |
| `ArdpConn` | one connection record and every handler that works on it, as operators from the record before the call to the record after it |
| `Ardp` | two nodes, their records, the network, the transport's calls; `Next`, the specifications, fairness and properties |
| `ReliableLink` | the abstract specification of one direction: messages accepted, handed up in order, given back, confirmed |
| `ArdpEack` | the receive window and its mask alone, small enough for all arrival orders of a window of eight, and provable |
| `ArdpStream` | the fields of an ArdpStream and the calls that change them: writers on the thread set, waits, sent buffers, the eight cases of `Disconnect` |
| `UdpEndpoint` | endpoints from SYN to destruction: main thread, dispatcher, connecting thread, writers and stoppers, over an abstract ARDP |
| `SlapLink` | what the two implementations of SLAP share: packets, link states, `SEQ_GT` |
| `SlapStream`, `SlapSerial` | the daemon's and the thin client's end of a serial link: every handler and function as an operator from the end before the call to the end after it |
| `Slap` | the two ends against each other on a line that loses packets; actions, fairness, properties |
| `IODispatch` | the entry of one stream, its alarms and the main thread: each section under the dispatcher's lock as an operator |
| `RemoteEndpoint` | one endpoint on `IODispatch`: threads that push, callbacks, the owner that starts, stops and joins, the socket |
| `Sessionless` | a producer and a consumer of sessionless signals and the session between them |
| `MCArdp`, `MCArdpEack`, `MCUdpEndpoint`, `MCSlap`, `MCRemoteEndpoint`, `MCSessionless` | the modules of the runs: quotas, refinement mappings, the claims that fail |
| `ArdpEackProofs`, `ArdpProofs`, `ArdpHandshakeProofs` | theorems on ARDP |
| `UdpLifeProofs`, `UdpEndpointProofs` | theorems on UDP endpoints: the queue, the shape of the state and the life of one endpoint; the rest of the invariant and the results |
| `RemoteEndpointProofs` | theorems on the dispatcher and the remote endpoint |
| `SessionlessProofs` | theorems on sessionless signals |
| `SlapProofs` | theorems on the packet buffers of a serial link |

### How the model corresponds to the code

*A call is a step.* The transport takes `m_ardpLock` around every call into ARDP
and around `ARDP_Run`, so handlers do not interleave. `ARDP_Run` first looks at
the timers and then reads datagrams; the model makes the timers of one record
(`CheckTimers`) and one received datagram (`ARDP_Run`) a step each. Callbacks are
queued by the transport for its dispatcher thread: `up` says that a `ConnectCb`
waits there (`DoConnectCb` handles it later), `upq` holds received buffers until
`ARDP_RecvReady` gives them back in order.

*The record* keeps the code's fields under their names (`SND.x` and `RCV.x`
become `Sx` and `Rx` where they clash). A slot of the send queue has, beside
`inUse`, `seq`, `som` and `fcnt`, the two things that the code never resets when
it uses a slot again: `onTheWire` and the header's ttl (`httl`). The payload is a
message number and a fragment number. The last block of fields is history:
callbacks made, messages accepted, messages handed up.

*Time.* No clock values. A timer that is on may fire at any step, together with
any others; that covers every round-trip estimate, backoff and delay, and makes
fast retransmission and the schedule kept in `msnext` invisible. A finite time to
live may run out at any transmission or at the receiver. `PatientRTO` restricts
retransmission to a quiet network, for the one run that is about losses rather
than about bad estimates.

*Sockets.* Within one handler call all control segments get the same result;
each data segment has its own, and so has the RST that follows a data segment the
socket refused.

*Network.* A channel per direction; datagrams to the nodes in `Reorder` overtake
each other, `MaxDup` are repeated, `MaxLoss` are lost, and what does not fit in
`MaxNet` is lost as well, silently. Datagrams are not altered.

*Assertions.* The model is of a build with assertions. A handler that would fail
one records its name in `fault`, and the node takes no more steps; the assertions
in `Ndebug` are ignored, as in a release build. `LastJump` is always in `Ndebug`,
because the assertion at 1807 fails on a legal arrival order (observation 5) and
would end all runs early.

*Narrower than the code.* The handshake agrees on one segment size and window;
the contents of `BusHello` are not modelled, only whether the transport likes
it. A record that is freed keeps its place in the model's list, so that
`MaxConns` bounds the records allocated, not those alive. Counters of callbacks
saturate at two. `FreshPorts` has a node never draw a port that one of its
records has or had (observation 10 drops it).

`SpecOpen` starts from the state in which a loss-free handshake leaves the two
nodes, computed by the same operators; `handshake` and `live` start from nothing.

*The endpoint.* In `UdpEndpoint` a step is what a thread does while it holds one
lock (`m_endpointListLock`, `m_ardpLock`, `m_cbLock` or the stream's `m_lock`),
and the threads interleave between such steps. `disp.pc` and `writer[t].pc` say
where in a handler or in `PushMessage` a thread is; the second half of `Stop()`,
which runs without the locks, is the field `stopper`. The two loops of
`ManageEndpoints` treat endpoints independently, so a round for one endpoint is a
step. `m_preList` and `m_authList` are one list: whoever looks at the second has
moved the first to it. ARDP appears as what the protocol model shows of it: a
connection record that is in its handshake, open or closing, the buffers it
holds, and the commands it appends to the dispatcher's queue; `FlushSendQueue`
gives buffers back in any order. Which side opened a connection is decided when
it is opened. `known` stands for the daemon: after `RegisterEndpoint` it may
write and stop at any time, until `Exit()` unregisters.

Three assumptions link the two models. `TimeWaitOver`: the dispatcher takes a
`ConnectCb` from the queue within `timewait`; otherwise the record is gone and the
assertion on the event (4693 of `UDPTransport.cc`) fails. A handshake that timed
out is reported once, that is, the dispatcher releases the record within
`connectTimeout` (observation 15). An endpoint is too long on `m_authList` only
after its handshake has ended, since `m_authTimeout` is at least the time for all
its retries (2993-2996 of `UDPTransport.cc`). Not in the model: an `AcceptCb` that fails
after the `BusHello` was found good (4413-4473), `Event::Wait` failing otherwise
than by time-out, and stopping the transport as a whole.

*SLAP.* The daemon's handlers run under `m_streamLock`; the client runs
`AJ_StateMachine` in one thread, which reads some of the packets that have come
in, fills the UART's buffers and looks at its timers, and a step is one such
call. Only `AJ_TransmitCallback` interrupts it. A packet is its type, sequence
and ACK number and, as history, the life of the sender and the number of the
packet in it. A control packet waits in a place of its own at the head of the
queue (`ctrl`), as the code keeps `m_txCtrl` and `txUnreliable`. Framing and CRC
decide whether a packet arrives. Timers have no values: one that repeats packets
runs out when nothing is under way (`Idle`), because timeouts are longer than an
undisturbed exchange, or earlier as one of the `Faults`. An end that restarts
finds a line that has run dry (`Quiet`): SLAP has no incarnation numbers, so that
a CONN of a former life is as good as a new one. `protocolVersion` is not
initialised before it is negotiated, so that `Close` finds either value. A
`Deliver` that fails leaves the packet in `m_txCurrent` for the next round
(`SLAPStream.cc`, 620); here it is a packet lost on the line, which is sent again by
the resend timer. `dropped` counts, as history, the buffers that `ResendPackets`
loses. The client accepts a window of three (`aj_serial.c`, 394); it is left out, as
the client announces it as one (observation 30).

*The remote endpoint.* In `IODispatch` a step is a section under the dispatcher's
lock; the loops that wait for `reload` and the blocking form of `RemoveAlarm` are
program counters, in `alarms` for the threads that serve alarms and in `pc` for
the main thread. The timer appears as alarms that are pending, taken by a thread,
served or gone; `MaxSame` is how many of one kind a stream can have, and one is
enough unless a link timeout is replaced while it fires (observation 25). In
`RemoteEndpoint` a step is a section under `internal->lock`, and `lock` names the
thread that keeps it over a wait. Whoever calls `PushMessage`, be it a pusher or
a callback with a probe, has a record in `push` that says where it waits, whether
its `stopEvent` is set and which alert code it has last been given. A timeout alarm of a side
that is disabled sets that side in progress and makes no callback; its wait for the
main thread is not a step of its own (no instance reaches the case). The loops that
try again while the timer is full (ER_TIMER_FULL) are the event "full", once, and
the paths for a dispatcher that is shut down (`isRunning` false) are left out.
`written`,
`accepted` and `expired` are history. The socket may take a whole message or no
byte: a message written in part differs from one that is not begun only in that
it cannot expire any more (`begun`).

*Sessionless signals.* A step is what `SessionlessObj` does while it holds its
lock and the name table's. The signal's name, sender and interface are the key
of the local cache, from which the interface follows. `HandleRangeRequest`
releases the lock for each signal it sends and finds its place again by key, so
that it is a step per key. Advertised names reach the consumer late and in any
order, or not at all if they have been replaced (`air`). One session exists at a
time, because a cache has one work item. Back-off delays are left out: the alarm
may come at any time. `hist` is what clients received. A request that was on its
way when the session was lost is served all the same (`late`): the change id is
advanced and expired signals are erased, in one step, and nothing arrives.
`NameOwnerChanged` is modelled for the sender of signals (`Cancels` are its keys);
a client that leaves the bus loses its rules one at a time, by `RemoveRule`.
`SendMatchingThroughEndpoint` releases the locks for each client that it sends to
(456-460), `Route` does not: the range of rules is fixed when the signal comes, a
rule that is added meanwhile lies outside of it and one that is removed needs
nothing. A `LeaveSession` that fails is only logged (789-794), after which the
consumer waits for the session to be lost; in the model it always succeeds. All
names of the producer carry version 1, so that the branch of `IsMatch` for version 0
(1315-1317) is not taken.

## Runs

All passing runs together fire every action.

| Run | Instance | Shows |
|---|---|---|
| `oneway` | open connection, two messages of one or two fragments from A, a socket that may block, one loss, reordering towards B; 145 000 states | refines `ReliableLink`; no queued segment without a timer is missing at the receiver; nothing is sent beyond the receiver's buffers; the persist timer excludes retransmission |
| `twoway` | one message each way, both nodes; 265 000 states | the other direction refines `ReliableLink` too, with acknowledgements on data |
| `handshake` | from nothing, two records, refusals, releases, one repeated datagram, one message; 176 000 states | the ends agree on ports and initial numbers, a repeated SYN opens nothing twice, the transport's notices are consistent |
| `faults` | two messages of one or two fragments with or without a time to live in two slots, every send may block or fail; 228 000 states | received buffers are released in order, send buffers come back exactly once and the slots of a message together, a flushed buffer is never sent again, delivery is in order, only messages that may expire are skipped, a receipt means consumed |
| `live` | from nothing, with fairness, one message, one loss, B may close; 47 000 states | every connect is answered, every handshake and every teardown ends, an accepted message is delivered or the sender hears that the connection is gone |
| `eack` | a window of eight, all arrival orders and releases | the mask in every header is exactly what is held out of order |
| `endpoint` | one endpoint, of either side; a writer and the dispatcher writing two messages into a window of one; one message received; 376 000 states | no assertion of the endpoint's life cycle fails; nothing is destroyed or deleted while a thread or ARDP uses it; the counters cover the lists; `Connect` hands out registered endpoints only; a registered endpoint that stops goes away; no writer hangs |
| `slap` | three packets from the daemon, one from the client, window one, three sequence numbers, one fault of any kind; 34 000 states | what is read is what one life of the other end wrote, no buffer is used twice and none is lost but by `ResendPackets`, two active ends belong to each other, an active link is reset for a reason only, it comes up again and everything arrives |
| `remote` | one thread pushing two messages into a queue of two, and one event of any kind; 284 000 states | messages are written once and in order, callbacks of a side exclude each other, nothing follows the exit callback, stopping ends and the queue is emptied |
| `sessionless` | two signals, two clients with a rule each, one of which may leave and one come twice, a signal that is cancelled, expires or goes with its sender, two failing sessions; 266 000 states | what is recorded as received the clients have, none gets a signal twice, all signals arrive |
| `slap_resend`, `sl_rules` | see Findings | a counterexample each |

*Bounds.* In the ARDP runs windows are two segments, which have a gap, a full
window and, with fragments, slots reused by the second message; sequence numbers are
modulo eight and start at six, so that every connection wraps around within two
messages. Retries are one, which still tells the first attempt, the last attempt
and giving up apart. A mask with bits beyond the first gap needs more than two
slots: `LossCovered` was checked once with a window of four, three messages, one
loss and reordering towards B (742 000 states). `faults` combines fragments, times to
live and sockets that block or fail with two messages; with three, over a socket that
may fail, its properties were checked once (882 000 states). `ReleasedInOrder` was checked with three messages, reordering both ways and a repeated datagram as
well (1.96 million states).

One connection is enough for `endpoint`: endpoints share only the queue, the
dispatcher and the counters. That other connections hold places is `OtherConns`,
that the dispatcher is kept busy by a write is in the run on the connection
itself. Two buffers and a window of one give backpressure, a waiting writer and a
full window at every point of the teardown.

In `slap` windows are one packet, three sequence numbers are one more than
that needs, and three packets wrap around; larger windows with the liveness
properties take too long for a run. What that leaves out, several packets of a
window under way, was checked once for `StreamIntact`, `BuffersKept`, `EndsAgree`
and `ResetsAreReal`, with windows of two, four numbers and one fault: two packets
each way (1.1 million states), one and four, which wraps around (0.9 million), three
and two (2.6 million) and four and two (4.6 million). A buffer is lost in these
instances, as `BuffersKept` allows and `slap_resend` shows; `BuffersKept` is also
proved for all windows.

In `remote` a queue of two is full, half full and empty within two messages and a
probe; with two events of different kinds (3.9 million states) the safety
properties were checked once. In `sessionless` ids are modulo sixteen, the
smallest power of two with half windows larger than the ids in use, and both
marks start at the maximum, so that each wraps around with its first use. Both
clients wanting one interface, with the v0 name heard as well, was checked once
(1.7 million states, before late requests were added), and the run's instance with
producers that have no RequestRangeMatch as well (456 000 states). `TypeOK` of `Slap`, `RemoteEndpoint` and `Sessionless`
documents the types of the fields and held on the runs' instances; it is not part
of the runs (those of `Sessionless` and `Slap` are proved, `SignalsTyped` and
`SlapTyped`).

Deadlock is not checked except in the properties that say that something ends:
users send their quota, connections are closed and freed, and then nothing is
left to do.

**What the ARDP properties except.** Four things that one would claim of the code do
not hold; the properties say so instead of the bounds. `LossCovered` speaks of
segments towards a node whose answers are not overtaken (observations 1 and 12);
`InOrder` and `ReceiptMeansConsumed` except messages that may have taken over an
expired mark (`MayExpire`, observation 3); `ReleasedInOrder` excepts fragmented
messages with a time to live (observation 8); `BuffersReturnedOnce` excepts
fragmented messages that may be queued in part (`QueuedInPart`, observations 8 and
14). Reordering towards the sender is left out of `oneway`, because an overtaken ACK
fails an assertion (observation 1) and ends the behaviour.

### Fairness

`Fairness` is weak fairness, written out: a call whose condition holds from some
point on is made again and again. It covers what the transport's main loop and
dispatcher thread do: read datagrams, fire timers that stay on, work off
`ConnectCb`, give received buffers back. The conditions (`CanReceive`,
`CanTimeOut`, …) replace `ENABLED`, which is slow to evaluate on these actions.
Each timer has a call to itself, because deadlines differ. Nothing is assumed of
users (who need never send, connect or close) or of the network.

In `UdpEndpoint` the threads of the process are fair: the dispatcher, the main
thread's endpoint management and disconnect timers, a thread inside `PushMessage`,
`Stop()` or `Connect()`; waits with a time limit end, and the connect timer ends
every handshake (`live`). Acknowledgements, messages, resets, writes and
stops need never come.

In `Slap` whatever can be done without a fault is done (`Work`): the daemon's
timer and reader threads run, the client's application keeps calling the
transport. Timers that repeat packets are strongly fair: that they run out when
the line is idle again and again stands for their length. Faults are not fair,
and there are finitely many. Both ends reopen a dead link, as the daemon's
transport (`DaemonSLAPTransport.cc`) and the client's connect loop do.

In `RemoteEndpoint` the main thread, every thread that serves an alarm or waits
in `PushMessage`, and the owner's calls that have begun are weakly fair; nothing
is assumed of the socket, of who pushes and of who stops. In `Sessionless` timers
go off, handlers run, a session that does not fail makes progress, and a name
that stays advertised is found; nobody has to push, cancel or add anything.

## Findings

Each is a run that ends in a counterexample; `PROJECT.json` quotes the claim.

- **`slap_resend`** (`aj_serial_tx.c`, 325). When the resend timer runs out while
  a control packet (an ACK is enough) waits at the head of `txQueue`,
  `ResendPackets` links only the *last* packet of `txSent` behind it and forgets
  the list. With two or more packets unacknowledged the others are never sent
  again; their buffers are gone, and the daemon drops all that follows the gap.
- **`sl_rules`** (`SessionlessObj.cc`, 1301). After a first fetch, adding a rule
  that this producer has nothing for makes `PendingWork` answer NONE for good:
  `appliedRulesId` stays behind, and the change ids are looked at only if it has
  caught up. Newer signals that older rules want are not fetched.

### Further observations

More disagreements came up while modelling. Those of the first list have a
configuration each in this directory, that ends in the counterexample
(`tlc -config stale_ack.cfg MCArdp`); they are no runs of the project.

1. `stale_ack.cfg`, `AckFindsItsSegments` (1549): state OPEN processes an ACK whose
   LCS merely *differs* from `SND.LCS`, so an ACK overtaken by a newer one is
   processed after it. `ack - SND.LCS` wraps and the loop meets slots that are not
   in use, which it asserts.
2. `lost_ack.cfg`, `LossIsSurvived` (2212): after the receiver has consumed a
   segment, its retransmission lies before `RCV.LCS + 1` and is dropped without an
   answer. If the one ACK was lost, the sender retries until ER_TIMEOUT, although
   the transport promises "a reliability layer" (183-185 of `UDPTransport.cc`).
3. `stale_ttl.cfg`, `ForeverIsKept` (803): the header's ttl is written only
   for a finite ttl. A message sent "forever" from a slot with a past can carry
   the old expired mark: the receiver drops it and the sender gets SendCb(ER_OK).
4. `failed_accept.cfg`, `FailedIsPurged` (4655 of `UDPTransport.cc`, module
   `MCUdpEndpoint`): when a passive handshake fails, the endpoint is moved to
   `m_endpointList` and stopped; `Stop()` in EP_INITIALIZED leaves the state, and
   endpoint management passes such endpoints by. The endpoint and its place in
   `m_currConn` are lost, although the comment at 4643 says that it is purged
   without delay. An endpoint that is too slow on `m_authList` (3913-3917) ends
   the same way.

The following eleven, of which 12 has a configuration too, can be reproduced by
adding the formula to a module that extends `MCArdp` and checking it with the constants of `stale_ack.cfg` (no reordering
unless given) and the changes named. `OneFromB` is the quota of one message for B
and none for A.

5. AddRcvBuffer, `assert((seg->SEQ - conn->RBUF.last) < conn->RCV.MAX)` (1807):
   when all that was received is consumed, the last segment of the window is
   exactly RCV.MAX beyond `RBUF.last`. `Every(LAMBDA c : "LastJump" \notin
   c.fault)` with `Ndebug = {}`, `Reorder = {"B"}`, four messages from A.
6. SendData, the assertion on SND.NXT - SND.UNA (1387): the passive side opens
   with SND.UNA at its SYN (2157-2165; the active side sets it at 2070), one too
   low for a first message that fills the window. `Every(LAMBDA c :
   "SendQueueFull" \notin c.fault)` with `FragCounts = {2}`, `OneFromB`.
7. InitSnd says SND.LCS is kept in sync with the other side (1230), but the last
   ACK of the handshake carries RCV.MAX in its place (2090), and a copy that
   arrives in OPEN stores it. `EveryPair(LAMBDA c, d : c.state = "OPEN" /\
   d.state = "OPEN" => SEQ32_LET(c.SLCS, d.RLCS))` from `Spec` with A
   connecting, `MaxDup = 1`, `MaxNet = 3`, `OneFromB`.
8. SendMsgData, "If the message is expired we don't send it" (821): its test of
   `onTheWire` sees the slot's past, so that one fragment goes out and the others
   do not. Every message holds all its slots or none, with
   `Ttls = {"infinite", "live"}`, `FragCounts = {1, 2}`. At the receiver the
   fragments that did arrive are given up one by one, and with a third message the
   assertion on the order of release (1709) fails: `Every(LAMBDA c : c.fault \cap
   ReceiveAssertions = {})`.
9. A segment to port 0 that is not a bare SYN, such as a RST from a node that
   does not know its peer's port yet, leaves a record in CLOSED that nothing
   removes (2459-2475). `Every(LAMBDA c : c.state = "CLOSED" => c.connT # 0)`
   from `Spec` with three records and two losses.
10. InitConnRecord, "Make sure this is a unique combiation" (1274): the loop tests
   `conn->local`, still 0, and not the port it has drawn. Two valid records with
   one pair of ports, from `Spec` with `FreshPorts = FALSE` and two connects.
11. A segment the socket blocked has not been on the wire; if it expires before
   its retry, the connection is closed with ER_ARDP_TTL_EXPIRED (797-801 says
   that segments to be retransmitted are sent). `Every(LAMBDA c : c.reason #
   "TTL_EXPIRED")` with `Socks = {"ok", "wouldblock"}`, `Ttls = {"live"}`.
12. `stale_eack.cfg`, `OnlyEackedCancelled`: CancelEackedSegments reads the mask relative to its current SND.UNA (1606),
   the receiver made it relative to its ACK: a delayed EACK cancels the timer of
   a segment that never arrived. It needs a window of four, four messages and
   reordering towards the sender.
13. UpdateRcvMsk (1637-1673) is right for one mask word only. `MaskIsHeld` of
   `ArdpEack` with two words. ARDP_SEGMAX = 16 needs one.
14. FlushMessage, "Invalid number of pending segments in send queue!" (608): a
   socket error in the middle of a fragmented message flushes by `fcnt` although
   fewer fragments were counted in `SBUF.pending` (hence the exception in
   `BuffersReturnedOnce`). `Every(LAMBDA c :
   "PendingUnderflow" \notin c.fault)` with `FragCounts = {2}`,
   `Socks = {"ok", "error"}`.
15. DoConnectCb expects "the one notification that the connection has failed"
   (4609-4610 of `UDPTransport.cc`), but the connect timer is left on after
   ConnectCb(ER_TIMEOUT) (702-711). `Every(LAMBDA c : c.failCb <= 1)` from `Spec`
   with A connecting.

The following are of `UDPTransport.cc`, with formulas over `UdpEndpoint` and the
constants of `endpoint.cfg`.

16. `m_registered` is documented as "a call-out to the daemon has been made"
   (2928), but it is set only if the `ExchangeNames` message was sent (1651-1654).
   If `Stop()` or a disconnect comes first, the daemon has the endpoint, EXIT is
   never scheduled and the endpoint stays EP_JOINED on the list. `\A c \in Conns :
   ep[c].state = "STOPPING" ~> ep[c].list = "gone"`.
17. A buffer enters `m_sentSet` after `ARDP_Send` has returned (920-925); a SendCb
   that is faster is ignored as "never sent" and the buffer leaks. It also leaks
   when the RST of `ARDP_Disconnect` fails and EXIT overtakes the flush. `\A c \in
   Conns : ep[c].list = "gone" => stream[c].sentSet = {}`.
18. `m_writesOutstanding` is never decremented, so the test against a wait for
   nothing (977-993) works before the first write only: a writer can reset the
   event that the last SendCb has set and wait for its full time limit with
   nothing outstanding.
19. AcceptCb leaves `m_currConn` incremented when it has no slot (4209-4217): each
   refusal costs a connection. `currConn <= MaxConn`.
20. AcceptCb returns a QStatus where it has no answer to give (4419, 4472); as a
   bool it means that the connection is accepted.
21. Connect returns ER_OK without an endpoint when the connection failed or was
   lost before the thread woke up (6625-6650). `\A c \in Conns : connector[c] #
   "empty"`.
22. A handshake that is refused by a RST makes a DisconnectCb for a record that has
   no endpoint yet; it is dropped and Connect waits for its full time limit.

Of `RemoteEndpoint.cc` and `IODispatch.cc`, with `MCRemoteEndpoint`:

23. `remote_hang.cfg`, `PushReturns` (895-960): `stopping` is tested before the lock
   is taken. A thread that has passed the test and finds the queue full waits
   after `ExitCallback` has alerted the waiting threads, and no round of its loop
   looks at `stopping` again. A callback that waits in the same way keeps the exit
   alarm waiting; hence the exception in `StopCompletes`.
24. `remote_expired.cfg`, `OnlyExpiredRemoved` (916, 850): "Remove a queue entry whose
   TTLs is expired" may remove the one that is being written; `pop_back` after the
   write then takes off the next message, which was never sent.
25. `link_twice.cfg`, `EntryFound` (240, 664): "should never happen since the exit
   alarm ensures that read and write alarms are removed before deleting the entry".
   `EnableTimeoutCallback` takes the old timeout alarm out of the timer without
   waiting for a thread that serves it. One that a thread has just taken survives
   beside the new one and is not the entry's alarm any more, so that the exit alarm
   does not wait for it: it can find the entry erased and come to `assert(false)`.
   Two calls of `SetLinkTimeout` and a stop are enough. It is the one path on which
   the proofs about the dispatcher do not hold.
26. `Thread::Alert()` without a code leaves the last `alertCode` in place, so that a
   thread once told that an endpoint is dead is told so by every later alert.
27. A `Start` that fails in `RegisterEndpoint` leaves its stream in `IODispatch`;
   `DisableWriteCallback` does not reset `reload` and so need not wait; a socket
   that is full before the first write is watched by no timeout (hence the
   exception in `QueueDrains`).

Of SLAP:

28. `dataSent` is not reset by `AJ_SerialInit`. If the UART is set up anew while all
   buffers are with it, nothing is ever sent. A client in LINK_DYING whose DISC was
   answered at once waits for a DRSP or DISC that does not come, and ignores CONN.
   Both are `Stuck` in `LinkRecovers`.
29. With numbers twice the window `SEQ_GT` takes the oldest duplicate for a packet
   yet to come; only the others of its window are acknowledged again.
30. The client announces its own maximum window whatever was asked for; a daemon
   with a smaller one gives the link up. A client window of three, which
   `AJ_SerialInit` accepts (394), is announced as one (184). The daemon's `packetSize` is compared with itself (463), `m_txQueue.front()`
   is called on an empty list, and an EAGAIN in `UARTStream` leaves the number of
   bytes uninitialised.

Of sessionless signals:

31. A rule that is added a second time gets `nextRulesId` without advancing it; once
   the first is removed, the remaining one lies outside every range.
32. A message routed before a session failed is skipped in the retry (413), also for
   a rule that was added meanwhile and never got it (`hist.skipped` in `Complete`).
   The rule may also change the kind of work; its success clears the list, and the
   signals of the failed session are delivered twice (the exception in `NotAgain`).
33. With a producer that has no `RequestRange`, ranges that were never fetched are
   marked as received (935-939). `Complete` with `Peers = {"signals"}`.
34. `UpdateAdvertisements` takes the plain maximum of ids that wrap around;
   `it->second.second` is used at 762 after the lock was released; the assignment
   at 982 goes through a reference that may be stale.
35. In SYN_SENT the ACK of a SYN|ACK is not compared with `SND.ISS` (2068; that of
   a segment without SYN is, at 2113). If a node draws the port of an attempt that
   was given up, a late SYN that it sent then gets an answer that opens the new
   connection: the ends are open with initial sequence numbers that do not match.
   `HandshakeAgrees` with `FreshPorts = FALSE`, two ISSs and two connects, also if
   no two valid records have one port. The condition came out of the proof of
   `HandshakeSafe`.
36. `other_life.cfg`, `EndsAgree` of `Slap` (`aj_serial.c`, 301-386; `SLAPStream.cc`,
   408-594). SLAP has no incarnation numbers, and DISC and DRSP are answered by
   whoever is dying. When both ends close several times in a row, a repeated DISC
   gets a second DRSP, which ends the next closing at once; a daemon that is opened
   again then reads what the client queued for its predecessor, and takes the NRSP of
   a client that has meanwhile started anew. Both are active, the daemon through a
   life of the client that is over. This takes eight disturbances (`EightFaults`);
   with up to seven closes and early timers, no data and at most four lives of each
   end TLC finds no such state (6.7 million states). Both ends are fresh then, and
   with a few packets to send `StreamIntact` holds through the eight disturbances as
   well (5 million states). Looking for an inductive invariant of `EndsAgree` led
   here.

## Proofs

TLC checks the instances above; the theorems hold for every value of the constants
that the named assumptions allow.

### ARDP

For every window size, number
of records, set of ports, quota, retry count, network bound and socket behaviour
(`SeqSizeAssumption`, `RcvMskAssumption`, `ConnAssumption`, `ArdpAssumption`,
`EackAssumption`):

- `ArdpProofs!PersistSafe`: `Spec => []PersistExcludesRetransmit`, the assertion
  that CheckConnTimers makes at 486.
- `ArdpProofs!NoticesSafe`: `Spec => []NoticesConsistent`.

  Neither property is inductive. The invariant is `Inv`: `conns` has its `Shape`,
  and every record is `Sound`, which is `Tame` (a running persist timer excludes
  data timers) and `Told` (for each state: which notices the record can have had,
  what waits in the dispatcher's queue, which handler the connection timer has;
  in CLOSE_WAIT, that DisconnectCb has been called unless the reason ER_OK makes
  the timer's handler call it). `Told` is needed because whether another notice
  can come depends on the state *and* on which timer handler is installed. The proof goes handler by handler: a
  `Frame` lemma says which handlers leave the fields of `Sound` alone, one lemma
  for each of the others says that it takes a sound record to a sound one, and
  the step lemma `InvNext` has one case per action.
- `ArdpHandshakeProofs!HandshakeSafe`: `FreshPorts /\ Spec => []HandshakeAgrees`, for
  any number of connects from either side, simultaneous ones included, and any loss,
  copying and reordering.

  The property speaks of records whose ConnectCb has come; what makes it true is what
  the datagrams on their way say of records that may have moved on since. The
  invariant is `HandshakeInv`: `Legal` (a bare SYN comes from an active record with
  that port and ISS, a SYN|ACK from a passive record that answered this port, an ACK
  with both ports from a record bound to its addressee), `Linked` (what a record has
  taken from such a datagram is still true of its sender), `Role` (which fields go
  with which state; an active record that knows its partner no longer has
  ConnectTimerHandler, which would send a SYN again) and `Distinct` (a port belongs
  to one record). A record never takes back what a datagram has said of it:
  `Evolves` and `SaidStays`. Every handler is shown once to send only datagrams that
  its record may send (`Legit`) and to leave the identity of the record alone
  (`Keeps`, a frame that composes); the four places that do change it (`Learns`,
  `Meets`, `Opens`, `Takes`) have a lemma each. `FreshPorts` is needed: ports are
  drawn at random in the code and SYN|ACKs are not compared with the ISS they
  answer (observation 35). It includes `Inv` of `ArdpProofs`, which says when a second ConnectCb is
  ruled out.
- `ArdpEackProofs!EackMaskExact` and `EackTypeOK`: with one word the mask is
  exactly the set of segments held out of order, and the window counters stay in
  range. The invariant adds `HeldInWindow`: no held segment lies beyond
  `RCV.LCS + RCV.MAX`, without which a shift could drop a bit.
- `ArdpProofs!InRangeCorrect`: `IN_RANGE` is membership in the window, also
  where it wraps. `OrderInWindow`: `SEQ32_LT` agrees with the order of sending
  within a window of at most half of the numbers.

### UDP endpoints

`UdpEndpointProofs` proves every invariant of the run `endpoint`, from
`EndpointAssumption` alone: for any set of connections and of threads, any finite
set of buffers, any window and any limits.

- `TypesHold`, `AssertionsAreSafe`, `RemovalIsSafe`, `CountersAreRight`,
  `FreedBuffersAreUnused`, `ConnectFindsRegistered`: `Spec => []P` for `TypeOK`,
  `AssertionsHold`, `RemovedIsUnused`, `CountersCover`, `FreedIsUnused` and
  `FoundIsRegistered`. All follow from `UdpInvariant`, `Spec => []UdpInv`.

None of them is inductive: whether an assertion in `Disconnect` can fail depends on
where the dispatcher is, what waits in its queue and who has stopped the endpoint.
`UdpInv` has these parts.

- `Shape` and `Threading` (`UdpLifeProofs`): the state's fields; which thread can be
  at which endpoint.
- `Local(d)` for every connection (`UdpLifeProofs`): `Order` (ConnectCb comes once
  and before everything else), `Life` (list, state and what the daemon knows go
  together; Connect learns of an endpoint after the daemon), `Leaving` (EXIT is
  queued once), `Stopping` (one thread does the second half of `Stop`; what
  `m_disc`, `m_discSent` and the record can be before and after), `Writing` (who is
  in the stream is at an endpoint that is not destroyed).
- `Buffers`: what ARDP holds, the sent set has or a SendCb waits for is not deleted,
  and a buffer that a thread is about to hand over belongs to that thread alone.
- `Counters`, `Waits`, `Receipts`: `m_currAuth` and `m_currConn` against the lists,
  the count of waiting writers against the writers that wait, the messages ARDP has
  passed up against those in the queue and in the dispatcher's hands. These are
  counters that the code decrements without a test, and cardinalities of sets that
  a step changes by one element.

A step at one connection leaves `Local` of the others alone (`Untouched`), so that
each action is looked at for its own connection only. TLC checked `UdpInv` on the
instance of `endpoint` before it was proved.

### The dispatcher and the remote endpoint

`RemoteEndpointProofs`, from `AlarmsAssumption` and `EndpointAssumption`: for any
number of pushing threads, messages, events and alarms, and any length of the queue.

- `CallbacksExclude` and `ExitComesLast`: `Spec /\ NoOvertaking => []P` for
  `OneCallback` and `ExitIsLast`, from `DispatchInvariant`.
- `EndpointsWithoutLinkTimeout`: both, from `Spec` alone, if `SetLinkTimeout` is not
  among the events.
- `MessagesInOrder`: `Spec /\ NoOvertaking => []NoneLost` if no message has a time
  to live (observation 24 is what happens otherwise).

`NoOvertaking` says that no call of `SetLinkTimeout` replaces a timeout alarm that a
thread has taken. It is a condition on behaviours, not on constants, and it is needed:
the proof attempt without it failed in `EnableTimeoutCallback`, and `link_twice.cfg`
(observation 25) is the counterexample that came out of it.

The invariant of the dispatcher is `IoInv`, a predicate of the dispatcher's record, so
that it can be stated of the result of each call: each lemma takes one operator of
`IODispatch` and shows `Step`, which is `IoInv` afterwards and `Keeps` (what the
endpoint relies on). Its centre is `Holds`: the alarm that the entry knows for a side
is the only alarm of that side. To keep it, whoever adds an alarm must know that the
old one is gone; that is what `Adding` and `Removing` (the main thread marks the side
and waits for the removal), `Writing` and `Off` (with writing disabled there is no
write alarm, so that `EnableWriteCallbackNow` may add one), `ExitOnce`, `ExitClears`
and `Gone` are for. `DispatchInv` adds the endpoint's lock: `EnableWriteCallbackNow`
is safe only because the writer that disables itself holds it (`LockHeld`). `QueueInv`
says where the messages are: written ones are the first, queued ones the last, and
the one between `DeliverNonBlocking` and `pop_back` is in both, for which that one
thread is in `WriteCallback` is needed. TLC checked `IoInv`, its link to the endpoint and
`QueueInv` with two events of every kind and two alarms of a kind (4 million states).

### Sessionless signals

`SessionlessProofs`, from `SessionlessAssumption` and `RangePeers` (every producer
understands RequestRange; without it `Complete` is false, observation 33): for any
number of keys, interfaces, clients, rules, signals, retries and failing sessions, and
any modulus of which half has room for the ids that are given out.

- `SignalsComplete` and `SignalsOnce`: `RangePeers /\ Spec => []P` for `Complete` and
  `NotAgain`, both invariants of the run `sessionless`.
- `SignalsTyped`: the same for `TypeOK`, in which no id wraps around.

Neither of the first two is inductive. `Complete` is restored by one step,
`RemoteEndLeft`, which moves both marks to the ends of what was asked for; that this
is right depends on all that the two daemons did since the session was joined.
`SignalsInv` says so in these parts.

- `Producer`: with `Top` the highest change id a signal has had, every stored signal,
  every advertisement and every name on its way is at most `Top`, which is the current
  id or, after `HandleRangeRequest` has advanced it, one less. A signal stored once a
  session is being served therefore gets an id at or above the end of its range: this
  is the clause `sess.to <= prod.curChangeId` of `Serving`.
- `Consuming`: the ids in the consumer's cache against the producer's (`Remote`), and
  for a cache in progress `Asking`: the ranges are either all that was received, for
  the rules after `appliedRulesId` (`NewRules`), or what comes after
  `receivedChangeId`, for all rules (`NewSignals`). Their meaning is given in plain
  numbers; the lemmas `Greater`, `RangeAfter` and `RangeBefore` show that
  `IS_GREATER` and the ranges that start half of the numbers before a mark have it,
  the mark `0 - 1` that wraps included.
- `Session`: `Passed`, what the loop over the local cache has passed is on the wire or
  with the clients.
- `Done`, which is `Complete` in plain numbers.
- `Once`, as long as `Calm` holds (no cache given up, no failure together with a second
  rule): what a client has is `Covered` by the marks or remembered in
  `routedMessages`; what is remembered lies in the ranges asked for (`Routed`), so
  that the list may be cleared when the marks move; what is on the wire the clients
  do not have, or it is remembered (`Fresh`).

Each action has a lemma; the consumer's steps outside a session share `CarryOn`
(rules come and go and names are found while a session is under way) and
`ForgetSafe`. `Fewer` is what the producer's steps outside a session
have in common: signals leave the cache and the next change id may be a new one
(cancelling, a sender that leaves, advertising, a late request). TLC checked
`SignalsInv` on the instance of `sessionless`, then without late requests (246 510
states), before it was proved.

### The serial link

`SlapProofs`, from `SlapAssumption` and `SlapRunAssumption`: for any modulus, windows,
quotas, length of the line, kinds and number of faults.

- `BuffersSafe`: `Spec => []BuffersKept`, for every window. None of either end's
  buffers is used twice, the asserted bound on unacknowledged packets holds, and the
  only buffers ever missing are those that `ResendPackets` loses behind a control
  packet, at most all but one (`dropped < DevWindow`): hence none with a window of
  one. That none is lost at all, `UnackedKept`, is false from two on (`slap_resend`).
- `SlapTyped`: `Spec => []TypeOK`.

They follow from `SlapInvariant`, `Spec => []SlapInv`. That the lists of an end add up
to its window depends on what that window is, which the two ends negotiate through
packets that may be old, repeated or sent by an earlier life. `SlapInv` therefore says
of every packet queued or on the line what it announces: the client its own maximum
(`FromDev`), the daemon no less than that (`FromBus`). It follows that the client's
window never changes, and that a daemon that leaves LINK_INITIALIZED has the client's
window. `BusInv` adds that the daemon has no buffers before that, whatever data and
ACKs arrive, and all of them afterwards, also while it is dying or dead; `DevInv` that
no more than a window of buffers is with the UART, without which
`AJ_FillTxBufferList` would not take a prefix of the queue.

Each handler and function has a lemma that it keeps `BusInv` or `DevInv`, whatever
state it is called in, and each action one step that puts them together. The packets
that one run of `AJ_StateMachine` reads are processed by a recursive function; that it
exists and keeps `DevInv` at every packet is shown by a smallest counterexample
(`SmallestNat`), which needs no induction theorem. TLC checked `SlapInv` on the
instance of `slap`, and with windows of two and two faults (2.5 million states), before
it was proved.

### Only model-checked

`StreamIntact` and `ResetsAreReal` of `Slap`; its `EndsAgree`, which is false with
enough disturbances (observation 36); the refinement of `ReliableLink`; of `Ardp`
`TypeOK`, the invariants that relate its two ends other than `HandshakeAgrees`, and the
properties of the send queue. Liveness everywhere (`SignalsArrive` for sessionless
signals, `LinkRecovers` and `DataArrives` of `Slap`): liveness under fairness and
`ENABLED` are out of the prover's reach altogether, and so is what a recursive
definition computes for every input.

## Not modelled, and the plan

Of ARDP: clock values, RTT estimate and fast retransmit, the setters and
accessors, `ARDP_FreeHandle`, the debug hooks. Of the UDP transport: starting,
stopping and reloading it as a whole, listening, discovery and advertisement,
connect specs. Of SLAP: framing, CRC, packet sizes, clients of protocol version 0.
Of the remote endpoint and the dispatcher: authentication, minimal endpoints,
what the router does with a message and its retries, shutting the dispatcher
down, a `Start` that fails, idle and probe timeouts of which only one is zero. Of
sessionless signals: the name service's queries and responses, the form of names,
delivery on the producer's own daemon. Of the rest: see the components in
`PROJECT.json`.

The repository has 376 000 lines of implementation, most of them language
bindings, services, samples, parsers and wire formats without a protocol of their
own. The models stand for 9 400 lines of its core; a larger share is not within
reach of models that keep to the code.

In this order:

1. Proofs: `TypeOK` of `Ardp` (needs that a sorted sequence of a finite set
   exists, since data goes out in slot order), `FlushedNeverResent` (needs an
   invariant on the structure of the send queue), the action property that
   `SND.LCS` never runs back on a network that keeps order, and the refinement
   step of `ReliableLink` for the sender's half.
   Then `StreamIntact` of `Slap`, for which an invariant has to say which packets
   of former lives can still be on the line.
2. `Timer`: alarms, the controller thread and its hand-over.
3. `NameTable`: owners, queues and callbacks; then the routing rules.
