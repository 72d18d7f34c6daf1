----------------------------- MODULE ArdpStream -----------------------------
(* ArdpStream, the part of a UDP endpoint in which threads write and wait: its *)
(* fields, and the calls that change them as operators from the stream before  *)
(* the call to the stream after it.  All are made under m_lock or m_cbLock.    *)
EXTENDS Naturals, FiniteSets

CONSTANTS Threads,   \* the threads that may call PushBytes
          Bufs       \* the buffers that PushBytes allocates, one per message

\* What Disconnect is told, and what it remembers in m_discStatus.
Statuses == {"OK", "LOCAL_DISCONNECT", "EARLY_EXIT", "REMOTE", "INVALID_CONNECTION", "SOCKET"}

\* The assertions of Disconnect, by the case that makes them.
StreamAsserts == {"NewLocal", "LocalDone", "LocalAgain", "RemoteAgain"}

Stream == [disc : BOOLEAN, discSent : BOOLEAN, discStatus : Statuses,
           conn : BOOLEAN,                 \* m_conn is not NULL
           writeEvent : BOOLEAN, writesOutstanding : Nat, writeWaits : Nat,
           sentSet : SUBSET Bufs, threads : SUBSET Threads,
           fault : SUBSET StreamAsserts]

NewStream == [disc |-> FALSE, discSent |-> FALSE, discStatus |-> "OK", conn |-> TRUE,
              writeEvent |-> FALSE, writesOutstanding |-> 0, writeWaits |-> 0,
              sentSet |-> {}, threads |-> {}, fault |-> {}]

StreamAssert(s, name, holds) ==
  [s EXCEPT !.fault = IF holds THEN @ ELSE @ \cup {name}]

AddCurrentThread(s, t)    == [s EXCEPT !.threads = @ \cup {t}]
RemoveCurrentThread(s, t) == [s EXCEPT !.threads = @ \ {t}]
WakeThreadSet(s)          == [s EXCEPT !.writeEvent = @ \/ s.threads # {}]
ThreadSetEmpty(s)         == s.threads = {}

EarlyExit(s) == [s EXCEPT !.disc = TRUE, !.conn = FALSE, !.discStatus = "EARLY_EXIT"]

\* Disconnect calls ARDP_Disconnect in one of its eight cases.
AsksArdp(s, sudden) == ~sudden /\ ~s.disc /\ ~s.discSent

\* The eight cases of sudden, m_disc and m_discSent.  ardpStatus is what
\* ARDP_Disconnect returns, if it is called.
Disconnect(s, sudden, status, ardpStatus) ==
  CASE AsksArdp(s, sudden) ->
         LET t == StreamAssert(s, "NewLocal", status = "LOCAL_DISCONNECT")
         IN  IF ardpStatus = "OK"
             THEN [t EXCEPT !.discSent = TRUE, !.discStatus = "LOCAL_DISCONNECT"]
             ELSE [t EXCEPT !.disc = TRUE, !.conn = FALSE, !.discSent = TRUE,
                            !.discStatus = ardpStatus]
    [] ~sudden /\ ~s.disc /\ s.discSent ->
         [StreamAssert(s, "LocalDone", status = "OK" /\ s.discStatus = "LOCAL_DISCONNECT")
            EXCEPT !.disc = TRUE, !.conn = FALSE]
    [] ~sudden /\ s.disc -> StreamAssert(s, "LocalAgain", ~s.conn)
    [] sudden /\ ~s.disc ->
         [s EXCEPT !.conn = FALSE, !.disc = TRUE,
                   !.discStatus = IF s.discSent THEN @ ELSE status]
    [] sudden /\ s.disc -> StreamAssert(s, "RemoteAgain", ~s.conn)

\* PushBytes after ARDP_Send has taken the buffer.
NoteSent(s, b) == [s EXCEPT !.sentSet = @ \cup {b}, !.writesOutstanding = @ + 1]

\* PushBytes before it waits: the first to wait resets the event.
BeginWait(s) == [s EXCEPT !.writeEvent = IF s.writeWaits = 0 THEN FALSE ELSE @,
                          !.writeWaits = @ + 1]
EndWait(s)   == [s EXCEPT !.writeWaits = @ - 1]

\* Mutant: the buffer stays in m_sentSet.
ForgetLater(s, b) == s

\* SendCb: first the buffer, if it is known, then the event.
ForgetSent(s, b) == [s EXCEPT !.sentSet = @ \ {b}]
SetWriteEvent(s) == [s EXCEPT !.writeEvent = TRUE]
=============================================================================
