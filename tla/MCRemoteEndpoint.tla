-------------------------- MODULE MCRemoteEndpoint --------------------------
(***************************************************************************)
(* Instances of RemoteEndpoint: one thread that pushes two or three        *)
(* messages into a queue of two.                                           *)
(***************************************************************************)
EXTENDS RemoteEndpoint

OnePusher == {<<"push", 1>>}
Two == [p \in Pushers |-> 2]
Three == [p \in Pushers |-> 3]

\* The comment in AlarmTriggered on an alarm whose stream is not in the map:
\* "should never happen since the exit alarm ensures that read and write alarms
\* are removed before deleting the entry from the map".  No alarm comes to the
\* assert(false) behind it.
EntryFound == ~io.fault
=============================================================================
