---------------------------- MODULE ReliableLink ----------------------------
(***************************************************************************)
(* What one direction of an ARDP connection promises its two users, the    *)
(* UDP transports at its ends: the messages one end accepts come out at    *)
(* the other in order, whole and once, and every buffer is returned to its *)
(* owner once: as delivered only when the receiving user is done with the  *)
(* message, as lost only when the sending end has closed.  Segments,       *)
(* windows, timers and datagrams are not part of the promise.              *)
(***************************************************************************)
EXTENDS Sequences, Integers

CONSTANT Messages

VARIABLES sent,      \* the messages ARDP_Send has accepted
          got,       \* the messages RecvCb has handed up
          nread,     \* how many of those ARDP_RecvReady has given back
          receipt,   \* receipt[m]: where the buffer of the m-th message is
          open       \* the sending end accepts messages

vars == <<sent, got, nread, receipt, open>>

Held == {m \in DOMAIN receipt : receipt[m] = "held"}

Init == /\ sent = << >> /\ got = << >> /\ nread = 0
        /\ receipt = << >> /\ open = TRUE

\* ARDP_Send
Accept == /\ open
          /\ \E msg \in Messages : sent' = Append(sent, msg)
          /\ receipt' = Append(receipt, "held")
          /\ UNCHANGED <<got, nread, open>>

\* RecvCb: one segment may complete several messages.
Deliver == /\ \E n \in Len(got) + 1 .. Len(sent) : got' = SubSeq(sent, 1, n)
           /\ UNCHANGED <<sent, nread, receipt, open>>

\* ARDP_RecvReady
Consume == /\ nread < Len(got) /\ nread' = nread + 1
           /\ UNCHANGED <<sent, got, receipt, open>>

\* SendCb(ER_OK)
Confirm == /\ \E ms \in SUBSET {m \in Held : m <= nread} :
                receipt' = [m \in DOMAIN receipt |-> IF m \in ms THEN "ok" ELSE receipt[m]]
           /\ UNCHANGED <<sent, got, nread, open>>

\* The sending end closes, and the buffers it still holds come back: at
\* once, or later when the user asked for the close itself.
Close == /\ open /\ open' = FALSE
         /\ receipt' \in {receipt, [m \in DOMAIN receipt |->
                                      IF m \in Held THEN "lost" ELSE receipt[m]]}
         /\ UNCHANGED <<sent, got, nread>>

GiveBack == /\ ~open
            /\ receipt' = [m \in DOMAIN receipt |-> IF m \in Held THEN "lost" ELSE receipt[m]]
            /\ UNCHANGED <<sent, got, nread, open>>

Next == Accept \/ Deliver \/ Consume \/ Confirm \/ Close \/ GiveBack

Spec == Init /\ [][Next]_vars
=============================================================================
