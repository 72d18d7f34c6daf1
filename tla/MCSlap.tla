------------------------------- MODULE MCSlap -------------------------------
(* Instances of Slap for TLC. *)
EXTENDS Slap

ThreeOne == [bus |-> 3, dev |-> 1]
OneTwo  == [bus |-> 1, dev |-> 2]
AllFaults == FaultKinds
Nothing == [bus |-> 0, dev |-> 0]

\* Eight disturbances in this order: the daemon closes the link and repeats its
\* DISC early; twice the client repeats a link packet early and both close.
EightFaults ==
  left' < left =>
    LET k == MaxFaults - left + 1
    IN  /\ k \in {1, 5, 7} => bus.link # "DYING" /\ bus'.link = "DYING"
        /\ k = 2            => bus' # bus /\ bus'.link = bus.link
        /\ k \in {3, 6}    => dev' # dev /\ dev'.link = dev.link
        /\ k \in {4, 8}    => dev'.closing /\ ~dev.closing
=============================================================================
