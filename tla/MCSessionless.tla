--------------------------- MODULE MCSessionless ---------------------------
(***************************************************************************)
(* Instances of Sessionless.                                               *)
(***************************************************************************)
EXTENDS Sessionless

\* Each of two keys has an interface of its own, and each of two clients
\* wants one of them.
EachIface == [k \in Keys |-> IF k = 1 THEN "I1" ELSE "I2"]
WantEach == [e \in Clients |-> IF e = "c1" THEN "I1" ELSE "I2"]
=============================================================================
