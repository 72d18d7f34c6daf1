--------------------------- MODULE MCUdpEndpoint ---------------------------
(***************************************************************************)
(* The runs of the endpoint model.                                         *)
(***************************************************************************)
EXTENDS UdpEndpoint
=============================================================================
