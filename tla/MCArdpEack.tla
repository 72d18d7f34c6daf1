----------------------------- MODULE MCArdpEack -----------------------------
(***************************************************************************)
(* The run of the EACK mask with one word, which is what the window of the *)
(* code needs (ARDP_SEGMAX = 16, words of 32 bits).                        *)
(***************************************************************************)
EXTENDS ArdpEack
=============================================================================
