------------------------------ MODULE MCClient ------------------------------
(* Either protocol and a short clock.                                      *)
EXTENDS Client
=============================================================================
