---------------------------- MODULE MCServerLive ----------------------------
(* One address that uses TCP, an idle UDP thread and the operator: what    *)
(* must eventually happen.                                                 *)
EXTENDS Server
=============================================================================
