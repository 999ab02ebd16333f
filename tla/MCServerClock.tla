--------------------------- MODULE MCServerClock ----------------------------
(* One datagram client and a clock that wraps: every placement of its      *)
(* packets relative to the steps of update().                              *)
EXTENDS Server
=============================================================================
