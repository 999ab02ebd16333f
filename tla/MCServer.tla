------------------------------ MODULE MCServer ------------------------------
(* Two addresses, one of them used over both protocols, with a coarse      *)
(* clock: every interleaving of the four threads.                          *)
EXTENDS Server

(* The states that TLC keeps apart.  No step and no property of this run   *)
(* asks what the step before has sent, nor how long a client has been      *)
(* silent, except that both are of their types; what a step itself sends   *)
(* (sent') is computed, and checked, for every step.                       *)
StateView ==
    <<m_running, m_serverTime,
      [c \in Clients |-> [m_clientMap[c] EXCEPT !.silence = 0]],
      m_tcpClients, m_lastID, socketsOpen, main, udp, tcp, cmd, history>>
=============================================================================
