---------------------------- MODULE ClientProofs ----------------------------
(***************************************************************************)
(* Proofs about Client, for both protocols and every value of the timing   *)
(* constants that TimingAssumption allows.  In order:                      *)
(*   1. types, with the places at which the clock may be past              *)
(*      HighestTimestamp, and how far below 0;                             *)
(*   2. the connection: what connect() has set up when each thread starts, *)
(*      and who still has to join the listener;                            *)
(*   3. the clocks: how m_serverTime, m_lastHeartbeat and the true silence *)
(*      of the server are related at each line of update().                *)
(***************************************************************************)
EXTENDS Client, TLAPS

Times == -(2 * HighestTimestamp + 1)..(HighestTimestamp + MaxStep)

MainPlaces ==
    {"connect", "spawn", "setConnected", "read", "stamp", "loop", "tick",
     "check", "wrap", "subtract", "reread", "restamp", "compare", "thenTime",
     "thenHeartbeat", "close", "flag", "join", "joining", "joinCmd", "exited",
     "aborted"}
ListenerPlaces ==
    {"none", "loop", "recv", "setTime", "readTime", "writeTime", "close",
     "flag", "join", "done"}
CmdPlaces ==
    {"none", "loop", "getline", "close", "flag", "join", "joining", "done"}

(* The clock is past HighestTimestamp only between the addition of update()*)
(* and its reset; the reset may find a clock that a heartbeat has changed, *)
(* but never one more than 2^31 below 0.                                   *)
TypeInv ==
    /\ m_protocol \in Protocols
    /\ m_connected \in BOOLEAN /\ socketOpen \in BOOLEAN
    /\ joinable \in BOOLEAN /\ torn \in BOOLEAN /\ selfJoin \in BOOLEAN
    /\ m_serverTime \in Times /\ m_lastHeartbeat \in Times
    /\ silence \in 0..(HighestTimestamp + MaxStep)
    /\ loaded \in [main : Times, listener : Times]
    /\ pc \in [main : MainPlaces, listener : ListenerPlaces, cmd : CmdPlaces]
    /\ pc.main \notin {"check", "wrap", "subtract"} =>
          m_serverTime <= HighestTimestamp
    /\ pc.main = "wrap" => m_serverTime >= -(HighestTimestamp + 1)
    /\ pc.main = "subtract" => loaded.main <= MaxStep
    /\ pc.listener = "setTime" => loaded.listener \in 0..HighestTimestamp

LEMMA TypeStep == ASSUME TypeInv, [Next]_vars PROVE TypeInv'
<1> USE TimingAssumption
    DEF TypeInv, Times, MainPlaces, ListenerPlaces, CmdPlaces, Goto, Loaded,
        connection, clocks
<1>1. CASE ConnectFails
  BY <1>1 DEF ConnectFails
<1>2. CASE ConnectUdp
  BY <1>2 DEF ConnectUdp
<1>3. CASE ConnectTcp
  BY <1>3 DEF ConnectTcp
<1>4. CASE ConnectSpawn
  BY <1>4 DEF ConnectSpawn
<1>5. CASE ConnectSet
  BY <1>5 DEF ConnectSet
<1>6. CASE ConnectRead
  BY <1>6 DEF ConnectRead
<1>7. CASE ConnectStamp
  <2>1. /\ pc'.main = "loop" /\ pc'.listener = pc.listener
        /\ pc' \in [main : MainPlaces, listener : ListenerPlaces,
                   cmd : CmdPlaces]
    BY <1>7 DEF ConnectStamp
  <2>2. /\ loaded' \in [main : Times, listener : Times]
        /\ loaded'.listener = loaded.listener
        /\ m_lastHeartbeat' \in Times
    BY <1>7 DEF ConnectStamp
  <2> QED
    BY <1>7, <2>1, <2>2 DEF ConnectStamp
<1>8. ASSUME NEW dt \in 0..MaxStep, UpdateRead(dt) PROVE TypeInv'
  BY <1>8 DEF UpdateRead
<1>9. CASE UpdateWrite
  BY <1>9 DEF UpdateWrite
<1>10. CASE UpdateCheck
  BY <1>10 DEF UpdateCheck, Narrow
<1>11. CASE UpdateReadAgain
  <2>1. /\ m_serverTime - HighestTimestamp \in Times
        /\ m_serverTime - HighestTimestamp <= MaxStep
    BY <1>11 DEF UpdateReadAgain
  <2>2. /\ loaded' = [loaded EXCEPT !.main = m_serverTime - HighestTimestamp]
        /\ pc' = [pc EXCEPT !.main = "subtract"]
        /\ UNCHANGED <<m_protocol, m_connected, socketOpen, joinable, selfJoin,
                       m_serverTime, m_lastHeartbeat, silence, torn>>
    BY <1>11 DEF UpdateReadAgain
  <2>3. /\ loaded' \in [main : Times, listener : Times]
        /\ loaded'.main <= MaxStep /\ loaded'.listener = loaded.listener
    BY <2>1, <2>2
  <2>4. /\ pc' \in [main : MainPlaces, listener : ListenerPlaces,
                   cmd : CmdPlaces]
        /\ pc'.main = "subtract" /\ pc'.listener = pc.listener
    BY <2>2
  <2> QED
    BY <2>2, <2>3, <2>4
<1>12. CASE UpdateWrap
  BY <1>12 DEF UpdateWrap
<1>13. CASE UpdateReread
  BY <1>13 DEF UpdateReread
<1>14. CASE UpdateRestamp
  BY <1>14 DEF UpdateRestamp
<1>15. CASE UpdateCompare
  BY <1>15 DEF UpdateCompare
<1>16. CASE UpdateDecide
  BY <1>16 DEF UpdateDecide, Disconnect, Comparing
<1>17. CASE MainExit
  BY <1>17 DEF MainExit
<1>18. ASSUME NEW thread \in Threads, CloseSocket(thread) PROVE TypeInv'
  BY <1>18 DEF CloseSocket, Threads
<1>19. ASSUME NEW thread \in Threads, ClearConnected(thread) PROVE TypeInv'
  BY <1>19 DEF ClearConnected, Threads
<1>20. ASSUME NEW thread \in Threads, Join(thread) PROVE TypeInv'
  BY <1>20 DEF Join, Threads, Return
<1>21. ASSUME NEW thread \in Threads, Joined(thread) PROVE TypeInv'
  BY <1>21 DEF Joined, Threads, Return
<1>22. CASE ListenLoop
  BY <1>22 DEF ListenLoop
<1>23. ASSUME NEW timestamp \in Timestamps, ReceiveHeartbeat(timestamp)
      PROVE  TypeInv'
  BY <1>23 DEF ReceiveHeartbeat
<1>24. CASE ReceiveDisconnect \/ ReceiveOther
  BY <1>24 DEF ReceiveDisconnect, ReceiveOther, Disconnect
<1>25. CASE SetTime
  <2>1. /\ pc'.main = pc.main /\ pc'.listener = "readTime"
        /\ pc' \in [main : MainPlaces, listener : ListenerPlaces,
                   cmd : CmdPlaces]
    BY <1>25 DEF SetTime
  <2>2. /\ loaded' \in [main : Times, listener : Times]
        /\ loaded'.main = loaded.main
        /\ m_serverTime' \in Times /\ m_serverTime' <= HighestTimestamp
    BY <1>25 DEF SetTime
  <2>3. silence' \in Times /\ torn' \in BOOLEAN
    BY <1>25 DEF SetTime, MainUsesClocks
  <2> QED
    BY <1>25, <2>1, <2>2, <2>3 DEF SetTime
<1>26. CASE ReadTime
  BY <1>26 DEF ReadTime
<1>27. CASE WriteTime
  BY <1>27 DEF WriteTime
<1>28. CASE CmdLoop \/ CmdLine \/ CmdQuit
  BY <1>28 DEF CmdLoop, CmdLine, CmdQuit, Disconnect
<1>29. CASE UNCHANGED vars
  BY <1>29 DEF vars
<1> QED
  BY <1>1, <1>2, <1>3, <1>4, <1>5, <1>6, <1>7, <1>8, <1>9, <1>10, <1>11,
     <1>12, <1>13, <1>14, <1>15, <1>16, <1>17, <1>18, <1>19, <1>20, <1>21,
     <1>22, <1>23, <1>24, <1>25, <1>26, <1>27, <1>28, <1>29
     DEF Next, Terminated, MainSteps, ListenerSteps, CmdSteps, Lines,
         ConnectSteps, UpdateSteps, Arrivals, DisconnectSteps, Threads

(* In every behaviour the variables have their types, and the clock is past*)
(* HighestTimestamp only between lines 230 and 232 (Client.cpp:227-234).   *)
THEOREM TypeInvariant == Spec => []TypeInv
<1>1. ASSUME Init PROVE TypeInv
  <2>1. 0 \in Times
    BY TimingAssumption DEF Times
  <2>2. loaded \in [main : Times, listener : Times]
    BY <1>1, <2>1 DEF Init
  <2>3. /\ pc \in [main : MainPlaces, listener : ListenerPlaces,
                  cmd : CmdPlaces]
        /\ pc.main = "connect" /\ pc.listener = "none"
    BY <1>1 DEF Init, MainPlaces, ListenerPlaces, CmdPlaces
  <2>4. /\ m_protocol \in Protocols
        /\ ~m_connected /\ socketOpen /\ ~joinable /\ ~torn /\ ~selfJoin
        /\ {m_connected, socketOpen, joinable, torn, selfJoin} \subseteq BOOLEAN
        /\ m_serverTime = 0 /\ m_lastHeartbeat = 0 /\ silence = 0
    BY <1>1 DEF Init
  <2>5. /\ m_serverTime <= HighestTimestamp
        /\ silence \in 0..(HighestTimestamp + MaxStep)
    BY <2>4, TimingAssumption
  <2> QED
    BY <2>1, <2>2, <2>3, <2>4, <2>5 DEF TypeInv
<1> QED
  BY <1>1, TypeStep, PTL DEF Spec

(* Every variable keeps its type: whatever heartbeats arrive between the   *)
(* lines of update(), the clocks stay below HighestTimestamp plus one      *)
(* iteration and above twice its negative, so that a 32-bit reading is off *)
(* by one period at most (Client.cpp:146, 230-233).                        *)
THEOREM TypeCorrect == Spec => []TypeOK
<1>1. TypeInv => TypeOK
  BY DEF TypeInv, TypeOK, Times, MainPlaces, ListenerPlaces, CmdPlaces
<1> QED
  BY <1>1, TypeInvariant, PTL

-----------------------------------------------------------------------------
(* What connect() has done when each thread starts.                        *)
ConnectInv ==
    /\ pc.main \in {"connect", "spawn"} =>
          pc.listener = "none" /\ ~joinable
    /\ pc.main \in {"connect", "spawn", "setConnected", "read", "stamp"} =>
          pc.cmd = "none"
    /\ pc.main = "spawn" => m_connected
    /\ pc.main = "setConnected" => pc.listener \in {"loop", "done"}
    /\ pc.main \in {"connect", "setConnected", "join", "joining", "joinCmd"} =>
          ~m_connected

(* A listener that runs is joinable; once the connection is gone, either   *)
(* it has been joined, or somebody is about to join it or joining it, or   *)
(* it was the listener itself that called disconnect().                    *)
Joining == pc.main \in {"join", "joining"} \/ pc.cmd \in {"join", "joining"}

JoinInv ==
    /\ ~joinable => pc.listener \in {"none", "done"}
    /\ pc.listener \in {"flag", "join"} => selfJoin
    /\ (/\ ~m_connected /\ joinable
        /\ pc.main \notin {"connect", "spawn", "setConnected"})
            => selfJoin \/ Joining
    /\ AbortOnlyAfterSelfJoin

LEMMA ConnectStep == ASSUME TypeInv, ConnectInv, [Next]_vars PROVE ConnectInv'
<1> pc \in [main : MainPlaces, listener : ListenerPlaces, cmd : CmdPlaces]
  BY DEF TypeInv
<1> USE DEF ConnectInv, MainPlaces, ListenerPlaces, CmdPlaces, Goto,
        connection, clocks
<1>1. CASE ConnectFails
  BY <1>1 DEF ConnectFails
<1>2. CASE ConnectUdp
  BY <1>2 DEF ConnectUdp
<1>3. CASE ConnectTcp
  BY <1>3 DEF ConnectTcp
<1>4. CASE ConnectSpawn
  BY <1>4 DEF ConnectSpawn
<1>5. CASE ConnectSet
  BY <1>5 DEF ConnectSet
<1>6. CASE ConnectRead
  BY <1>6 DEF ConnectRead
<1>7. CASE ConnectStamp
  BY <1>7 DEF ConnectStamp
<1>8. ASSUME NEW dt \in 0..MaxStep, UpdateRead(dt) PROVE ConnectInv'
  BY <1>8 DEF UpdateRead
<1>9. CASE UpdateWrite
  BY <1>9 DEF UpdateWrite
<1>10. CASE UpdateCheck
  BY <1>10 DEF UpdateCheck
<1>11. CASE UpdateReadAgain
  BY <1>11 DEF UpdateReadAgain
<1>12. CASE UpdateWrap
  BY <1>12 DEF UpdateWrap
<1>13. CASE UpdateReread
  BY <1>13 DEF UpdateReread
<1>14. CASE UpdateRestamp
  BY <1>14 DEF UpdateRestamp
<1>15. CASE UpdateCompare
  BY <1>15 DEF UpdateCompare
<1>16. CASE UpdateDecide
  BY <1>16 DEF UpdateDecide, Disconnect, Comparing
<1>17. CASE MainExit
  BY <1>17 DEF MainExit
<1>18. ASSUME NEW thread \in Threads, CloseSocket(thread) PROVE ConnectInv'
  BY <1>18 DEF CloseSocket, Threads
<1>19. ASSUME NEW thread \in Threads, ClearConnected(thread) PROVE ConnectInv'
  BY <1>19 DEF ClearConnected, Threads
<1>20. ASSUME NEW thread \in Threads, Join(thread) PROVE ConnectInv'
  BY <1>20 DEF Join, Threads, Return
<1>21. ASSUME NEW thread \in Threads, Joined(thread) PROVE ConnectInv'
  BY <1>21 DEF Joined, Threads, Return
<1>22. CASE ListenLoop
  BY <1>22 DEF ListenLoop
<1>23. ASSUME NEW timestamp \in Timestamps, ReceiveHeartbeat(timestamp)
      PROVE  ConnectInv'
  BY <1>23 DEF ReceiveHeartbeat
<1>24. CASE ReceiveDisconnect \/ ReceiveOther
  BY <1>24 DEF ReceiveDisconnect, ReceiveOther, Disconnect
<1>25. CASE SetTime
  BY <1>25 DEF SetTime
<1>26. CASE ReadTime
  BY <1>26 DEF ReadTime
<1>27. CASE WriteTime
  BY <1>27 DEF WriteTime
<1>28. CASE CmdLoop \/ CmdLine \/ CmdQuit
  BY <1>28 DEF CmdLoop, CmdLine, CmdQuit, Disconnect
<1>29. CASE UNCHANGED vars
  BY <1>29 DEF vars
<1> QED
  BY <1>1, <1>2, <1>3, <1>4, <1>5, <1>6, <1>7, <1>8, <1>9, <1>10, <1>11,
     <1>12, <1>13, <1>14, <1>15, <1>16, <1>17, <1>18, <1>19, <1>20, <1>21,
     <1>22, <1>23, <1>24, <1>25, <1>26, <1>27, <1>28, <1>29
     DEF Next, Terminated, MainSteps, ListenerSteps, CmdSteps, Lines,
         ConnectSteps, UpdateSteps, Arrivals, DisconnectSteps, Threads

(* At each line of connect() and disconnect() the threads, the flags and the*)
(* duty to join the listener fit together (Client.cpp:13-98).              *)
THEOREM ConnectInvariant == Spec => []ConnectInv
<1>1. Init => ConnectInv
  BY DEF Init, ConnectInv
<1>2. TypeInv /\ ConnectInv /\ [Next]_vars => ConnectInv'
  BY ConnectStep
<1> QED
  BY <1>1, <1>2, TypeInvariant, PTL DEF Spec

LEMMA JoinStep ==
    ASSUME TypeInv, ConnectInv, JoinInv, [Next]_vars, ~Ended
    PROVE  JoinInv'
<1> pc \in [main : MainPlaces, listener : ListenerPlaces, cmd : CmdPlaces]
  BY DEF TypeInv
<1> USE DEF ConnectInv, JoinInv, AbortOnlyAfterSelfJoin, Joining, Ended,
        MainPlaces, ListenerPlaces, CmdPlaces, Goto, connection, clocks
<1>1. CASE ConnectFails
  BY <1>1 DEF ConnectFails
<1>2. CASE ConnectUdp
  BY <1>2 DEF ConnectUdp
<1>3. CASE ConnectTcp
  BY <1>3 DEF ConnectTcp
<1>4. CASE ConnectSpawn
  BY <1>4 DEF ConnectSpawn
<1>5. CASE ConnectSet
  BY <1>5 DEF ConnectSet
<1>6. CASE ConnectRead
  BY <1>6 DEF ConnectRead
<1>7. CASE ConnectStamp
  BY <1>7 DEF ConnectStamp
<1>8. ASSUME NEW dt \in 0..MaxStep, UpdateRead(dt) PROVE JoinInv'
  BY <1>8 DEF UpdateRead
<1>9. CASE UpdateWrite
  BY <1>9 DEF UpdateWrite
<1>10. CASE UpdateCheck
  BY <1>10 DEF UpdateCheck
<1>11. CASE UpdateReadAgain
  BY <1>11 DEF UpdateReadAgain
<1>12. CASE UpdateWrap
  BY <1>12 DEF UpdateWrap
<1>13. CASE UpdateReread
  BY <1>13 DEF UpdateReread
<1>14. CASE UpdateRestamp
  BY <1>14 DEF UpdateRestamp
<1>15. CASE UpdateCompare
  BY <1>15 DEF UpdateCompare
<1>16. CASE UpdateDecide
  BY <1>16 DEF UpdateDecide, Disconnect, Comparing
<1>17. CASE MainExit
  BY <1>17 DEF MainExit
<1>18. ASSUME NEW thread \in Threads, CloseSocket(thread) PROVE JoinInv'
  BY <1>18 DEF CloseSocket, Threads
<1>19. ASSUME NEW thread \in Threads, ClearConnected(thread) PROVE JoinInv'
  BY <1>19 DEF ClearConnected, Threads
<1>20. ASSUME NEW thread \in Threads, Join(thread) PROVE JoinInv'
  BY <1>20 DEF Join, Threads, Return
<1>21. ASSUME NEW thread \in Threads, Joined(thread) PROVE JoinInv'
  BY <1>21 DEF Joined, Threads, Return
<1>22. CASE ListenLoop
  BY <1>22 DEF ListenLoop
<1>23. ASSUME NEW timestamp \in Timestamps, ReceiveHeartbeat(timestamp)
      PROVE  JoinInv'
  BY <1>23 DEF ReceiveHeartbeat
<1>24. CASE ReceiveDisconnect \/ ReceiveOther
  BY <1>24 DEF ReceiveDisconnect, ReceiveOther, Disconnect
<1>25. CASE SetTime
  BY <1>25 DEF SetTime
<1>26. CASE ReadTime
  BY <1>26 DEF ReadTime
<1>27. CASE WriteTime
  BY <1>27 DEF WriteTime
<1>28. CASE CmdLoop \/ CmdLine \/ CmdQuit
  BY <1>28 DEF CmdLoop, CmdLine, CmdQuit, Disconnect
<1>29. CASE UNCHANGED vars
  BY <1>29 DEF vars
<1> QED
  BY <1>1, <1>2, <1>3, <1>4, <1>5, <1>6, <1>7, <1>8, <1>9, <1>10, <1>11,
     <1>12, <1>13, <1>14, <1>15, <1>16, <1>17, <1>18, <1>19, <1>20, <1>21,
     <1>22, <1>23, <1>24, <1>25, <1>26, <1>27, <1>28, <1>29
     DEF Next, Terminated, MainSteps, ListenerSteps, CmdSteps, Lines,
         ConnectSteps, UpdateSteps, Arrivals, DisconnectSteps, Threads

(* The process is ended by std::terminate() in one way only: the listener  *)
(* itself ran disconnect().  However the main and the command thread race  *)
(* to disconnect, one of them has joined the listener before the client is *)
(* destroyed (Client.cpp:74-98, client/main.cpp:181-187).                  *)
THEOREM ListenerIsJoined == Spec => []AbortOnlyAfterSelfJoin
<1>1. Init => JoinInv
  BY DEF Init, JoinInv, AbortOnlyAfterSelfJoin
<1>2. TypeInv /\ ConnectInv /\ JoinInv /\ [Next]_vars => JoinInv'
  <2> SUFFICES ASSUME TypeInv, ConnectInv, JoinInv, [Next]_vars
               PROVE  JoinInv'
    OBVIOUS
  <2>1. CASE Ended
    <3>1. UNCHANGED vars
      BY <2>1 DEF Next, Terminated
    <3> QED
      BY <3>1 DEF vars, JoinInv, AbortOnlyAfterSelfJoin, Joining
  <2> QED
    BY <2>1, JoinStep
<1>3. JoinInv => AbortOnlyAfterSelfJoin
  BY DEF JoinInv
<1> QED
  BY <1>1, <1>2, <1>3, TypeInvariant, ConnectInvariant, PTL DEF Spec

-----------------------------------------------------------------------------
(* The silence s of the server, measured by the clock t from the last      *)
(* heartbeat l: exact, or short of what passed before the only wrap.       *)
Measured(t, l, s) ==
    /\ 0 <= l /\ l <= t
    /\ t - l <= s /\ s <= t - l + ClientTimeout + MaxStep
    /\ s = t - l \/ l <= MaxStep

(* The same, with at most one iteration since it was last below the limit. *)
Pending(t, l, s) == Measured(t, l, s) /\ t - l <= ClientTimeout + MaxStep

(* At each line of update(), if the last heartbeat was recorded in one     *)
(* piece.                                                                  *)
UpdateInv ==
    /\ (pc.main = "loop" /\ m_connected) =>
          /\ Measured(m_serverTime, m_lastHeartbeat, silence)
          /\ m_serverTime - m_lastHeartbeat <= ClientTimeout
    /\ pc.main = "tick" => Pending(loaded.main, m_lastHeartbeat, silence)
    /\ pc.main \in {"check", "compare", "thenTime", "thenHeartbeat"} =>
          Pending(m_serverTime, m_lastHeartbeat, silence)
    /\ pc.main = "thenTime" => loaded.main = m_lastHeartbeat
    /\ pc.main = "thenHeartbeat" => loaded.main = m_serverTime
    /\ pc.main \in {"wrap", "subtract", "reread", "restamp"} =>
          silence <= ClientTimeout + MaxStep
    /\ pc.main = "wrap" => m_serverTime - HighestTimestamp \in 1..MaxStep
    /\ pc.main \in {"subtract", "restamp"} => loaded.main \in 1..MaxStep
    /\ pc.main \in {"reread", "restamp"} => m_serverTime \in 1..MaxStep
    /\ pc.main = "restamp" => loaded.main = m_serverTime

ClocksInv ==
    ~torn =>
      /\ pc.main \in {"connect", "spawn", "setConnected", "read", "stamp"} =>
            m_serverTime = 0 /\ silence = 0 /\ ~ListenerUsesClocks
      /\ pc.main = "stamp" => loaded.main = 0
      /\ ListenerUsesClocks =>
            ~MainUsesClocks /\ silence = 0 /\ m_serverTime >= 0
      /\ pc.listener = "writeTime" => loaded.listener = m_serverTime
      /\ ~ListenerUsesClocks => UpdateInv

LEMMA ElapsedIsDifference ==
    ASSUME TypeInv, ClocksInv, Comparing, ~torn, ~ListenerUsesClocks
    PROVE  Elapsed = m_serverTime - m_lastHeartbeat
<1>1. /\ 0 <= m_lastHeartbeat /\ m_lastHeartbeat <= m_serverTime
      /\ loaded.main = IF pc.main = "thenTime" THEN m_lastHeartbeat
                                               ELSE m_serverTime
  BY DEF ClocksInv, UpdateInv, Comparing, Pending, Measured
<1>2. m_serverTime <= HighestTimestamp
  BY DEF TypeInv, Comparing
<1>3. m_serverTime \in Int /\ m_lastHeartbeat \in Int
  BY TimingAssumption DEF TypeInv, Times
<1>4. /\ Narrow(m_serverTime) = m_serverTime
      /\ Narrow(m_lastHeartbeat) = m_lastHeartbeat
  BY <1>1, <1>2, <1>3, TimingAssumption DEF Narrow
<1> QED
  BY <1>1, <1>3, <1>4 DEF Elapsed, Comparing

LEMMA ClocksStep ==
    ASSUME TypeInv, ConnectInv, ClocksInv, [Next]_vars
    PROVE  ClocksInv'
<1> pc \in [main : MainPlaces, listener : ListenerPlaces, cmd : CmdPlaces]
  BY DEF TypeInv
<1> USE TimingAssumption
    DEF TypeInv, Times, ConnectInv, ClocksInv, UpdateInv, Pending, Measured,
        MainUsesClocks, ListenerUsesClocks, MainPlaces, ListenerPlaces,
        CmdPlaces, Goto, Loaded, connection, clocks
<1>1. CASE ConnectFails
  BY <1>1 DEF ConnectFails
<1>2. CASE ConnectUdp
  BY <1>2 DEF ConnectUdp
<1>3. CASE ConnectTcp
  BY <1>3 DEF ConnectTcp
<1>4. CASE ConnectSpawn
  BY <1>4 DEF ConnectSpawn
<1>5. CASE ConnectSet
  BY <1>5 DEF ConnectSet
<1>6. CASE ConnectRead
  BY <1>6 DEF ConnectRead
<1>7. CASE ConnectStamp
  BY <1>7 DEF ConnectStamp
<1>8. ASSUME NEW dt \in 0..MaxStep, UpdateRead(dt) PROVE ClocksInv'
  <2>1. /\ pc.main = "loop" /\ m_connected
        /\ pc' = [pc EXCEPT !.main = "tick"]
        /\ loaded' = [loaded EXCEPT !.main = m_serverTime + dt]
        /\ silence' = IF silence > HighestTimestamp THEN silence
                                                   ELSE silence + dt
        /\ torn' = (torn \/ ListenerUsesClocks)
        /\ UNCHANGED <<m_serverTime, m_lastHeartbeat>>
    BY <1>8 DEF UpdateRead
  <2> SUFFICES ASSUME ~torn' PROVE ClocksInv'
    OBVIOUS
  <2>2. /\ Measured(m_serverTime, m_lastHeartbeat, silence)
        /\ m_serverTime - m_lastHeartbeat <= ClientTimeout
    BY <2>1
  <2>3. pc'.main = "tick" /\ pc'.listener = pc.listener
    BY <2>1
  <2>4. loaded'.main = m_serverTime + dt /\ silence' = silence + dt
    BY <2>1, <2>2
  <2>5. /\ Measured(loaded'.main, m_lastHeartbeat', silence')
        /\ loaded'.main - m_lastHeartbeat' <= ClientTimeout + MaxStep
    BY <2>1, <2>2, <2>4
  <2> QED
    BY <2>1, <2>3, <2>5
<1>9. CASE UpdateWrite
  BY <1>9 DEF UpdateWrite
<1>10. CASE UpdateCheck
  <2> SUFFICES ASSUME ~torn' PROVE ClocksInv'
    OBVIOUS
  <2>1. /\ pc.main = "check" /\ ~torn
        /\ UNCHANGED <<m_serverTime, m_lastHeartbeat, silence, torn,
                       m_connected, loaded>>
        /\ pc' = [pc EXCEPT !.main = IF Narrow(m_serverTime) < 0 THEN "wrap"
                                                              ELSE "compare"]
    BY <1>10 DEF UpdateCheck
  <2>2. /\ ~ListenerUsesClocks
        /\ Pending(m_serverTime, m_lastHeartbeat, silence)
    BY <2>1
  <2>3. CASE Narrow(m_serverTime) < 0
    <3>1. m_serverTime - HighestTimestamp \in 1..MaxStep
      BY <2>2, <2>3 DEF Narrow
    <3>2. silence <= ClientTimeout + MaxStep
      BY <2>2, <3>1
    <3>3. pc'.main = "wrap" /\ pc'.listener = pc.listener
      BY <2>1, <2>3
    <3> QED
      BY <2>1, <2>2, <3>1, <3>2, <3>3
  <2>4. CASE ~(Narrow(m_serverTime) < 0)
    <3>1. pc'.main = "compare" /\ pc'.listener = pc.listener
      BY <2>1, <2>4
    <3> QED
      BY <2>1, <2>2, <3>1
  <2> QED
    BY <2>3, <2>4
<1>11. CASE UpdateReadAgain
  BY <1>11 DEF UpdateReadAgain
<1>12. CASE UpdateWrap
  BY <1>12 DEF UpdateWrap
<1>13. CASE UpdateReread
  BY <1>13 DEF UpdateReread
<1>14. CASE UpdateRestamp
  BY <1>14 DEF UpdateRestamp
<1>15. CASE UpdateCompare
  BY <1>15 DEF UpdateCompare
<1>16. CASE UpdateDecide
  <2> SUFFICES ASSUME ~torn' PROVE ClocksInv'
    OBVIOUS
  <2>1. /\ pc.main \in {"thenTime", "thenHeartbeat"} /\ ~torn
        /\ UNCHANGED <<m_serverTime, m_lastHeartbeat, silence, torn,
                       m_connected>>
        /\ loaded' = [loaded EXCEPT !.main = 0]
    BY <1>16 DEF UpdateDecide, Disconnect, Comparing
  <2>2. /\ ~ListenerUsesClocks
        /\ Pending(m_serverTime, m_lastHeartbeat, silence)
    BY <2>1
  <2>6. Comparing
    BY <2>1 DEF Comparing
  <2>3. Elapsed = m_serverTime - m_lastHeartbeat
    BY <2>1, <2>2, <2>6, ElapsedIsDifference
  <2>4. TimedOut(Elapsed) = {Elapsed > ClientTimeout}
    BY <2>2, <2>3 DEF TimedOut
  <2>5. /\ pc'.listener = pc.listener
        /\ pc'.main = IF Elapsed > ClientTimeout /\ m_connected
                      THEN "close" ELSE "loop"
    BY <1>16, <2>4 DEF UpdateDecide, Disconnect
  <2> QED
    BY <2>1, <2>2, <2>3, <2>5
<1>17. CASE MainExit
  BY <1>17 DEF MainExit
<1>18. ASSUME NEW thread \in Threads, CloseSocket(thread) PROVE ClocksInv'
  BY <1>18 DEF CloseSocket, Threads
<1>19. ASSUME NEW thread \in Threads, ClearConnected(thread) PROVE ClocksInv'
  BY <1>19 DEF ClearConnected, Threads
<1>20. ASSUME NEW thread \in Threads, Join(thread) PROVE ClocksInv'
  BY <1>20 DEF Join, Threads, Return
<1>21. ASSUME NEW thread \in Threads, Joined(thread) PROVE ClocksInv'
  BY <1>21 DEF Joined, Threads, Return
<1>22. CASE ListenLoop
  BY <1>22 DEF ListenLoop
<1>23. ASSUME NEW timestamp \in Timestamps, ReceiveHeartbeat(timestamp)
      PROVE  ClocksInv'
  BY <1>23 DEF ReceiveHeartbeat
<1>24. CASE ReceiveDisconnect \/ ReceiveOther
  BY <1>24 DEF ReceiveDisconnect, ReceiveOther, Disconnect
<1>25. CASE SetTime
  <2>1. /\ pc'.main = pc.main /\ pc'.listener = "readTime"
        /\ m_serverTime' = loaded.listener /\ silence' = 0
        /\ torn' = MainUsesClocks
    BY <1>25 DEF SetTime
  <2>2. loaded.listener >= 0
    BY <1>25 DEF SetTime
  <2>3. pc.main \notin {"connect", "spawn", "setConnected"}
    BY <1>25 DEF SetTime
  <2> QED
    BY <2>1, <2>2, <2>3
<1>26. CASE ReadTime
  BY <1>26 DEF ReadTime
<1>27. CASE WriteTime
  BY <1>27 DEF WriteTime
<1>28. CASE CmdLoop \/ CmdLine \/ CmdQuit
  BY <1>28 DEF CmdLoop, CmdLine, CmdQuit, Disconnect
<1>29. CASE UNCHANGED vars
  BY <1>29 DEF vars
<1> QED
  BY <1>1, <1>2, <1>3, <1>4, <1>5, <1>6, <1>7, <1>8, <1>9, <1>10, <1>11,
     <1>12, <1>13, <1>14, <1>15, <1>16, <1>17, <1>18, <1>19, <1>20, <1>21,
     <1>22, <1>23, <1>24, <1>25, <1>26, <1>27, <1>28, <1>29
     DEF Next, Terminated, MainSteps, ListenerSteps, CmdSteps, Lines,
         ConnectSteps, UpdateSteps, Arrivals, DisconnectSteps, Threads

(* At each line of update() the two clocks tell the silence of the server, *)
(* as far as one wrap lets them (Client.cpp:227-242).                      *)
THEOREM ClocksInvariant == Spec => []ClocksInv
<1>1. Init => ClocksInv
  BY DEF Init, ClocksInv, UpdateInv, ListenerUsesClocks
<1>2. TypeInv /\ ConnectInv /\ ClocksInv /\ [Next]_vars => ClocksInv'
  BY ClocksStep
<1> QED
  BY <1>1, <1>2, TypeInvariant, ConnectInvariant, PTL DEF Spec

(* What line 237 compares with ClientTimeout, in the states where the two  *)
(* threads have not met in the clocks.                                     *)
LEMMA ElapsedMeasures == TypeInv /\ ClocksInv => SilenceMeasured
<1> SUFFICES ASSUME TypeInv, ClocksInv, Comparing, ~torn, ~ListenerUsesClocks
             PROVE  /\ Elapsed <= silence
                    /\ silence <= Elapsed + ClientTimeout + MaxStep
  BY DEF SilenceMeasured
<1>1. Measured(m_serverTime, m_lastHeartbeat, silence)
  BY DEF ClocksInv, UpdateInv, Pending, Comparing
<1>2. Elapsed = m_serverTime - m_lastHeartbeat
  BY ElapsedIsDifference
<1> QED
  BY <1>1, <1>2 DEF Measured

(* For every clock and every timeout that fits into half of it: a silence  *)
(* that was measured in one piece is never overstated, and understated by  *)
(* what passed before one wrap (Client.cpp:227-242).                       *)
THEOREM SilenceIsMeasured == Spec => []SilenceMeasured
BY ElapsedMeasures, TypeInvariant, ClocksInvariant, PTL

(* "Client has timed out" is a false report only when the listener was     *)
(* recording a heartbeat while update() was using the two clocks: the race *)
(* of Client.cpp:146-147 with 230-237 is the only cause.                   *)
THEOREM FalseTimeoutsAreTorn ==
    Spec => [](TimeoutMeansSilence \/ torn \/ ListenerUsesClocks)
<1>1. TypeInv /\ ClocksInv /\ SilenceMeasured =>
         TimeoutMeansSilence \/ torn \/ ListenerUsesClocks
  <2> SUFFICES ASSUME TypeInv, ClocksInv, SilenceMeasured, Comparing,
                      Elapsed > ClientTimeout, ~torn, ~ListenerUsesClocks
               PROVE  silence > ClientTimeout
    BY DEF TimeoutMeansSilence
  <2>1. Elapsed <= silence
    BY DEF SilenceMeasured
  <2>2. Elapsed \in Int /\ silence \in Int
    BY ElapsedIsDifference, TimingAssumption DEF TypeInv, Times
  <2> QED
    BY <2>1, <2>2, TimingAssumption
<1> QED
  BY <1>1, SilenceIsMeasured, TypeInvariant, ClocksInvariant, PTL
=============================================================================
