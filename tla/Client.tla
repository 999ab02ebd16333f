------------------------------- MODULE Client -------------------------------
(***************************************************************************)
(* The chat client of src/client/Client.cpp and src/client/main.cpp: one   *)
(* process with three threads that share m_connected, the two clocks, the  *)
(* socket and the thread handle, none of them under m_clientMutex.         *)
(*                                                                         *)
(*   main      connect(), then while (isConnected) update(), then the      *)
(*             destructor                                                  *)
(*   listener  udpListen() or tcpListen()                                  *)
(*   cmd       commandProcess(): reads lines, "!quit" -> disconnect()      *)
(*                                                                         *)
(* Each read and each write of m_serverTime and m_lastHeartbeat, which the *)
(* listener and update() share, is a step of its own, and so is each test  *)
(* of a line that reads them again.  The server and the network are the    *)
(* environment: they may send anything at any time, or nothing.            *)
(***************************************************************************)
EXTENDS Integers

CONSTANTS
    Protocols,          \* the protocols the user may choose
    HighestTimestamp,   \* NetworkDefinitions.h: 2147483647 = 2^31 - 1
    ClientTimeout,      \* NetworkDefinitions.h: 10000
    MaxStep,            \* bound: the longest iteration of the main loop
    Timestamps          \* bound: the server times a heartbeat may carry

ASSUME ProtocolsAssumption == Protocols \subseteq {"TCP", "UDP"}

ASSUME TimingAssumption ==
    /\ HighestTimestamp \in Nat /\ ClientTimeout \in Nat
    /\ MaxStep \in Nat \ {0}
    /\ 2 * (ClientTimeout + MaxStep) <= HighestTimestamp
    /\ Timestamps \subseteq 0..HighestTimestamp

VARIABLES
    m_protocol, m_connected,
    m_serverTime, m_lastHeartbeat,
    socketOpen,     \* the socket has not been closed by disconnect()
    joinable,       \* m_clientThread.joinable()
    pc,             \* where each thread is
    loaded,         \* the sf::Time a thread has read and not yet used
    silence,        \* history: clock advance since the last setTime(),
                    \* counted until it is past HighestTimestamp
    torn,           \* history: the last heartbeat was recorded while
                    \* update() or connect() was using the clocks
    selfJoin        \* history: disconnect() ran on the listener thread

vars == <<m_protocol, m_connected, m_serverTime, m_lastHeartbeat, socketOpen,
          joinable, pc, loaded, silence, torn, selfJoin>>

clocks == <<m_serverTime, m_lastHeartbeat, loaded, silence, torn>>
connection == <<m_connected, socketOpen, joinable, selfJoin>>

Threads == {"main", "listener", "cmd"}

(* Inside update(), or in the last line of connect().                      *)
MainUsesClocks ==
    pc.main \in {"read", "stamp", "tick", "check", "wrap", "subtract",
                 "reread", "restamp", "compare", "thenTime", "thenHeartbeat"}

(* Between setTime() and the assignment to m_lastHeartbeat.                *)
ListenerUsesClocks == pc.listener \in {"readTime", "writeTime"}

Goto(thread, place) == pc' = [pc EXCEPT ![thread] = place]

Loaded(thread, time) == loaded' = [loaded EXCEPT ![thread] = time]

(* sf::Time::asMilliseconds(), which narrows to 32 bits, on the times the  *)
(* clocks can take (see TypeOK).                                           *)
Narrow(t) ==
    CASE t > HighestTimestamp -> t - 2 * (HighestTimestamp + 1)
      [] t < -(HighestTimestamp + 1) -> t + 2 * (HighestTimestamp + 1)
      [] OTHER -> t

(* Line 237 subtracts two readings, taken in either order; the second one  *)
(* is still to be read.                                                    *)
Comparing == pc.main \in {"thenTime", "thenHeartbeat"}

Elapsed ==
    IF pc.main = "thenTime" THEN Narrow(m_serverTime) - Narrow(loaded.main)
                            ELSE Narrow(loaded.main) - Narrow(m_lastHeartbeat)

(* What the comparison can yield: a difference that overflows 32 bits is   *)
(* undefined behaviour, and anything goes.                                 *)
TimedOut(elapsed) ==
    IF elapsed \in -(HighestTimestamp + 1)..HighestTimestamp
    THEN {elapsed > ClientTimeout}
    ELSE BOOLEAN

-----------------------------------------------------------------------------
Init ==
    /\ m_protocol \in Protocols
    /\ m_connected = FALSE
    /\ m_serverTime = 0 /\ m_lastHeartbeat = 0
    /\ socketOpen = TRUE
    /\ joinable = FALSE
    /\ pc = [main |-> "connect", listener |-> "none", cmd |-> "none"]
    /\ loaded = [main |-> 0, listener |-> 0]
    /\ silence = 0
    /\ torn = FALSE /\ selfJoin = FALSE

-----------------------------------------------------------------------------
(* Client::connect().                                                      *)

(* No answer within CONNECT_TIMEOUT, or an error: main() ends.             *)
ConnectFails ==
    /\ pc.main = "connect"
    /\ Goto("main", "exited")
    /\ UNCHANGED <<m_protocol, connection, clocks>>

(* UDP: the server answered Connect; m_connected, then the thread.         *)
ConnectUdp ==
    /\ pc.main = "connect" /\ m_protocol = "UDP"
    /\ m_connected' = TRUE
    /\ Goto("main", "spawn")
    /\ UNCHANGED <<m_protocol, socketOpen, joinable, selfJoin, clocks>>

(* TCP: the thread, then m_connected (lines 67-69).                        *)
ConnectTcp ==
    /\ pc.main = "connect" /\ m_protocol = "TCP"
    /\ joinable' = TRUE
    /\ pc' = [pc EXCEPT !.main = "setConnected", !.listener = "loop"]
    /\ UNCHANGED <<m_protocol, m_connected, socketOpen, selfJoin, clocks>>

ConnectSpawn ==
    /\ pc.main = "spawn"
    /\ joinable' = TRUE
    /\ pc' = [pc EXCEPT !.main = "read", !.listener = "loop"]
    /\ UNCHANGED <<m_protocol, m_connected, socketOpen, selfJoin, clocks>>

ConnectSet ==
    /\ pc.main = "setConnected"
    /\ m_connected' = TRUE
    /\ Goto("main", "read")
    /\ UNCHANGED <<m_protocol, socketOpen, joinable, selfJoin, clocks>>

(* m_lastHeartbeat = m_serverTime, the listener running already; then      *)
(* main() starts the command thread.                                       *)
ConnectRead ==
    /\ pc.main = "read"
    /\ Loaded("main", m_serverTime)
    /\ Goto("main", "stamp")
    /\ UNCHANGED <<m_protocol, connection, m_serverTime, m_lastHeartbeat,
                   silence, torn>>

ConnectStamp ==
    /\ pc.main = "stamp"
    /\ m_lastHeartbeat' = loaded.main
    /\ Loaded("main", 0)
    /\ pc' = [pc EXCEPT !.main = "loop", !.cmd = "loop"]
    /\ UNCHANGED <<m_protocol, connection, m_serverTime, silence, torn>>

-----------------------------------------------------------------------------
(* Client::disconnect(), called by any of the three threads.               *)

(* The test of m_connected; without a connection the caller goes on.       *)
Disconnect(thread, otherwise) ==
    Goto(thread, IF m_connected THEN "close" ELSE otherwise)

(* Where the caller goes on: commandProcess() leaves its loop.             *)
Return(thread) == Goto(thread, IF thread = "cmd" THEN "done" ELSE "loop")

CloseSocket(thread) ==
    /\ pc[thread] = "close"
    /\ socketOpen' = FALSE
    /\ selfJoin' = (selfJoin \/ thread = "listener")
    /\ Goto(thread, "flag")
    /\ UNCHANGED <<m_protocol, m_connected, joinable, clocks>>

(* Mutant: m_connected stays set.                                          *)
ClearConnectedUnsaid(thread) ==
    /\ pc[thread] = "flag"
    /\ Goto(thread, "join")
    /\ UNCHANGED <<m_protocol, connection, clocks>>

ClearConnected(thread) ==
    /\ pc[thread] = "flag"
    /\ m_connected' = FALSE
    /\ Goto(thread, "join")
    /\ UNCHANGED <<m_protocol, socketOpen, joinable, selfJoin, clocks>>

(* Mutant: the flag is cleared, the thread is not joined.                  *)
JoinDetached(thread) ==
    /\ pc[thread] = "join"
    /\ Return(thread)
    /\ UNCHANGED <<m_protocol, connection, clocks>>

(* join() throws, and disconnect() returns, when the thread joins itself   *)
(* or another thread is already joining it.                                *)
Join(thread) ==
    /\ pc[thread] = "join"
    /\ IF joinable /\ thread # "listener"
          /\ \A other \in Threads : pc[other] # "joining"
       THEN Goto(thread, "joining")
       ELSE Return(thread)
    /\ UNCHANGED <<m_protocol, connection, clocks>>

Joined(thread) ==
    /\ pc[thread] = "joining" /\ pc.listener = "done"
    /\ joinable' = FALSE
    /\ Return(thread)
    /\ UNCHANGED <<m_protocol, m_connected, socketOpen, selfJoin, clocks>>

DisconnectSteps(thread) ==
    \/ CloseSocket(thread) \/ ClearConnected(thread)
    \/ Join(thread) \/ Joined(thread)

-----------------------------------------------------------------------------
(* main(): Client::update() while connected.                               *)

(* Line 230 reads the clock; the loop has waited dt milliseconds.          *)
UpdateRead(dt) ==
    /\ pc.main = "loop" /\ m_connected
    /\ Loaded("main", m_serverTime + dt)
    /\ silence' = IF silence > HighestTimestamp THEN silence ELSE silence + dt
    /\ torn' = (torn \/ ListenerUsesClocks)
    /\ Goto("main", "tick")
    /\ UNCHANGED <<m_protocol, connection, m_serverTime, m_lastHeartbeat>>

UpdateWrite ==
    /\ pc.main = "tick"
    /\ m_serverTime' = loaded.main
    /\ Loaded("main", 0)
    /\ Goto("main", "check")
    /\ UNCHANGED <<m_protocol, connection, m_lastHeartbeat, silence, torn>>

(* Line 231: the test reads the clock once...                              *)
UpdateCheck ==
    /\ pc.main = "check"
    /\ Goto("main", IF Narrow(m_serverTime) < 0 THEN "wrap" ELSE "compare")
    /\ UNCHANGED <<m_protocol, connection, clocks>>

(* ...and line 232 reads it again: the listener may have set it in between.*)
UpdateReadAgain ==
    /\ pc.main = "wrap"
    /\ Loaded("main", m_serverTime - HighestTimestamp)
    /\ Goto("main", "subtract")
    /\ UNCHANGED <<m_protocol, connection, m_serverTime, m_lastHeartbeat,
                   silence, torn>>

(* Mutant: the wrap leaves m_lastHeartbeat as it is.                       *)
UpdateWrapOnly ==
    /\ pc.main = "subtract"
    /\ m_serverTime' = loaded.main
    /\ Loaded("main", 0)
    /\ Goto("main", "loop")
    /\ UNCHANGED <<m_protocol, connection, m_lastHeartbeat, silence, torn>>

(* Mutant: the wrap leaves m_serverTime as it is.                          *)
UpdateWrapForgotten ==
    /\ pc.main = "subtract"
    /\ Loaded("main", 0)
    /\ Goto("main", "reread")
    /\ UNCHANGED <<m_protocol, connection, m_serverTime, m_lastHeartbeat,
                   silence, torn>>

UpdateWrap ==
    /\ pc.main = "subtract"
    /\ m_serverTime' = loaded.main
    /\ Loaded("main", 0)
    /\ Goto("main", "reread")
    /\ UNCHANGED <<m_protocol, connection, m_lastHeartbeat, silence, torn>>

(* Line 233: m_lastHeartbeat = m_serverTime.                               *)
UpdateReread ==
    /\ pc.main = "reread"
    /\ Loaded("main", m_serverTime)
    /\ Goto("main", "restamp")
    /\ UNCHANGED <<m_protocol, connection, m_serverTime, m_lastHeartbeat,
                   silence, torn>>

UpdateRestamp ==
    /\ pc.main = "restamp"
    /\ m_lastHeartbeat' = loaded.main
    /\ Loaded("main", 0)
    /\ Goto("main", "loop")
    /\ UNCHANGED <<m_protocol, connection, m_serverTime, silence, torn>>

(* Line 237: one reading, then the other and the decision.                 *)
UpdateCompare ==
    /\ pc.main = "compare"
    /\ \/ Loaded("main", m_serverTime) /\ Goto("main", "thenHeartbeat")
       \/ Loaded("main", m_lastHeartbeat) /\ Goto("main", "thenTime")
    /\ UNCHANGED <<m_protocol, connection, m_serverTime, m_lastHeartbeat,
                   silence, torn>>

(* Mutant: the two clocks are subtracted the wrong way round.              *)
UpdateDecideSwapped ==
    /\ Comparing
    /\ Loaded("main", 0)
    /\ IF TRUE \in TimedOut(-Elapsed) THEN Disconnect("main", "loop")
                                      ELSE Goto("main", "loop")
    /\ UNCHANGED <<m_protocol, connection, m_serverTime, m_lastHeartbeat,
                   silence, torn>>

UpdateDecide ==
    /\ Comparing
    /\ Loaded("main", 0)
    /\ \E timedOut \in TimedOut(Elapsed) :
          IF timedOut THEN Disconnect("main", "loop") ELSE Goto("main", "loop")
    /\ UNCHANGED <<m_protocol, connection, m_serverTime, m_lastHeartbeat,
                   silence, torn>>

(* The loop ends; main() joins the command thread and destroys the client: *)
(* a thread that is still joinable ends the process in std::terminate().   *)
MainExit ==
    /\ \/ pc.main = "loop" /\ ~m_connected /\ Goto("main", "joinCmd")
       \/ /\ pc.main = "joinCmd" /\ pc.cmd = "done"
          /\ Goto("main", IF joinable THEN "aborted" ELSE "exited")
    /\ UNCHANGED <<m_protocol, connection, clocks>>

-----------------------------------------------------------------------------
(* Client::udpListen() and Client::tcpListen().                            *)

(* while (m_connected); receive() blocks, or fails at once on a socket     *)
(* that is closed.                                                         *)
ListenLoop ==
    /\ pc.listener = "loop"
    /\ \/ ~m_connected /\ Goto("listener", "done")
       \/ m_connected /\ socketOpen /\ Goto("listener", "recv")
       \/ m_connected /\ ~socketOpen /\ Goto("listener", "loop")
    /\ UNCHANGED <<m_protocol, connection, clocks>>

(* A heartbeat arrives; closing the socket does not call back a receive()  *)
(* that already blocks.                                                    *)
ReceiveHeartbeat(timestamp) ==
    /\ pc.listener = "recv"
    /\ Loaded("listener", timestamp)
    /\ Goto("listener", "setTime")
    /\ UNCHANGED <<m_protocol, connection, m_serverTime, m_lastHeartbeat,
                   silence, torn>>

(* Disconnect, or the end of a TCP connection.                             *)
ReceiveDisconnect ==
    /\ pc.listener = "recv"
    /\ Disconnect("listener", "loop")
    /\ UNCHANGED <<m_protocol, connection, clocks>>

(* Any other packet, one that is dropped, or an error.                     *)
ReceiveOther ==
    /\ pc.listener = "recv"
    /\ Goto("listener", "loop")
    /\ UNCHANGED <<m_protocol, connection, clocks>>

(* Line 146.                                                               *)
SetTime ==
    /\ pc.listener = "setTime"
    /\ m_serverTime' = loaded.listener
    /\ silence' = 0
    /\ torn' = MainUsesClocks
    /\ Goto("listener", "readTime")
    /\ Loaded("listener", 0)
    /\ UNCHANGED <<m_protocol, connection, m_lastHeartbeat>>

(* Line 147: m_lastHeartbeat = m_serverTime.                               *)
ReadTime ==
    /\ pc.listener = "readTime"
    /\ Loaded("listener", m_serverTime)
    /\ Goto("listener", "writeTime")
    /\ UNCHANGED <<m_protocol, connection, m_serverTime, m_lastHeartbeat,
                   silence, torn>>

WriteTime ==
    /\ pc.listener = "writeTime"
    /\ m_lastHeartbeat' = loaded.listener
    /\ Loaded("listener", 0)
    /\ Goto("listener", "loop")
    /\ UNCHANGED <<m_protocol, connection, m_serverTime, silence, torn>>

-----------------------------------------------------------------------------
(* commandProcess().  The packets its commands send are in Accounts.       *)

CmdLoop ==
    /\ pc.cmd = "loop"
    /\ Goto("cmd", IF m_connected THEN "getline" ELSE "done")
    /\ UNCHANGED <<m_protocol, connection, clocks>>

CmdLine ==
    /\ pc.cmd = "getline"
    /\ Goto("cmd", "loop")
    /\ UNCHANGED <<m_protocol, connection, clocks>>

CmdQuit ==
    /\ pc.cmd = "getline"
    /\ Disconnect("cmd", "done")
    /\ UNCHANGED <<m_protocol, connection, clocks>>

-----------------------------------------------------------------------------
ConnectSteps ==
    ConnectFails \/ ConnectUdp \/ ConnectTcp \/ ConnectSpawn \/ ConnectSet
      \/ ConnectRead \/ ConnectStamp

UpdateSteps ==
    \/ \E dt \in 0..MaxStep : UpdateRead(dt)
    \/ UpdateWrite \/ UpdateCheck
    \/ UpdateReadAgain \/ UpdateWrap \/ UpdateReread \/ UpdateRestamp
    \/ UpdateCompare \/ UpdateDecide

Arrivals ==
    \/ \E timestamp \in Timestamps : ReceiveHeartbeat(timestamp)
    \/ ReceiveDisconnect
    \/ ReceiveOther

MainSteps == ConnectSteps \/ UpdateSteps \/ MainExit \/ DisconnectSteps("main")

ListenerSteps ==
    ListenLoop \/ SetTime \/ ReadTime \/ WriteTime \/ DisconnectSteps("listener")

CmdSteps == CmdLoop \/ DisconnectSteps("cmd")

Lines == CmdLine \/ CmdQuit

Ended == pc.main \in {"exited", "aborted"}

Terminated == Ended /\ UNCHANGED vars

(* The threads of an ended process take no step.                           *)
Next ==
    \/ /\ ~Ended
       /\ MainSteps \/ ListenerSteps \/ Arrivals \/ CmdSteps \/ Lines
    \/ Terminated

(* The scheduler runs every thread and time passes; the server owes        *)
(* nothing, nor does the user, nor a receive() that blocks.                *)
Fairness ==
    /\ SF_vars(~Ended /\ \E dt \in 1..MaxStep : UpdateRead(dt))
    /\ WF_vars(~Ended /\ MainSteps)
    /\ WF_vars(~Ended /\ ListenerSteps)
    /\ WF_vars(~Ended /\ CmdSteps)

Spec == Init /\ [][Next]_vars /\ Fairness

-----------------------------------------------------------------------------
(* Properties.                                                             *)

(* Every variable holds a value of its C++ type, the threads are at points *)
(* of their own code.  The clocks go below 0 when a heartbeat arrives      *)
(* between lines 231 and 232, and are set back once more from there, but   *)
(* no further: 32 bits narrow every value they take by one addition of     *)
(* 2^32 at most (Client.cpp:146, 230-233).                                 *)
TypeOK ==
    /\ m_protocol \in Protocols
    /\ {m_connected, socketOpen, joinable, torn, selfJoin} \subseteq BOOLEAN
    /\ {m_serverTime, m_lastHeartbeat, loaded.main, loaded.listener}
          \subseteq -(2 * HighestTimestamp + 1)..(HighestTimestamp + MaxStep)
    /\ silence \in 0..(HighestTimestamp + MaxStep)
    /\ pc.main \in {"connect", "spawn", "setConnected", "read", "stamp",
                    "loop", "tick", "check", "wrap", "subtract", "reread",
                    "restamp", "compare", "thenTime", "thenHeartbeat",
                    "close", "flag", "join", "joining", "joinCmd", "exited",
                    "aborted"}
    /\ pc.listener \in {"none", "loop", "recv", "setTime", "readTime",
                        "writeTime", "close", "flag", "join", "done"}
    /\ pc.cmd \in {"none", "loop", "getline", "close", "flag", "join",
                   "joining", "done"}

(* As long as no heartbeat was recorded while update() was using the two   *)
(* clocks, the client never takes the server for more silent than it is,   *)
(* and overlooks at most the silence before one wrap of the clock          *)
(* (Client.cpp:139-147 against 227-242).  m_clientMutex, which nothing     *)
(* locks, would make this unconditional.                                   *)
SilenceMeasured ==
    (Comparing /\ ~torn /\ ~ListenerUsesClocks)
        => /\ Elapsed <= silence
           /\ silence <= Elapsed + ClientTimeout + MaxStep

(* "Client has timed out" (Client.cpp:238) is said of a server that has    *)
(* been silent for ClientTimeout.                                          *)
TimeoutMeansSilence ==
    (Comparing /\ Elapsed > ClientTimeout) => silence > ClientTimeout

(* A connected client whose server sends no more heartbeats, or whose TCP  *)
(* listener ended because it looked at m_connected before connect() had    *)
(* set it (Client.cpp:67-69), does not stay connected: it times out, the   *)
(* wrap of its clock notwithstanding (Client.cpp:227-242).                 *)
SilentServerNoticed ==
    (m_connected /\ pc.main = "loop")
        ~> (~m_connected \/ pc.listener = "readTime")

(* The client object is destroyed with a listener that nobody joined only  *)
(* when it was the listener that called disconnect() and so tried to join  *)
(* itself; in every other case the listener has ended by then              *)
(* (Client.cpp:10, 89-95, 167; client/main.cpp:54-56).                     *)
AbortOnlyAfterSelfJoin ==
    /\ pc.main = "aborted" => selfJoin
    /\ pc.main = "exited" => pc.listener \in {"none", "done"}

(* Once disconnect() has closed the socket the process ends, unless the    *)
(* listener stays in a receive() that the close did not call back, or the  *)
(* command thread waits for a line (Client.cpp:74-98,                      *)
(* client/main.cpp:181-187).                                               *)
DisconnectEnds ==
    <>(~socketOpen)
        => \/ <>Ended
           \/ <>[](pc.listener = "recv")
           \/ <>[](pc.cmd = "getline")
=============================================================================
