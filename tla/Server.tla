------------------------------- MODULE Server -------------------------------
(***************************************************************************)
(* The chat server of src/server/Server.cpp and src/server/main.cpp: the   *)
(* registry of clients (m_clientMap, m_tcpClients), the heartbeat protocol *)
(* that drops silent clients, and the four threads that share it.          *)
(*                                                                         *)
(*   main   main(): while (isRunning) update(clock.restart())              *)
(*   udp    udpListen() with handlePacket() called without the mutex       *)
(*   tcp    tcpListen() with handlePacket() called under the mutex         *)
(*   cmd    commandProcess(): "!quit" -> stop(), "dc" -> disconnectAll()   *)
(*                                                                         *)
(* A step is what a thread does between two points where another thread    *)
(* can see or change what it uses: a critical section of m_clientMutex, an *)
(* access to m_serverTime (read and written without the mutex), an access  *)
(* to the atomic m_running.  stop() clears m_running without the mutex, so *)
(* it can fall between two tests of one critical section too: a section    *)
(* that tests it twice is two steps, the mutex held in between.  Only the  *)
(* main thread writes m_serverTime, and its own test of m_running (286) is *)
(* in one step with the advance of the clock behind it.                    *)
(*   The peers and the network are the environment: any packet can arrive  *)
(* from any address at any time, so loss, delay, duplication and           *)
(* reordering need no action of their own.                                 *)
(*                                                                         *)
(* Time is in milliseconds.  m_serverTime is the 64-bit sf::Time; only     *)
(* asMilliseconds() narrows it to 32 bits.                                 *)
(***************************************************************************)
EXTENDS Integers, Functions

CONSTANTS
    UdpPeers,           \* ip:port pairs that send datagrams
    TcpPeers,           \* ip:port pairs that open TCP connections
    HighestTimestamp,   \* NetworkDefinitions.h: 2147483647 = 2^31 - 1
    ClientTimeout,      \* NetworkDefinitions.h: 10000
    HEARTBEAT_INTERVAL, \* Server.h: 1000
    HEARTBEAT_RETRIES,  \* Server.h: 5
    MaxStep,            \* bound: the longest iteration of the main loop
    MaxConnects         \* bound: connection attempts stop at this m_lastID

(* 10000 and 2^31 - 1 leave room for iterations of twelve days.            *)
ASSUME TimingAssumption ==
    /\ HighestTimestamp \in Nat
    /\ ClientTimeout \in Nat
    /\ HEARTBEAT_INTERVAL \in 1..ClientTimeout
    /\ HEARTBEAT_RETRIES \in Nat \ {0}
    /\ MaxStep \in Nat \ {0}
    /\ 2 * (ClientTimeout + MaxStep) <= HighestTimestamp

ASSUME ConnectsAssumption == MaxConnects \in Nat

VARIABLES
    m_running,      \* std::atomic_bool
    m_serverTime,   \* advanced by update() alone, without the mutex
    m_clientMap,    \* ClientID -> ClientInfo, partial
    m_tcpClients,   \* the ClientIDs that own a TCP socket
    m_lastID,       \* the next ClientID
    socketsOpen,    \* the UDP socket is bound and the TCP listener listens
    main, udp, tcp, cmd,    \* where the threads are, with their locals
    sent,           \* the packets the last step handed to a socket
    notified, mark  \* history: who disconnectAll() addressed, m_lastID then
                    \* (and again at the clear, when it is that of stop())

vars == <<m_running, m_serverTime, m_clientMap, m_tcpClients, m_lastID,
          socketsOpen, main, udp, tcp, cmd, sent, notified, mark>>

registry == <<m_clientMap, m_tcpClients, m_lastID>>
history == <<notified, mark>>

NullID == -1

Peers == UdpPeers \cup TcpPeers

(* PacketType, reduced to what the server tells apart.  Request stands for *)
(* Register, Login, Sql, ChatMessage and Chat, whose contents are in       *)
(* Accounts; Other for the types no branch of handlePacket() names.        *)
Handled == {"Connect", "Disconnect", "Message", "Request", "Other"}
PacketTypes == Handled \cup {"Heartbeat", "Invalid"}

(* silence is a history field: the milliseconds since the client was added *)
(* or its last heartbeat was accepted, by the clock's true advance.        *)
ClientInfo == [m_protocol : {"TCP", "UDP"}, m_peer : Peers,
               m_lastHeartbeat : Int, m_heartbeatWaiting : BOOLEAN,
               m_heartbeatRetry : Nat, silence : Nat]

Clients == DOMAIN m_clientMap

(* tcpListen() holds the mutex from the receive(), which blocks on the     *)
(* network, to the end of the handler.  Every other critical section is    *)
(* one step: a packet is assumed to fit the socket's send buffer.          *)
MutexFree == tcp.pc \in {"loop", "wait", "accepted", "done"}

-----------------------------------------------------------------------------
(* sf::Time::asMilliseconds(), a narrowing to Int32, on the times the      *)
(* clock can take: below 2 * (HighestTimestamp + 1).                       *)
AsMilliseconds(t) ==
    IF t <= HighestTimestamp THEN t ELSE t - 2 * (HighestTimestamp + 1)

Elapsed(info) ==
    AsMilliseconds(m_serverTime) - AsMilliseconds(info.m_lastHeartbeat)

NewClient(protocol, peer) ==
    [m_protocol |-> protocol, m_peer |-> peer,
     m_lastHeartbeat |-> m_serverTime, m_heartbeatWaiting |-> FALSE,
     m_heartbeatRetry |-> 0, silence |-> 0]

FindClient(peer) == {c \in Clients : m_clientMap[c].m_peer = peer}

(* A new entry under m_lastID; on its own, the mutant of AddClient that    *)
(* does not search for the address.                                        *)
AddEntry(protocol, peer) ==
    /\ m_clientMap' = [c \in Clients \cup {m_lastID} |->
                          IF c = m_lastID THEN NewClient(protocol, peer)
                                          ELSE m_clientMap[c]]
    /\ m_lastID' = m_lastID + 1

(* addClient() inside its critical section; an address already in the map  *)
(* gets NullID and leaves the map alone.                                   *)
AddClient(protocol, peer) ==
    IF FindClient(peer) # {}
    THEN UNCHANGED <<m_clientMap, m_lastID>>
    ELSE AddEntry(protocol, peer)

AddedID(peer) == IF FindClient(peer) # {} THEN NullID ELSE m_lastID

EraseClients(cs) == m_clientMap' = Restrict(m_clientMap, Clients \ cs)

(* send() and broadcast() once they have found m_running set: a packet     *)
(* reaches a socket when the client is in the map and, for TCP, its socket *)
(* is still in m_tcpClients.                                               *)
Reached(cs) ==
    {c \in cs \cap Clients :
        m_clientMap[c].m_protocol = "TCP" => c \in m_tcpClients}

PacketsTo(cs, type) == {[to |-> c, type |-> type] : c \in Reached(cs)}

(* The two called with the mutex held already, or by the thread that       *)
(* clears m_running: their test of it and the sending are one step.        *)
Packets(cs, type) == IF m_running THEN PacketsTo(cs, type) ELSE {}

Broadcast(type, ignore) == Packets(Clients \ {ignore}, type)

(* handlePacket(): where the packet of a client leads.                     *)
Branches(type) ==
    CASE type = "Disconnect" -> {"remove"}
      [] type = "Message" -> {"broadcast"}
      [] type = "Request" -> {"send", "loop"}
      [] OTHER -> {"loop"}

(* Mutants: m_heartbeatRetry is not reset; m_lastHeartbeat is not set.      *)
AcceptHeartbeatKeepsRetry(c) ==
    m_clientMap' = [m_clientMap EXCEPT
        ![c].m_lastHeartbeat = m_serverTime, ![c].silence = 0,
        ![c].m_heartbeatWaiting = FALSE]
AcceptHeartbeatKeepsTime(c) ==
    m_clientMap' = [m_clientMap EXCEPT
        ![c].silence = 0, ![c].m_heartbeatRetry = 0,
        ![c].m_heartbeatWaiting = FALSE]

(* An answer counts only while a heartbeat is outstanding.                 *)
AcceptHeartbeat(c) ==
    m_clientMap' =
        IF m_clientMap[c].m_heartbeatWaiting
        THEN [m_clientMap EXCEPT ![c] = NewClient(@.m_protocol, @.m_peer)]
        ELSE m_clientMap

-----------------------------------------------------------------------------
(* main(): start() has succeeded, setUp() has run, the threads exist.      *)
Init ==
    /\ m_running = TRUE
    /\ m_serverTime = 0
    /\ m_clientMap = [c \in {} |-> {}]
    /\ m_tcpClients = {}
    /\ m_lastID = 0
    /\ socketsOpen = TRUE
    /\ main = "loop"
    /\ udp = [pc |-> "loop"]
    /\ tcp = [pc |-> "loop"]
    /\ cmd = "idle"
    /\ sent = {}
    /\ notified = {} /\ mark = 0

-----------------------------------------------------------------------------
(* The main thread: Server::update().                                      *)

MainStep(pc, packets) ==
    /\ main' = pc
    /\ sent' = packets
    /\ UNCHANGED <<m_running, m_tcpClients, m_lastID, socketsOpen, udp, tcp,
                   cmd, history>>

(* Lines 286-288: the clock advances, and its 32-bit reading may go        *)
(* negative.                                                               *)
MainTick(dt) ==
    /\ main = "loop" /\ m_running
    /\ m_serverTime' = m_serverTime + dt
    /\ MainStep(IF AsMilliseconds(m_serverTime') < 0 THEN "wrapped"
                                                     ELSE "scan", {})
    /\ m_clientMap' = [c \in Clients |->
                         [m_clientMap[c] EXCEPT !.silence = @ + dt]]

(* Mutant: set back by the whole 32-bit range.                             *)
MainSetBackTooFar ==
    /\ main = "wrapped"
    /\ m_serverTime' = m_serverTime - 2 * (HighestTimestamp + 1)
    /\ MainStep("mirror", {})
    /\ UNCHANGED m_clientMap

(* Line 289: the clock is set back, still without the mutex.               *)
MainSetBack ==
    /\ main = "wrapped"
    /\ m_serverTime' = m_serverTime - HighestTimestamp
    /\ MainStep("mirror", {})
    /\ UNCHANGED m_clientMap

(* Mutant: the heartbeats are not moved to the new epoch.                  *)
MirrorNothing(lastHeartbeat, sign) == lastHeartbeat

(* abs(lastHeartbeat - HighestTimestamp).  For a reading that is already   *)
(* negative the subtraction overflows: a build that wraps yields t, one    *)
(* that reasons the difference cannot be positive yields -t (sign = -1).   *)
Mirror(lastHeartbeat, sign) ==
    IF AsMilliseconds(lastHeartbeat) >= 0
    THEN HighestTimestamp - AsMilliseconds(lastHeartbeat)
    ELSE sign * (lastHeartbeat - HighestTimestamp)

(* Lines 290-294: every m_lastHeartbeat is mirrored, under the mutex.      *)
MainMirror(sign) ==
    /\ main = "mirror" /\ MutexFree
    /\ m_clientMap' = [c \in Clients |->
                         [m_clientMap[c] EXCEPT !.m_lastHeartbeat =
                                                    Mirror(@, sign)]]
    /\ MainStep("scan", {})
    /\ UNCHANGED m_serverTime

(* Mutant: the two conditions are both required.                           *)
TimedOutWithRetries(info) ==
    /\ Elapsed(info) >= ClientTimeout
    /\ info.m_heartbeatRetry > HEARTBEAT_RETRIES

TimedOut(info) ==
    /\ Elapsed(info) >= HEARTBEAT_INTERVAL
    /\ \/ Elapsed(info) >= ClientTimeout
       \/ info.m_heartbeatRetry > HEARTBEAT_RETRIES

(* Mutant: off by one in the interval.                                     *)
DueForHeartbeatLate(info) ==
    /\ ~info.m_heartbeatWaiting
    /\ Elapsed(info) >= HEARTBEAT_INTERVAL * (info.m_heartbeatRetry + 2)

DueForHeartbeat(info) ==
    /\ Elapsed(info) >= HEARTBEAT_INTERVAL
    /\ ~info.m_heartbeatWaiting
    /\ Elapsed(info) >= HEARTBEAT_INTERVAL * (info.m_heartbeatRetry + 1)

(* What the scan leaves of an entry it keeps.                              *)
Scanned(info) ==
    IF DueForHeartbeat(info)
    THEN [info EXCEPT !.m_heartbeatWaiting = TRUE, !.m_heartbeatRetry = @ + 1]
    ELSE info

(* Mutant: m_clientMutex is not recursive, and send() under the lock of    *)
(* update() never returns.                                                 *)
MainScanSelfLock ==
    /\ main = "scan" /\ MutexFree
    /\ \A c \in Clients : ~DueForHeartbeat(m_clientMap[c])
    /\ m_clientMap' = [c \in {d \in Clients : ~TimedOut(m_clientMap[d])} |->
                          m_clientMap[c]]
    /\ MainStep("loop", {})
    /\ UNCHANGED m_serverTime

(* Lines 297-329: timed-out clients leave the map (not m_tcpClients, and   *)
(* without a Disconnect packet), the others get their heartbeat.  send()   *)
(* tests m_running for each of them, so stop() may cut the heartbeats off. *)
MainScan ==
    /\ main = "scan" /\ MutexFree
    /\ LET kept == {c \in Clients : ~TimedOut(m_clientMap[c])}
           due == {c \in kept : DueForHeartbeat(m_clientMap[c])}
       IN  /\ m_clientMap' = [c \in kept |-> Scanned(m_clientMap[c])]
           /\ \E served \in SUBSET due :
                /\ cmd \notin {"stopSockets", "stopFlag"} => served = due
                /\ MainStep("loop", Packets(served, "Heartbeat"))
    /\ UNCHANGED m_serverTime

(* The loop of main() ends and main() joins the command thread.            *)
MainJoin ==
    /\ \/ main = "loop" /\ ~m_running /\ MainStep("join", {})
       \/ main = "join" /\ cmd = "done" /\ MainStep("done", {})
    /\ UNCHANGED <<m_serverTime, m_clientMap>>

-----------------------------------------------------------------------------
(* The UDP thread: Server::udpListen() and handlePacket().  Its locals are *)
(* the sender, the packet type and the ClientID that getClientID() found.  *)

UdpStep(state, packets) ==
    /\ udp' = state
    /\ sent' = packets
    /\ UNCHANGED <<m_running, m_serverTime, socketsOpen, main, tcp, cmd,
                   history>>

UdpGoto(state) == UdpStep(state, {}) /\ UNCHANGED registry

(* while (m_running); receive() on the closed socket fails at once, on the *)
(* open one it blocks.                                                     *)
UdpLoop ==
    /\ udp.pc = "loop"
    /\ \/ ~m_running /\ UdpGoto([pc |-> "done"])
       \/ m_running /\ socketsOpen /\ UdpGoto([pc |-> "recv"])
       \/ m_running /\ ~socketsOpen /\ UdpGoto([pc |-> "loop"])

(* A datagram arrives.  A connection attempt needs m_lastID below the      *)
(* bound.                                                                  *)
UdpReceive(peer, type) ==
    /\ udp.pc = "recv" /\ socketsOpen
    /\ type = "Connect" => m_lastID < MaxConnects
    /\ UdpGoto(IF type = "Invalid" THEN [pc |-> "loop"]
               ELSE [pc |-> IF type = "Heartbeat" THEN "heartbeat"
                                                  ELSE "lookup",
                     peer |-> peer, type |-> type])

(* unbind() from stop() may or may not wake a receive() already blocked.   *)
UdpReceiveFails ==
    /\ udp.pc = "recv" /\ ~socketsOpen
    /\ UdpGoto([pc |-> IF m_running THEN "loop" ELSE "done"])

UdpHeartbeat ==
    /\ udp.pc = "heartbeat" /\ MutexFree
    /\ IF FindClient(udp.peer) = {}
       THEN UNCHANGED m_clientMap
       ELSE \E c \in FindClient(udp.peer) : AcceptHeartbeat(c)
    /\ UdpStep([pc |-> "loop"], {})
    /\ UNCHANGED <<m_tcpClients, m_lastID>>

(* getClientID() and the branch of handlePacket() it selects.  The test of *)
(* m_running (354) and the critical section are one step: each branch      *)
(* tests m_running again before it does anything.  With NullID there is a  *)
(* branch for Connect only; the answer to a request may be missing: see    *)
(* Accounts.                                                               *)
UdpLookup ==
    /\ udp.pc = "lookup" /\ MutexFree
    /\ \/ /\ m_running
          /\ \E c \in FindClient(udp.peer), pc \in Branches(udp.type) :
                UdpGoto(CASE pc = "loop" -> [pc |-> pc]
                          [] pc = "send" -> [pc |-> pc, peer |-> udp.peer,
                                             cid |-> c, type |-> udp.type]
                          [] OTHER -> [pc |-> pc, peer |-> udp.peer,
                                       cid |-> c])
       \/ /\ ~(m_running /\ FindClient(udp.peer) # {})
          /\ UdpGoto(IF udp.type = "Connect"
                     THEN [pc |-> "addCheck", peer |-> udp.peer]
                     ELSE [pc |-> "loop"])

(* A test of m_running on the way to the step next; a call that returns at *)
(* once leads to the step after it.                                        *)
UdpTest(next, after) ==
    UdpGoto(IF m_running THEN [udp EXCEPT !.pc = next] ELSE after)

(* removeClient(cid) tests m_running before it takes the mutex (388)...    *)
UdpRemove ==
    /\ udp.pc = "remove"
    /\ UdpTest("erase", [udp EXCEPT !.pc = "broadcast"])

(* Mutant: the entry goes first, so that send() no longer finds it.        *)
UdpEraseSilently ==
    /\ udp.pc = "erase" /\ MutexFree
    /\ EraseClients({udp.cid})
    /\ UdpStep([udp EXCEPT !.pc = "broadcast"], {})
    /\ UNCHANGED <<m_tcpClients, m_lastID>>

(* ...and its send() tests it again, after which the client goes in any    *)
(* case (396-397).                                                         *)
UdpErase ==
    /\ udp.pc = "erase" /\ MutexFree
    /\ EraseClients({udp.cid})
    /\ UdpStep([udp EXCEPT !.pc = "broadcast"],
               Packets({udp.cid}, "Disconnect"))
    /\ UNCHANGED <<m_tcpClients, m_lastID>>

(* broadcast(packet, cid): chat text, or "Client n has left."  m_running   *)
(* is tested before the mutex is taken, here and in send().                *)
UdpBroadcast ==
    /\ udp.pc = "broadcast"
    /\ UdpTest("announce", [pc |-> "loop"])

UdpAnnounce ==
    /\ udp.pc = "announce" /\ MutexFree
    /\ UdpStep([pc |-> "loop"],
               PacketsTo(Clients \ {udp.cid}, "Message"))
    /\ UNCHANGED registry

(* send(cid, packet): the answer to a request, or Connect to a new client. *)
UdpSend ==
    /\ udp.pc = "send"
    /\ UdpTest("deliver", [pc |-> "loop"])

UdpDeliver ==
    /\ udp.pc = "deliver" /\ MutexFree
    /\ UdpStep([pc |-> "loop"], PacketsTo({udp.cid}, udp.type))
    /\ UNCHANGED registry

(* addClient() reads m_running before it takes the mutex.                  *)
UdpAddCheck ==
    /\ udp.pc = "addCheck"
    /\ UdpGoto(IF m_running THEN [pc |-> "addInsert", peer |-> udp.peer]
               ELSE [pc |-> "send", peer |-> udp.peer, type |-> "Connect",
                     cid |-> NullID])

UdpAddInsert ==
    /\ udp.pc = "addInsert" /\ MutexFree
    /\ AddClient("UDP", udp.peer)
    /\ UdpStep([pc |-> "send", peer |-> udp.peer, type |-> "Connect",
                cid |-> AddedID(udp.peer)], {})
    /\ UNCHANGED m_tcpClients

-----------------------------------------------------------------------------
(* The TCP thread: Server::tcpListen().                                    *)

TcpStep(state, packets) ==
    /\ tcp' = state
    /\ sent' = packets
    /\ UNCHANGED <<m_running, m_serverTime, socketsOpen, main, udp, cmd,
                   history>>

TcpGoto(state) == TcpStep(state, {}) /\ UNCHANGED registry

TcpLoop ==
    /\ tcp.pc = "loop"
    /\ TcpGoto([pc |-> IF m_running THEN "wait" ELSE "done"])

(* m_selector.wait() times out or fails, or what is ready is not served.   *)
TcpIdle ==
    /\ tcp.pc = "wait"
    /\ TcpGoto([pc |-> "loop"])

(* Lines 156-160: accept, before the mutex is taken.                       *)
TcpAccept(peer) ==
    /\ tcp.pc = "wait" /\ socketsOpen
    /\ m_lastID < MaxConnects
    /\ TcpGoto([pc |-> "accepted", peer |-> peer])

(* Lines 162-164: the socket is filed under the new ClientID, or under     *)
(* NullID when addClient() refuses.                                        *)
TcpRegister ==
    /\ tcp.pc = "accepted"
    /\ IF m_running
       THEN /\ AddClient("TCP", tcp.peer)
            /\ m_tcpClients' = m_tcpClients \cup {AddedID(tcp.peer)}
       ELSE /\ UNCHANGED <<m_clientMap, m_lastID>>
            /\ m_tcpClients' = m_tcpClients \cup {NullID}
    /\ TcpStep([pc |-> "loop"], {})

(* Lines 170-176: with the mutex held, receive() from a ready socket whose *)
(* client is in the map.  Sockets ready in the same pass are later passes. *)
TcpReady(c) ==
    /\ tcp.pc = "wait"
    /\ c \in m_tcpClients \cap Clients
    /\ TcpGoto([pc |-> "receive", cid |-> c])

TcpHeartbeat ==
    /\ tcp.pc = "receive"
    /\ AcceptHeartbeat(tcp.cid)
    /\ TcpStep([pc |-> "loop"], {})
    /\ UNCHANGED <<m_tcpClients, m_lastID>>

(* handlePacket() for a packet of a TCP client, all of it under the mutex. *)
(* Nothing is done between the test of m_running in getClientID() and the  *)
(* next one, and once that one fails so do all: the two are one step.      *)
TcpHandle(type) ==
    /\ tcp.pc = "receive"
    /\ TcpStep(IF type = "Disconnect" /\ m_running
               THEN [tcp EXCEPT !.pc = "erase"] ELSE [pc |-> "loop"],
               IF type = "Message" THEN Broadcast("Message", tcp.cid) ELSE {})
    /\ UNCHANGED registry

(* The answer to a request, if there is one: see Accounts.                 *)
TcpAnswer ==
    /\ tcp.pc = "receive"
    /\ TcpStep([pc |-> "loop"], Packets({tcp.cid}, "Request"))
    /\ UNCHANGED registry

(* The send() of removeClient() tests m_running after removeClient() did,  *)
(* and the broadcast of "Client n has left." tests it once more.           *)
TcpErase ==
    /\ tcp.pc = "erase"
    /\ EraseClients({tcp.cid})
    /\ TcpStep([tcp EXCEPT !.pc = "broadcast"],
               Packets({tcp.cid}, "Disconnect"))
    /\ UNCHANGED <<m_tcpClients, m_lastID>>

TcpBroadcast ==
    /\ tcp.pc = "broadcast"
    /\ TcpStep([pc |-> "loop"], Broadcast("Message", tcp.cid))
    /\ UNCHANGED registry

(* A packet without a valid type, or a status that is neither Done nor     *)
(* Disconnected.                                                           *)
TcpIgnore ==
    /\ tcp.pc = "receive"
    /\ TcpGoto([pc |-> "loop"])

(* The peer closed (204-206): removeClient() tests m_running, and once the *)
(* server has stopped only the socket goes...                              *)
TcpDisconnected ==
    /\ tcp.pc = "receive"
    /\ m_tcpClients' = IF m_running THEN m_tcpClients
                                    ELSE m_tcpClients \ {tcp.cid}
    /\ TcpStep(IF m_running THEN [tcp EXCEPT !.pc = "closed"]
                            ELSE [pc |-> "loop"], {})
    /\ UNCHANGED <<m_clientMap, m_lastID>>

(* Mutant: the socket goes, the client stays.                              *)
TcpClosedKeepsClient ==
    /\ tcp.pc = "closed"
    /\ m_tcpClients' = m_tcpClients \ {tcp.cid}
    /\ TcpStep([pc |-> "loop"], {})
    /\ UNCHANGED <<m_clientMap, m_lastID>>

(* ...else its send() tests m_running again, and client and socket go.     *)
TcpClosed ==
    /\ tcp.pc = "closed"
    /\ EraseClients({tcp.cid})
    /\ m_tcpClients' = m_tcpClients \ {tcp.cid}
    /\ TcpStep([pc |-> "loop"], Packets({tcp.cid}, "Disconnect"))
    /\ UNCHANGED m_lastID

-----------------------------------------------------------------------------
(* The command thread: commandProcess(), Server::stop() and                *)
(* Server::disconnectAll().                                                *)

(* disconnectAll(), first critical section: broadcast(Disconnect).         *)
NotifyAll ==
    /\ sent' = Broadcast("Disconnect", NullID)
    /\ notified' = {p.to : p \in sent'}
    /\ mark' = m_lastID
    /\ UNCHANGED <<registry, m_running, socketsOpen>>

(* Mutant: ClientIDs start again from 0.                                   *)
ClearAllResetsIDs ==
    /\ m_clientMap' = [c \in {} |-> {}]
    /\ m_tcpClients' = {}
    /\ notified' = {} /\ mark' = 0
    /\ sent' = {}
    /\ m_lastID' = 0
    /\ UNCHANGED <<m_running, socketsOpen>>

(* disconnectAll(), second critical section: both maps are cleared.        *)
ClearAll ==
    /\ m_clientMap' = [c \in {} |-> {}]
    /\ m_tcpClients' = {}
    /\ notified' = {} /\ mark' = IF cmd = "stopClear" THEN m_lastID ELSE 0
    /\ sent' = {}
    /\ UNCHANGED <<m_lastID, m_running, socketsOpen>>

CmdGoto(pc) ==
    /\ cmd' = pc
    /\ UNCHANGED <<m_serverTime, main, udp, tcp>>

CmdQuiet(pc) ==
    /\ CmdGoto(pc)
    /\ sent' = {}
    /\ UNCHANGED <<registry, history>>

CmdDisconnectAll ==
    /\ MutexFree
    /\ \/ cmd = "idle" /\ m_running /\ NotifyAll /\ CmdGoto("dcClear")
       \/ cmd = "dcClear" /\ ClearAll /\ CmdGoto("idle")

CmdQuit ==
    /\ cmd = "idle" /\ m_running
    /\ CmdQuiet("stopNotify")
    /\ UNCHANGED <<m_running, socketsOpen>>

StopDisconnectAll ==
    /\ MutexFree
    /\ \/ cmd = "stopNotify" /\ NotifyAll /\ CmdGoto("stopClear")
       \/ cmd = "stopClear" /\ ClearAll /\ CmdGoto("stopSockets")

(* Lines 41-44, then line 46.                                              *)
StopSockets ==
    /\ cmd = "stopSockets"
    /\ socketsOpen' = FALSE
    /\ CmdQuiet("stopFlag")
    /\ UNCHANGED m_running

(* Mutant: stop() joins before it sets m_running.                          *)
StopFlagForgotten ==
    /\ cmd = "stopFlag"
    /\ CmdQuiet("joinUdp")
    /\ UNCHANGED <<m_running, socketsOpen>>

StopFlag ==
    /\ cmd = "stopFlag"
    /\ m_running' = FALSE
    /\ CmdQuiet("joinUdp")
    /\ UNCHANGED socketsOpen

(* Lines 48-53.                                                            *)
StopJoin ==
    /\ \/ cmd = "joinUdp" /\ udp.pc = "done" /\ CmdQuiet("joinTcp")
       \/ cmd = "joinTcp" /\ tcp.pc = "done" /\ CmdQuiet("done")
    /\ UNCHANGED <<m_running, socketsOpen>>

-----------------------------------------------------------------------------
MainSteps ==
    \/ \E dt \in 0..MaxStep : MainTick(dt)
    \/ MainSetBack
    \/ \E sign \in {1, -1} : MainMirror(sign)
    \/ MainScan
    \/ MainJoin

(* What the UDP thread does once a datagram has arrived.                   *)
UdpSteps ==
    \/ UdpLoop \/ UdpHeartbeat \/ UdpLookup
    \/ UdpRemove \/ UdpErase \/ UdpBroadcast \/ UdpAnnounce
    \/ UdpSend \/ UdpDeliver \/ UdpAddCheck \/ UdpAddInsert

UdpArrivals ==
    \/ \E peer \in UdpPeers, type \in PacketTypes : UdpReceive(peer, type)
    \/ UdpReceiveFails

(* What it does between two waits for a peer.                              *)
TcpSteps ==
    \/ TcpLoop \/ TcpIdle \/ TcpRegister
    \/ TcpErase \/ TcpBroadcast \/ TcpClosed

TcpArrivals ==
    \/ \E peer \in TcpPeers : TcpAccept(peer)
    \/ \E c \in m_tcpClients : TcpReady(c)
    \/ TcpHeartbeat
    \/ (\E type \in Handled : TcpHandle(type)) \/ TcpAnswer
    \/ TcpIgnore
    \/ TcpDisconnected

StopSteps == StopDisconnectAll \/ StopSockets \/ StopFlag \/ StopJoin

Commands == CmdDisconnectAll \/ CmdQuit

Terminated ==
    /\ main = "done"
    /\ UNCHANGED vars

Next ==
    \/ MainSteps
    \/ UdpSteps \/ UdpArrivals
    \/ TcpSteps \/ TcpArrivals
    \/ Commands \/ StopSteps
    \/ Terminated

(* The scheduler runs every thread; real time passes; a thread waiting for *)
(* the mutex gets it if it is free again and again.  Nothing is assumed of *)
(* the peers, of the operator, or of a receive() that blocks.              *)
Fairness ==
    /\ SF_vars(\E dt \in 1..MaxStep : MainTick(dt))
    /\ SF_vars(MainSetBack \/ MainScan \/ MainJoin
                 \/ \E sign \in {1, -1} : MainMirror(sign))
    /\ SF_vars(UdpSteps)
    /\ WF_vars(TcpSteps)
    /\ SF_vars(StopSteps)
    /\ SF_vars(cmd = "dcClear" /\ CmdDisconnectAll)

Spec == Init /\ [][Next]_vars /\ Fairness
-----------------------------------------------------------------------------
(* Properties.                                                             *)

UdpStates ==
    [pc : {"loop", "recv", "done"}]
      \cup [pc : {"heartbeat", "lookup"}, peer : UdpPeers,
            type : PacketTypes]
      \cup [pc : {"addCheck", "addInsert"}, peer : UdpPeers]
      \cup [pc : {"remove", "erase", "broadcast", "announce"},
            peer : UdpPeers, cid : Nat \cup {NullID}]
      \cup [pc : {"send", "deliver"}, peer : UdpPeers,
            cid : Nat \cup {NullID}, type : PacketTypes]

TcpStates ==
    [pc : {"loop", "wait", "done"}]
      \cup [pc : {"accepted"}, peer : TcpPeers]
      \cup [pc : {"receive", "erase", "broadcast", "closed"}, cid : Nat]

(* Every variable holds a value of its C++ type: ClientIDs index           *)
(* ClientInfos, the threads are at a program point with its locals.        *)
TypeOK ==
    /\ m_running \in BOOLEAN
    /\ m_serverTime \in Nat
    /\ Clients \subseteq Nat
    /\ m_clientMap \in [Clients -> ClientInfo]
    /\ m_tcpClients \subseteq Nat \cup {NullID}
    /\ m_lastID \in Nat
    /\ socketsOpen \in BOOLEAN
    /\ main \in {"loop", "wrapped", "mirror", "scan", "join", "done"}
    /\ udp \in UdpStates
    /\ tcp \in TcpStates
    /\ cmd \in {"idle", "dcClear", "stopNotify", "stopClear", "stopSockets",
                "stopFlag", "joinUdp", "joinTcp", "done"}
    /\ sent \subseteq [to : Nat, type : PacketTypes]
    /\ notified \subseteq Nat
    /\ mark \in Nat

(* No two clients share an ip:port, although two listener threads add      *)
(* clients and both protocols can use the same address: getClientID() and  *)
(* the heartbeat match rely on it (Server.cpp:263, 358).                   *)
UniquePeer ==
    \A c, d \in Clients : m_clientMap[c].m_peer = m_clientMap[d].m_peer => c = d

(* handlePacket() works with a ClientID it looked up earlier, without the  *)
(* mutex.  Whatever the other threads did since, that ClientID still means *)
(* the peer whose packet is being handled, or nobody: a request is never   *)
(* answered to, and a Disconnect never removes, somebody else              *)
(* (server/main.cpp:4-8, 40, 54, 79).                                      *)
HandlerServesItsPeer ==
    (udp.pc \in {"remove", "erase", "send", "deliver"} /\ udp.cid \in Clients)
        => m_clientMap[udp.cid].m_peer = udp.peer

(* While the server runs, a TCP client in the map has its socket, which    *)
(* send(ip, port, packet) dereferences without a test (Server.cpp:100-101) *)
(* and without which send() and broadcast() skip the client.               *)
TcpClientHasSocket ==
    m_running => \A c \in Clients :
                    m_clientMap[c].m_protocol = "TCP" => c \in m_tcpClients

(* The retry counter never passes 1 and only says what m_heartbeatWaiting  *)
(* says: the test m_heartbeatRetry > HEARTBEAT_RETRIES (Server.cpp:301)    *)
(* and the Re-try branch (309) never fire, a silent client is probed once. *)
ProbedOnce ==
    \A c \in Clients :
        m_clientMap[c].m_heartbeatRetry =
            IF m_clientMap[c].m_heartbeatWaiting THEN 1 ELSE 0

(* The 32-bit subtraction of update() (Server.cpp:299) never overflows     *)
(* where its result is used, whenever the clock wraps.                     *)
ElapsedFits ==
    main = "scan" => \A c \in Clients :
        Elapsed(m_clientMap[c]) \in -(HighestTimestamp + 1)..HighestTimestamp

(* A client that update() is about to drop has been silent for             *)
(* ClientTimeout, less at most two loop iterations when its last sign of   *)
(* life fell between the overflow and the reset of the clock: the wrap and *)
(* the unlocked clock never age a client (Server.cpp:287-303).             *)
NotDroppedEarly ==
    main = "scan" => \A c \in Clients :
        TimedOut(m_clientMap[c]) =>
            m_clientMap[c].silence >= ClientTimeout - 2 * MaxStep

(* How late a silent client can be noticed: its m_lastHeartbeat, mirrored  *)
(* at one wrap of the clock, hides its silence until the next wrap when it *)
(* was written between the reset of the clock and the mirroring            *)
(* (Server.cpp:289-290), and no longer than that.                          *)
SilenceBounded ==
    \A c \in Clients :
        m_clientMap[c].silence < HighestTimestamp + ClientTimeout + MaxStep

(* With iterations short enough, no client is dropped before it was sent a *)
(* heartbeat it has not answered (Server.cpp:301-323).                     *)
ProbedBeforeDropped ==
    (main = "scan" /\ HEARTBEAT_INTERVAL + MaxStep <= ClientTimeout
                   /\ 2 * MaxStep < ClientTimeout)
        => \A c \in Clients :
              TimedOut(m_clientMap[c]) => m_clientMap[c].m_heartbeatWaiting

(* A client that leaves the map without having timed out was sent a        *)
(* Disconnect packet, in the same step (removeClient) or by the broadcast  *)
(* of the disconnectAll() that clears the map.  It goes without one in two *)
(* races only: it was added between the broadcast and the clear            *)
(* (Server.cpp:61-63), or it was added after the clear of stop(), and      *)
(* stop() cleared m_running between the two tests that removeClient() and  *)
(* its send() make of it (Server.cpp:46, 388, 69).                         *)
DropsAreAnnounced ==
    [][\A c \in Clients \ Clients' :
          \/ main = "scan" /\ TimedOut(m_clientMap[c])
          \/ [to |-> c, type |-> "Disconnect"] \in sent'
          \/ c \in notified
          \/ cmd \in {"dcClear", "stopClear"} /\ c >= mark
          \/ ~m_running /\ c >= mark /\ "erase" \in {udp.pc, tcp.pc}
          \/ ~m_running /\ c >= mark /\ tcp.pc = "closed"]_vars

(* A client that falls silent is dropped, or heard from again, or the main *)
(* thread waits for ever for a mutex that tcpListen() holds in a receive() *)
(* which does not return, or the server is stopped (Server.cpp:297-304,    *)
(* 176).                                                                   *)
SilentClientsDropped ==
    \A c \in 0..MaxConnects :
        []<>(c \notin Clients \/ m_clientMap[c].silence = 0)
          \/ <>[](tcp.pc = "receive")
          \/ <>(~m_running)

(* After "!quit" the process ends, unless the UDP thread stays blocked in  *)
(* the receive() that unbind() did not wake, or the TCP thread in a        *)
(* receive() that holds the mutex stop() needs (Server.cpp:37-56).         *)
QuitEnds ==
    <>(cmd = "stopNotify")
        => \/ <>(main = "done")
           \/ <>[](udp.pc = "recv" /\ ~socketsOpen)
           \/ <>[](tcp.pc = "receive")

(* ClientIDs, from the two listeners' addClient() to whatever removes them *)
(* (Server.cpp:58-65, 297-303, 336-351, 387-416), keep the promise of      *)
(* Registry: an address is searched for and filed in one critical section, *)
(* a client that timed out or was thrown out never comes back under its    *)
(* ClientID, and clearing the maps does not start the numbers again.       *)
Directory == INSTANCE Registry WITH
    peerOf <- [c \in Clients |-> m_clientMap[c].m_peer],
    next <- m_lastID

ImplementsRegistry == Directory!Spec
=============================================================================
