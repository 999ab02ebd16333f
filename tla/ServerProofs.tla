---------------------------- MODULE ServerProofs ----------------------------
(***************************************************************************)
(* Proofs about Server, for every set of peers and every value of the      *)
(* timing constants that TimingAssumption allows.  In order:               *)
(*   1. types, together with the range of the clock in each phase of       *)
(*      update() and the fact that tcpListen() receives for a registered   *)
(*      client;                                                            *)
(*   2. the registry: addresses are unique and a ClientID that a handler   *)
(*      holds never comes to mean another peer;                            *)
(*   3. the two maps and the goodbyes: a TCP client has its socket, and    *)
(*      nobody is thrown out in silence;                                   *)
(*   4. the heartbeats: how m_lastHeartbeat, the wrapped clock and the     *)
(*      true silence of a client are related in each phase of update().    *)
(***************************************************************************)
EXTENDS Server, TLAPS

(* Where the clock can be while update() is at each of its steps.          *)
ClockInv ==
    /\ main \in {"loop", "scan", "join", "done"} =>
            m_serverTime \in 0..HighestTimestamp
    /\ main = "wrapped" =>
            m_serverTime \in
                (HighestTimestamp + 1)..(HighestTimestamp + MaxStep)
    /\ main = "mirror" => m_serverTime \in 1..MaxStep

(* The mutex keeps the client of a receive() in both maps, until the       *)
(* handler removes it.                                                     *)
ReceiveInv ==
    tcp.pc \in {"receive", "erase", "closed"} =>
        tcp.cid \in Clients \cap m_tcpClients

TypeInv == TypeOK /\ ClockInv /\ ReceiveInv

-----------------------------------------------------------------------------
LEMMA NewClientType ==
    ASSUME m_serverTime \in Nat, NEW protocol \in {"TCP", "UDP"},
           NEW peer \in Peers
    PROVE  NewClient(protocol, peer) \in ClientInfo
BY DEF NewClient, ClientInfo

LEMMA PacketsType ==
    ASSUME Clients \subseteq Nat, NEW cs, NEW type \in PacketTypes
    PROVE  /\ PacketsTo(cs, type) \subseteq [to : Nat, type : PacketTypes]
           /\ Packets(cs, type) \subseteq [to : Nat, type : PacketTypes]
<1>1. Reached(cs) \subseteq Nat
  BY DEF Reached
<1> QED
  BY <1>1 DEF PacketsTo, Packets

LEMMA BroadcastType ==
    ASSUME Clients \subseteq Nat, NEW type \in PacketTypes, NEW ignore
    PROVE  Broadcast(type, ignore) \subseteq [to : Nat, type : PacketTypes]
BY PacketsType DEF Broadcast

LEMMA AddClientType ==
    ASSUME TypeOK, NEW protocol \in {"TCP", "UDP"}, NEW peer \in Peers,
           AddClient(protocol, peer)
    PROVE  /\ Clients' \subseteq Nat
           /\ m_clientMap' \in [Clients' -> ClientInfo]
           /\ m_lastID' \in Nat
           /\ AddedID(peer) \in Nat \cup {NullID}
           /\ Clients \subseteq Clients'
<1>1. AddedID(peer) \in Nat \cup {NullID}
  BY DEF AddedID, TypeOK
<1>2. CASE FindClient(peer) # {}
  BY <1>1, <1>2 DEF AddClient, TypeOK, Clients
<1>3. CASE FindClient(peer) = {}
  <2>1. NewClient(protocol, peer) \in ClientInfo
    BY NewClientType DEF TypeOK
  <2> QED
    BY <1>1, <1>3, <2>1 DEF AddClient, AddEntry, TypeOK, Clients
<1> QED
  BY <1>2, <1>3

LEMMA EraseClientsType ==
    ASSUME TypeOK, NEW cs, EraseClients(cs)
    PROVE  /\ Clients' = Clients \ cs
           /\ m_clientMap' \in [Clients' -> ClientInfo]
BY DEF EraseClients, Restrict, TypeOK, Clients

LEMMA AcceptHeartbeatType ==
    ASSUME TypeOK, NEW c \in Clients, AcceptHeartbeat(c)
    PROVE  /\ Clients' = Clients
           /\ m_clientMap' \in [Clients' -> ClientInfo]
<1>1. /\ m_clientMap[c].m_protocol \in {"TCP", "UDP"}
      /\ m_clientMap[c].m_peer \in Peers
  BY DEF TypeOK, ClientInfo
<1>2. NewClient(m_clientMap[c].m_protocol, m_clientMap[c].m_peer) \in ClientInfo
  BY <1>1, NewClientType DEF TypeOK
<1> QED
  BY <1>2 DEF AcceptHeartbeat, TypeOK, Clients

-----------------------------------------------------------------------------
LEMMA InitTypeInv == Init => TypeInv
BY TimingAssumption
   DEF Init, TypeInv, TypeOK, ClockInv, ReceiveInv, Clients, UdpStates,
       TcpStates

LEMMA MainTypeInv ==
    ASSUME TypeInv, MainSteps
    PROVE  TypeInv'
<1> USE DEF TypeInv, ClockInv, ReceiveInv, MutexFree
<1>1. ASSUME NEW dt \in 0..MaxStep, MainTick(dt) PROVE TypeInv'
  <2>1. /\ Clients' = Clients
        /\ m_clientMap' \in [Clients' -> ClientInfo]
    BY <1>1 DEF MainTick, TypeOK, Clients, ClientInfo
  <2>2. /\ m_serverTime \in 0..HighestTimestamp
        /\ m_serverTime' = m_serverTime + dt
    BY <1>1 DEF MainTick, TypeOK
  <2>3. CASE m_serverTime' <= HighestTimestamp
    <3>1. main' = "scan" /\ m_serverTime' \in 0..HighestTimestamp
      BY <1>1, <2>2, <2>3, TimingAssumption
         DEF MainTick, MainStep, AsMilliseconds
    <3> QED
      BY <1>1, <2>1, <3>1, TimingAssumption
         DEF MainTick, MainStep, history, TypeOK
  <2>4. CASE m_serverTime' > HighestTimestamp
    <3>1. AsMilliseconds(m_serverTime') < 0
      BY <2>2, <2>4, TimingAssumption DEF AsMilliseconds
    <3>2. /\ main' = "wrapped"
          /\ m_serverTime' \in
                (HighestTimestamp + 1)..(HighestTimestamp + MaxStep)
      BY <1>1, <2>2, <2>4, <3>1, TimingAssumption DEF MainTick, MainStep
    <3> QED
      BY <1>1, <2>1, <3>2, TimingAssumption
         DEF MainTick, MainStep, history, TypeOK
  <2> QED
    BY <2>2, <2>3, <2>4, TimingAssumption
<1>2. ASSUME MainSetBack PROVE TypeInv'
  <2>1. /\ m_serverTime' = m_serverTime - HighestTimestamp
        /\ m_serverTime' \in 1..MaxStep
        /\ main' = "mirror"
    BY <1>2, TimingAssumption DEF MainSetBack, MainStep
  <2> QED
    BY <1>2, <2>1, TimingAssumption
       DEF MainSetBack, MainStep, history, TypeOK, Clients
<1>3. ASSUME NEW sign \in {1, -1}, MainMirror(sign) PROVE TypeInv'
  <2>1. \A t \in Int : Mirror(t, sign) \in Int
    BY TimingAssumption DEF Mirror, AsMilliseconds
  <2>2. /\ Clients' = Clients
        /\ m_clientMap' \in [Clients' -> ClientInfo]
    BY <1>3, <2>1 DEF MainMirror, TypeOK, Clients, ClientInfo
  <2>3. /\ main' = "scan" /\ m_serverTime' = m_serverTime
        /\ m_serverTime' \in 0..HighestTimestamp
    BY <1>3, TimingAssumption DEF MainMirror, MainStep
  <2> QED
    BY <1>3, <2>2, <2>3 DEF MainMirror, MainStep, history, TypeOK
<1>4. ASSUME MainScan PROVE TypeInv'
  <2> DEFINE kept == {c \in Clients : ~TimedOut(m_clientMap[c])}
  <2>1. \A info \in ClientInfo : Scanned(info) \in ClientInfo
    <3> SUFFICES ASSUME NEW info \in ClientInfo
                 PROVE  Scanned(info) \in ClientInfo
      OBVIOUS
    <3>1. CASE DueForHeartbeat(info)
      <4>1. info.m_heartbeatRetry + 1 \in Nat
        BY DEF ClientInfo
      <4> QED
        BY <3>1, <4>1, Zenon DEF Scanned, ClientInfo
    <3>2. CASE ~DueForHeartbeat(info)
      BY <3>2 DEF Scanned
    <3> QED
      BY <3>1, <3>2
  <2>2. /\ Clients' = kept
        /\ m_clientMap' \in [Clients' -> ClientInfo]
    BY <1>4, <2>1 DEF MainScan, TypeOK, Clients
  <2>3. sent' \subseteq [to : Nat, type : PacketTypes]
    BY <1>4, PacketsType DEF MainScan, MainStep, TypeOK, PacketTypes
  <2>4. tcp'.pc \notin {"receive", "erase", "closed"}
    BY <1>4 DEF MainScan, MainStep
  <2> QED
    BY <1>4, <2>2, <2>3, <2>4 DEF MainScan, MainStep, history, TypeOK
<1>5. ASSUME MainJoin PROVE TypeInv'
  BY <1>5 DEF MainJoin, MainStep, history, TypeOK, Clients
<1> QED
  BY <1>1, <1>2, <1>3, <1>4, <1>5 DEF MainSteps

LEMMA UdpTypeInv ==
    ASSUME TypeInv, UdpSteps \/ UdpArrivals
    PROVE  TypeInv'
<1> USE DEF TypeInv, ClockInv, ReceiveInv, MutexFree
<1>1. ASSUME NEW state \in UdpStates, UdpGoto(state) PROVE TypeInv'
  BY <1>1 DEF UdpGoto, UdpStep, registry, history, TypeOK, Clients
<1>2. ASSUME NEW state \in UdpStates, NEW packets, UdpStep(state, packets),
             packets \subseteq [to : Nat, type : PacketTypes],
             MutexFree,
             m_clientMap' \in [Clients' -> ClientInfo],
             Clients' \subseteq Nat, m_lastID' \in Nat,
             UNCHANGED m_tcpClients
      PROVE  TypeInv'
  BY <1>2 DEF UdpStep, history, TypeOK
<1>3. [pc |-> "loop"] \in UdpStates
  BY DEF UdpStates
<1>4. CASE UdpLoop
  BY <1>1, <1>4 DEF UdpLoop, UdpStates
<1>5. ASSUME NEW peer \in UdpPeers, NEW type \in PacketTypes,
             UdpReceive(peer, type)
      PROVE  TypeInv'
  BY <1>1, <1>5 DEF UdpReceive, UdpStates
<1>6. CASE UdpReceiveFails
  BY <1>1, <1>6 DEF UdpReceiveFails, UdpStates
<1>7. CASE UdpHeartbeat
  <2>1. /\ Clients' = Clients
        /\ m_clientMap' \in [Clients' -> ClientInfo]
    BY <1>7, AcceptHeartbeatType DEF UdpHeartbeat, FindClient, TypeOK, Clients
  <2> QED
    BY <1>2, <1>3, <1>7, <2>1 DEF UdpHeartbeat, TypeOK
<1>8. CASE UdpLookup
  <2>1. udp.peer \in UdpPeers /\ udp.type \in PacketTypes
    BY <1>8 DEF UdpLookup, TypeOK, UdpStates
  <2>2. \A c \in FindClient(udp.peer) : c \in Nat
    BY DEF FindClient, TypeOK
  <2>3. \A pc \in Branches(udp.type) :
            pc \in {"remove", "broadcast", "send", "loop"}
    BY DEF Branches
  <2>4. CASE ~(m_running /\ FindClient(udp.peer) # {})
    BY <1>1, <1>8, <2>1, <2>4 DEF UdpLookup, UdpStates
  <2>5. CASE m_running /\ FindClient(udp.peer) # {}
    <3>1. PICK c \in FindClient(udp.peer), pc \in Branches(udp.type) :
            UdpGoto(CASE pc = "loop" -> [pc |-> pc]
                      [] pc = "send" -> [pc |-> pc, peer |-> udp.peer,
                                         cid |-> c, type |-> udp.type]
                      [] OTHER -> [pc |-> pc, peer |-> udp.peer, cid |-> c])
      BY <1>8, <2>5 DEF UdpLookup
    <3>2. c \in Nat /\ pc \in {"remove", "broadcast", "send", "loop"}
      BY <2>2, <2>3, <3>1
    <3>3. CASE pc = "loop"
      BY <1>1, <1>3, <3>1, <3>3
    <3>4. CASE pc = "send"
      BY <1>1, <2>1, <3>1, <3>2, <3>4 DEF UdpStates
    <3>5. CASE pc \in {"remove", "broadcast"}
      BY <1>1, <2>1, <3>1, <3>2, <3>5 DEF UdpStates
    <3> QED
      BY <3>2, <3>3, <3>4, <3>5
  <2> QED
    BY <2>4, <2>5
<1>9. CASE UdpRemove \/ UdpBroadcast \/ UdpSend
  <2>1. \/ /\ udp.pc \in {"remove", "broadcast"}
           /\ udp = [pc |-> udp.pc, peer |-> udp.peer, cid |-> udp.cid]
           /\ udp.peer \in UdpPeers /\ udp.cid \in Nat \cup {NullID}
        \/ /\ udp.pc = "send"
           /\ udp = [pc |-> udp.pc, peer |-> udp.peer, cid |-> udp.cid,
                     type |-> udp.type]
           /\ udp.peer \in UdpPeers /\ udp.cid \in Nat \cup {NullID}
           /\ udp.type \in PacketTypes
    BY <1>9 DEF UdpRemove, UdpBroadcast, UdpSend, TypeOK, UdpStates
  <2>2. CASE udp.pc = "remove" /\ UdpRemove
    BY <1>1, <2>1, <2>2 DEF UdpRemove, UdpTest, UdpStates
  <2>3. CASE udp.pc = "broadcast" /\ UdpBroadcast
    BY <1>1, <2>1, <2>3 DEF UdpBroadcast, UdpTest, UdpStates
  <2>4. CASE udp.pc = "send" /\ UdpSend
    BY <1>1, <2>1, <2>4 DEF UdpSend, UdpTest, UdpStates
  <2> QED
    BY <1>9, <2>2, <2>3, <2>4 DEF UdpRemove, UdpBroadcast, UdpSend
<1>10. CASE UdpErase
  <2>1. /\ Clients' \subseteq Nat
        /\ m_clientMap' \in [Clients' -> ClientInfo]
    BY <1>10, EraseClientsType DEF UdpErase, TypeOK
  <2>2. [udp EXCEPT !.pc = "broadcast"] \in UdpStates
    BY <1>10 DEF UdpErase, TypeOK, UdpStates
  <2>3. Packets({udp.cid}, "Disconnect")
            \subseteq [to : Nat, type : PacketTypes]
    BY PacketsType DEF TypeOK, PacketTypes, Handled
  <2> QED
    BY <1>2, <1>10, <2>1, <2>2, <2>3 DEF UdpErase, TypeOK
<1>11. CASE UdpAnnounce
  <2>1. PacketsTo(Clients \ {udp.cid}, "Message")
            \subseteq [to : Nat, type : PacketTypes]
    BY PacketsType DEF TypeOK, PacketTypes, Handled
  <2> QED
    BY <1>2, <1>3, <1>11, <2>1 DEF UdpAnnounce, registry, TypeOK, Clients
<1>12. CASE UdpDeliver
  <2>1. udp.type \in PacketTypes
    BY <1>12 DEF UdpDeliver, TypeOK, UdpStates
  <2>2. PacketsTo({udp.cid}, udp.type) \subseteq [to : Nat, type : PacketTypes]
    BY <2>1, PacketsType DEF TypeOK
  <2> QED
    BY <1>2, <1>3, <1>12, <2>2 DEF UdpDeliver, registry, TypeOK, Clients
<1>13. CASE UdpAddCheck
  <2>1. udp.peer \in UdpPeers
    BY <1>13 DEF UdpAddCheck, TypeOK, UdpStates
  <2>2. "Connect" \in PacketTypes
    BY DEF PacketTypes, Handled
  <2> QED
    BY <1>1, <1>13, <2>1, <2>2 DEF UdpAddCheck, UdpStates
<1>14. CASE UdpAddInsert
  <2>1. udp.peer \in UdpPeers
    BY <1>14 DEF UdpAddInsert, TypeOK, UdpStates
  <2>2. /\ Clients' \subseteq Nat
        /\ m_clientMap' \in [Clients' -> ClientInfo]
        /\ m_lastID' \in Nat
        /\ AddedID(udp.peer) \in Nat \cup {NullID}
    BY <1>14, <2>1, AddClientType DEF UdpAddInsert, Peers
  <2>3. [pc |-> "send", peer |-> udp.peer, type |-> "Connect",
         cid |-> AddedID(udp.peer)] \in UdpStates
    BY <2>1, <2>2 DEF UdpStates, PacketTypes, Handled
  <2> QED
    BY <1>2, <1>14, <2>2, <2>3 DEF UdpAddInsert
<1> QED
  BY <1>4, <1>5, <1>6, <1>7, <1>8, <1>9, <1>10, <1>11, <1>12, <1>13, <1>14
     DEF UdpSteps, UdpArrivals

LEMMA TcpTypeInv ==
    ASSUME TypeInv, TcpSteps \/ TcpArrivals
    PROVE  TypeInv'
<1> USE DEF TypeInv, ClockInv, ReceiveInv
<1>1. ASSUME NEW state \in TcpStates, TcpGoto(state),
             state.pc \in {"receive", "erase", "closed"} =>
                state.cid \in Clients \cap m_tcpClients
      PROVE  TypeInv'
  BY <1>1 DEF TcpGoto, TcpStep, registry, history, TypeOK, Clients
<1>2. ASSUME NEW state \in TcpStates, NEW packets, TcpStep(state, packets),
             state.pc \notin {"receive", "erase", "closed"},
             packets \subseteq [to : Nat, type : PacketTypes],
             m_clientMap' \in [Clients' -> ClientInfo],
             Clients' \subseteq Nat, m_lastID' \in Nat,
             m_tcpClients' \subseteq Nat \cup {NullID}
      PROVE  TypeInv'
  BY <1>2 DEF TcpStep, history, TypeOK
<1>loop. [pc |-> "loop"] \in TcpStates
  BY DEF TcpStates
<1>3. CASE TcpLoop
  BY <1>1, <1>3 DEF TcpLoop, TcpStates
<1>4. CASE TcpIdle
  BY <1>1, <1>4 DEF TcpIdle, TcpStates
<1>5. CASE TcpRegister
  <2>1. tcp.peer \in TcpPeers
    BY <1>5 DEF TcpRegister, TypeOK, TcpStates
  <2>2. CASE m_running
    <3>1. /\ Clients' \subseteq Nat
          /\ m_clientMap' \in [Clients' -> ClientInfo]
          /\ m_lastID' \in Nat
          /\ AddedID(tcp.peer) \in Nat \cup {NullID}
      BY <1>5, <2>1, <2>2, AddClientType DEF TcpRegister, Peers
    <3> QED
      BY <1>2, <1>loop, <1>5, <2>2, <3>1 DEF TcpRegister, TypeOK
  <2>3. CASE ~m_running
    BY <1>2, <1>loop, <1>5, <2>3 DEF TcpRegister, TypeOK, Clients
  <2> QED
    BY <2>2, <2>3
<1>6. ASSUME NEW peer \in TcpPeers, TcpAccept(peer) PROVE TypeInv'
  BY <1>1, <1>6 DEF TcpAccept, TcpStates
<1>7. ASSUME NEW c, TcpReady(c) PROVE TypeInv'
  <2>1. c \in Nat /\ c \in Clients \cap m_tcpClients
    BY <1>7 DEF TcpReady, TypeOK
  <2> QED
    BY <1>1, <1>7, <2>1 DEF TcpReady, TcpStates
<1>8. CASE TcpHeartbeat
  <2>1. /\ Clients' = Clients
        /\ m_clientMap' \in [Clients' -> ClientInfo]
    BY <1>8, AcceptHeartbeatType DEF TcpHeartbeat
  <2> QED
    BY <1>2, <1>loop, <1>8, <2>1 DEF TcpHeartbeat, TypeOK
<1>9. ASSUME EraseClients({tcp.cid}) \/ UNCHANGED m_clientMap
      PROVE  /\ Clients' \subseteq Nat
             /\ m_clientMap' \in [Clients' -> ClientInfo]
  BY <1>9, EraseClientsType DEF TypeOK, Clients
<1>10. /\ Packets({tcp.cid}, "Disconnect")
             \subseteq [to : Nat, type : PacketTypes]
       /\ Packets({tcp.cid}, "Request")
             \subseteq [to : Nat, type : PacketTypes]
       /\ Broadcast("Message", tcp.cid)
             \subseteq [to : Nat, type : PacketTypes]
  BY PacketsType, BroadcastType DEF TypeOK, PacketTypes, Handled
<1>11. ASSUME NEW type \in Handled, TcpHandle(type) PROVE TypeInv'
  <2>1. tcp.cid \in Nat /\ tcp.cid \in Clients \cap m_tcpClients
        /\ tcp = [pc |-> "receive", cid |-> tcp.cid]
    BY <1>11 DEF TcpHandle, TypeOK, TcpStates
  <2>2. CASE type = "Disconnect" /\ m_running
    <3>1. TcpGoto([tcp EXCEPT !.pc = "erase"])
      BY <1>11, <2>2 DEF TcpHandle, TcpGoto
    <3> QED
      BY <1>1, <2>1, <3>1 DEF TcpStates
  <2>3. CASE ~(type = "Disconnect" /\ m_running)
    <3>1. PICK packets : /\ TcpStep([pc |-> "loop"], packets)
                         /\ packets \subseteq [to : Nat, type : PacketTypes]
      BY <1>10, <1>11, <2>3 DEF TcpHandle
    <3> QED
      BY <1>2, <1>loop, <1>11, <3>1 DEF TcpHandle, registry, TypeOK, Clients
  <2> QED
    BY <2>2, <2>3
<1>12. CASE TcpIgnore
  BY <1>1, <1>12 DEF TcpIgnore, TcpStates
<1>13. CASE TcpDisconnected
  <2>1. tcp.cid \in Nat /\ tcp.cid \in Clients \cap m_tcpClients
        /\ tcp = [pc |-> "receive", cid |-> tcp.cid]
    BY <1>13 DEF TcpDisconnected, TypeOK, TcpStates
  <2>2. CASE m_running
    <3>1. TcpGoto([tcp EXCEPT !.pc = "closed"])
      BY <1>13, <2>2 DEF TcpDisconnected, TcpGoto, registry
    <3> QED
      BY <1>1, <2>1, <3>1 DEF TcpStates
  <2>3. CASE ~m_running
    BY <1>2, <1>loop, <1>13, <2>3 DEF TcpDisconnected, TypeOK, Clients
  <2> QED
    BY <2>2, <2>3
<1>14. CASE TcpErase
  <2>1. [tcp EXCEPT !.pc = "broadcast"] \in TcpStates
    BY <1>14 DEF TcpErase, TypeOK, TcpStates
  <2> QED
    BY <1>2, <1>9, <1>10, <1>14, <2>1 DEF TcpErase, TypeOK, TcpStates
<1>15. CASE TcpClosed
  BY <1>2, <1>loop, <1>9, <1>10, <1>15 DEF TcpClosed, TypeOK
<1>16. CASE TcpBroadcast \/ TcpAnswer
  BY <1>2, <1>loop, <1>10, <1>16
     DEF TcpBroadcast, TcpAnswer, registry, TypeOK, Clients
<1> QED
  BY <1>3, <1>4, <1>5, <1>6, <1>7, <1>8, <1>11, <1>12, <1>13, <1>14, <1>15,
     <1>16 DEF TcpSteps, TcpArrivals

LEMMA CommandTypeInv ==
    ASSUME TypeInv, Commands \/ StopSteps
    PROVE  TypeInv'
<1> USE DEF TypeInv, ClockInv, ReceiveInv, MutexFree
<1>1. ASSUME NotifyAll, NEW pc \in {"dcClear", "stopClear"}, CmdGoto(pc)
      PROVE  TypeInv'
  <2>1. Broadcast("Disconnect", NullID) \subseteq [to : Nat, type : PacketTypes]
    BY BroadcastType DEF TypeOK, PacketTypes, Handled
  <2>2. /\ notified' \subseteq Nat
        /\ sent' \subseteq [to : Nat, type : PacketTypes]
    BY <1>1, <2>1 DEF NotifyAll
  <2> QED
    BY <1>1, <2>2 DEF NotifyAll, CmdGoto, registry, TypeOK, Clients
<1>2. ASSUME ClearAll, MutexFree,
             NEW pc \in {"idle", "stopSockets"}, CmdGoto(pc)
      PROVE  TypeInv'
  BY <1>2 DEF ClearAll, CmdGoto, TypeOK, Clients
<1>3. CASE CmdDisconnectAll
  BY <1>1, <1>2, <1>3 DEF CmdDisconnectAll
<1>4. CASE CmdQuit
  BY <1>4 DEF CmdQuit, CmdQuiet, CmdGoto, registry, history, TypeOK, Clients
<1>5. CASE StopDisconnectAll
  BY <1>1, <1>2, <1>5 DEF StopDisconnectAll
<1>6. CASE StopSockets \/ StopFlag \/ StopJoin
  BY <1>6 DEF StopSockets, StopFlag, StopJoin, CmdQuiet, CmdGoto, registry,
              history, TypeOK, Clients
<1> QED
  BY <1>3, <1>4, <1>5, <1>6 DEF Commands, StopSteps

LEMMA StutterTypeInv == ASSUME TypeInv, UNCHANGED vars PROVE TypeInv'
BY DEF TypeInv, TypeOK, ClockInv, ReceiveInv, vars, Clients

(* In every behaviour the variables have their types, the clock stays in   *)
(* the range of its phase (update() never computes with a negative         *)
(* reading, Server.cpp:285-299), and tcpListen() receives for a client     *)
(* that is in both maps (Server.cpp:171-176).                              *)
THEOREM TypeInvariant == Spec => []TypeInv
<1>1. TypeInv /\ [Next]_vars => TypeInv'
  BY MainTypeInv, UdpTypeInv, TcpTypeInv, CommandTypeInv, StutterTypeInv
     DEF Next, Terminated
<1> QED
  BY <1>1, InitTypeInv, PTL DEF Spec

(* TypeOK, which the runs check.                                           *)
THEOREM TypeCorrect == Spec => []TypeOK
BY TypeInvariant, PTL DEF TypeInv

-----------------------------------------------------------------------------
(* What a step can do to an entry of m_clientMap.                          *)
Same(c) == c \in Clients /\ m_clientMap'[c] = m_clientMap[c]

Heard(c) ==
    /\ c \in Clients
    /\ m_clientMap'[c] =
           NewClient(m_clientMap[c].m_protocol, m_clientMap[c].m_peer)

Added(c) ==
    /\ c = m_lastID /\ m_lastID' = m_lastID + 1
    /\ \E protocol \in {"TCP", "UDP"}, peer \in Peers :
          /\ FindClient(peer) = {}
          /\ m_clientMap'[c] = NewClient(protocol, peer)

Rescanned(c) ==
    /\ c \in Clients
    /\ m_clientMap'[c].m_peer = m_clientMap[c].m_peer
    /\ m_clientMap'[c].m_protocol = m_clientMap[c].m_protocol

(* What a step does to the numbers: nothing, or one address that was not   *)
(* in the map gets the next.                                               *)
Filed ==
    \E protocol \in {"TCP", "UDP"}, peer \in Peers :
        FindClient(peer) = {} /\ AddEntry(protocol, peer)

LEMMA AddClientEntries ==
    ASSUME TypeOK, NEW protocol \in {"TCP", "UDP"}, NEW peer \in Peers,
           AddClient(protocol, peer)
    PROVE  /\ m_lastID' \in {m_lastID, m_lastID + 1}
           /\ m_lastID' = m_lastID \/ Filed
           /\ \A c \in Clients' : Same(c) \/ Added(c)
<1>1. CASE FindClient(peer) # {}
  BY <1>1 DEF AddClient, Same, Clients
<1>2. CASE FindClient(peer) = {}
  <2>1. Filed
    BY <1>2 DEF AddClient, Filed
  <2>2. /\ m_lastID' = m_lastID + 1
        /\ Clients' = Clients \cup {m_lastID}
        /\ \A c \in Clients' : m_clientMap'[c] =
              IF c = m_lastID THEN NewClient(protocol, peer) ELSE m_clientMap[c]
    BY <1>2 DEF AddClient, AddEntry, Clients
  <2> QED
    BY <1>2, <2>1, <2>2 DEF Same, Added
<1> QED
  BY <1>1, <1>2

LEMMA EraseClientsEntries ==
    ASSUME NEW cs, EraseClients(cs)
    PROVE  \A c \in Clients' : Same(c)
BY DEF EraseClients, Restrict, Same, Clients

LEMMA AcceptHeartbeatEntries ==
    ASSUME TypeOK, NEW c \in Clients, AcceptHeartbeat(c)
    PROVE  \A d \in Clients' : Same(d) \/ Heard(d)
BY DEF AcceptHeartbeat, Same, Heard, TypeOK, Clients

(* The steps of the listeners that leave the registry alone.               *)
UdpQuiet ==
    \/ UdpLoop \/ UdpLookup \/ UdpRemove \/ UdpBroadcast \/ UdpAnnounce
    \/ UdpSend \/ UdpDeliver \/ UdpAddCheck \/ UdpArrivals

TcpQuiet ==
    \/ TcpLoop \/ TcpIdle \/ TcpIgnore \/ TcpAnswer \/ TcpBroadcast
    \/ \E peer \in TcpPeers : TcpAccept(peer)
    \/ \E c \in m_tcpClients : TcpReady(c)
    \/ \E type \in Handled : TcpHandle(type)

LEMMA UdpQuietSteps ==
    ASSUME UdpQuiet
    PROVE  UNCHANGED <<registry, main, m_serverTime, m_running, cmd, history>>
BY DEF UdpQuiet, UdpLoop, UdpLookup, UdpRemove, UdpBroadcast, UdpAnnounce,
       UdpSend, UdpDeliver, UdpAddCheck, UdpArrivals, UdpReceive,
       UdpReceiveFails, UdpTest, UdpGoto, UdpStep

LEMMA TcpQuietSteps ==
    ASSUME TcpQuiet
    PROVE  UNCHANGED <<registry, main, m_serverTime, m_running, cmd, history>>
BY DEF TcpQuiet, TcpLoop, TcpIdle, TcpIgnore, TcpAnswer, TcpBroadcast,
       TcpAccept, TcpReady, TcpHandle, TcpGoto, TcpStep

LEMMA ThreadSteps ==
    ASSUME TypeInv,
           \/ UdpSteps \/ UdpArrivals \/ TcpSteps \/ TcpArrivals
           \/ Commands \/ StopSteps \/ UNCHANGED vars
    PROVE  /\ UNCHANGED <<main, m_serverTime>>
           /\ m_lastID' \in {m_lastID, m_lastID + 1}
           /\ m_lastID' = m_lastID \/ Filed
           /\ \A c \in Clients' : Same(c) \/ Heard(c) \/ Added(c)
<1> DEFINE Goal == /\ UNCHANGED <<main, m_serverTime>>
                   /\ m_lastID' \in {m_lastID, m_lastID + 1}
                   /\ m_lastID' = m_lastID \/ Filed
                   /\ \A c \in Clients' : Same(c) \/ Heard(c) \/ Added(c)
<1> TypeOK
  BY DEF TypeInv
<1>1. ASSUME UNCHANGED <<main, m_serverTime, m_clientMap, m_lastID>> PROVE Goal
  BY <1>1 DEF Same, Clients
<1>2. ASSUME UNCHANGED <<main, m_serverTime, m_lastID>>,
             NEW cs, EraseClients(cs)
      PROVE  Goal
  BY <1>2, EraseClientsEntries
<1>3. ASSUME UNCHANGED <<main, m_serverTime, m_lastID>>,
             NEW c \in Clients, AcceptHeartbeat(c)
      PROVE  Goal
  BY <1>3, AcceptHeartbeatEntries
<1>4. ASSUME UNCHANGED <<main, m_serverTime>>, NEW protocol \in {"TCP", "UDP"},
             NEW peer \in Peers, AddClient(protocol, peer)
      PROVE  Goal
  BY <1>4, AddClientEntries
<1>5. CASE UdpSteps \/ UdpArrivals
  <2>1. CASE UdpHeartbeat
    BY <1>1, <1>3, <2>1 DEF UdpHeartbeat, UdpStep, FindClient
  <2>2. CASE UdpErase
    BY <1>2, <2>2 DEF UdpErase, UdpStep
  <2>3. CASE UdpAddInsert
    <3>1. udp.peer \in Peers
      BY <2>3 DEF UdpAddInsert, TypeOK, UdpStates, Peers
    <3> QED
      BY <1>4, <2>3, <3>1 DEF UdpAddInsert, UdpStep
  <2>4. CASE UdpQuiet
    BY <1>1, <2>4, UdpQuietSteps DEF registry
  <2> QED
    BY <1>5, <2>1, <2>2, <2>3, <2>4 DEF UdpSteps, UdpQuiet
<1>6. CASE TcpSteps \/ TcpArrivals
  <2>1. CASE TcpHeartbeat
    BY <1>3, <2>1 DEF TcpHeartbeat, TcpStep, TypeInv, ReceiveInv
  <2>2. CASE TcpDisconnected
    BY <1>1, <2>2 DEF TcpDisconnected, TcpStep
  <2>3. CASE TcpErase \/ TcpClosed
    BY <1>2, <2>3 DEF TcpErase, TcpClosed, TcpStep
  <2>4. CASE TcpRegister
    <3>1. tcp.peer \in Peers
      BY <2>4 DEF TcpRegister, TypeOK, TcpStates, Peers
    <3> QED
      BY <1>1, <1>4, <2>4, <3>1 DEF TcpRegister, TcpStep
  <2>5. CASE TcpQuiet
    BY <1>1, <2>5, TcpQuietSteps DEF registry
  <2> QED
    BY <1>6, <2>1, <2>2, <2>3, <2>4, <2>5 DEF TcpSteps, TcpArrivals, TcpQuiet
<1>7. CASE Commands \/ StopSteps
  <2>1. CASE ClearAll /\ UNCHANGED <<main, m_serverTime>>
    BY <2>1 DEF ClearAll, Clients
  <2>2. CASE NotifyAll /\ UNCHANGED <<main, m_serverTime>>
    BY <1>1, <2>2 DEF NotifyAll, registry
  <2>3. CASE CmdQuit \/ StopSockets \/ StopFlag \/ StopJoin
    BY <1>1, <2>3 DEF CmdQuit, StopSockets, StopFlag, StopJoin, CmdQuiet,
          CmdGoto, registry
  <2> QED
    BY <1>7, <2>1, <2>2, <2>3 DEF Commands, StopSteps, CmdDisconnectAll,
          StopDisconnectAll, CmdGoto
<1>8. CASE UNCHANGED vars
  BY <1>1, <1>8 DEF vars
<1> QED
  BY <1>5, <1>6, <1>7, <1>8

LEMMA MainEntries ==
    ASSUME TypeInv, MainSteps
    PROVE  /\ UNCHANGED <<m_lastID, udp, m_tcpClients, m_running>>
           /\ \A c \in Clients' : Rescanned(c)
<1>1. \A c \in Clients : m_clientMap[c] \in ClientInfo
  BY DEF TypeInv, TypeOK
<1>2. ASSUME NEW dt \in 0..MaxStep, MainTick(dt)
      PROVE  \A c \in Clients' : Rescanned(c)
  BY <1>1, <1>2 DEF MainTick, Rescanned, Clients, ClientInfo
<1>3. ASSUME NEW sign \in {1, -1}, MainMirror(sign)
      PROVE  \A c \in Clients' : Rescanned(c)
  BY <1>1, <1>3 DEF MainMirror, Rescanned, Clients, ClientInfo
<1>4. ASSUME MainScan PROVE \A c \in Clients' : Rescanned(c)
  <2>1. \A info \in ClientInfo :
            /\ Scanned(info).m_peer = info.m_peer
            /\ Scanned(info).m_protocol = info.m_protocol
    BY DEF Scanned, ClientInfo
  <2> QED
    BY <1>1, <1>4, <2>1 DEF MainScan, Rescanned, Clients
<1>5. ASSUME MainSetBack \/ MainJoin PROVE \A c \in Clients' : Rescanned(c)
  BY <1>5 DEF MainSetBack, MainJoin, Rescanned, Clients
<1>6. UNCHANGED <<m_lastID, udp, m_tcpClients, m_running>>
  BY DEF MainSteps, MainTick, MainSetBack, MainMirror, MainScan, MainJoin,
         MainStep
<1> QED
  BY <1>2, <1>3, <1>4, <1>5, <1>6 DEF MainSteps

-----------------------------------------------------------------------------
(* A ClientID in use, or held by a handler, is one that was handed out;    *)
(* while it is in the map it means the peer it was handed to.              *)
Holding == {"remove", "erase", "broadcast", "announce", "send", "deliver"}

RegistryInv ==
    /\ \A c \in Clients : c < m_lastID
    /\ UniquePeer
    /\ udp.pc \in Holding =>
          /\ udp.cid < m_lastID
          /\ udp.cid \in Clients => m_clientMap[udp.cid].m_peer = udp.peer

(* What the UDP thread holds after a step it held before, or has just      *)
(* found in the map, or has just been given by addClient().                *)
LEMMA HeldClient ==
    ASSUME TypeInv, RegistryInv, [Next]_vars, udp'.pc \in Holding
    PROVE  \/ /\ udp.pc \in Holding
              /\ udp'.cid = udp.cid /\ udp'.peer = udp.peer
           \/ /\ UNCHANGED <<m_clientMap, m_lastID>>
              /\ udp'.cid \in Clients
              /\ m_clientMap[udp'.cid].m_peer = udp'.peer
           \/ udp'.cid = NullID
           \/ /\ udp'.cid = m_lastID
              /\ AddEntry("UDP", udp'.peer)
<1> DEFINE Goal ==
      \/ /\ udp.pc \in Holding
         /\ udp'.cid = udp.cid /\ udp'.peer = udp.peer
      \/ /\ UNCHANGED <<m_clientMap, m_lastID>>
         /\ udp'.cid \in Clients
         /\ m_clientMap[udp'.cid].m_peer = udp'.peer
      \/ udp'.cid = NullID
      \/ udp'.cid = m_lastID /\ AddEntry("UDP", udp'.peer)
<1>1. CASE UNCHANGED udp
  BY <1>1
<1>2. CASE UdpSteps \/ UdpArrivals
  <2>1. CASE UdpLookup
    <3>1. CASE ~(m_running /\ FindClient(udp.peer) # {})
      BY <2>1, <3>1 DEF UdpLookup, UdpGoto, UdpStep, Holding
    <3>2. CASE m_running /\ FindClient(udp.peer) # {}
      <4>1. PICK c \in FindClient(udp.peer), pc \in Branches(udp.type) :
              UdpGoto(CASE pc = "loop" -> [pc |-> pc]
                        [] pc = "send" -> [pc |-> pc, peer |-> udp.peer,
                                           cid |-> c, type |-> udp.type]
                        [] OTHER -> [pc |-> pc, peer |-> udp.peer, cid |-> c])
        BY <2>1, <3>2 DEF UdpLookup
      <4>2. CASE pc = "loop"
        BY <4>1, <4>2 DEF UdpGoto, UdpStep, Holding
      <4>3. CASE pc # "loop"
        <5>1. udp'.cid = c /\ udp'.peer = udp.peer
          BY <4>1, <4>3 DEF UdpGoto, UdpStep
        <5> QED
          BY <4>1, <5>1 DEF UdpGoto, registry, FindClient
      <4> QED
        BY <4>2, <4>3
    <3> QED
      BY <3>1, <3>2
  <2>2. CASE UdpRemove \/ UdpErase \/ UdpBroadcast \/ UdpSend
    <3>1. udp.pc \in Holding
      BY <2>2 DEF UdpRemove, UdpErase, UdpBroadcast, UdpSend, Holding
    <3>2. udp' = [pc |-> "loop"] \/ \E pc \in Holding : udp' = [udp EXCEPT !.pc = pc]
      BY <2>2 DEF UdpRemove, UdpErase, UdpBroadcast, UdpSend, UdpTest,
                  UdpGoto, UdpStep, Holding
    <3>3. CASE udp' = [pc |-> "loop"]
      BY <3>3 DEF Holding
    <3>4. ASSUME NEW pc \in Holding, udp' = [udp EXCEPT !.pc = pc]
          PROVE  udp'.cid = udp.cid /\ udp'.peer = udp.peer
      BY <3>1, <3>4 DEF TypeInv, TypeOK, UdpStates, Holding
    <3> QED
      BY <3>1, <3>2, <3>3, <3>4
  <2>3. CASE UdpAddInsert
    BY <2>3 DEF UdpAddInsert, UdpStep, AddClient, AddedID
  <2>4. CASE UdpLoop \/ UdpHeartbeat \/ UdpAnnounce \/ UdpDeliver
               \/ UdpAddCheck \/ UdpArrivals
    BY <2>4 DEF UdpLoop, UdpHeartbeat, UdpAnnounce, UdpDeliver, UdpAddCheck,
          UdpArrivals, UdpReceive, UdpReceiveFails, UdpGoto, UdpStep, Holding
  <2> QED
    BY <1>2, <2>1, <2>2, <2>3, <2>4 DEF UdpSteps
<1>3. CASE TcpSteps \/ TcpArrivals
  BY <1>1, <1>3 DEF TcpSteps, TcpArrivals, TcpLoop, TcpIdle, TcpRegister,
        TcpAccept, TcpReady, TcpHeartbeat, TcpHandle, TcpAnswer, TcpErase,
        TcpBroadcast, TcpIgnore, TcpDisconnected, TcpClosed, TcpGoto, TcpStep
<1>4. CASE Commands \/ StopSteps
  BY <1>1, <1>4 DEF Commands, StopSteps, CmdDisconnectAll, CmdQuit,
        StopDisconnectAll, StopSockets, StopFlag, StopJoin, CmdQuiet, CmdGoto
<1>5. CASE MainSteps
  BY <1>1, <1>5, MainEntries
<1>6. CASE UNCHANGED vars
  BY <1>1, <1>6 DEF vars
<1> QED
  BY <1>2, <1>3, <1>4, <1>5, <1>6 DEF Next, Terminated

LEMMA RegistryStep ==
    ASSUME TypeInv, TypeInv', RegistryInv, [Next]_vars
    PROVE  RegistryInv'
<1> USE DEF RegistryInv
<1>1. /\ m_lastID' \in {m_lastID, m_lastID + 1}
      /\ \A c \in Clients' : Rescanned(c) \/ Added(c)
  <2>1. CASE MainSteps
    BY <2>1, MainEntries
  <2>2. CASE ~MainSteps
    <3>1. /\ m_lastID' \in {m_lastID, m_lastID + 1}
          /\ \A c \in Clients' : Same(c) \/ Heard(c) \/ Added(c)
      BY <2>2, ThreadSteps DEF Next, Terminated
    <3>2. \A c : Same(c) \/ Heard(c) => Rescanned(c)
      BY DEF Same, Heard, Rescanned, NewClient
    <3> QED
      BY <3>1, <3>2
  <2> QED
    BY <2>1, <2>2
<1>2. m_lastID \in Nat /\ Clients \subseteq Nat
  BY DEF TypeInv, TypeOK
<1>3. \A c \in Clients' : c < m_lastID'
  <2>1. \A c \in Clients' : (c \in Clients /\ c \in Nat /\ c < m_lastID)
                              \/ (c = m_lastID /\ m_lastID' = m_lastID + 1)
    BY <1>1, <1>2 DEF Rescanned, Added
  <2> QED
    BY <1>1, <1>2, <2>1
<1>4. UniquePeer'
  <2> SUFFICES ASSUME NEW c \in Clients', NEW d \in Clients',
                      m_clientMap'[c].m_peer = m_clientMap'[d].m_peer
               PROVE  c = d
    BY DEF UniquePeer
  <2>1. \A e \in Clients' : Added(e) =>
            \A f \in Clients : m_clientMap[f].m_peer # m_clientMap'[e].m_peer
    BY DEF Added, FindClient, NewClient
  <2>2. CASE Added(c) /\ Added(d)
    BY <2>2 DEF Added
  <2>3. CASE Rescanned(c) /\ Rescanned(d)
    BY <2>3 DEF Rescanned, UniquePeer
  <2> QED
    BY <1>1, <2>1, <2>2, <2>3 DEF Rescanned
<1>5. ASSUME udp'.pc \in Holding
      PROVE  /\ udp'.cid < m_lastID'
             /\ udp'.cid \in Clients' =>
                   m_clientMap'[udp'.cid].m_peer = udp'.peer
  <2>1. CASE /\ udp.pc \in Holding
             /\ udp'.cid = udp.cid /\ udp'.peer = udp.peer
    <3>1. udp.cid \in Int /\ udp.cid < m_lastID
      BY <2>1 DEF TypeInv, TypeOK, UdpStates, NullID, Holding
    <3> QED
      BY <1>1, <1>2, <2>1, <3>1 DEF Rescanned, Added
  <2>2. CASE /\ UNCHANGED <<m_clientMap, m_lastID>>
             /\ udp'.cid \in Clients
             /\ m_clientMap[udp'.cid].m_peer = udp'.peer
    BY <2>2
  <2>3. CASE udp'.cid = NullID
    <3>1. NullID \notin Clients'
      BY DEF TypeInv, TypeOK, NullID
    <3> QED
      BY <1>1, <1>2, <2>3, <3>1 DEF NullID
  <2>4. CASE udp'.cid = m_lastID /\ AddEntry("UDP", udp'.peer)
    BY <1>2, <2>4 DEF AddEntry, NewClient, Clients
  <2> QED
    BY <1>5, <2>1, <2>2, <2>3, <2>4, HeldClient
<1> QED
  BY <1>3, <1>4, <1>5

(* All ClientIDs in use are below m_lastID, and a handler's is that of its *)
(* peer (Server.cpp:336-351, 424-429).                                     *)
THEOREM RegistryInvariant == Spec => []RegistryInv
<1>1. Init => RegistryInv
  BY DEF Init, RegistryInv, UniquePeer, Holding, Clients
<1>2. TypeInv /\ TypeInv' /\ RegistryInv /\ [Next]_vars => RegistryInv'
  BY RegistryStep
<1> QED
  BY <1>1, <1>2, TypeInvariant, PTL DEF Spec

(* No two clients ever share an address, whatever the two listeners, the   *)
(* timeouts and the commands do (Server.cpp:340-344).                      *)
THEOREM AddressesUnique == Spec => []UniquePeer
BY RegistryInvariant, PTL DEF RegistryInv

(* The ClientID that handlePacket() looked up keeps meaning the sender of  *)
(* the packet, or nobody, until the handler is done: ClientIDs are never   *)
(* given twice (server/main.cpp:4-130).                                    *)
THEOREM HandlerKeepsItsPeer == Spec => []HandlerServesItsPeer
<1>1. RegistryInv => HandlerServesItsPeer
  BY DEF RegistryInv, HandlerServesItsPeer, Holding
<1> QED
  BY <1>1, RegistryInvariant, PTL
-----------------------------------------------------------------------------
(* Registry's view of one step.                                            *)
LEMMA RegistryViewStep ==
    ASSUME TypeInv, RegistryInv, [Next]_vars
    PROVE  [Directory!Next]_<<[c \in Clients |-> m_clientMap[c].m_peer],
                              m_lastID>>
<1> DEFINE peerOf == [c \in Clients |-> m_clientMap[c].m_peer]
<1>1. /\ m_lastID' = m_lastID \/ Filed
      /\ \A c \in Clients' : Rescanned(c) \/ Added(c)
  <2>1. CASE MainSteps
    BY <2>1, MainEntries
  <2>2. CASE ~MainSteps
    <3>1. /\ m_lastID' = m_lastID \/ Filed
          /\ \A c \in Clients' : Same(c) \/ Heard(c) \/ Added(c)
      BY <2>2, ThreadSteps DEF Next, Terminated
    <3>2. \A c : Same(c) \/ Heard(c) => Rescanned(c)
      BY DEF Same, Heard, Rescanned, NewClient
    <3> QED
      BY <3>1, <3>2
  <2> QED
    BY <2>1, <2>2
<1>2. CASE m_lastID' = m_lastID
  <2>1. m_lastID \in Nat
    BY DEF TypeInv, TypeOK
  <2>2. \A c \in Clients' : Rescanned(c)
    BY <1>1, <1>2, <2>1 DEF Added
  <2>3. /\ Clients' \subseteq Clients
        /\ \A c \in Clients' : peerOf'[c] = peerOf[c]
    BY <2>2 DEF Rescanned
  <2>4. PICK dropped \in SUBSET Clients : dropped = Clients \ Clients'
    OBVIOUS
  <2>5. /\ DOMAIN peerOf = Clients
        /\ Clients \ dropped = Clients'
    BY <2>3, <2>4
  <2>6. peerOf' = Directory!Restrict(peerOf, DOMAIN peerOf \ dropped)
    BY <2>3, <2>5 DEF Directory!Restrict
  <2>7. Directory!Leave(dropped)
    BY <1>2, <2>6 DEF Directory!Leave
  <2> QED
    BY <2>4, <2>5, <2>7 DEF Directory!Next
<1>3. CASE Filed
  <2>1. PICK protocol \in {"TCP", "UDP"}, peer \in Peers :
            FindClient(peer) = {} /\ AddEntry(protocol, peer)
    BY <1>3 DEF Filed
  <2>2. \A c \in Clients : peerOf[c] # peer
    BY <2>1 DEF FindClient
  <2>3. /\ Clients' = Clients \cup {m_lastID}
        /\ m_lastID' = m_lastID + 1
        /\ \A c \in Clients' : m_clientMap'[c].m_peer =
               IF c = m_lastID THEN peer ELSE m_clientMap[c].m_peer
    BY <2>1 DEF AddEntry, NewClient, Clients
  <2>4. peerOf' = [c \in Clients \cup {m_lastID} |->
                      IF c = m_lastID THEN peer ELSE peerOf[c]]
    BY <2>3
  <2>5. Directory!Join(peer)
    BY <2>2, <2>3, <2>4 DEF Directory!Join
  <2> QED
    BY <2>5 DEF Directory!Next
<1> QED
  BY <1>1, <1>2, <1>3

(* The client map of the four threads is a Registry: whoever holds a       *)
(* ClientID, at whatever point of its handler, holds a name that was given *)
(* to one peer and is never given again (Server.cpp:336-351, 424-429).     *)
THEOREM RegistryImplemented == Spec => ImplementsRegistry
<1>1. Init => Directory!Init
  BY DEF Init, Clients, Directory!Init
<1> QED
  BY <1>1, RegistryViewStep, TypeInvariant, RegistryInvariant, PTL
     DEF Spec, ImplementsRegistry, Directory!Spec
-----------------------------------------------------------------------------
LEMMA ThreadSockets ==
    ASSUME TypeInv, TcpClientHasSocket,
           UdpSteps \/ UdpArrivals \/ TcpSteps \/ TcpArrivals
    PROVE  TcpClientHasSocket'
<1> USE DEF TcpClientHasSocket
<1> TypeOK /\ Clients \subseteq Nat /\ m_lastID \in Nat
  BY DEF TypeInv, TypeOK
<1>1. UNCHANGED m_running
  BY UdpQuietSteps, TcpQuietSteps
     DEF UdpSteps, TcpSteps, TcpArrivals, UdpQuiet, TcpQuiet, UdpHeartbeat,
         UdpErase, UdpAddInsert, UdpStep, TcpRegister, TcpHeartbeat, TcpErase,
         TcpDisconnected, TcpClosed, TcpStep
<1>2. ASSUME m_tcpClients \subseteq m_tcpClients',
             \A c \in Clients' :
                Same(c) \/ Heard(c) \/ m_clientMap'[c].m_protocol = "UDP"
                  \/ c \in m_tcpClients'
      PROVE  TcpClientHasSocket'
  <2> SUFFICES ASSUME m_running', NEW c \in Clients',
                      m_clientMap'[c].m_protocol = "TCP"
               PROVE  c \in m_tcpClients'
    OBVIOUS
  <2>1. CASE Same(c) \/ Heard(c)
    <3>1. c \in Clients /\ m_clientMap[c].m_protocol = "TCP"
      BY <2>1 DEF Same, Heard, NewClient
    <3> QED
      BY <1>1, <1>2, <3>1
  <2> QED
    BY <1>2, <2>1
<1>3. ASSUME UNCHANGED registry PROVE TcpClientHasSocket'
  BY <1>2, <1>3 DEF registry, Same, Clients
<1>4. ASSUME NEW protocol \in {"TCP", "UDP"}, NEW peer \in Peers,
             AddClient(protocol, peer)
      PROVE  \A c \in Clients' :
                Same(c) \/ (/\ c = AddedID(peer)
                            /\ m_clientMap'[c].m_protocol = protocol)
  <2>1. CASE FindClient(peer) # {}
    BY <1>4, <2>1 DEF AddClient, Same, Clients
  <2>2. CASE FindClient(peer) = {}
    BY <1>4, <2>2 DEF AddClient, AddEntry, AddedID, NewClient, Same, Clients
  <2> QED
    BY <2>1, <2>2
<1>5. CASE UdpHeartbeat \/ TcpHeartbeat
  <2>1. UNCHANGED m_tcpClients
    BY <1>5 DEF UdpHeartbeat, TcpHeartbeat
  <2>2. UNCHANGED m_clientMap \/ \E c \in Clients : AcceptHeartbeat(c)
    BY <1>5 DEF UdpHeartbeat, TcpHeartbeat, FindClient, TypeInv, ReceiveInv
  <2>3. \A c \in Clients' : Same(c) \/ Heard(c)
    BY <2>2, AcceptHeartbeatEntries DEF Same, Clients
  <2> QED
    BY <1>2, <2>1, <2>3
<1>6. CASE UdpErase \/ TcpErase
  <2>1. UNCHANGED m_tcpClients
    BY <1>6 DEF UdpErase, TcpErase
  <2>2. \E cs : EraseClients(cs)
    BY <1>6 DEF UdpErase, TcpErase
  <2>3. \A c \in Clients' : Same(c)
    BY <2>2, EraseClientsEntries DEF Same, Clients
  <2> QED
    BY <1>2, <2>1, <2>3
<1>7. CASE UdpAddInsert
  <2>1. udp.peer \in Peers
    BY <1>7 DEF UdpAddInsert, TypeOK, UdpStates, Peers
  <2>2. /\ UNCHANGED m_tcpClients
        /\ AddClient("UDP", udp.peer)
    BY <1>7 DEF UdpAddInsert
  <2> QED
    BY <1>2, <1>4, <2>1, <2>2
<1>8. CASE TcpRegister
  <2>1. tcp.peer \in Peers
    BY <1>8 DEF TcpRegister, TypeOK, TcpStates, Peers
  <2>2. CASE m_running
    <3>1. /\ AddClient("TCP", tcp.peer)
          /\ m_tcpClients' = m_tcpClients \cup {AddedID(tcp.peer)}
      BY <1>8, <2>2 DEF TcpRegister
    <3> QED
      BY <1>2, <1>4, <2>1, <3>1
  <2>3. CASE ~m_running
    BY <1>1, <2>3
  <2> QED
    BY <2>2, <2>3
<1>9. CASE TcpClosed
  <2>1. /\ EraseClients({tcp.cid})
        /\ m_tcpClients' = m_tcpClients \ {tcp.cid}
    BY <1>9 DEF TcpClosed
  <2>2. Clients' = Clients \ {tcp.cid} /\ \A c \in Clients' : Same(c)
    BY <2>1, EraseClientsType, EraseClientsEntries
  <2> QED
    BY <1>1, <2>1, <2>2 DEF Same
<1>10. CASE TcpDisconnected
  <2>1. CASE m_running
    BY <1>3, <1>10, <2>1 DEF TcpDisconnected, registry
  <2>2. CASE ~m_running
    BY <1>1, <2>2
  <2> QED
    BY <2>1, <2>2
<1>11. CASE UdpQuiet \/ TcpQuiet
  BY <1>3, <1>11, UdpQuietSteps, TcpQuietSteps
<1> QED
  BY <1>5, <1>6, <1>7, <1>8, <1>9, <1>10, <1>11
     DEF UdpSteps, TcpSteps, TcpArrivals, UdpQuiet, TcpQuiet

LEMMA SocketStep ==
    ASSUME TypeInv, TcpClientHasSocket, [Next]_vars
    PROVE  TcpClientHasSocket'
<1> USE DEF TcpClientHasSocket
<1>1. CASE MainSteps
  BY <1>1, MainEntries DEF Rescanned
<1>2. CASE UdpSteps \/ UdpArrivals \/ TcpSteps \/ TcpArrivals
  BY <1>2, ThreadSockets
<1>3. CASE Commands \/ StopSteps
  <2>1. CASE ClearAll
    BY <2>1 DEF ClearAll, Clients
  <2>2. CASE NotifyAll
    BY <2>2 DEF NotifyAll, registry, Clients
  <2>3. CASE CmdQuit \/ StopSockets \/ StopJoin
    BY <2>3 DEF CmdQuit, StopSockets, StopJoin, CmdQuiet, registry, Clients
  <2>4. CASE StopFlag
    BY <2>4 DEF StopFlag
  <2> QED
    BY <1>3, <2>1, <2>2, <2>3, <2>4 DEF Commands, StopSteps,
       CmdDisconnectAll, StopDisconnectAll
<1>4. CASE UNCHANGED vars
  BY <1>4 DEF vars, Clients
<1> QED
  BY <1>1, <1>2, <1>3, <1>4 DEF Next, Terminated

(* While the server runs, send(ip, port, packet) never dereferences the    *)
(* socket of a TCP client that has none, and broadcast() skips nobody:     *)
(* tcpListen() files and removes both entries inside one critical section, *)
(* and disconnectAll() clears both maps in one (Server.cpp:62-63, 100-101, *)
(* 162-164, 189-196).                                                      *)
THEOREM SocketForEveryTcpClient == Spec => []TcpClientHasSocket
<1>1. Init => TcpClientHasSocket
  BY DEF Init, TcpClientHasSocket, Clients
<1>2. TypeInv /\ TcpClientHasSocket /\ [Next]_vars => TcpClientHasSocket'
  BY SocketStep
<1> QED
  BY <1>1, <1>2, TypeInvariant, PTL DEF Spec

-----------------------------------------------------------------------------
(* Between the broadcast of disconnectAll() and its clear(), whoever is in *)
(* the map was addressed or came after the broadcast; the server still     *)
(* runs, or the broadcast would have reached nobody.  After the clear of   *)
(* stop() everybody in the map came after it.                              *)
NoticeInv ==
    /\ ~m_running => cmd \in {"joinUdp", "joinTcp", "done"}
    /\ cmd \in {"stopSockets", "stopFlag", "joinUdp", "joinTcp", "done"} =>
          /\ mark <= m_lastID
          /\ \A c \in Clients : c >= mark
    /\ cmd \in {"dcClear", "stopClear"} =>
          /\ mark <= m_lastID
          /\ \A c \in Clients : c < mark => c \in notified

(* While the server runs, a packet for a client in the map is sent.        *)
LEMMA EveryClientReached ==
    ASSUME TcpClientHasSocket, m_running, NEW cs, NEW type,
           NEW c \in cs \cap Clients
    PROVE  [to |-> c, type |-> type] \in Packets(cs, type)
BY DEF TcpClientHasSocket, Packets, PacketsTo, Reached

LEMMA OthersLeaveNotice ==
    ASSUME MainSteps \/ UdpSteps \/ UdpArrivals \/ TcpSteps \/ TcpArrivals
    PROVE  UNCHANGED <<m_running, cmd, notified, mark>>
<1>1. CASE MainSteps
  BY <1>1 DEF MainSteps, MainTick, MainSetBack, MainMirror, MainScan, MainJoin,
              MainStep, history
<1>2. CASE UdpSteps \/ UdpArrivals
  BY <1>2, UdpQuietSteps DEF UdpSteps, UdpQuiet, UdpHeartbeat, UdpErase,
        UdpAddInsert, UdpStep, history
<1>3. CASE TcpSteps \/ TcpArrivals
  BY <1>3, TcpQuietSteps DEF TcpSteps, TcpArrivals, TcpQuiet, TcpRegister,
        TcpHeartbeat, TcpErase, TcpDisconnected, TcpClosed, TcpStep, history
<1> QED
  BY <1>1, <1>2, <1>3

LEMMA NotifyAllReaches ==
    ASSUME TypeInv, TcpClientHasSocket, m_running, NotifyAll
    PROVE  /\ mark' = m_lastID /\ UNCHANGED <<m_lastID, m_running, m_clientMap>>
           /\ Clients \subseteq notified'
<1>1. NullID \notin Clients
  BY DEF TypeInv, TypeOK, NullID
<1>2. \A c \in Clients : [to |-> c, type |-> "Disconnect"] \in sent'
  BY <1>1, EveryClientReached DEF NotifyAll, Broadcast
<1>3. \A c \in Clients : c \in notified'
  <2> SUFFICES ASSUME NEW c \in Clients PROVE c \in notified'
    OBVIOUS
  <2>1. [to |-> c, type |-> "Disconnect"].to = c
    OBVIOUS
  <2> QED
    BY <1>2, <2>1 DEF NotifyAll
<1> QED
  BY <1>3 DEF NotifyAll, registry

LEMMA NoticeStep ==
    ASSUME TypeInv, RegistryInv, TcpClientHasSocket, NoticeInv, [Next]_vars
    PROVE  NoticeInv'
<1> USE DEF NoticeInv
<1> m_lastID \in Nat /\ mark \in Nat /\ Clients \subseteq Nat
  BY DEF TypeInv, TypeOK
<1>1. CASE MainSteps
  <2>1. /\ UNCHANGED <<m_running, cmd, notified, mark, m_lastID>>
        /\ Clients' \subseteq Clients
    BY <1>1, OthersLeaveNotice, MainEntries DEF Rescanned
  <2> QED
    BY <2>1
<1>2. CASE UdpSteps \/ UdpArrivals \/ TcpSteps \/ TcpArrivals
  <2>1. /\ UNCHANGED <<m_running, cmd, notified, mark>>
        /\ m_lastID' \in {m_lastID, m_lastID + 1}
        /\ \A c \in Clients' : c \in Clients \/ c = m_lastID
    BY <1>2, OthersLeaveNotice, ThreadSteps DEF Same, Heard, Added
  <2>2. ASSUME cmd \in {"stopSockets", "stopFlag", "joinUdp", "joinTcp",
                         "done"}
        PROVE  mark <= m_lastID' /\ \A c \in Clients' : c >= mark
    <3>1. /\ mark <= m_lastID
          /\ \A c \in Clients : c >= mark
      BY <2>2
    <3>2. mark <= m_lastID' /\ m_lastID >= mark
      BY <2>1, <3>1
    <3> QED
      BY <2>1, <3>1, <3>2
  <2>3. ASSUME cmd \in {"dcClear", "stopClear"}
        PROVE  /\ mark <= m_lastID'
               /\ \A c \in Clients' : c < mark => c \in notified
    <3>1. /\ mark <= m_lastID
          /\ \A c \in Clients : c < mark => c \in notified
      BY <2>3
    <3>2. mark <= m_lastID'
      BY <2>1, <3>1
    <3>3. ~(m_lastID < mark)
      BY <3>1
    <3> QED
      BY <2>1, <3>1, <3>2, <3>3
  <2> QED
    BY <2>1, <2>2, <2>3
<1>3. CASE Commands \/ StopSteps
  <2>1. CASE \/ cmd = "idle" /\ m_running /\ NotifyAll /\ CmdGoto("dcClear")
             \/ cmd = "stopNotify" /\ NotifyAll /\ CmdGoto("stopClear")
    <3>1. /\ mark' = m_lastID /\ UNCHANGED <<m_lastID, m_running, m_clientMap>>
          /\ Clients \subseteq notified'
      BY <2>1, NotifyAllReaches
    <3>2. cmd' \in {"dcClear", "stopClear"} /\ m_running'
      BY <2>1, <3>1 DEF CmdGoto
    <3> QED
      BY <3>1, <3>2 DEF Clients
  <2>2. CASE CmdDisconnectAll /\ cmd = "dcClear"
    BY <2>2 DEF CmdDisconnectAll, ClearAll, CmdGoto
  <2>3. CASE StopDisconnectAll /\ cmd = "stopClear"
    <3>1. /\ Clients' = {} /\ mark' = m_lastID /\ m_lastID' = m_lastID
          /\ m_running' = m_running /\ cmd' = "stopSockets"
      BY <2>3 DEF StopDisconnectAll, ClearAll, CmdGoto, Clients
    <3> QED
      BY <2>3, <3>1
  <2>4. CASE CmdQuit
    BY <2>4 DEF CmdQuit, CmdQuiet, CmdGoto, registry, history, Clients
  <2>5. CASE StopSockets \/ StopFlag \/ StopJoin
    BY <2>5 DEF StopSockets, StopFlag, StopJoin, CmdQuiet, CmdGoto, registry,
                history, Clients
  <2> QED
    BY <1>3, <2>1, <2>2, <2>3, <2>4, <2>5 DEF Commands, StopSteps,
       CmdDisconnectAll, StopDisconnectAll
<1>4. CASE UNCHANGED vars
  BY <1>4 DEF vars, Clients
<1> QED
  BY <1>1, <1>2, <1>3, <1>4 DEF Next, Terminated

(* Between the two critical sections of disconnectAll() everybody who was in*)
(* the map has been sent a Disconnect (Server.cpp:58-65).                  *)
THEOREM NoticeInvariant == Spec => []NoticeInv
<1>1. Init => NoticeInv
  BY DEF Init, NoticeInv
<1>2. /\ TypeInv /\ RegistryInv /\ TcpClientHasSocket /\ NoticeInv
      /\ [Next]_vars
      => NoticeInv'
  BY NoticeStep
<1> QED
  BY <1>1, <1>2, TypeInvariant, RegistryInvariant, SocketForEveryTcpClient, PTL
     DEF Spec

(* How a client can leave the map in one step.                             *)
Announced ==
    \A c \in Clients \ Clients' :
        \/ main = "scan" /\ TimedOut(m_clientMap[c])
        \/ [to |-> c, type |-> "Disconnect"] \in sent'
        \/ c \in notified
        \/ cmd \in {"dcClear", "stopClear"} /\ c >= mark
        \/ ~m_running /\ c >= mark /\ "erase" \in {udp.pc, tcp.pc}
        \/ ~m_running /\ c >= mark /\ tcp.pc = "closed"

LEMMA DropStep ==
    ASSUME TypeInv, TcpClientHasSocket, NoticeInv, [Next]_vars
    PROVE  Announced
<1> USE DEF Announced
<1> TypeOK
  BY DEF TypeInv
<1>1. ASSUME Clients \subseteq Clients' PROVE Announced
  BY <1>1
<1>2. ASSUME UNCHANGED m_clientMap PROVE Announced
  BY <1>2 DEF Clients
<1>3. ASSUME NEW c, EraseClients({c}),
             Packets({c}, "Disconnect") \subseteq sent',
             "erase" \in {udp.pc, tcp.pc} \/ tcp.pc = "closed"
      PROVE  Announced
  <2>1. Clients' = Clients \ {c}
    BY <1>3, EraseClientsType
  <2>2. CASE m_running
    BY <1>3, <2>1, <2>2, EveryClientReached
  <2>3. CASE ~m_running
    <3>1. \A d \in Clients : d >= mark
      BY <2>3 DEF NoticeInv
    <3> QED
      BY <1>3, <2>1, <2>3, <3>1
  <2> QED
    BY <2>2, <2>3
<1>4. CASE MainSteps
  <2>1. CASE MainScan
    <3>1. Clients' = {c \in Clients : ~TimedOut(m_clientMap[c])}
      BY <2>1 DEF MainScan, Clients
    <3> QED
      BY <2>1, <3>1 DEF MainScan
  <2>2. CASE ~MainScan
    <3>1. Clients' = Clients
      BY <1>4, <2>2 DEF MainSteps, MainTick, MainSetBack, MainMirror, MainJoin,
                        Clients
    <3> QED
      BY <1>1, <3>1
  <2> QED
    BY <2>1, <2>2
<1>5. CASE UdpSteps \/ UdpArrivals
  <2>1. CASE UdpHeartbeat
    <3>1. UNCHANGED m_clientMap \/ \E c \in Clients : AcceptHeartbeat(c)
      BY <2>1 DEF UdpHeartbeat, FindClient
    <3> QED
      BY <1>1, <1>2, <3>1, AcceptHeartbeatType
  <2>2. CASE UdpErase
    BY <1>3, <2>2 DEF UdpErase, UdpStep
  <2>3. CASE UdpAddInsert
    <3>1. udp.peer \in Peers
      BY <2>3 DEF UdpAddInsert, TypeOK, UdpStates, Peers
    <3> QED
      BY <1>1, <2>3, <3>1, AddClientType DEF UdpAddInsert
  <2>4. CASE UdpQuiet
    BY <1>2, <2>4, UdpQuietSteps DEF registry
  <2> QED
    BY <1>5, <2>1, <2>2, <2>3, <2>4 DEF UdpSteps, UdpQuiet
<1>6. CASE TcpSteps \/ TcpArrivals
  <2>1. CASE TcpHeartbeat
    BY <1>1, <2>1, AcceptHeartbeatType DEF TcpHeartbeat, TypeInv, ReceiveInv
  <2>2. CASE TcpDisconnected
    BY <1>2, <2>2 DEF TcpDisconnected
  <2>3. CASE TcpErase \/ TcpClosed
    BY <1>3, <2>3 DEF TcpErase, TcpClosed, TcpStep
  <2>4. CASE TcpRegister
    <3>1. tcp.peer \in Peers
      BY <2>4 DEF TcpRegister, TypeOK, TcpStates, Peers
    <3> QED
      BY <1>1, <1>2, <2>4, <3>1, AddClientType DEF TcpRegister
  <2>5. CASE TcpQuiet
    BY <1>2, <2>5, TcpQuietSteps DEF registry
  <2> QED
    BY <1>6, <2>1, <2>2, <2>3, <2>4, <2>5 DEF TcpSteps, TcpArrivals, TcpQuiet
<1>7. CASE Commands \/ StopSteps
  <2>1. CASE ClearAll /\ cmd \in {"dcClear", "stopClear"}
    <3>1. \A c \in Clients : c \in notified \/ c >= mark
      BY <2>1 DEF NoticeInv, TypeOK
    <3> QED
      BY <2>1, <3>1
  <2>2. CASE NotifyAll
    BY <1>2, <2>2 DEF NotifyAll, registry
  <2>3. CASE CmdQuit \/ StopSockets \/ StopFlag \/ StopJoin
    BY <1>2, <2>3 DEF CmdQuit, StopSockets, StopFlag, StopJoin, CmdQuiet,
          registry
  <2> QED
    BY <1>7, <2>1, <2>2, <2>3 DEF Commands, StopSteps, CmdDisconnectAll,
       StopDisconnectAll
<1>8. CASE UNCHANGED vars
  BY <1>2, <1>8 DEF vars
<1> QED
  BY <1>4, <1>5, <1>6, <1>7, <1>8 DEF Next, Terminated

(* Nobody is thrown out in silence: a client that leaves the map was sent  *)
(* a Disconnect packet, unless it timed out, or came in the gap between    *)
(* the two critical sections of disconnectAll() (Server.cpp:58-65).        *)
THEOREM NoSilentRemoval == Spec => DropsAreAnnounced
<1>1. TypeInv /\ TcpClientHasSocket /\ NoticeInv /\ [Next]_vars => Announced
  BY DropStep
<1> QED
  BY <1>1, TypeInvariant, SocketForEveryTcpClient, NoticeInvariant, PTL
     DEF Spec, DropsAreAnnounced, Announced

-----------------------------------------------------------------------------
(***************************************************************************)
(* The heartbeats: the wrapping clock and its unlocked reset never make a  *)
(* client look older than it is, and hide its silence for one period of    *)
(* the clock at most.                                                      *)
(*                                                                         *)
(* The invariant follows an entry through the phases of update().  Below,  *)
(* t is the clock, l the entry's m_lastHeartbeat, s its true silence and w *)
(* its m_heartbeatWaiting.  An entry in the map is in one of four cases:   *)
(*   Current   l was written in this period of the clock                   *)
(*   Mirrored  l was written in the last one, near its end, and mirrored   *)
(*   Raced     l was written after the reset of the clock and mirrored     *)
(*             nevertheless: it lies ahead of the clock                    *)
(*   Hidden    a Raced entry, one period later                             *)
(***************************************************************************)

Current(t, l, s) == 0 <= l /\ s = t - l
Mirrored(t, l, s) == -MaxStep <= l /\ l <= ClientTimeout + MaxStep /\ s = t + l
Raced(t, l, s) ==
    /\ HighestTimestamp - MaxStep <= l /\ l <= HighestTimestamp
    /\ s = t - HighestTimestamp + l
Hidden(t, l, s) == 0 <= l /\ l <= MaxStep /\ s = t + HighestTimestamp - l

Traced(t, l, s) ==
    Current(t, l, s) \/ Mirrored(t, l, s) \/ Raced(t, l, s) \/ Hidden(t, l, s)

(* Between two updates: nobody has reached ClientTimeout, and whoever is   *)
(* due for a heartbeat has been sent one.                                  *)
LoopOK(t, l, s, w) ==
    /\ Traced(t, l, s) /\ l <= HighestTimestamp
    /\ t - l < ClientTimeout
    /\ ~w => t - l < HEARTBEAT_INTERVAL

(* Before the scan, after an ordinary tick or just after a wrap.           *)
ScanOK(t, l, s, w) ==
    /\ Traced(t, l, s) /\ l <= HighestTimestamp
    /\ t - l < ClientTimeout + MaxStep \/ t <= MaxStep
    /\ ~w => t - l < HEARTBEAT_INTERVAL + MaxStep \/ t <= MaxStep

(* The clock is past HighestTimestamp.                                     *)
WrappedOK(t, l, s) ==
    \/ /\ Current(t, l, s)
       /\ l = t \/ (l <= HighestTimestamp /\ t - l < ClientTimeout + MaxStep)
    \/ Raced(t, l, s)

(* The clock has been set back, the entries have not been mirrored.        *)
MirrorOK(t, l, s) ==
    \/ l = t /\ s = 0
    \/ WrappedOK(t + HighestTimestamp, l, s)

EntryOK(t, info) ==
    LET l == info.m_lastHeartbeat
        s == info.silence
        w == info.m_heartbeatWaiting
    IN  /\ info.m_heartbeatRetry = IF w THEN 1 ELSE 0
        /\ main \in {"loop", "join", "done"} => LoopOK(t, l, s, w)
        /\ main = "scan" => ScanOK(t, l, s, w)
        /\ main = "wrapped" => WrappedOK(t, l, s)
        /\ main = "mirror" => MirrorOK(t, l, s)

EntryInv == \A c \in Clients : EntryOK(m_serverTime, m_clientMap[c])

-----------------------------------------------------------------------------
(* The arithmetic of each step, on plain integers.                         *)
LEMMA TickToScan ==
    ASSUME NEW t \in 0..HighestTimestamp, NEW l \in Int, NEW s \in Nat, NEW w,
           NEW dt \in 0..MaxStep, t + dt <= HighestTimestamp,
           LoopOK(t, l, s, w)
    PROVE  ScanOK(t + dt, l, s + dt, w)
BY TimingAssumption DEF LoopOK, ScanOK, Traced, Current, Mirrored, Raced, Hidden

LEMMA TickToWrapped ==
    ASSUME NEW t \in 0..HighestTimestamp, NEW l \in Int, NEW s \in Nat, NEW w,
           NEW dt \in 0..MaxStep, t + dt > HighestTimestamp,
           LoopOK(t, l, s, w)
    PROVE  WrappedOK(t + dt, l, s + dt)
BY TimingAssumption
   DEF LoopOK, WrappedOK, Traced, Current, Mirrored, Raced, Hidden

LEMMA SetBackToMirror ==
    ASSUME NEW t \in Int, NEW l \in Int, NEW s \in Nat, WrappedOK(t, l, s)
    PROVE  MirrorOK(t - HighestTimestamp, l, s)
<1>1. (t - HighestTimestamp) + HighestTimestamp = t
  BY TimingAssumption
<1> QED
  BY <1>1 DEF MirrorOK

LEMMA MirrorToScan ==
    ASSUME NEW t \in 1..MaxStep, NEW l \in Int, NEW s \in Nat, NEW w,
           NEW sign \in {1, -1}, MirrorOK(t, l, s)
    PROVE  ScanOK(t, Mirror(l, sign), s, w)
<1> DEFINE H == HighestTimestamp
<1>1. CASE l = t /\ s = 0
  <2>1. Mirror(l, sign) = H - t
    BY <1>1, TimingAssumption DEF Mirror, AsMilliseconds
  <2> QED
    BY <1>1, <2>1, TimingAssumption DEF ScanOK, Traced, Raced
<1>2. CASE l = t + H /\ s = 0
  <2>1. Mirror(l, sign) = t \/ Mirror(l, sign) = -t
    BY <1>2, TimingAssumption DEF Mirror, AsMilliseconds
  <2> QED
    BY <1>2, <2>1, TimingAssumption DEF ScanOK, Traced, Current, Mirrored
<1>3. CASE /\ 0 <= l /\ l <= H /\ s = t + H - l
           /\ t + H - l < ClientTimeout + MaxStep
  <2>1. Mirror(l, sign) = H - l
    BY <1>3, TimingAssumption DEF Mirror, AsMilliseconds
  <2> QED
    BY <1>3, <2>1, TimingAssumption DEF ScanOK, Traced, Mirrored
<1>4. CASE H - MaxStep <= l /\ l <= H /\ s = t + l
  <2>1. Mirror(l, sign) = H - l
    BY <1>4, TimingAssumption DEF Mirror, AsMilliseconds
  <2> QED
    BY <1>4, <2>1, TimingAssumption DEF ScanOK, Traced, Hidden
<1> QED
  BY <1>1, <1>2, <1>3, <1>4, TimingAssumption
     DEF MirrorOK, WrappedOK, Current, Raced

LEMMA FreshOK ==
    ASSUME NEW t \in Nat
    PROVE  /\ t <= HighestTimestamp => /\ LoopOK(t, t, 0, FALSE)
                                       /\ ScanOK(t, t, 0, FALSE)
           /\ WrappedOK(t, t, 0)
           /\ MirrorOK(t, t, 0)
BY TimingAssumption
   DEF LoopOK, ScanOK, WrappedOK, MirrorOK, Traced, Current

(* On the entries of a scan the narrowing to 32 bits changes nothing.      *)
LEMMA ScanElapsed ==
    ASSUME m_serverTime \in 0..HighestTimestamp, NEW info \in ClientInfo,
           ScanOK(m_serverTime, info.m_lastHeartbeat, info.silence,
                  info.m_heartbeatWaiting)
    PROVE  Elapsed(info) = m_serverTime - info.m_lastHeartbeat
<1>1. info.m_lastHeartbeat \in Int /\ info.m_lastHeartbeat <= HighestTimestamp
  BY DEF ScanOK, ClientInfo
<1> QED
  BY <1>1, TimingAssumption DEF Elapsed, AsMilliseconds

LEMMA KeptEntry ==
    ASSUME m_serverTime \in 0..HighestTimestamp, NEW info \in ClientInfo,
           info.m_heartbeatRetry = IF info.m_heartbeatWaiting THEN 1 ELSE 0,
           ScanOK(m_serverTime, info.m_lastHeartbeat, info.silence,
                  info.m_heartbeatWaiting),
           ~TimedOut(info)
    PROVE  LET new == Scanned(info)
           IN  /\ new.m_heartbeatRetry =
                      IF new.m_heartbeatWaiting THEN 1 ELSE 0
               /\ LoopOK(m_serverTime, new.m_lastHeartbeat, new.silence,
                         new.m_heartbeatWaiting)
<1> DEFINE t == m_serverTime
           l == info.m_lastHeartbeat
<1>1. /\ l \in Int /\ info.silence \in Nat
      /\ info.m_heartbeatWaiting \in BOOLEAN
      /\ Elapsed(info) = t - l
      /\ Traced(t, l, info.silence) /\ l <= HighestTimestamp
  BY ScanElapsed DEF ClientInfo, ScanOK
<1>2. t - l < ClientTimeout
  BY <1>1, TimingAssumption DEF TimedOut
<1>3. CASE DueForHeartbeat(info)
  <2>1. info.m_heartbeatRetry = 0
    BY <1>3 DEF DueForHeartbeat
  <2>2. /\ Scanned(info).m_heartbeatRetry = 1
        /\ Scanned(info).m_heartbeatWaiting = TRUE
        /\ Scanned(info).m_lastHeartbeat = l
        /\ Scanned(info).silence = info.silence
    BY <1>3, <2>1 DEF Scanned, ClientInfo
  <2> QED
    BY <1>1, <1>2, <2>2 DEF LoopOK
<1>4. CASE ~DueForHeartbeat(info)
  <2>1. Scanned(info) = info
    BY <1>4 DEF Scanned
  <2>2. ~info.m_heartbeatWaiting => t - l < HEARTBEAT_INTERVAL
    BY <1>1, <1>4, TimingAssumption DEF DueForHeartbeat
  <2> QED
    BY <1>1, <1>2, <2>1, <2>2 DEF LoopOK
<1> QED
  BY <1>3, <1>4

-----------------------------------------------------------------------------
LEMMA MainEntryStep ==
    ASSUME TypeInv, EntryInv, MainSteps
    PROVE  EntryInv'
<1> DEFINE t == m_serverTime
<1>1. \A c \in Clients : m_clientMap[c] \in ClientInfo
  BY DEF TypeInv, TypeOK
<1>2. \A info \in ClientInfo :
         /\ info.m_lastHeartbeat \in Int /\ info.silence \in Nat
         /\ info.m_heartbeatWaiting \in BOOLEAN
  BY DEF ClientInfo
<1>3. ASSUME NEW dt \in 0..MaxStep, MainTick(dt) PROVE EntryInv'
  <2>1. /\ t \in 0..HighestTimestamp /\ t' = t + dt /\ main = "loop"
    BY <1>3 DEF MainTick, TypeInv, ClockInv
  <2> SUFFICES ASSUME NEW c \in Clients'
               PROVE  EntryOK(m_serverTime, m_clientMap[c])'
    BY DEF EntryInv
  <2> DEFINE i == m_clientMap[c]
  <2>2. /\ c \in Clients
        /\ m_clientMap'[c] = [i EXCEPT !.silence = @ + dt]
    BY <1>3 DEF MainTick, Clients
  <2>3. /\ i.m_heartbeatRetry = IF i.m_heartbeatWaiting THEN 1 ELSE 0
        /\ LoopOK(t, i.m_lastHeartbeat, i.silence, i.m_heartbeatWaiting)
    BY <2>1, <2>2 DEF EntryInv, EntryOK
  <2>4. /\ m_clientMap'[c].m_lastHeartbeat = i.m_lastHeartbeat
        /\ m_clientMap'[c].m_heartbeatWaiting = i.m_heartbeatWaiting
        /\ m_clientMap'[c].m_heartbeatRetry = i.m_heartbeatRetry
        /\ m_clientMap'[c].silence = i.silence + dt
    BY <1>1, <2>2 DEF ClientInfo
  <2>5. CASE t + dt <= HighestTimestamp
    <3>1. main' = "scan"
      BY <1>3, <2>1, <2>5, TimingAssumption
         DEF MainTick, MainStep, AsMilliseconds
    <3>2. ScanOK(t + dt, i.m_lastHeartbeat, i.silence + dt,
                 i.m_heartbeatWaiting)
      BY <1>1, <1>2, <2>1, <2>2, <2>3, <2>5, TickToScan
    <3> QED
      BY <2>1, <2>3, <2>4, <3>1, <3>2 DEF EntryOK
  <2>6. CASE t + dt > HighestTimestamp
    <3>1. main' = "wrapped"
      BY <1>3, <2>1, <2>6, TimingAssumption
         DEF MainTick, MainStep, AsMilliseconds
    <3>2. WrappedOK(t + dt, i.m_lastHeartbeat, i.silence + dt)
      BY <1>1, <1>2, <2>1, <2>2, <2>3, <2>6, TickToWrapped
    <3> QED
      BY <2>1, <2>3, <2>4, <3>1, <3>2 DEF EntryOK
  <2> QED
    BY <2>1, <2>5, <2>6, TimingAssumption
<1>4. ASSUME MainSetBack PROVE EntryInv'
  <2>1. /\ main = "wrapped" /\ main' = "mirror" /\ t \in Int
        /\ t' = t - HighestTimestamp /\ UNCHANGED m_clientMap
    BY <1>4, TimingAssumption DEF MainSetBack, MainStep, TypeInv, TypeOK
  <2> SUFFICES ASSUME NEW c \in Clients
               PROVE  EntryOK(m_serverTime, m_clientMap[c])'
    BY <2>1 DEF EntryInv, Clients
  <2>2. MirrorOK(t', m_clientMap[c].m_lastHeartbeat, m_clientMap[c].silence)
    BY <1>1, <1>2, <2>1, SetBackToMirror DEF EntryInv, EntryOK
  <2> QED
    BY <2>1, <2>2 DEF EntryInv, EntryOK
<1>5. ASSUME NEW sign \in {1, -1}, MainMirror(sign) PROVE EntryInv'
  <2>1. /\ main = "mirror" /\ main' = "scan" /\ t \in 1..MaxStep /\ t' = t
    BY <1>5 DEF MainMirror, MainStep, TypeInv, ClockInv
  <2> SUFFICES ASSUME NEW c \in Clients'
               PROVE  EntryOK(m_serverTime, m_clientMap[c])'
    BY <2>1 DEF EntryInv
  <2> DEFINE i == m_clientMap[c]
             new == Mirror(i.m_lastHeartbeat, sign)
  <2>2. /\ c \in Clients
        /\ m_clientMap'[c] = [i EXCEPT !.m_lastHeartbeat = new]
    BY <1>5 DEF MainMirror, Clients
  <2>3. /\ i.m_heartbeatRetry = IF i.m_heartbeatWaiting THEN 1 ELSE 0
        /\ MirrorOK(t, i.m_lastHeartbeat, i.silence)
    BY <2>1, <2>2 DEF EntryInv, EntryOK
  <2>4. ScanOK(t, new, i.silence, i.m_heartbeatWaiting)
    BY <1>1, <1>2, <2>1, <2>2, <2>3, MirrorToScan
  <2>5. /\ m_clientMap'[c].m_lastHeartbeat = new
        /\ m_clientMap'[c].m_heartbeatWaiting = i.m_heartbeatWaiting
        /\ m_clientMap'[c].m_heartbeatRetry = i.m_heartbeatRetry
        /\ m_clientMap'[c].silence = i.silence
    BY <1>1, <2>2 DEF ClientInfo
  <2> QED
    BY <2>1, <2>3, <2>4, <2>5 DEF EntryOK
<1>6. ASSUME MainScan PROVE EntryInv'
  <2>1. /\ main = "scan" /\ main' = "loop" /\ t' = t
        /\ t \in 0..HighestTimestamp
    BY <1>6 DEF MainScan, MainStep, TypeInv, ClockInv
  <2> SUFFICES ASSUME NEW c \in Clients'
               PROVE  EntryOK(m_serverTime, m_clientMap[c])'
    BY <2>1 DEF EntryInv
  <2> DEFINE i == m_clientMap[c]
  <2>2. /\ c \in Clients /\ ~TimedOut(i)
        /\ m_clientMap'[c] = Scanned(i)
    BY <1>6 DEF MainScan, Clients
  <2>3. /\ i.m_heartbeatRetry = IF i.m_heartbeatWaiting THEN 1 ELSE 0
        /\ ScanOK(t, i.m_lastHeartbeat, i.silence, i.m_heartbeatWaiting)
    BY <2>1, <2>2 DEF EntryInv, EntryOK
  <2>4. LET n == m_clientMap'[c]
        IN  /\ n.m_heartbeatRetry = IF n.m_heartbeatWaiting THEN 1 ELSE 0
            /\ LoopOK(t, n.m_lastHeartbeat, n.silence, n.m_heartbeatWaiting)
    BY <1>1, <2>1, <2>2, <2>3, KeptEntry
  <2> QED
    BY <2>1, <2>4 DEF EntryOK
<1>7. ASSUME MainJoin PROVE EntryInv'
  BY <1>7 DEF MainJoin, MainStep, EntryInv, EntryOK, Clients
<1> QED
  BY <1>3, <1>4, <1>5, <1>6, <1>7 DEF MainSteps

LEMMA ThreadEntryStep ==
    ASSUME TypeInv, EntryInv, UNCHANGED <<main, m_serverTime>>,
           \A c \in Clients' : Same(c) \/ Heard(c) \/ Added(c)
    PROVE  EntryInv'
<1> SUFFICES ASSUME NEW c \in Clients'
             PROVE  EntryOK(m_serverTime, m_clientMap[c])'
  BY DEF EntryInv
<1>1. CASE Same(c)
  BY <1>1 DEF Same, EntryInv, EntryOK
<1>2. CASE Heard(c) \/ Added(c)
  <2>1. /\ m_clientMap'[c].m_lastHeartbeat = m_serverTime
        /\ m_clientMap'[c].m_heartbeatWaiting = FALSE
        /\ m_clientMap'[c].m_heartbeatRetry = 0
        /\ m_clientMap'[c].silence = 0
    <3>1. PICK protocol, peer :
                 m_clientMap'[c] = NewClient(protocol, peer)
      BY <1>2 DEF Heard, Added
    <3> QED
      BY <3>1 DEF NewClient
  <2>2. /\ m_serverTime \in Nat
        /\ main \in {"loop", "scan", "join", "done"} =>
               m_serverTime <= HighestTimestamp
    BY TimingAssumption DEF TypeInv, TypeOK, ClockInv
  <2> QED
    BY <2>1, <2>2, FreshOK DEF EntryOK
<1> QED
  BY <1>1, <1>2

(* At each step of update() each entry of the map is of this epoch of the  *)
(* clock, of the wrap, or mirrored (Server.cpp:285-329).                   *)
THEOREM EntryInvariant == Spec => []EntryInv
<1>1. Init => EntryInv
  BY DEF Init, EntryInv, Clients
<1>2. TypeInv /\ EntryInv /\ [Next]_vars => EntryInv'
  BY MainEntryStep, ThreadEntryStep, ThreadSteps DEF Next, Terminated
<1> QED
  BY <1>1, <1>2, TypeInvariant, PTL DEF Spec

-----------------------------------------------------------------------------
LEMMA TimedOutElapsed ==
    ASSUME NEW info \in ClientInfo,
           info.m_heartbeatRetry = IF info.m_heartbeatWaiting THEN 1 ELSE 0,
           TimedOut(info)
    PROVE  Elapsed(info) >= ClientTimeout
<1>1. ~(info.m_heartbeatRetry > HEARTBEAT_RETRIES)
  BY TimingAssumption
<1> QED
  BY <1>1 DEF TimedOut

LEMMA EntryConsequences ==
    ASSUME TypeInv, EntryInv
    PROVE  ProbedOnce /\ ElapsedFits /\ NotDroppedEarly /\ SilenceBounded
             /\ ProbedBeforeDropped
<1> DEFINE t == m_serverTime
           l(c) == m_clientMap[c].m_lastHeartbeat
           s(c) == m_clientMap[c].silence
           w(c) == m_clientMap[c].m_heartbeatWaiting
<1>1. ASSUME NEW c \in Clients
      PROVE  /\ m_clientMap[c] \in ClientInfo /\ EntryOK(t, m_clientMap[c])
             /\ l(c) \in Int /\ s(c) \in Nat
  BY DEF TypeInv, TypeOK, ClientInfo, EntryInv
<1>2. ProbedOnce
  BY <1>1 DEF ProbedOnce, EntryOK
<1>3. ASSUME NEW c \in Clients, main = "scan"
      PROVE  /\ ScanOK(t, l(c), s(c), w(c))
             /\ t \in 0..HighestTimestamp
             /\ Elapsed(m_clientMap[c]) = t - l(c)
             /\ TimedOut(m_clientMap[c]) => t - l(c) >= ClientTimeout
  <2>1. ScanOK(t, l(c), s(c), w(c)) /\ t \in 0..HighestTimestamp
    BY <1>1, <1>3 DEF EntryOK, TypeInv, ClockInv
  <2>2. Elapsed(m_clientMap[c]) = t - l(c)
    BY <1>1, <2>1, ScanElapsed
  <2>3. TimedOut(m_clientMap[c]) => Elapsed(m_clientMap[c]) >= ClientTimeout
    BY <1>1, TimedOutElapsed DEF EntryOK
  <2> QED
    BY <2>1, <2>2, <2>3
<1>4. ElapsedFits
  <2> SUFFICES ASSUME NEW c \in Clients, main = "scan"
               PROVE  t - l(c) \in -(HighestTimestamp + 1)..HighestTimestamp
    BY <1>3 DEF ElapsedFits
  <2> QED
    BY <1>1, <1>3, TimingAssumption
       DEF ScanOK, Traced, Current, Mirrored, Raced, Hidden
<1>5. NotDroppedEarly
  <2> SUFFICES ASSUME NEW c \in Clients, main = "scan",
                      t - l(c) >= ClientTimeout
               PROVE  s(c) >= ClientTimeout - 2 * MaxStep
    BY <1>3 DEF NotDroppedEarly
  <2> QED
    BY <1>1, <1>3, TimingAssumption
       DEF ScanOK, Traced, Current, Mirrored, Raced, Hidden
<1>6. ProbedBeforeDropped
  <2> SUFFICES ASSUME NEW c \in Clients, main = "scan",
                      HEARTBEAT_INTERVAL + MaxStep <= ClientTimeout,
                      2 * MaxStep < ClientTimeout,
                      t - l(c) >= ClientTimeout
               PROVE  w(c)
    BY <1>3 DEF ProbedBeforeDropped
  <2>1. ~(t - l(c) < HEARTBEAT_INTERVAL + MaxStep \/ t <= MaxStep)
    BY <1>1, <1>3, TimingAssumption
       DEF ScanOK, Traced, Current, Mirrored, Raced, Hidden
  <2> QED
    BY <1>3, <2>1 DEF ScanOK
<1>7. SilenceBounded
  <2> SUFFICES ASSUME NEW c \in Clients
               PROVE  s(c) < HighestTimestamp + ClientTimeout + MaxStep
    BY DEF SilenceBounded
  <2>1. CASE main \in {"loop", "join", "done"}
    <3>1. LoopOK(t, l(c), s(c), w(c)) /\ t \in 0..HighestTimestamp
      BY <1>1, <2>1 DEF EntryOK, TypeInv, ClockInv
    <3> QED
      BY <1>1, <3>1, TimingAssumption
         DEF LoopOK, Traced, Current, Mirrored, Raced, Hidden
  <2>2. CASE main = "scan"
    BY <1>1, <1>3, <2>2, TimingAssumption
       DEF ScanOK, Traced, Current, Mirrored, Raced, Hidden
  <2>3. CASE main = "wrapped"
    <3>1. /\ WrappedOK(t, l(c), s(c))
          /\ t \in (HighestTimestamp + 1)..(HighestTimestamp + MaxStep)
      BY <1>1, <2>3 DEF EntryOK, TypeInv, ClockInv
    <3> QED
      BY <1>1, <3>1, TimingAssumption DEF WrappedOK, Current, Raced
  <2>4. CASE main = "mirror"
    <3>1. MirrorOK(t, l(c), s(c)) /\ t \in 1..MaxStep
      BY <1>1, <2>4 DEF EntryOK, TypeInv, ClockInv
    <3> QED
      BY <1>1, <3>1, TimingAssumption DEF MirrorOK, WrappedOK, Current, Raced
  <2> QED
    BY <2>1, <2>2, <2>3, <2>4 DEF TypeInv, TypeOK
<1> QED
  BY <1>2, <1>4, <1>5, <1>6, <1>7

(* The retry counter is 0 or 1, so neither the retry limit nor the Re-try  *)
(* message can ever apply (Server.cpp:301, 309).                           *)
THEOREM RetriesNeverHappen == Spec => []ProbedOnce
BY TypeInvariant, EntryInvariant, EntryConsequences, PTL

(* The 32-bit subtraction of the scan does not overflow (Server.cpp:299).  *)
THEOREM ElapsedInRange == Spec => []ElapsedFits
BY TypeInvariant, EntryInvariant, EntryConsequences, PTL

(* Neither the wrap of the clock, nor its reset without the mutex, nor     *)
(* either outcome of the overflow in abs() makes update() drop a client    *)
(* earlier than two loop iterations before ClientTimeout.                  *)
THEOREM NoEarlyTimeout == Spec => []NotDroppedEarly
BY TypeInvariant, EntryInvariant, EntryConsequences, PTL

(* No client stays silent in the map for longer than a period of the clock *)
(* plus ClientTimeout plus one iteration.                                  *)
THEOREM SilenceIsNoticed == Spec => []SilenceBounded
BY TypeInvariant, EntryInvariant, EntryConsequences, PTL

(* With iterations that are short next to ClientTimeout, a client that is  *)
(* dropped had a heartbeat to answer.                                      *)
THEOREM HeartbeatBeforeTimeout == Spec => []ProbedBeforeDropped
BY TypeInvariant, EntryInvariant, EntryConsequences, PTL
=============================================================================
