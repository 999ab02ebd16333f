--------------------------- MODULE SessionProofs ----------------------------
(***************************************************************************)
(* Proofs about Session, for every delay, step and timeout that            *)
(* TimesAssumption allows.  Both properties follow from one inductive      *)
(* invariant.  Its parts bound, by the milliseconds a datagram in flight   *)
(* may still take, how old the news is that one end has of the other, and  *)
(* by how much the age that update() measures falls short of that.         *)
(***************************************************************************)
EXTENDS Session, TLAPS

ClientType ==
    [state : {"new", "connecting", "on", "gone"}, age : Int,
     wrapped : BOOLEAN, torn : BOOLEAN]

EntryType ==
    [registered : BOOLEAN, waiting : BOOLEAN, age : Int, wrapped : BOOLEAN,
     hidden : BOOLEAN, silence : Nat]

SessionTypes ==
    /\ client \in ClientType /\ server \in EntryType
    /\ net \subseteq
           [type : Types, to : {"client", "server"}, ttl : 0..MaxDelay]
    /\ clientWait \in 0..MaxStep /\ serverWait \in 0..MaxStep
    /\ lost \in BOOLEAN /\ halfOpen \in Nat

On == client.state = "on"

Sent(type, to) == {d \in net : d.type = type /\ d.to = to}

(* Nothing has happened before Connect, only an entry waits, and who       *)
(* agrees is not alone.                                                    *)
Beginnings ==
    /\ client.state = "new" => net = {} /\ ~server.registered
    /\ server.waiting => server.registered
    /\ Agree => halfOpen = 0

(* What the client sends to the server dates from its own age 0, or from   *)
(* one iteration at most.                                                  *)
PacketsYoung ==
    /\ client.state = "connecting" =>
          \A d \in Sent("Connect", "server") \cup Sent("Heartbeat", "server") :
              client.age + d.ttl <= MaxDelay
    /\ On /\ ~client.torn =>
          \A d \in Sent("Connect", "server") \cup Sent("Heartbeat", "server") :
              client.age + d.ttl <= MaxDelay + MaxStep

(* No end misses its own timeout by more than an iteration.                *)
AgesBounded ==
    /\ server.registered => server.age < ClientTimeout + serverWait
    /\ On => client.age <= ClientTimeout + 1 + clientWait
    /\ On /\ (client.wrapped \/ ~client.torn) =>
          client.age <= ClientTimeout + clientWait

(* The client's clock is behind its last heartbeat only if that was torn.  *)
ClientClock ==
    On => client.age >= IF ~client.torn THEN 0
                        ELSE IF client.wrapped THEN -(2 * MaxStep)
                        ELSE -HighestTimestamp

(* By how much the age of an entry falls short of its silence.             *)
Clocked(entry) ==
    entry.registered =>
        /\ ~entry.wrapped /\ ~entry.hidden => entry.silence <= entry.age
        /\ entry.wrapped /\ ~entry.hidden =>
              entry.silence <= entry.age + 2 * (ClientTimeout + MaxStep)
        /\ ~entry.waiting /\ ~entry.hidden =>
              entry.silence <= entry.age + 2 * (HEARTBEAT_INTERVAL + MaxStep)
        /\ entry.hidden /\ ~entry.wrapped =>
              entry.silence <= entry.age + HighestTimestamp
        /\ entry.hidden /\ entry.wrapped =>
              entry.silence <= entry.age + HighestTimestamp + 4 * MaxStep

(* The wrap of the clock comes when it has caught up with a hidden entry.  *)
HiddenAhead ==
    server.registered /\ server.hidden /\ ~server.wrapped =>
        server.age <= MaxStep + serverWait

(* An entry without a client that is on: no answer is left that could      *)
(* have been sent since.                                                   *)
GhostAges ==
    server.registered /\ ~On =>
        /\ halfOpen <= server.silence + MaxDelay
        /\ \A d \in Sent("Heartbeat", "server") : halfOpen + d.ttl <= MaxDelay

(* By how much the age of the client may fall short of the time since its  *)
(* last heartbeat.                                                         *)
Overlooked ==
    (IF client.torn THEN HighestTimestamp ELSE 0)
      + (IF client.wrapped THEN ClientTimeout + MaxStep ELSE 0)
      + (IF client.torn /\ client.wrapped THEN 1 + 2 * MaxStep ELSE 0)

(* A client without entry: no heartbeat is left.                           *)
DeafAges ==
    ~server.registered /\ On =>
        /\ halfOpen <= client.age + Overlooked + MaxDelay
        /\ \A d \in Sent("Heartbeat", "client") : halfOpen + d.ttl <= MaxDelay

(* The entry was renewed by something the client sent MaxDelay ago at most.*)
TogetherAges ==
    server.registered /\ On /\ ~client.torn =>
        client.age <= server.silence + MaxDelay + MaxStep

(* Heartbeats are due in time, also to the client that waits for Connect.  *)
HeartbeatsDue ==
    server.registered /\ ~server.waiting =>
        server.age < HEARTBEAT_INTERVAL + serverWait

(* What the waiting end waits for is on its way, unless it was lost.       *)
HeartbeatComing(d) ==
    /\ server.age + d.ttl < HEARTBEAT_INTERVAL + MaxStep + MaxDelay
    /\ ~server.hidden =>
          server.silence + d.ttl
              < 3 * (HEARTBEAT_INTERVAL + MaxStep) + MaxDelay

AnswersComing ==
    server.registered /\ ~lost =>
        /\ client.state = "connecting" =>
              /\ ~server.waiting
              /\ \E d \in Sent("Connect", "client") :
                    server.age + d.ttl <= MaxDelay + 2 * MaxStep
        /\ On /\ server.waiting =>
              \/ \E d \in Sent("Heartbeat", "client") : HeartbeatComing(d)
              \/ \E d \in Sent("Heartbeat", "server") :
                    server.age + d.ttl
                        < HEARTBEAT_INTERVAL + MaxStep + 2 * MaxDelay

SessionInv ==
    /\ SessionTypes /\ Beginnings /\ PacketsYoung /\ AgesBounded
    /\ ClientClock /\ Clocked(server) /\ HiddenAhead
    /\ GhostAges /\ DeafAges /\ TogetherAges /\ HeartbeatsDue /\ AnswersComing

(* What every step but Tick does to the history.                           *)
Restarts == halfOpen' = IF Agree' THEN 0 ELSE halfOpen

-----------------------------------------------------------------------------
LEMMA InitInv == Init => SessionInv
<1> SUFFICES ASSUME Init PROVE SessionInv
  OBVIOUS
<1>1. /\ client.state = "new" /\ client \in ClientType
      /\ server = NoEntry /\ ~server.registered /\ ~server.waiting
      /\ server \in EntryType
  BY DEF Init, ClientIn, ClientType, NoEntry, EntryType
<1>2. SessionTypes
  <2>1. clientWait \in 0..MaxStep /\ serverWait \in 0..MaxStep
    BY TimesAssumption DEF Init
  <2>2. net = {} /\ lost \in BOOLEAN /\ halfOpen \in Nat
    BY DEF Init
  <2> QED
    BY <1>1, <2>1, <2>2 DEF SessionTypes
<1>3. Beginnings
  BY <1>1 DEF Init, Beginnings
<1> QED
  BY <1>1, <1>2, <1>3
     DEF SessionInv, PacketsYoung, AgesBounded, ClientClock,
         Clocked, HiddenAhead, GhostAges, DeafAges, TogetherAges,
         HeartbeatsDue, AnswersComing, On

LEMMA SentInTime ==
    ASSUME SessionInv
    PROVE  \A type, to : \A d \in Sent(type, to) : d.ttl \in 0..MaxDelay
BY DEF SessionInv, SessionTypes, Sent

-----------------------------------------------------------------------------
(* All ages and waits grow with the clock, and each ttl shrinks with it.   *)
LEMMA TickInv ==
    ASSUME SessionInv, Tick
    PROVE  SessionInv'
<1> USE TimesAssumption DEF SessionInv, SessionTypes, On
<1>1. /\ net' = {[d EXCEPT !.ttl = @ - 1] : d \in net}
      /\ \A d \in net : d.ttl \in 1..MaxDelay
      /\ lost' = lost
      /\ halfOpen' = IF Agree THEN 0 ELSE halfOpen + 1
  BY DEF Tick
<1>2. /\ client' \in ClientType /\ client'.state = client.state
      /\ client'.wrapped = client.wrapped /\ client'.torn = client.torn
      /\ client.state \in {"connecting", "on"} => client'.age = client.age + 1
  BY DEF Tick, ClientType
<1>3. /\ server' \in EntryType /\ server'.registered = server.registered
      /\ server'.waiting = server.waiting /\ server'.wrapped = server.wrapped
      /\ server'.hidden = server.hidden
      /\ server.registered => /\ server'.age = server.age + 1
                              /\ server'.silence = server.silence + 1
  <2>1. CASE server.registered
    <3>1. /\ server' = [server EXCEPT !.age = @ + 1, !.silence = @ + 1]
          /\ server.age + 1 \in Int /\ server.silence + 1 \in Nat
      BY <2>1 DEF Tick, EntryType
    <3> QED
      BY <3>1 DEF EntryType
  <2>2. CASE ~server.registered
    BY <2>2 DEF Tick, EntryType
  <2> QED
    BY <2>1, <2>2
<1>4. /\ On => clientWait' = clientWait + 1 /\ clientWait < MaxStep
      /\ ~On => clientWait' = 0
      /\ serverWait' = serverWait + 1 /\ serverWait < MaxStep
  BY DEF Tick
<1>5. /\ client.age \in Int /\ server.age \in Int /\ server.silence \in Nat
  BY DEF ClientType, EntryType
<1>6. \A type, to : \A e \in Sent(type, to)' :
          \E d \in Sent(type, to) : e.ttl = d.ttl - 1
  BY <1>1 DEF Sent
<1>7. \A type, to : \A d \in Sent(type, to) :
          \E e \in Sent(type, to)' : e.ttl = d.ttl - 1
  <2> SUFFICES ASSUME NEW type, NEW to, NEW d \in Sent(type, to)
               PROVE  \E e \in Sent(type, to)' : e.ttl = d.ttl - 1
    OBVIOUS
  <2>1. [d EXCEPT !.ttl = @ - 1] \in Sent(type, to)'
    BY <1>1 DEF Sent
  <2> QED
    BY <2>1 DEF Sent
<1>8. SessionTypes'
  BY <1>1, <1>2, <1>3, <1>4
<1>9. Beginnings'
  BY <1>1, <1>2, <1>3 DEF Beginnings, Agree
<1>10. PacketsYoung'
  BY <1>1, <1>2, <1>6, <1>5 DEF PacketsYoung, Sent
<1>11. /\ AgesBounded' /\ HeartbeatsDue' /\ TogetherAges' /\ ClientClock'
       /\ HiddenAhead'
  BY <1>2, <1>3, <1>4, <1>5
     DEF AgesBounded, HeartbeatsDue, TogetherAges, ClientClock, HiddenAhead
<1>12. Clocked(server)'
  BY <1>3, <1>5 DEF Clocked
<1>13. GhostAges' /\ DeafAges'
  <2>1. Overlooked' = Overlooked /\ Overlooked \in Int
    BY <1>2 DEF Overlooked
  <2> QED
    BY <1>1, <1>2, <1>3, <1>6, <1>5, <2>1 DEF GhostAges, DeafAges, Agree, Sent
<1>14. AnswersComing'
  <2> SUFFICES ASSUME server.registered, ~lost
               PROVE  AnswersComing'
    BY <1>1, <1>3 DEF AnswersComing
  <2>1. \A type, to : \A d \in Sent(type, to) :
           d.ttl \in Int /\ \E e \in Sent(type, to)' : e.ttl = d.ttl - 1
    BY <1>1, <1>7 DEF Sent
  <2>2. ASSUME NEW d \in Sent("Heartbeat", "client"), HeartbeatComing(d)
        PROVE  \E e \in Sent("Heartbeat", "client")' : HeartbeatComing(e)'
    BY <1>3, <1>5, <2>1, <2>2 DEF HeartbeatComing
  <2>3. client.state = "connecting" =>
           /\ ~server'.waiting
           /\ \E d \in Sent("Connect", "client")' :
                 server'.age + d.ttl <= MaxDelay + 2 * MaxStep
    BY <1>3, <1>5, <2>1 DEF AnswersComing
  <2>4. ASSUME NEW d \in Sent("Heartbeat", "server"),
               server.age + d.ttl
                   < HEARTBEAT_INTERVAL + MaxStep + 2 * MaxDelay
        PROVE  \E e \in Sent("Heartbeat", "server")' :
                   server'.age + e.ttl
                       < HEARTBEAT_INTERVAL + MaxStep + 2 * MaxDelay
    BY <1>3, <1>5, <2>1, <2>4
  <2>5. On /\ server.waiting =>
           \/ \E d \in Sent("Heartbeat", "client")' : HeartbeatComing(d)'
           \/ \E d \in Sent("Heartbeat", "server")' :
                 server'.age + d.ttl
                     < HEARTBEAT_INTERVAL + MaxStep + 2 * MaxDelay
    BY <2>2, <2>4 DEF AnswersComing
  <2> QED
    BY <1>2, <1>3, <2>3, <2>5 DEF AnswersComing
<1> QED
  BY <1>8, <1>9, <1>10, <1>11, <1>13, <1>14, <1>12

-----------------------------------------------------------------------------
(* Steps of the client.                                                    *)

LEMMA ConnectInv ==
    ASSUME SessionInv, Connect, Restarts
    PROVE  SessionInv'
<1> USE TimesAssumption DEF SessionInv, SessionTypes, On
<1>1. /\ net' = {Datagram("Connect", "server")} /\ ~server.registered
      /\ client' = ClientIn("connecting")
      /\ UNCHANGED <<server, clientWait, serverWait, lost>>
  BY DEF Connect, Beginnings
<1>2. /\ client'.state = "connecting" /\ client'.age = 0
      /\ client' \in ClientType
  BY <1>1 DEF ClientIn, ClientType
<1>3. halfOpen' = 0
  BY <1>1, <1>2 DEF Restarts, Agree, EntryType
<1>4. SessionTypes'
  BY <1>1, <1>2, <1>3 DEF Datagram, Types
<1>5. PacketsYoung'
  BY <1>1, <1>2 DEF Datagram, PacketsYoung, Sent
<1>6. SessionTypes' /\ Beginnings' /\ PacketsYoung' /\ halfOpen' = 0
  BY <1>1, <1>2, <1>3, <1>4, <1>5 DEF Beginnings
<1> QED
  BY <1>1, <1>2, <1>6
     DEF AgesBounded, ClientClock, Clocked, HiddenAhead, GhostAges, DeafAges,
         TogetherAges, HeartbeatsDue, AnswersComing

(* A client that ends, by itself or because it was told so, leaves at most *)
(* a Disconnect behind.                                                    *)
LEMMA ClientEndsInv ==
    ASSUME SessionInv, client.state # "new", client' = Gone,
           NEW others \in SUBSET net,
           net' \in {others, others \cup {Datagram("Disconnect", "server")}},
           clientWait' \in {0, clientWait},
           UNCHANGED <<server, serverWait, lost>>, Restarts
    PROVE  SessionInv'
<1> USE TimesAssumption DEF SessionInv, SessionTypes, On
<1>1. client'.state = "gone" /\ client' \in ClientType
  BY DEF Gone, ClientIn, ClientType
<1>2. Sent("Heartbeat", "server")' \subseteq Sent("Heartbeat", "server")
  BY DEF Sent, Datagram
<1>3. SessionTypes'
  BY <1>1 DEF Restarts, Datagram, Types
<1>4. /\ Beginnings' /\ PacketsYoung' /\ AgesBounded' /\ ClientClock'
      /\ Clocked(server)' /\ HiddenAhead'
  BY <1>1
     DEF Beginnings, PacketsYoung, AgesBounded, ClientClock, Clocked,
         HiddenAhead, Restarts
<1>5. GhostAges'
  <2>1. server.silence \in Nat
    BY DEF EntryType
  <2>2. CASE Agree
    BY <1>1, <1>2, <2>1, <2>2, SentInTime
       DEF GhostAges, Beginnings, Agree, Restarts
  <2>3. CASE ~Agree
    BY <1>1, <1>2, <2>3 DEF GhostAges, Agree, Restarts
  <2> QED
    BY <2>2, <2>3
<1> QED
  BY <1>1, <1>3, <1>4, <1>5
     DEF DeafAges, TogetherAges, HeartbeatsDue, AnswersComing

(* A clock that has not wrapped yet says what it overlooks from now on.    *)
LEMMA ClientWrapsInv ==
    ASSUME SessionInv, ClientWraps, Restarts
    PROVE  SessionInv'
<1> USE TimesAssumption DEF SessionInv, SessionTypes, On
<1>1. PICK age \in IF client.torn THEN -(2 * MaxStep)..0 ELSE {0} :
          client' = [client EXCEPT !.age = age, !.wrapped = TRUE]
  BY DEF ClientWraps
<1>2. /\ age \in -(2 * MaxStep)..0 /\ ~client.torn => age = 0
      /\ client.age \in Int /\ server.silence \in Nat
  BY <1>1 DEF ClientType, EntryType
<1>3. /\ client.state = "on" /\ ~client.wrapped /\ clientWait' = 0
      /\ UNCHANGED <<server, net, serverWait, lost>>
  BY DEF ClientWraps
<1>4. /\ client'.state = "on" /\ client'.age = age /\ client'.wrapped
      /\ client'.torn = client.torn /\ client' \in ClientType
  <2>1. age \in Int
    BY <1>2
  <2> QED
    BY <1>1, <1>3, <2>1 DEF ClientType
<1>5. SessionTypes' /\ Beginnings' /\ halfOpen' = halfOpen
  BY <1>3, <1>4 DEF Beginnings, Restarts, Agree
<1>6. PacketsYoung'
  BY <1>2, <1>3, <1>4, SentInTime DEF PacketsYoung, Sent
<1>7. AgesBounded' /\ ClientClock' /\ TogetherAges'
  BY <1>2, <1>3, <1>4 DEF AgesBounded, ClientClock, TogetherAges
<1>8. DeafAges'
  <2>1. /\ Overlooked = IF client.torn THEN HighestTimestamp ELSE 0
        /\ Overlooked' = Overlooked + ClientTimeout + MaxStep
                           + (IF client.torn THEN 1 + 2 * MaxStep ELSE 0)
    BY <1>3, <1>4 DEF Overlooked
  <2>2. client.age <= ClientTimeout + MaxStep
                        + (IF client.torn THEN 1 ELSE 0)
    BY <1>2, <1>3 DEF AgesBounded
  <2> QED
    BY <1>2, <1>3, <1>4, <1>5, <2>1, <2>2 DEF DeafAges, Sent
<1> QED
  BY <1>2, <1>3, <1>4, <1>5, <1>6, <1>7, <1>8
     DEF Clocked, HiddenAhead, GhostAges, HeartbeatsDue, AnswersComing,
         HeartbeatComing, Sent

LEMMA ClientUpdateInv ==
    ASSUME SessionInv, ClientUpdate, Restarts
    PROVE  SessionInv'
<1>1. CASE client.age > ClientTimeout
  BY <1>1, ClientEndsInv DEF ClientUpdate, ClientLeaves
<1>2. CASE ~(client.age > ClientTimeout)
  <2> USE DEF SessionInv, SessionTypes
  <2>1. /\ clientWait' = 0 /\ client.age <= ClientTimeout
        /\ UNCHANGED <<client, server, net, serverWait, lost>>
    BY <1>2, TimesAssumption DEF ClientUpdate, ClientType
  <2>2. halfOpen' = halfOpen
    BY <2>1 DEF Beginnings, Restarts, Agree
  <2>3. AnswersComing'
    BY <2>1 DEF AnswersComing, HeartbeatComing, Sent, On
  <2>4. AgesBounded'
    BY <2>1, TimesAssumption DEF AgesBounded, On, ClientType
  <2> QED
    BY <2>1, <2>2, <2>3, <2>4, TimesAssumption
       DEF Beginnings, PacketsYoung, ClientClock, Clocked, HiddenAhead,
           GhostAges, DeafAges, Overlooked, TogetherAges, HeartbeatsDue, Agree,
           Sent, On
<1> QED
  BY <1>1, <1>2

(* A datagram that goes without effect, unless somebody waits for it.      *)
LEMMA DatagramGoesInv ==
    ASSUME SessionInv, NEW d \in net, net' \in {net, net \ {d}},
           UNCHANGED <<client, server, clientWait, serverWait>>,
           lost' \in BOOLEAN, lost => lost',
           ~lost' =>
             /\ d.type = "Connect" /\ d.to = "client" =>
                   client.state # "connecting"
             /\ d.type = "Heartbeat" /\ d.to = "client" => ~On
             /\ d.type = "Heartbeat" /\ d.to = "server" => ~server.waiting,
           Restarts
    PROVE  SessionInv'
<1> USE TimesAssumption DEF SessionInv, SessionTypes, On
<1>1. \A type, to : Sent(type, to)' \subseteq Sent(type, to)
  BY DEF Sent
<1>2. AnswersComing'
  BY DEF AnswersComing, HeartbeatComing, Sent
<1>3. Beginnings' /\ halfOpen' = halfOpen
  BY DEF Beginnings, Restarts, Agree
<1> QED
  BY <1>1, <1>2, <1>3
     DEF PacketsYoung, AgesBounded, ClientClock, Clocked, HiddenAhead,
         GhostAges, DeafAges, Overlooked, TogetherAges, HeartbeatsDue

(* The answer to Connect.                                                  *)
LEMMA ConnectedInv ==
    ASSUME SessionInv, NEW d \in net, client.state = "connecting",
           client' = ClientIn("on"), net' \in {net, net \ {d}},
           UNCHANGED <<server, clientWait, serverWait, lost>>, Restarts
    PROVE  SessionInv'
<1> USE TimesAssumption DEF SessionInv, SessionTypes, On
<1>1. /\ client'.state = "on" /\ client'.age = 0
      /\ ~client'.wrapped /\ ~client'.torn /\ client' \in ClientType
  BY DEF ClientIn, ClientType
<1>2. /\ \A type, to : Sent(type, to)' \subseteq Sent(type, to)
      /\ server.silence \in Nat
  BY DEF Sent, EntryType
<1>3. SessionTypes' /\ Beginnings' /\ halfOpen' \in {0, halfOpen}
  BY <1>1 DEF Beginnings, Restarts
<1>4. AnswersComing'
  BY <1>1 DEF AnswersComing
<1>5. PacketsYoung'
  BY <1>1, <1>2, SentInTime DEF PacketsYoung
<1>6. DeafAges'
  <2>1. ~server.registered => halfOpen = 0
    BY DEF Beginnings, Agree, EntryType
  <2>2. Overlooked' = 0
    BY <1>1 DEF Overlooked
  <2> QED
    BY <1>1, <1>2, <1>3, <2>1, <2>2, SentInTime DEF DeafAges
<1> QED
  BY <1>1, <1>2, <1>3, <1>4, <1>5, <1>6
     DEF AgesBounded, ClientClock, Clocked, HiddenAhead, GhostAges,
         TogetherAges, HeartbeatsDue

(* A heartbeat is recorded, in one piece or not, and answered.             *)
LEMMA RecordedInv ==
    ASSUME SessionInv, NEW d \in Sent("Heartbeat", "client"), On,
           client' \in Recorded, NEW kept \in {net, net \ {d}},
           net' = kept \cup {Datagram("Heartbeat", "server")},
           UNCHANGED <<server, clientWait, serverWait, lost>>, Restarts
    PROVE  SessionInv'
<1> USE TimesAssumption DEF SessionInv, SessionTypes
<1>1. /\ client'.state = "on" /\ ~client'.wrapped /\ client' \in ClientType
      /\ \/ client'.age = clientWait /\ ~client'.torn
         \/ /\ client'.age \in -HighestTimestamp..(ClientTimeout + 1)
            /\ client'.torn
  <2>1. clientWait \in Int
    BY DEF SessionTypes
  <2>2. CASE client' = [client EXCEPT !.age = clientWait, !.wrapped = FALSE,
                                      !.torn = FALSE]
    BY <2>1, <2>2 DEF ClientType, On
  <2>3. CASE \E age \in -HighestTimestamp..(ClientTimeout + 1) :
                client' = [client EXCEPT !.age = age, !.wrapped = FALSE,
                                         !.torn = TRUE]
    <3>1. PICK age \in -HighestTimestamp..(ClientTimeout + 1) :
                client' = [client EXCEPT !.age = age, !.wrapped = FALSE,
                                         !.torn = TRUE]
      BY <2>3
    <3>2. age \in Int
      BY <3>1
    <3> QED
      BY <3>1, <3>2 DEF ClientType, On
  <2> QED
    BY <2>2, <2>3 DEF Recorded
<1>2. /\ Datagram("Heartbeat", "server") \in Sent("Heartbeat", "server")'
      /\ \A e \in Sent("Heartbeat", "server")' :
            \/ e \in Sent("Heartbeat", "server")
            \/ e = Datagram("Heartbeat", "server")
      /\ Sent("Heartbeat", "client")' \subseteq Sent("Heartbeat", "client")
      /\ Sent("Connect", "server")' \subseteq Sent("Connect", "server")
  BY DEF Sent, Datagram
<1>3. SessionTypes' /\ Beginnings' /\ halfOpen' = halfOpen
  BY <1>1 DEF Beginnings, Agree, Restarts, Datagram, Types, On
<1>4. PacketsYoung'
  BY <1>1, <1>2, SentInTime DEF PacketsYoung, Datagram, On
<1>5. DeafAges'
  <2>1. Overlooked' = IF client'.torn THEN HighestTimestamp ELSE 0
    BY <1>1 DEF Overlooked
  <2>2. ~server.registered => halfOpen + d.ttl <= MaxDelay
    BY DEF DeafAges
  <2>3. d.ttl \in 0..MaxDelay
    BY SentInTime
  <2> QED
    BY <1>1, <1>2, <1>3, <2>1, <2>2, <2>3 DEF DeafAges, On
<1>6. AnswersComing'
  <2> SUFFICES ASSUME server.registered, ~lost, server.waiting
               PROVE  \/ \E e \in Sent("Heartbeat", "client")' :
                            HeartbeatComing(e)
                      \/ \E e \in Sent("Heartbeat", "server")' :
                            server.age + e.ttl
                                < HEARTBEAT_INTERVAL + MaxStep + 2 * MaxDelay
    BY <1>1 DEF AnswersComing, HeartbeatComing
  <2>1. CASE \E e \in Sent("Heartbeat", "client") : HeartbeatComing(e)
    <3>1. PICK e \in Sent("Heartbeat", "client") : HeartbeatComing(e)
      BY <2>1
    <3>2. e.ttl \in 0..MaxDelay /\ server.age \in Int
      BY SentInTime DEF EntryType
    <3>3. server.age + MaxDelay
             < HEARTBEAT_INTERVAL + MaxStep + 2 * MaxDelay
      BY <3>1, <3>2 DEF HeartbeatComing
    <3> QED
      BY <1>2, <3>3 DEF Datagram
  <2>2. CASE \E e \in Sent("Heartbeat", "server") :
                 server.age + e.ttl
                     < HEARTBEAT_INTERVAL + MaxStep + 2 * MaxDelay
    <3>1. Sent("Heartbeat", "server") \subseteq Sent("Heartbeat", "server")'
      BY DEF Sent
    <3> QED
      BY <2>2, <3>1
  <2> QED
    BY <2>1, <2>2 DEF AnswersComing
<1>7. TogetherAges'
  BY <1>1 DEF TogetherAges, EntryType
<1> QED
  BY <1>1, <1>2, <1>3, <1>4, <1>5, <1>6, <1>7
     DEF AgesBounded, ClientClock, Clocked, HiddenAhead, GhostAges,
         HeartbeatsDue, On

LEMMA ClientReceivesInv ==
    ASSUME SessionInv, NEW d \in net, ClientReceives(d), Restarts
    PROVE  SessionInv'
<1>1. PICK kept \in {net, net \ {d}} :
          CASE client.state = "connecting" /\ d.type = "Connect" ->
                 /\ client' = ClientIn("on")
                 /\ net' = kept
                 /\ UNCHANGED <<server, clientWait, serverWait, lost>>
            [] client.state = "on" /\ d.type = "Heartbeat" ->
                 /\ client' \in Recorded
                 /\ net' = kept \cup {Datagram("Heartbeat", "server")}
                 /\ UNCHANGED <<server, clientWait, serverWait, lost>>
            [] client.state = "on" /\ d.type = "Disconnect" ->
                 ClientLeaves(kept)
            [] OTHER ->
                 /\ net' = kept
                 /\ UNCHANGED <<client, server, clientWait, serverWait, lost>>
  BY DEF ClientReceives
<1>2. d.to = "client" /\ kept \subseteq net
  BY DEF ClientReceives
<1>3. CASE client.state = "connecting" /\ d.type = "Connect"
  BY <1>1, <1>3, ConnectedInv
<1>4. CASE On /\ d.type = "Heartbeat"
  <2>1. d \in Sent("Heartbeat", "client")
    BY <1>2, <1>4 DEF Sent
  <2>2. /\ client' \in Recorded
        /\ net' = kept \cup {Datagram("Heartbeat", "server")}
        /\ UNCHANGED <<server, clientWait, serverWait, lost>>
    BY <1>1, <1>4 DEF On
  <2> QED
    BY <1>4, <2>1, <2>2, RecordedInv
<1>5. CASE On /\ d.type = "Disconnect"
  BY <1>1, <1>2, <1>5, ClientEndsInv DEF ClientLeaves, On
<1>6. CASE /\ ~(client.state = "connecting" /\ d.type = "Connect")
           /\ ~(On /\ d.type = "Heartbeat") /\ ~(On /\ d.type = "Disconnect")
  BY <1>1, <1>2, <1>6, DatagramGoesInv DEF SessionInv, SessionTypes, On
<1> QED
  BY <1>3, <1>4, <1>5, <1>6

-----------------------------------------------------------------------------
(* Steps of the server.                                                    *)

LEMMA EntryGoesInv ==
    ASSUME SessionInv, server.registered, server' = NoEntry,
           NEW others \in SUBSET net, NEW packets \in SUBSET {"Disconnect"},
           ServerStep(packets, others), serverWait' \in {0, serverWait},
           Restarts
    PROVE  SessionInv'
<1> USE TimesAssumption DEF SessionInv, SessionTypes, On
<1>1. /\ net' = others \cup {Datagram(type, "client") : type \in packets}
      /\ UNCHANGED <<client, clientWait, lost>> /\ ~server'.registered
  BY DEF ServerStep, NoEntry
<1>2. \A e \in net' \ net : e = Datagram("Disconnect", "client")
  BY <1>1
<1>3. SessionTypes'
  BY <1>1, <1>2 DEF Restarts, NoEntry, EntryType, Datagram, Types
<1>4. Beginnings'
  BY <1>1 DEF Beginnings, Restarts, Agree, NoEntry
<1>5. /\ Sent("Heartbeat", "client")' \subseteq Sent("Heartbeat", "client")
      /\ PacketsYoung'
  BY <1>1, <1>2 DEF PacketsYoung, Sent, Datagram
<1>6. DeafAges'
  <2>1. On => halfOpen = 0
    BY DEF Beginnings, Agree
  <2>2. On => halfOpen' = 0
    BY <2>1 DEF Restarts
  <2>3. On => client.age + Overlooked >= 0
    BY DEF ClientClock, ClientType, Overlooked
  <2>4. client.age \in Int /\ Overlooked \in Int /\ Overlooked' = Overlooked
    BY <1>1 DEF ClientType, Overlooked
  <2> QED
    BY <1>1, <1>5, <2>2, <2>3, <2>4, SentInTime DEF DeafAges
<1> QED
  BY <1>1, <1>3, <1>4, <1>5, <1>6
     DEF AgesBounded, ClientClock, Clocked, HiddenAhead, GhostAges,
         TogetherAges, HeartbeatsDue, AnswersComing

(* A Connect that is answered, or an answer that was waited for.           *)
LEMMA EntryRenewedInv ==
    ASSUME SessionInv, NEW d \in net, d.to = "server",
           NEW others \in {net, net \ {d}},
           server' \in Renewed, serverWait' = serverWait,
           \/ /\ d.type = "Connect" /\ ~server.registered
              /\ ServerStep({"Connect"}, others)
           \/ /\ d.type = "Heartbeat" /\ server.registered /\ server.waiting
              /\ ServerStep({}, others),
           Restarts
    PROVE  SessionInv'
<1> USE TimesAssumption DEF SessionInv, SessionTypes, On
<1>1. /\ UNCHANGED <<client, clientWait, lost>>
      /\ others \subseteq net
  BY DEF ServerStep
<1>2. /\ server'.registered /\ ~server'.waiting /\ ~server'.wrapped
      /\ server'.silence = 0 /\ server' \in EntryType
      /\ \/ ~server'.hidden /\ server'.age \in 0..(2 * MaxStep)
         \/ /\ server'.hidden
            /\ server'.age
                  \in -HighestTimestamp..(2 * MaxStep - HighestTimestamp)
  <2>1. CASE \E age \in {0, serverWait} \cup {2 * over : over \in 1..MaxStep} :
                server' = [NoEntry EXCEPT !.registered = TRUE, !.age = age]
    <3>1. PICK age \in {0, serverWait} \cup {2 * over : over \in 1..MaxStep} :
                server' = [NoEntry EXCEPT !.registered = TRUE, !.age = age]
      BY <2>1
    <3>2. age \in 0..(2 * MaxStep)
      BY <3>1
    <3>3. server' = [registered |-> TRUE, waiting |-> FALSE, age |-> age,
                     wrapped |-> FALSE, hidden |-> FALSE, silence |-> 0]
      BY <3>1 DEF NoEntry
    <3> QED
      BY <3>2, <3>3 DEF EntryType
  <2>2. CASE \E over \in 1..MaxStep :
                server' = [NoEntry EXCEPT !.registered = TRUE,
                                          !.age = 2 * over - HighestTimestamp,
                                          !.hidden = TRUE]
    <3>1. PICK over \in 1..MaxStep :
                server' = [NoEntry EXCEPT !.registered = TRUE,
                                          !.age = 2 * over - HighestTimestamp,
                                          !.hidden = TRUE]
      BY <2>2
    <3>2. server' = [registered |-> TRUE, waiting |-> FALSE,
                     age |-> 2 * over - HighestTimestamp,
                     wrapped |-> FALSE, hidden |-> TRUE, silence |-> 0]
      BY <3>1 DEF NoEntry
    <3>3. 2 * over - HighestTimestamp
             \in -HighestTimestamp..(2 * MaxStep - HighestTimestamp)
      BY <3>1
    <3> QED
      BY <3>2, <3>3 DEF EntryType
  <2> QED
    BY <2>1, <2>2 DEF Renewed
<1>3. \/ /\ d.type = "Connect" /\ ~server.registered
         /\ net' = others \cup {Datagram("Connect", "client")}
      \/ /\ d.type = "Heartbeat" /\ server.registered /\ server.waiting
         /\ net' = others
  BY DEF ServerStep
<1>4. SessionTypes'
  BY <1>1, <1>3, <1>2 DEF Restarts, Datagram, Types
<1>5. Beginnings'
  BY <1>1, <1>2 DEF Beginnings, Restarts
<1>6. /\ Sent("Heartbeat", "server")' \subseteq Sent("Heartbeat", "server")
      /\ PacketsYoung'
  BY <1>1, <1>3 DEF PacketsYoung, Sent, Datagram
<1>7. GhostAges'
  <2>1. ~server.registered /\ ~On => halfOpen = 0
    BY DEF Beginnings, Agree, EntryType
  <2>2. halfOpen' \in {0, halfOpen}
    BY DEF Restarts
  <2>3. server.registered /\ ~On => halfOpen <= MaxDelay
    BY <1>3, SentInTime DEF GhostAges, Sent
  <2> QED
    BY <1>1, <1>6, <1>2, <2>1, <2>2, <2>3, SentInTime DEF GhostAges
<1>8. TogetherAges'
  <2>1. d \in Sent("Connect", "server") \cup Sent("Heartbeat", "server")
    BY <1>3 DEF Sent
  <2>2. d.ttl \in 0..MaxDelay /\ client.age \in Int
    BY DEF ClientType
  <2> QED
    BY <1>1, <1>2, <2>1, <2>2 DEF TogetherAges, PacketsYoung
<1>9. AnswersComing'
  <2>1. CASE server.registered
    BY <1>1, <1>3, <1>2, <2>1 DEF AnswersComing
  <2>2. CASE ~server.registered
    <3>1. Datagram("Connect", "client") \in Sent("Connect", "client")'
      BY <1>3, <2>2 DEF Sent, Datagram
    <3>2. server'.age + MaxDelay <= MaxDelay + 2 * MaxStep
      BY <1>2 DEF EntryType
    <3> QED
      BY <1>1, <1>2, <3>1, <3>2 DEF AnswersComing, Datagram
  <2> QED
    BY <2>1, <2>2
<1>10. Clocked(server)'
  BY <1>2 DEF Clocked
<1> QED
  BY <1>1, <1>4, <1>5, <1>6, <1>7, <1>8, <1>9, <1>2, <1>10
     DEF AgesBounded, ClientClock, HiddenAhead, DeafAges, HeartbeatsDue

LEMMA ServerReceivesInv ==
    ASSUME SessionInv, NEW d \in net, ServerReceives(d), Restarts
    PROVE  SessionInv'
<1>1. PICK others \in {net, net \ {d}} :
          CASE d.type = "Connect" /\ ~server.registered ->
                 server' \in Renewed /\ ServerStep({"Connect"}, others)
            [] d.type = "Heartbeat" /\ server.waiting ->
                 server' \in Renewed /\ ServerStep({}, others)
            [] d.type = "Disconnect" /\ server.registered ->
                 server' = NoEntry /\ ServerStep({"Disconnect"}, others)
            [] OTHER ->
                 UNCHANGED server /\ ServerStep({}, others)
  BY DEF ServerReceives
<1>2. d.to = "server" /\ serverWait' = serverWait /\ others \subseteq net
  BY DEF ServerReceives
<1>3. CASE d.type = "Connect" /\ ~server.registered
  BY <1>1, <1>2, <1>3, EntryRenewedInv
<1>4. CASE d.type = "Heartbeat" /\ server.waiting
  BY <1>1, <1>2, <1>4, EntryRenewedInv DEF SessionInv, Beginnings
<1>5. CASE d.type = "Disconnect" /\ server.registered
  BY <1>1, <1>2, <1>5, EntryGoesInv
<1>6. CASE /\ ~(d.type = "Connect" /\ ~server.registered)
           /\ ~(d.type = "Heartbeat" /\ server.waiting)
           /\ ~(d.type = "Disconnect" /\ server.registered)
  BY <1>1, <1>2, <1>6, DatagramGoesInv DEF ServerStep, SessionInv, SessionTypes
<1> QED
  BY <1>3, <1>4, <1>5, <1>6

(* The scan, of the entry as it is or as a wrap has left it.               *)
LEMMA ScanInv ==
    ASSUME SessionInv, NEW entry \in EntryType, Scan(entry), Restarts,
           entry.registered = server.registered,
           entry.waiting = server.waiting, entry.hidden = server.hidden,
           entry.silence = server.silence,
           entry.registered => /\ entry.age <= server.age /\ Clocked(entry)
                               /\ entry.hidden /\ ~entry.wrapped =>
                                     entry.age <= MaxStep
    PROVE  SessionInv'
<1> USE TimesAssumption DEF SessionInv, SessionTypes, On
<1>1. /\ serverWait' = 0 /\ entry.age \in Int /\ server.age \in Int
      /\ server.silence \in Nat
  BY DEF Scan, EntryType
<1>2. CASE server.registered /\ entry.age >= ClientTimeout
  BY <1>1, <1>2, EntryGoesInv DEF Scan
<1>3. CASE server.registered /\ entry.age < ClientTimeout /\ Due(entry)
  <2>1. /\ server' = [entry EXCEPT !.waiting = TRUE]
        /\ net' = net \cup {Datagram("Heartbeat", "client")}
        /\ UNCHANGED <<client, clientWait, lost>>
    <3>1. /\ server' = [entry EXCEPT !.waiting = TRUE]
          /\ ServerStep({"Heartbeat"}, net)
      BY <1>1, <1>3 DEF Scan
    <3> QED
      BY <3>1 DEF ServerStep
  <2>2. /\ server'.registered /\ server'.waiting /\ server'.age = entry.age
        /\ server'.hidden = server.hidden /\ server'.wrapped = entry.wrapped
        /\ server'.silence = server.silence /\ server' \in EntryType
    BY <1>3, <2>1 DEF EntryType
  <2>3. halfOpen' = halfOpen
    BY <1>3, <2>1, <2>2 DEF Beginnings, Restarts, Agree
  <2>4. SessionTypes'
    <3>1. Datagram("Heartbeat", "client") \in
              [type : Types, to : {"client", "server"}, ttl : 0..MaxDelay]
      BY DEF Datagram, Types
    <3> QED
      BY <1>1, <2>1, <2>2, <2>3, <3>1
  <2>5. Beginnings'
    BY <1>3, <2>1, <2>2, <2>3 DEF Beginnings, Agree
  <2>6. \A type : Sent(type, "server")' = Sent(type, "server")
    BY <2>1 DEF Sent, Datagram
  <2>7. AnswersComing'
    <3>1. ~lost => client.state # "connecting"
      BY <1>1, <1>3, SentInTime DEF AnswersComing, Due
    <3>2. Datagram("Heartbeat", "client") \in Sent("Heartbeat", "client")'
      BY <2>1 DEF Sent, Datagram
    <3>3. entry.age < HEARTBEAT_INTERVAL + MaxStep
      BY <1>1, <1>3 DEF HeartbeatsDue, Due
    <3>4. ~server.hidden =>
             server.silence < 3 * (HEARTBEAT_INTERVAL + MaxStep)
      BY <1>1, <1>3, <3>3 DEF Clocked, Due
    <3>5. HeartbeatComing(Datagram("Heartbeat", "client"))'
      BY <1>1, <2>2, <3>3, <3>4 DEF HeartbeatComing, Datagram
    <3> QED
      BY <2>1, <2>2, <3>1, <3>2, <3>5 DEF AnswersComing
  <2>8. Clocked(server)'
    BY <1>3, <2>2 DEF Clocked
  <2> QED
    BY <1>1, <1>3, <2>1, <2>2, <2>4, <2>6, <2>7, <2>5, <2>3, <2>8
       DEF PacketsYoung, AgesBounded, ClientClock, HiddenAhead, GhostAges,
           DeafAges, TogetherAges, HeartbeatsDue
<1>4. CASE /\ ~(server.registered /\ entry.age >= ClientTimeout)
           /\ ~(server.registered /\ entry.age < ClientTimeout /\ Due(entry))
  <2>1. /\ server.registered => entry.age < ClientTimeout /\ ~Due(entry)
        /\ server' = entry
        /\ UNCHANGED <<client, net, clientWait, lost>>
    <3>1. server' = entry /\ ServerStep({}, net)
      BY <1>1, <1>4 DEF Scan
    <3> QED
      BY <1>1, <1>4, <3>1 DEF ServerStep
  <2>2. SessionTypes' /\ Beginnings' /\ halfOpen' = halfOpen
    BY <1>1, <2>1 DEF Beginnings, Restarts, Agree
  <2>3. AnswersComing'
    BY <1>1, <2>1, SentInTime DEF AnswersComing, HeartbeatComing, Sent
  <2>4. Clocked(server)'
    BY <2>1 DEF Clocked
  <2> QED
    BY <1>1, <2>1, <2>2, <2>3, <2>4
       DEF Due, PacketsYoung, AgesBounded, ClientClock, HiddenAhead, GhostAges,
           DeafAges, Overlooked, TogetherAges, HeartbeatsDue, Sent
<1> QED
  BY <1>1, <1>2, <1>3, <1>4

LEMMA ServerUpdateInv ==
    ASSUME SessionInv, ServerUpdate, Restarts
    PROVE  SessionInv'
<1>1. server \in EntryType /\ Clocked(server) /\ server.age \in Int
  BY DEF SessionInv, SessionTypes, EntryType
<1> QED
  BY <1>1, ScanInv DEF ServerUpdate

(* A wrap puts an entry off by twice its age.                              *)
LEMMA ServerWrapsInv ==
    ASSUME SessionInv, NEW over \in 1..MaxStep, ServerWraps(over), Restarts
    PROVE  SessionInv'
<1> USE TimesAssumption DEF SessionInv, SessionTypes
<1>1. CASE ~server.registered
  BY <1>1, ScanInv DEF ServerWraps
<1>2. CASE server.registered
  <2> DEFINE entry == [server EXCEPT !.age = 2 * over - @, !.wrapped = TRUE]
  <2>1. /\ Scan(entry) /\ ~server.wrapped /\ over <= server.age
    BY <1>2 DEF ServerWraps
  <2>2. server.age \in Int /\ server.silence \in Nat
    BY DEF EntryType
  <2>3. /\ entry \in EntryType /\ entry.registered /\ entry.wrapped
        /\ entry.waiting = server.waiting /\ entry.hidden = server.hidden
        /\ entry.silence = server.silence
        /\ entry.age = 2 * over - server.age
    <3>1. 2 * over - server.age \in Int
      BY <2>2
    <3> QED
      BY <1>2, <3>1 DEF EntryType
  <2>4. entry.age <= server.age
    BY <2>1, <2>3, <2>2
  <2>5. Clocked(entry)
    <3>1. server.age < ClientTimeout + MaxStep
      BY <1>2, <2>2 DEF AgesBounded
    <3>2. ~server.waiting => server.age < HEARTBEAT_INTERVAL + MaxStep
      BY <1>2, <2>2 DEF HeartbeatsDue
    <3>3. server.hidden => server.age <= 2 * MaxStep
      BY <1>2, <2>1, <2>2 DEF HiddenAhead
    <3> HIDE DEF entry
    <3> QED
      BY <1>2, <2>1, <2>3, <2>2, <3>1, <3>2, <3>3 DEF Clocked
  <2> HIDE DEF entry
  <2> QED
    BY <1>2, <2>1, <2>3, <2>4, <2>5, ScanInv
<1> QED
  BY <1>1, <1>2

-----------------------------------------------------------------------------
(* In every state of a session the age of each end's news of the other is  *)
(* bounded by what is on its way (Server.cpp:299-325, Client.cpp:79-147,   *)
(* 237-240).                                                               *)
THEOREM SessionInvariant == Spec => []SessionInv
<1>1. ASSUME SessionInv, [Next]_vars
      PROVE  SessionInv'
  <2>1. CASE Tick
    BY <1>1, <2>1, TickInv
  <2>2. CASE Handlers
    <3>1. Restarts
      BY <2>2 DEF Handlers, Restarts
    <3>2. ASSUME NEW d \in net, Lose(d)
          PROVE  SessionInv'
      BY <1>1, <3>1, <3>2, DatagramGoesInv DEF Lose, SessionInv, SessionTypes
    <3>3. CASE GiveUp
      BY <1>1, <3>1, <3>3, ClientEndsInv DEF GiveUp
    <3>4. CASE Quit
      BY <1>1, <3>1, <3>4, ClientEndsInv DEF Quit, ClientLeaves
    <3>5. CASE DisconnectAll
      BY <1>1, <3>1, <3>5, EntryGoesInv DEF DisconnectAll
    <3> QED
      BY <1>1, <2>2, <3>1, <3>2, <3>3, <3>4, <3>5, ConnectInv, ClientUpdateInv,
         ClientWrapsInv, ClientReceivesInv, ServerReceivesInv, ServerUpdateInv,
         ServerWrapsInv DEF Handlers
  <2>3. CASE UNCHANGED vars
    BY <1>1, <2>3
       DEF vars, SessionInv, SessionTypes, Beginnings, PacketsYoung,
           AgesBounded, ClientClock, Clocked, HiddenAhead, GhostAges, DeafAges,
           Overlooked, TogetherAges, HeartbeatsDue, AnswersComing,
           HeartbeatComing, Agree, Sent, On
  <2> QED
    BY <1>1, <2>1, <2>2, <2>3 DEF Next
<1> QED
  BY <1>1, InitInv, PTL DEF Spec

(* However datagrams are lost, one end is alone for three timeouts and a   *)
(* datagram at most, the wraps of both clocks included, and for a period   *)
(* of its clock more only after a heartbeat recorded in the middle of      *)
(* update() (Server.cpp:288-304, Client.cpp:79-86, 146-147, 230-240).      *)
THEOREM HalfOpenEnds == Spec => []HalfOpenBounded
<1>1. ASSUME SessionInv PROVE HalfOpenBounded
  <2> USE <1>1, TimesAssumption DEF SessionInv, SessionTypes
  <2>1. CASE Agree
    BY <2>1 DEF Beginnings, HalfOpenBounded
  <2>2. CASE On /\ ~server.registered
    <3>1. halfOpen <= client.age + Overlooked + MaxDelay
      BY <2>2 DEF DeafAges
    <3>2. /\ client.age \in Int /\ client.age <= ClientTimeout + 1 + MaxStep
          /\ client.wrapped \/ ~client.torn =>
                client.age <= ClientTimeout + MaxStep
      BY <2>2 DEF AgesBounded, ClientType
    <3> QED
      BY <3>1, <3>2 DEF Overlooked, HalfOpenBounded
  <2>3. CASE ~On /\ server.registered
    <3>1. halfOpen <= server.silence + MaxDelay
      BY <2>3 DEF GhostAges
    <3>2. /\ server.age \in Int /\ server.silence \in Nat
          /\ server.age < ClientTimeout + MaxStep
      BY <2>3 DEF AgesBounded, EntryType
    <3>3. server.silence <=
             IF server.hidden
             THEN server.age + HighestTimestamp + 4 * MaxStep
             ELSE server.age + 2 * (ClientTimeout + MaxStep)
      BY <2>3, <3>2 DEF Clocked
    <3> QED
      BY <3>1, <3>2, <3>3 DEF HalfOpenBounded
  <2> QED
    BY <2>1, <2>2, <2>3 DEF Agree, On, EntryType
<1> QED
  BY <1>1, SessionInvariant, PTL

(* A connected client and its entry give each other up only after a        *)
(* datagram was lost, or a heartbeat recorded in the middle of update()    *)
(* (Server.cpp:272, 288-325, Client.cpp:146-147, 230-240).                 *)
THEOREM NoTimeoutWithoutLoss == Spec => TimeoutsMeanLoss
<1> DEFINE ServerScans ==
             ServerUpdate \/ (\E over \in 1..MaxStep : ServerWraps(over))
           Kept == client.state = "on" /\ server.registered /\ ~lost =>
                      /\ ServerScans => server'.registered
                      /\ ClientUpdate => \/ client'.state = "on"
                                         \/ client.torn \/ server.hidden
<1>1. ASSUME SessionInv
      PROVE  Kept
  <2> USE <1>1, TimesAssumption DEF SessionInv, SessionTypes
  <2> SUFFICES ASSUME On, server.registered, ~lost
               PROVE  /\ ServerScans => server'.registered
                      /\ ClientUpdate => \/ client'.state = "on"
                                         \/ client.torn \/ server.hidden
    BY DEF On
  <2>1. /\ server.age \in Int /\ server.silence \in Nat /\ client.age \in Int
        /\ \A type, to : \A d \in Sent(type, to) : d.ttl \in 0..MaxDelay
    BY SentInTime DEF EntryType, ClientType
  <2>2. /\ server.age < ClientTimeout
        /\ client.age <= ClientTimeout \/ client.torn \/ server.hidden
    <3>1. CASE ~server.waiting
      BY <2>1, <3>1 DEF HeartbeatsDue, TogetherAges, Clocked
    <3>2. CASE \E d \in Sent("Heartbeat", "client") : HeartbeatComing(d)
      BY <2>1, <3>2 DEF TogetherAges, HeartbeatComing
    <3>3. CASE \E d \in Sent("Heartbeat", "server") :
                   server.age + d.ttl
                       < HEARTBEAT_INTERVAL + MaxStep + 2 * MaxDelay
      BY <2>1, <3>3 DEF PacketsYoung
    <3> QED
      BY <3>1, <3>2, <3>3 DEF AnswersComing
  <2>3. ASSUME NEW entry \in EntryType, Scan(entry), entry.registered,
               entry.age <= server.age
        PROVE  server'.registered
    BY <2>1, <2>2, <2>3 DEF Scan, EntryType
  <2>4. ServerUpdate => server'.registered
    BY <2>1, <2>3 DEF ServerUpdate
  <2>5. ASSUME NEW over \in 1..MaxStep, ServerWraps(over)
        PROVE  server'.registered
    <3> DEFINE entry == [server EXCEPT !.age = 2 * over - @, !.wrapped = TRUE]
    <3>1. Scan(entry) /\ over <= server.age
      BY <2>5 DEF ServerWraps
    <3>2. 2 * over - server.age \in Int
      BY <2>1
    <3>3. entry \in EntryType /\ entry.registered
      BY <3>2 DEF EntryType
    <3>4. entry.age = 2 * over - server.age
      BY DEF EntryType
    <3>5. entry.age <= server.age
      BY <2>1, <3>1, <3>4
    <3> HIDE DEF entry
    <3> QED
      BY <2>3, <3>1, <3>3, <3>5
  <2>6. ClientUpdate => \/ client'.state = "on"
                       \/ client.torn \/ server.hidden
    BY <2>1, <2>2 DEF ClientUpdate, On
  <2> QED
    BY <2>4, <2>5, <2>6
<1>2. SessionInv => [Kept]_vars
  BY <1>1
<1> HIDE DEF Kept
<1>3. Spec => [][Kept]_vars
  BY <1>2, SessionInvariant, PTL
<1> QED
  BY <1>3 DEF TimeoutsMeanLoss, Kept
=============================================================================
