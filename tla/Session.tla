------------------------------ MODULE Session -------------------------------
(***************************************************************************)
(* One chat client and the server over datagrams: what each end believes   *)
(* about the other.  The two ends are those of the modules Client and      *)
(* Server, with their threads reduced to what the other end can notice: a  *)
(* handler is one step.  Of a clock and a last heartbeat only their        *)
(* difference is left, the age that update() compares with its limits;     *)
(* what happens to the difference when the clock wraps, and what a         *)
(* listener can make of it that writes in the middle of update(), are      *)
(* choices here (Client!UpdateWrap, Client!SetTime, Server!MainMirror).    *)
(* Server!ProbedOnce makes the retry counter a Boolean.                    *)
(*                                                                         *)
(* Datagrams may be lost, duplicated and reordered; those that are not     *)
(* lost arrive within MaxDelay milliseconds.  Both main loops come round   *)
(* within MaxStep.                                                         *)
(***************************************************************************)
EXTENDS Integers

CONSTANTS
    HighestTimestamp,   \* NetworkDefinitions.h: 2147483647 = 2^31 - 1
    ClientTimeout,      \* NetworkDefinitions.h: 10000
    HEARTBEAT_INTERVAL, \* Server.h: 1000
    CONNECT_TIMEOUT,    \* Client.h: 5000
    MaxDelay,           \* of a datagram that arrives
    MaxStep             \* between two update() of one end

(* A heartbeat does not overtake the answer to Connect; a clock wraps once *)
(* in two timeouts at most; and three intervals, as many as pass between   *)
(* two heartbeats when the server's clock wraps, leave time for a datagram *)
(* and its answer.                                                         *)
ASSUME TimesAssumption ==
    /\ MaxDelay \in Nat /\ MaxStep \in Nat \ {0}
    /\ HEARTBEAT_INTERVAL \in Nat /\ CONNECT_TIMEOUT \in Nat
    /\ ClientTimeout \in Nat /\ HighestTimestamp \in Nat
    /\ MaxDelay + 2 * MaxStep < HEARTBEAT_INTERVAL
    /\ MaxDelay < CONNECT_TIMEOUT
    /\ 3 * (HEARTBEAT_INTERVAL + MaxStep) + 2 * MaxDelay + MaxStep
          <= ClientTimeout
    /\ 2 * (ClientTimeout + MaxStep) <= HighestTimestamp

VARIABLES
    client,     \* its state and clock
    server,     \* the entry of m_clientMap, if any
    net,        \* datagrams on their way
    clientWait, serverWait,     \* milliseconds since the last update()
    lost,       \* history: a datagram other than Disconnect was lost
    halfOpen    \* history: milliseconds that one end has been alone

vars == <<client, server, net, clientWait, serverWait, lost, halfOpen>>

Types == {"Connect", "Heartbeat", "Disconnect"}

(* ttl: the milliseconds it may still take.                                *)
Datagram(type, to) == [type |-> type, to |-> to, ttl |-> MaxDelay]

(* age: what update() will compare, m_serverTime with the time it is about *)
(* to add, less m_lastHeartbeat; for a client that connects, since Connect.*)
(* wrapped: the clock has wrapped since the last heartbeat.                *)
(* torn, hidden: the last heartbeat was recorded in the middle of update().*)
(* silence: history, milliseconds since the entry was renewed.             *)
ClientIn(state) ==
    [state |-> state, age |-> 0, wrapped |-> FALSE, torn |-> FALSE]

Gone == ClientIn("gone")

NoEntry == [registered |-> FALSE, waiting |-> FALSE, age |-> 0,
            wrapped |-> FALSE, hidden |-> FALSE, silence |-> 0]

(* m_lastHeartbeat = m_serverTime, for a new entry or an answer: the clock *)
(* stands still until the next update(); if it is just being set back, the *)
(* entry is mirrored once more, from before the reset to 0 or twice the    *)
(* overflow, from after it to almost HighestTimestamp ahead of the clock.  *)
Renewed ==
    {[NoEntry EXCEPT !.registered = TRUE, !.age = age] :
        age \in {0, serverWait} \cup {2 * over : over \in 1..MaxStep}}
      \cup
    {[NoEntry EXCEPT !.registered = TRUE, !.age = 2 * over - HighestTimestamp,
                     !.hidden = TRUE] : over \in 1..MaxStep}

-----------------------------------------------------------------------------
Init ==
    /\ client = ClientIn("new")
    /\ server = NoEntry
    /\ net = {}
    /\ clientWait = 0 /\ serverWait = 0
    /\ lost = FALSE /\ halfOpen = 0

Agree == (client.state = "on") = server.registered

(* A millisecond passes, unless something is due.                          *)
Tick ==
    /\ clientWait < MaxStep \/ client.state # "on"
    /\ serverWait < MaxStep
    /\ client.state = "connecting" => client.age < CONNECT_TIMEOUT
    /\ \A d \in net : d.ttl > 0
    /\ net' = {[d EXCEPT !.ttl = @ - 1] : d \in net}
    /\ client' = IF client.state \in {"connecting", "on"}
                 THEN [client EXCEPT !.age = @ + 1] ELSE client
    /\ server' = IF server.registered
                 THEN [server EXCEPT !.age = @ + 1, !.silence = @ + 1]
                 ELSE server
    /\ clientWait' = IF client.state = "on" THEN clientWait + 1 ELSE 0
    /\ serverWait' = serverWait + 1
    /\ halfOpen' = IF Agree THEN 0 ELSE halfOpen + 1
    /\ UNCHANGED lost

Lose(d) ==
    /\ net' = net \ {d}
    /\ lost' = (lost \/ d.type # "Disconnect")
    /\ UNCHANGED <<client, server, clientWait, serverWait>>

-----------------------------------------------------------------------------
(* The client.                                                             *)

Connect ==
    /\ client.state = "new"
    /\ client' = ClientIn("connecting")
    /\ net' = net \cup {Datagram("Connect", "server")}
    /\ UNCHANGED <<server, clientWait, serverWait, lost>>

(* No answer within CONNECT_TIMEOUT: the process ends, without a word.     *)
GiveUp ==
    /\ client.state = "connecting" /\ client.age = CONNECT_TIMEOUT
    /\ client' = Gone
    /\ UNCHANGED <<server, net, clientWait, serverWait, lost>>

(* disconnect(): by !quit, by a Disconnect, by update().                   *)
ClientLeaves(others) ==
    /\ client' = Gone
    /\ net' = others \cup {Datagram("Disconnect", "server")}
    /\ clientWait' = 0
    /\ UNCHANGED <<server, serverWait, lost>>

Quit == client.state = "on" /\ ClientLeaves(net)

(* Mutant: a timeout is not noticed any more.                              *)
ClientUpdateForgets ==
    /\ client.state = "on"
    /\ clientWait' = 0
    /\ UNCHANGED <<client, server, net, serverWait, lost>>

(* update() finds its clock past the end, sets it back and takes it for    *)
(* the time of the last heartbeat, without a look at the silence so far; a *)
(* torn clock may need as much up to three times in a row (Client!TypeOK). *)
ClientWraps ==
    /\ client.state = "on" /\ ~client.wrapped
    /\ \E age \in IF client.torn THEN -(2 * MaxStep)..0 ELSE {0} :
          client' = [client EXCEPT !.age = age, !.wrapped = TRUE]
    /\ clientWait' = 0
    /\ UNCHANGED <<server, net, serverWait, lost>>

ClientUpdate ==
    /\ client.state = "on"
    /\ IF client.age > ClientTimeout
       THEN ClientLeaves(net)
       ELSE /\ clientWait' = 0
            /\ UNCHANGED <<client, server, net, serverWait, lost>>

(* setTime() and m_lastHeartbeat = m_serverTime: recorded in one piece, or *)
(* while update() is using the clocks, when the age may come out as        *)
(* anything; one more than ClientTimeout stands for all that are too large.*)
Recorded ==
    {[client EXCEPT !.age = clientWait, !.wrapped = FALSE, !.torn = FALSE]}
      \cup
    {[client EXCEPT !.age = age, !.wrapped = FALSE, !.torn = TRUE] :
        age \in -HighestTimestamp..(ClientTimeout + 1)}

(* connect() takes nothing but a Connect, udpListen() nothing but the      *)
(* others; what reaches a closed socket is dropped.  What has arrived may  *)
(* arrive again.                                                           *)
ClientReceives(d) ==
    /\ d.to = "client"
    /\ \E kept \in {net, net \ {d}} :
          CASE client.state = "connecting" /\ d.type = "Connect" ->
                 /\ client' = ClientIn("on")
                 /\ net' = kept
                 /\ UNCHANGED <<server, clientWait, serverWait, lost>>
            [] client.state = "on" /\ d.type = "Heartbeat" ->
                 /\ client' \in Recorded
                 /\ net' = kept \cup {Datagram("Heartbeat", "server")}
                 /\ UNCHANGED <<server, clientWait, serverWait, lost>>
            [] client.state = "on" /\ d.type = "Disconnect" ->
                 ClientLeaves(kept)
            [] OTHER ->
                 /\ net' = kept
                 /\ UNCHANGED <<client, server, clientWait, serverWait, lost>>

-----------------------------------------------------------------------------
(* The server.                                                             *)

ServerStep(packets, others) ==
    /\ net' = others \cup {Datagram(type, "client") : type \in packets}
    /\ UNCHANGED <<client, clientWait, lost>>

(* udpListen() and handlePacket(): a Connect of a registered client is not *)
(* answered, an answer counts while one is outstanding, a Disconnect is    *)
(* answered by removeClient().                                             *)
ServerReceives(d) ==
    /\ d.to = "server"
    /\ UNCHANGED serverWait
    /\ \E others \in {net, net \ {d}} :
          CASE d.type = "Connect" /\ ~server.registered ->
                 server' \in Renewed /\ ServerStep({"Connect"}, others)
            [] d.type = "Heartbeat" /\ server.waiting ->
                 server' \in Renewed /\ ServerStep({}, others)
            [] d.type = "Disconnect" /\ server.registered ->
                 server' = NoEntry /\ ServerStep({"Disconnect"}, others)
            [] OTHER ->
                 UNCHANGED server /\ ServerStep({}, others)

(* Mutant: the interval is counted from the last heartbeat sent, and the   *)
(* first waits for the timeout.                                            *)
DueLate(entry) == ~entry.waiting /\ entry.age >= ClientTimeout - 1

Due(entry) == ~entry.waiting /\ entry.age >= HEARTBEAT_INTERVAL

(* The scan, of an entry with this age.                                    *)
Scan(entry) ==
    /\ serverWait' = 0
    /\ IF ~entry.registered
       THEN server' = entry /\ ServerStep({}, net)
       ELSE IF entry.age >= ClientTimeout
       THEN server' = NoEntry /\ ServerStep({}, net)
       ELSE IF Due(entry)
       THEN server' = [entry EXCEPT !.waiting = TRUE]
            /\ ServerStep({"Heartbeat"}, net)
       ELSE server' = entry /\ ServerStep({}, net)

(* A hidden entry is as far ahead as the clock is from its end: the clock  *)
(* wraps just after it has come up to it.                                  *)
ServerUpdate ==
    /\ server.hidden /\ ~server.wrapped => server.age <= MaxStep
    /\ Scan(server)

(* The clock is past its end by the milliseconds over: it is set back, and *)
(* the entry, as old as age, mirrored: the clock is at over then, and      *)
(* m_lastHeartbeat at age - over.                                          *)
ServerWraps(over) ==
    /\ over <= serverWait /\ ~server.wrapped
    /\ server.registered => over <= server.age
    /\ Scan(IF server.registered
            THEN [server EXCEPT !.age = 2 * over - @, !.wrapped = TRUE]
            ELSE server)

(* The operator's "dc".                                                    *)
DisconnectAll ==
    /\ server.registered
    /\ server' = NoEntry
    /\ UNCHANGED serverWait
    /\ ServerStep({"Disconnect"}, net)

-----------------------------------------------------------------------------
(* What takes no time; halfOpen starts again when both ends agree.         *)
Handlers ==
    /\ \/ \E d \in net : Lose(d) \/ ClientReceives(d) \/ ServerReceives(d)
       \/ Connect \/ GiveUp \/ Quit \/ ClientWraps \/ ClientUpdate
       \/ ServerUpdate \/ DisconnectAll
       \/ \E over \in 1..MaxStep : ServerWraps(over)
    /\ halfOpen' = IF Agree' THEN 0 ELSE halfOpen

Next == Tick \/ Handlers

Spec == Init /\ [][Next]_vars

-----------------------------------------------------------------------------
(* Properties.                                                             *)

(* However datagrams are lost, neither ghosts on the server nor deaf       *)
(* clients remain, even when Disconnect is lost or a late Connect is       *)
(* answered to nobody.  A wrap of the server's clock puts a timeout off by *)
(* twice the silence before it, one of the client's by as much as that     *)
(* silence: three timeouts in all, and a datagram on its way.  Only when   *)
(* the last heartbeat was recorded in the middle of update() does it take  *)
(* one period of the clock more (Server.cpp:288-304, Client.cpp:79-86,     *)
(* 146-147, 230-240).                                                      *)
HalfOpenBounded ==
    halfOpen <=
        IF client.torn \/ server.hidden
        THEN HighestTimestamp + 2 * ClientTimeout + MaxDelay + 5 * MaxStep
        ELSE 3 * (ClientTimeout + MaxStep) + MaxDelay

(* An end that answers is given up only after a datagram was lost, with    *)
(* two exceptions, both a heartbeat recorded in the middle of update():    *)
(* by the listener of the client, which may then time out at once, and by  *)
(* that of the server, which then sends no heartbeat for a period of its   *)
(* clock, so that the client times out.  Else every heartbeat is in time,  *)
(* although none is ever sent a second time and a wrap of the server's     *)
(* clock puts one off by two intervals (Server.cpp:272, 288-325,           *)
(* Client.cpp:146-147, 230-240).                                           *)
TimeoutsMeanLoss ==
    [][client.state = "on" /\ server.registered /\ ~lost =>
          /\ ServerUpdate \/ (\E over \in 1..MaxStep : ServerWraps(over))
                => server'.registered
          /\ ClientUpdate => \/ client'.state = "on"
                             \/ client.torn \/ server.hidden]_vars
=============================================================================
