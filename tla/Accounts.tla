------------------------------ MODULE Accounts ------------------------------
(***************************************************************************)
(* Accounts and stored messages: the requests that the commands of         *)
(* src/client/main.cpp send, their handlers in src/server/main.cpp, the    *)
(* two SQLite tables of src/server/Server.cpp behind them, and what the    *)
(* client does with the answers.                                           *)
(*                                                                         *)
(* Requests of TCP clients are handled by the TCP thread, those of UDP     *)
(* clients by the UDP thread; between the query of a handler and its       *)
(* send() the other thread may run.  The client waits for no answer before *)
(* it sends the next request.  TCP keeps the order; datagrams are lost,    *)
(* duplicated and reordered.  A query may throw, with no effect.           *)
(*                                                                         *)
(* m_username is read and assigned in one piece: that the listener writes  *)
(* the string while the command thread copies it, without a lock, is left  *)
(* out.                                                                    *)
(*                                                                         *)
(* Packets are records; "serial", "confirmed", "row" and the "email" of an *)
(* answer are history that no code reads.                                  *)
(***************************************************************************)
EXTENDS Integers, SequencesExt

CONSTANTS
    TcpClients, UdpClients,
    Emails, Usernames, Passwords,
    HashOf,         \* hashPassword() (Server.cpp:459-461), maybe not injective
    NoName,         \* the empty string
    Denied,         \* authenticateUser() says false
    MaxRequests,    \* bound: requests of each client
    MaxMessages,    \* bound: rows of the table message
    MaxDatagrams    \* bound: answers in flight to one UDP client

Clients == TcpClients \cup UdpClients

ASSUME ClientsAssumption == TcpClients \cap UdpClients = {}

ASSUME NamesAssumption ==
    /\ NoName \notin Usernames /\ Denied \notin Usernames \cup {NoName}
    /\ DOMAIN HashOf = Passwords

ASSUME BoundsAssumption ==
    /\ MaxRequests \in [Clients -> Nat]
    /\ MaxMessages \in Nat /\ MaxDatagrams \in Nat

VARIABLES
    user,           \* table user
    message,        \* table message, in the order of its ids
    toServer,       \* packets on their way from each client
    toClient,       \* packets on their way to each client
    outbox,         \* the answer a server thread is about to send
    m_username,     \* of each client
    sent,           \* requests each client has sent
    account,        \* history: the e-mail address of m_username
    loginSerial,    \* history: the number of the request that set m_username
    confirmed,      \* history: rows whose sender saw the confirmation
    answered,       \* history: answers each TCP client has received
    unanswered      \* history: requests of each TCP client that were
                    \* handled without an answer

database == <<user, message>>
network == <<toServer, toClient>>
session == <<m_username, account, loginSerial>>
counters == <<sent, answered, unanswered>>

vars == <<database, network, outbox, session, confirmed, counters>>

Threads == {"TCP", "UDP"}

ThreadOf(c) == IF c \in TcpClients THEN "TCP" ELSE "UDP"

Names == Usernames \cup {NoName}

-----------------------------------------------------------------------------
(* The two tables.                                                         *)

Rows(table) == {table[i] : i \in DOMAIN table}

(* Mutant: the column username without UNIQUE.                             *)
InsertableByEmail(row) == \A other \in user : other.email # row.email

(* UNIQUE on email and on username (Server.cpp:468-469).                   *)
Insertable(row) ==
    \A other \in user :
        other.email # row.email /\ other.username # row.username

(* Mutant: reads the wrong column.                                         *)
AuthenticatedAsEmail(email, password) ==
    {Denied} \cup {row.email : row \in
        {r \in user : r.email = email /\ r.password = HashOf[password]}}

(* What authenticateUser() may say: a user name, or that it failed, which  *)
(* an exception also makes it say.  When no row has the address it returns *)
(* nothing at all, and the caller finds true or false (Server.cpp:501-520).*)
Authenticated(email, password) ==
    LET found == {row \in user : row.email = email}
        matching == {row \in found : row.password = HashOf[password]}
    IN  {Denied} \cup {row.username : row \in matching}
          \cup (IF found = {} THEN {NoName} ELSE {})

Between(m, first, second) ==
    /\ m.sender = first \/ m.receiver = first
    /\ m.sender = second \/ m.receiver = second

(* Mutant: the two halves of the condition joined by OR.                   *)
MessagesOfEither(first, second) ==
    {m \in Rows(message) : Between(m, first, first) \/ Between(m, second, second)}

(* No query has an ORDER BY: SQLite promises the rows, not their order.    *)
MessagesBetween(first, second) ==
    {m \in Rows(message) : Between(m, first, second)}

-----------------------------------------------------------------------------
(* The network.                                                            *)

(* Mutant: one that hands over the packets of a connection in any order.   *)
NextPacketsUnordered(channel, c) == DOMAIN channel[c]

(* The positions of the packets the receiver may see next.                 *)
NextPackets(channel, c) ==
    IF c \in TcpClients THEN {1} \cap DOMAIN channel[c] ELSE DOMAIN channel[c]

(* A packet, and what its arrival leaves in the channel: a datagram that   *)
(* was duplicated stays.                                                   *)
Arrivals(channel, c) ==
    {[packet |-> channel[c][i], rest |-> RemoveAt(channel[c], i)] :
        i \in NextPackets(channel, c)}
      \cup {[packet |-> channel[c][i], rest |-> channel[c]] :
        i \in IF c \in UdpClients THEN NextPackets(channel, c) ELSE {}}

Lose ==
    /\ \E c \in UdpClients :
          \/ /\ \E i \in DOMAIN toServer[c] :
                    toServer' = [toServer EXCEPT ![c] = RemoveAt(@, i)]
             /\ UNCHANGED toClient
          \/ /\ \E i \in DOMAIN toClient[c] :
                    toClient' = [toClient EXCEPT ![c] = RemoveAt(@, i)]
             /\ UNCHANGED toServer
    /\ UNCHANGED <<database, outbox, session, confirmed, counters>>

-----------------------------------------------------------------------------
(* A user's table may be there from an earlier run of the server.          *)
Init ==
    /\ user \in {table \in SUBSET [email : Emails, username : Usernames,
                                   password : Range(HashOf)] :
                    \A a, b \in table :
                        a # b => a.email # b.email /\ a.username # b.username}
    /\ message = << >>
    /\ toServer = [c \in Clients |-> << >>]
    /\ toClient = [c \in Clients |-> << >>]
    /\ outbox = [t \in Threads |-> {}]
    /\ m_username = [c \in Clients |-> NoName]
    /\ sent = [c \in Clients |-> 0]
    /\ account = [c \in Clients |-> {}]
    /\ loginSerial = [c \in Clients |-> 0]
    /\ confirmed = {}
    /\ answered = [c \in Clients |-> 0]
    /\ unanswered = [c \in Clients |-> 0]

-----------------------------------------------------------------------------
(* commandProcess() of the client: each command sends one packet.          *)

Send(c, request) ==
    /\ sent' = [sent EXCEPT ![c] = @ + 1]
    /\ toServer' = [toServer EXCEPT ![c] = Append(@, request)]
    /\ UNCHANGED <<database, toClient, outbox, session, confirmed, answered,
                   unanswered>>

Register(c) ==
    \E email \in Emails, username \in Usernames, password \in Passwords :
        Send(c, [type |-> "Register", email |-> email, username |-> username,
                 password |-> password])

Login(c) ==
    \E email \in Emails, password \in Passwords :
        Send(c, [type |-> "Login", email |-> email, password |-> password,
                 serial |-> sent[c] + 1])

(* "chat": all the messages of the user.                                   *)
ListAll(c) ==
    Send(c, [type |-> "Sql", username |-> m_username[c],
             confirmed |-> confirmed])

(* "message"; the content is one the client has not sent before.           *)
SendMessage(c) ==
    \E receiver \in Usernames :
        Send(c, [type |-> "ChatMessage", sender |-> m_username[c],
                 receiver |-> receiver, content |-> <<c, sent[c] + 1>>])

(* "chatwith".                                                             *)
ListWith(c) ==
    \E other \in Usernames :
        Send(c, [type |-> "Chat", first |-> m_username[c], second |-> other,
                 confirmed |-> confirmed])

-----------------------------------------------------------------------------
(* handlePacket() of the server: one action for each kind of request, from *)
(* its arrival to the answer that send() is about to be called with.       *)

Handling(c, arrival, type) ==
    /\ outbox[ThreadOf(c)] = {}
    /\ arrival.packet.type = type
    /\ toServer' = [toServer EXCEPT ![c] = arrival.rest]
    /\ UNCHANGED <<toClient, session, confirmed, sent, answered>>

Answer(c, answer) ==
    /\ outbox' = [outbox EXCEPT ![ThreadOf(c)] = {[to |-> c, answer |-> answer]}]
    /\ UNCHANGED unanswered

(* The handler returns before its send().                                  *)
NoAnswer(c) ==
    /\ unanswered' = [unanswered EXCEPT ![c] =
                        IF c \in TcpClients THEN @ + 1 ELSE @]
    /\ UNCHANGED outbox

(* Mutant: INSERT OR REPLACE.                                              *)
HandleRegisterReplacing(c, arrival) ==
    LET row == [email |-> arrival.packet.email,
                username |-> arrival.packet.username,
                password |-> HashOf[arrival.packet.password]]
        kept == {other \in user : /\ other.email # row.email
                                  /\ other.username # row.username}
    IN  /\ Handling(c, arrival, "Register")
        /\ user' = kept \cup {row}
        /\ Answer(c, [type |-> "Register", ok |-> TRUE])
        /\ UNCHANGED message

HandleRegister(c, arrival) ==
    LET row == [email |-> arrival.packet.email,
                username |-> arrival.packet.username,
                password |-> HashOf[arrival.packet.password]]
    IN  /\ Handling(c, arrival, "Register")
        /\ \E inserted \in BOOLEAN :
              /\ inserted => Insertable(row)
              /\ user' = IF inserted THEN user \cup {row} ELSE user
              /\ Answer(c, [type |-> "Register", ok |-> inserted])
        /\ UNCHANGED message

(* Mutant: a failed login is not answered.                                 *)
HandleLoginSilently(c, arrival) ==
    LET request == arrival.packet
    IN  /\ Handling(c, arrival, "Login")
        /\ \E result \in Authenticated(request.email, request.password) :
              IF result # Denied
              THEN Answer(c, [type |-> "Login", ok |-> TRUE,
                              username |-> result,
                              email |-> request.email,
                              serial |-> request.serial])
              ELSE UNCHANGED <<outbox, unanswered>>
        /\ UNCHANGED database

HandleLogin(c, arrival) ==
    LET request == arrival.packet
    IN  /\ Handling(c, arrival, "Login")
        /\ \E result \in Authenticated(request.email, request.password) :
              Answer(c, [type |-> "Login", ok |-> result # Denied,
                         username |-> result,
                         email |-> request.email, serial |-> request.serial])
        /\ UNCHANGED database

HandleSql(c, arrival) ==
    LET request == arrival.packet
        name == request.username
    IN  /\ Handling(c, arrival, "Sql")
        /\ \/ Answer(c, [type |-> "Sql", ok |-> TRUE, first |-> name,
                         second |-> name,
                         rows |-> MessagesBetween(name, name),
                         confirmed |-> request.confirmed])
           \/ NoAnswer(c)
        /\ UNCHANGED database

(* Mutant: the confirmation does not wait for the insert.                  *)
HandleChatMessageUnsaved(c, arrival) ==
    LET request == arrival.packet
        row == [sender |-> request.sender, receiver |-> request.receiver,
                content |-> request.content]
    IN  /\ Handling(c, arrival, "ChatMessage")
        /\ \/ message' = Append(message, row) /\ Len(message) < MaxMessages
           \/ UNCHANGED message
        /\ Answer(c, [type |-> "ChatMessage", ok |-> TRUE, row |-> row])
        /\ UNCHANGED user

(* SQLite does not enforce the foreign keys of a connection that does not  *)
(* ask it to.                                                              *)
HandleChatMessage(c, arrival) ==
    LET request == arrival.packet
        row == [sender |-> request.sender, receiver |-> request.receiver,
                content |-> request.content]
    IN  /\ Handling(c, arrival, "ChatMessage")
        /\ \/ /\ Len(message) < MaxMessages
              /\ message' = Append(message, row)
              /\ Answer(c, [type |-> "ChatMessage", ok |-> TRUE, row |-> row])
           \/ /\ UNCHANGED message
              /\ Answer(c, [type |-> "ChatMessage", ok |-> FALSE, row |-> row])
        /\ UNCHANGED user

HandleChat(c, arrival) ==
    LET request == arrival.packet
    IN  /\ Handling(c, arrival, "Chat")
        /\ \/ Answer(c, [type |-> "Chat", ok |-> TRUE, first |-> request.first,
                         second |-> request.second,
                         rows |-> MessagesBetween(request.first, request.second),
                         confirmed |-> request.confirmed])
           \/ Answer(c, [type |-> "Chat", ok |-> FALSE, first |-> request.first,
                         second |-> request.second, rows |-> {},
                         confirmed |-> {}])
        /\ UNCHANGED database

(* Server::send(); a datagram that finds MaxDatagrams in flight is lost.   *)
SendAnswer(thread) ==
    \E letter \in outbox[thread] :
        /\ outbox' = [outbox EXCEPT ![thread] = {}]
        /\ IF letter.to \in UdpClients /\ Len(toClient[letter.to]) >= MaxDatagrams
           THEN UNCHANGED toClient
           ELSE toClient' =
                  [toClient EXCEPT ![letter.to] = Append(@, letter.answer)]
        /\ UNCHANGED <<database, toServer, session, confirmed, counters>>

-----------------------------------------------------------------------------
(* handlePacket() of the client, on its listener thread.                   *)

Receiving(c, arrival) ==
    /\ toClient' = [toClient EXCEPT ![c] = arrival.rest]
    /\ answered' = [answered EXCEPT ![c] =
                      IF c \in TcpClients THEN @ + 1 ELSE @]
    /\ UNCHANGED <<database, toServer, outbox, sent, unanswered>>

ReceiveLogin(c, arrival) ==
    /\ arrival.packet.type = "Login" /\ arrival.packet.ok
    /\ Receiving(c, arrival)
    /\ m_username' = [m_username EXCEPT ![c] = arrival.packet.username]
    /\ account' = [account EXCEPT ![c] = {arrival.packet.email}]
    /\ loginSerial' = [loginSerial EXCEPT ![c] = arrival.packet.serial]
    /\ UNCHANGED confirmed

ReceiveConfirmation(c, arrival) ==
    /\ arrival.packet.type = "ChatMessage" /\ arrival.packet.ok
    /\ Receiving(c, arrival)
    /\ confirmed' = confirmed \cup {arrival.packet.row}
    /\ UNCHANGED session

(* All the others are only printed.                                        *)
ReceiveText(c, arrival) ==
    /\ arrival.packet.ok => arrival.packet.type \notin {"Login", "ChatMessage"}
    /\ Receiving(c, arrival)
    /\ UNCHANGED <<session, confirmed>>

-----------------------------------------------------------------------------
Commands(c) ==
    /\ sent[c] < MaxRequests[c]
    /\ \/ Register(c) \/ Login(c)
       \/ ListAll(c) \/ SendMessage(c) \/ ListWith(c)

Handlers(c) ==
    \E arrival \in Arrivals(toServer, c) :
        \/ HandleRegister(c, arrival) \/ HandleLogin(c, arrival)
        \/ HandleSql(c, arrival) \/ HandleChatMessage(c, arrival)
        \/ HandleChat(c, arrival)

Receipts(c) ==
    \E arrival \in Arrivals(toClient, c) :
        \/ ReceiveLogin(c, arrival) \/ ReceiveConfirmation(c, arrival)
        \/ ReceiveText(c, arrival)

Next ==
    \/ \E c \in Clients : Commands(c) \/ Handlers(c) \/ Receipts(c)
    \/ \E thread \in Threads : SendAnswer(thread)
    \/ Lose

Spec == Init /\ [][Next]_vars

-----------------------------------------------------------------------------
(* Properties.                                                             *)

Answers ==
    {l.answer : l \in UNION Range(outbox)}
      \cup UNION {Rows(toClient[c]) : c \in Clients}

Listings == {a \in Answers : a.type \in {"Sql", "Chat"} /\ a.ok}

(* The tables and the variables of the clients hold values of their types. *)
TypeOK ==
    /\ \A row \in user : /\ row.email \in Emails /\ row.username \in Usernames
                          /\ row.password \in Range(HashOf)
    /\ \A m \in Rows(message) :
          /\ m.sender \in Names /\ m.receiver \in Usernames
          /\ m.content[1] \in Clients /\ m.content[2] \in 1..sent[m.content[1]]
    /\ Len(message) <= MaxMessages
    /\ m_username \in [Clients -> Names]
    /\ \A c \in Clients : /\ sent[c] \in 0..MaxRequests[c]
                           /\ loginSerial[c] \in 0..sent[c]
    /\ \A thread \in Threads : Cardinality(outbox[thread]) <= 1

(* Two clients that go by the same name have logged in to the same account,*)
(* however registrations and logins of several clients interleave          *)
(* (Server.cpp:468-469, 482-499, 501-520).                                 *)
SameNameSameAccount ==
    \A c, d \in Clients :
        (m_username[c] = m_username[d] /\ m_username[c] # NoName)
            => account[c] = account[d]

(* The sender of a stored message is registered, or is a client that has   *)
(* not logged in: nothing on the server looks (Server.cpp:522-537), the    *)
(* clients never hold any other name, if they read it in one piece.        *)
SendersExist ==
    \A m \in Rows(message) :
        m.sender = NoName \/ \E row \in user : row.username = m.sender

(* A list of messages holds every row that its sender saw confirmed before *)
(* the list was asked for, and no row of a conversation with somebody else *)
(* (server/main.cpp:57-123, Server.cpp:522-586).                           *)
ListingsComplete ==
    \A l \in Listings :
        /\ \A m \in l.confirmed :
              Between(m, l.first, l.second) => m \in l.rows
        /\ \A m \in l.rows :
              l.first # l.second =>
                  {m.sender, m.receiver} = {l.first, l.second}

(* The handler of a TCP client's request answers it exactly once, unless   *)
(* the request is for all messages and the query fails, which              *)
(* EveryRequestAnswered is about (server/main.cpp:27-123).                 *)
Outstanding(c) ==
    Len(toServer[c]) + Len(toClient[c]) + answered[c]
      + Cardinality({l \in outbox["TCP"] : l.to = c})

RequestsAccountedFor ==
    \A c \in TcpClients : sent[c] = Outstanding(c) + unanswered[c]

(* "Failed to load messages, error occured." (client/main.cpp:24-26): a    *)
(* client is told when its messages could not be loaded, so each request   *)
(* has an answer.                                                          *)
EveryRequestAnswered ==
    \A c \in TcpClients : sent[c] = Outstanding(c)

(* "FOREIGN KEY (receiver) REFERENCES user(username)" (Server.cpp:472).    *)
ReceiversExist ==
    \A m \in Rows(message) : \E row \in user : row.username = m.receiver

(* A TCP client that logs in twice without waiting ends up as the account  *)
(* of the later request: no answer to an earlier login follows the answer  *)
(* to a later one (client/main.cpp:12-21, server/main.cpp:43-55).  Of UDP  *)
(* clients it is not true.                                                 *)
LoginsInOrder ==
    [][\A c \in TcpClients : loginSerial'[c] >= loginSerial[c]]_vars
=============================================================================
