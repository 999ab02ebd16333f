--------------------------- MODULE AccountsProofs ---------------------------
(***************************************************************************)
(* Proofs about Accounts, for every set of clients and names, every        *)
(* hashPassword() and all bounds.  In order:                               *)
(*   1. what is on the network and in the tables, by type, and that each   *)
(*      listener thread owes at most one answer;                           *)
(*   2. what a packet in flight promises about the tables: a login answer  *)
(*      names the user of its account, a confirmation a stored row, a list *)
(*      of messages every row it must hold;                                *)
(*   3. the counting of requests and answers;                              *)
(*   4. the order of logins.                                               *)
(***************************************************************************)
EXTENDS Accounts, SequenceTheorems, FiniteSetTheorems, TLAPS

UserRows == [email : Emails, username : Usernames, password : Range(HashOf)]

MessageRows ==
    [sender : Names, receiver : Usernames, content : Clients \X Nat]

Requests ==
    [type : {"Register"}, email : Emails, username : Usernames,
     password : Passwords]
      \cup [type : {"Login"}, email : Emails, password : Passwords,
            serial : Nat]
      \cup [type : {"Sql"}, username : Names, confirmed : SUBSET MessageRows]
      \cup [type : {"ChatMessage"}, sender : Names, receiver : Usernames,
            content : Clients \X Nat]
      \cup [type : {"Chat"}, first : Names, second : Usernames,
            confirmed : SUBSET MessageRows]

AnswerPackets ==
    [type : {"Register"}, ok : BOOLEAN]
      \cup [type : {"Login"}, ok : BOOLEAN, username : Names \cup {Denied},
            email : Emails, serial : Nat]
      \cup [type : {"ChatMessage"}, ok : BOOLEAN, row : MessageRows]
      \cup [type : {"Sql", "Chat"}, ok : BOOLEAN, first : Names,
            second : Names, rows : SUBSET MessageRows,
            confirmed : SUBSET MessageRows]

Letters(thread) ==
    {l \in [to : Clients, answer : AnswerPackets] : ThreadOf(l.to) = thread}

TypeInv ==
    /\ user \in SUBSET UserRows
    /\ message \in Seq(MessageRows) /\ Len(message) <= MaxMessages
    /\ toServer \in [Clients -> Seq(Requests)]
    /\ toClient \in [Clients -> Seq(AnswerPackets)]
    /\ DOMAIN outbox = Threads
    /\ \A thread \in Threads :
          /\ outbox[thread] \subseteq Letters(thread)
          /\ \A k, l \in outbox[thread] : k = l
    /\ m_username \in [Clients -> Names]
    /\ account \in [Clients -> SUBSET Emails]
    /\ sent \in [Clients -> Nat] /\ loginSerial \in [Clients -> Nat]
    /\ \A c \in Clients : sent[c] <= MaxRequests[c]
    /\ confirmed \in SUBSET MessageRows
    /\ answered \in [Clients -> Nat] /\ unanswered \in [Clients -> Nat]

-----------------------------------------------------------------------------
(* The table user is keyed by both columns.                                *)
KeysInv ==
    \A a, b \in user : a.email = b.email \/ a.username = b.username => a = b

(* A name that somebody may go by.                                         *)
Known(name) == name = NoName \/ \E row \in user : row.username = name

(* A name together with the account it stands for.                         *)
Named(name, email) ==
    name = NoName
      \/ \E row \in user : row.username = name /\ row.email = email

Asked(content) == content[2] \in 1..sent[content[1]]

Complete(l) ==
    /\ \A m \in l.confirmed : Between(m, l.first, l.second) => m \in l.rows
    /\ \A m \in l.rows : l.first # l.second =>
                             {m.sender, m.receiver} = {l.first, l.second}

RequestOK(c, r) ==
    /\ r.type = "Login" => r.serial \in 1..sent[c]
    /\ r.type = "ChatMessage" => Known(r.sender) /\ Asked(r.content)
    /\ r.type \in {"Sql", "Chat"} => r.confirmed \subseteq Rows(message)

AnswerOK(c, a) ==
    /\ a.type = "Login" => a.serial \in 1..sent[c]
    /\ a.type = "Login" /\ a.ok =>
          a.username \in Names /\ Named(a.username, a.email)
    /\ a.type = "ChatMessage" /\ a.ok => a.row \in Rows(message)
    /\ a.type \in {"Sql", "Chat"} /\ a.ok => Complete(a)

RowsOK == \A m \in Rows(message) : Known(m.sender) /\ Asked(m.content)

RequestsOK == \A c \in Clients : \A r \in Rows(toServer[c]) : RequestOK(c, r)

AnswersOK ==
    /\ \A c \in Clients : \A a \in Rows(toClient[c]) : AnswerOK(c, a)
    /\ \A thread \in Threads : \A l \in outbox[thread] : AnswerOK(l.to, l.answer)

ClientsOK ==
    /\ \A c \in Clients :
          /\ loginSerial[c] <= sent[c]
          /\ m_username[c] = NoName
               \/ \E row \in user : /\ row.username = m_username[c]
                                    /\ account[c] = {row.email}
    /\ confirmed \subseteq Rows(message)

DataInv == KeysInv /\ RowsOK /\ RequestsOK /\ AnswersOK /\ ClientsOK

-----------------------------------------------------------------------------
(* The logins of a client, from the command line to m_username, are passed *)
(* on in order: whatever is further down is not younger.                   *)
IsLogin(p) == p.type = "Login"

InOrder(channel) ==
    \A i, j \in DOMAIN channel :
        (i < j /\ IsLogin(channel[i]) /\ IsLogin(channel[j])) =>
            channel[i].serial <= channel[j].serial

Asking(c) == {p.serial : p \in {r \in Rows(toServer[c]) : IsLogin(r)}}
Written(c) ==
    {l.answer.serial : l \in {k \in outbox["TCP"] :
                                 k.to = c /\ IsLogin(k.answer)}}
Returning(c) == {p.serial : p \in {a \in Rows(toClient[c]) : IsLogin(a)}}

NotAfter(S, T) == \A m \in S, n \in T : m <= n

InOrderFor(c) ==
    /\ InOrder(toServer[c]) /\ InOrder(toClient[c])
    /\ NotAfter({loginSerial[c]}, Returning(c) \cup Written(c) \cup Asking(c))
    /\ NotAfter(Returning(c), Written(c) \cup Asking(c))
    /\ NotAfter(Written(c), Asking(c))

OrderInv == \A c \in TcpClients : InOrderFor(c)

-----------------------------------------------------------------------------
(* Sequences.                                                              *)
LEMMA RemoveAtRows ==
    ASSUME NEW S, NEW s \in Seq(S), NEW i \in DOMAIN s
    PROVE  /\ RemoveAt(s, i) \in Seq(S)
           /\ Len(RemoveAt(s, i)) = Len(s) - 1
           /\ \A j \in 1..(Len(s) - 1) :
                 RemoveAt(s, i)[j] = IF j < i THEN s[j] ELSE s[j + 1]
           /\ Rows(RemoveAt(s, i)) \subseteq Rows(s)
<1> DEFINE before == SubSeq(s, 1, i - 1)
           after == SubSeq(s, i + 1, Len(s))
<1>1. /\ i \in 1..Len(s) /\ Len(s) \in Nat /\ DOMAIN s = 1..Len(s)
      /\ \A j \in 1..Len(s) : s[j] \in S
  BY LenProperties, ElementOfSeq
<1>2. /\ before \in Seq(S) /\ Len(before) = i - 1
      /\ \A j \in 1..(i - 1) : before[j] = s[j]
  <2>1. \A j \in 1..(i - 1) : s[j] \in S
    BY <1>1
  <2> QED
    BY <1>1, <2>1, SubSeqProperties
<1>3. /\ after \in Seq(S) /\ Len(after) = Len(s) - i
      /\ \A j \in 1..(Len(s) - i) : after[j] = s[i + j]
  <2>1. \A j \in (i + 1)..Len(s) : s[j] \in S
    BY <1>1
  <2> QED
    BY <1>1, <2>1, SubSeqProperties
<1> HIDE DEF before, after
<1>4. /\ before \o after \in Seq(S)
      /\ Len(before \o after) = Len(s) - 1
      /\ \A j \in 1..(Len(s) - 1) :
            (before \o after)[j] = IF j < i THEN s[j] ELSE s[j + 1]
  <2>1. /\ before \o after \in Seq(S)
        /\ Len(before \o after) = Len(before) + Len(after)
        /\ \A j \in 1..Len(before) + Len(after) : (before \o after)[j] =
              IF j <= Len(before) THEN before[j] ELSE after[j - Len(before)]
    BY <1>2, <1>3, ConcatProperties
  <2>2. ASSUME NEW j \in 1..(Len(s) - 1), j < i
        PROVE  (before \o after)[j] = s[j]
    <3>1. j \in 1..Len(before) + Len(after) /\ j <= Len(before)
      BY <1>1, <1>2, <1>3, <2>2
    <3> QED
      BY <1>1, <1>2, <2>1, <2>2, <3>1
  <2>3. ASSUME NEW j \in 1..(Len(s) - 1), ~(j < i)
        PROVE  (before \o after)[j] = s[j + 1]
    <3>1. /\ j \in 1..Len(before) + Len(after) /\ ~(j <= Len(before))
          /\ j - Len(before) \in 1..(Len(s) - i)
          /\ i + (j - Len(before)) = j + 1
      BY <1>1, <1>2, <1>3, <2>3
    <3>2. (before \o after)[j] = after[j - Len(before)]
      BY <2>1, <3>1
    <3> QED
      BY <1>3, <3>1, <3>2
  <2> QED
    BY <1>1, <1>2, <1>3, <2>1, <2>2, <2>3
<1>5. RemoveAt(s, i) = before \o after
  BY DEF RemoveAt, before, after
<1>6. Rows(RemoveAt(s, i)) \subseteq Rows(s)
  <2> SUFFICES ASSUME NEW j \in DOMAIN RemoveAt(s, i)
               PROVE  RemoveAt(s, i)[j] \in Rows(s)
    BY DEF Rows
  <2>1. j \in 1..(Len(s) - 1)
    BY <1>4, <1>5, LenProperties
  <2>2. RemoveAt(s, i)[j] \in {s[j], s[j + 1]} /\ {j, j + 1} \subseteq DOMAIN s
    BY <1>1, <1>4, <1>5, <2>1
  <2> QED
    BY <2>2 DEF Rows
<1> QED
  BY <1>4, <1>5, <1>6

LEMMA AppendRows ==
    ASSUME NEW S, NEW s \in Seq(S), NEW e \in S
    PROVE  /\ Append(s, e) \in Seq(S)
           /\ Len(Append(s, e)) = Len(s) + 1
           /\ \A i \in 1..Len(s) : Append(s, e)[i] = s[i]
           /\ Append(s, e)[Len(s) + 1] = e
           /\ Rows(Append(s, e)) = Rows(s) \cup {e}
<1>1. /\ Append(s, e) \in Seq(S)
      /\ Len(Append(s, e)) = Len(s) + 1
      /\ \A i \in 1..Len(s) : Append(s, e)[i] = s[i]
      /\ Append(s, e)[Len(s) + 1] = e
      /\ Len(s) \in Nat
  BY AppendProperties, LenProperties
<1>2. DOMAIN s = 1..Len(s) /\ DOMAIN Append(s, e) = 1..(Len(s) + 1)
  BY <1>1, LenProperties
<1>3. Rows(Append(s, e)) \subseteq Rows(s) \cup {e}
  BY <1>1, <1>2 DEF Rows
<1>4. Rows(s) \subseteq Rows(Append(s, e)) /\ e \in Rows(Append(s, e))
  BY <1>1, <1>2 DEF Rows
<1> QED
  BY <1>1, <1>3, <1>4

(* What NextPackets() hands over was in the channel, and for TCP first.    *)
LEMMA ArrivalRows ==
    ASSUME NEW S, NEW channel \in [Clients -> Seq(S)], NEW c \in Clients,
           NEW arrival \in Arrivals(channel, c)
    PROVE  /\ arrival.packet \in Rows(channel[c]) /\ arrival.packet \in S
           /\ arrival.rest \in Seq(S)
           /\ Rows(arrival.rest) \subseteq Rows(channel[c])
           /\ c \in TcpClients =>
                 /\ 1 \in DOMAIN channel[c] /\ arrival.packet = channel[c][1]
                 /\ Len(arrival.rest) = Len(channel[c]) - 1
                 /\ \A j \in 1..Len(arrival.rest) :
                       arrival.rest[j] = channel[c][j + 1]
<1>1. channel[c] \in Seq(S)
  OBVIOUS
<1>2. NextPackets(channel, c) \subseteq DOMAIN channel[c]
  BY DEF NextPackets
<1>3. PICK i \in DOMAIN channel[c] :
         /\ i \in NextPackets(channel, c)
         /\ arrival.packet = channel[c][i]
         /\ \/ arrival.rest = RemoveAt(channel[c], i)
            \/ c \in UdpClients /\ arrival.rest = channel[c]
  <2>1. \/ \E i \in NextPackets(channel, c) :
              arrival = [packet |-> channel[c][i],
                         rest |-> RemoveAt(channel[c], i)]
        \/ /\ c \in UdpClients
           /\ \E i \in NextPackets(channel, c) :
                 arrival = [packet |-> channel[c][i], rest |-> channel[c]]
    <3> HIDE DEF NextPackets
    <3>1. CASE c \in UdpClients
      BY <3>1 DEF Arrivals
    <3>2. CASE c \notin UdpClients
      BY <3>2 DEF Arrivals
    <3> QED
      BY <3>1, <3>2
  <2>2. PICK i \in NextPackets(channel, c) :
           \/ arrival = [packet |-> channel[c][i],
                         rest |-> RemoveAt(channel[c], i)]
           \/ /\ c \in UdpClients
              /\ arrival = [packet |-> channel[c][i], rest |-> channel[c]]
    BY <2>1
  <2>3. /\ arrival.packet = channel[c][i]
        /\ \/ arrival.rest = RemoveAt(channel[c], i)
           \/ c \in UdpClients /\ arrival.rest = channel[c]
    BY <2>2
  <2>4. i \in DOMAIN channel[c]
    BY <1>2
  <2> QED
    BY <2>2, <2>3, <2>4
<1>4. channel[c][i] \in Rows(channel[c]) /\ channel[c][i] \in S
  BY <1>1, <1>3, ElementOfSeq, LenProperties DEF Rows
<1>5. /\ RemoveAt(channel[c], i) \in Seq(S)
      /\ Len(RemoveAt(channel[c], i)) = Len(channel[c]) - 1
      /\ \A j \in 1..(Len(channel[c]) - 1) :
            RemoveAt(channel[c], i)[j] =
                IF j < i THEN channel[c][j] ELSE channel[c][j + 1]
      /\ Rows(RemoveAt(channel[c], i)) \subseteq Rows(channel[c])
  BY <1>1, <1>3, RemoveAtRows
<1>6. ASSUME c \in TcpClients
      PROVE  i = 1 /\ arrival.rest = RemoveAt(channel[c], i)
  BY <1>3, <1>6, ClientsAssumption DEF NextPackets
<1> QED
  BY <1>1, <1>3, <1>4, <1>5, <1>6

-----------------------------------------------------------------------------
(* What a packet promises stays true: no table and no counter shrinks.     *)
Growth ==
    /\ user \subseteq user'
    /\ Rows(message) \subseteq Rows(message')
    /\ \A c \in Clients : sent[c] <= sent'[c] /\ sent'[c] \in Nat

LEMMA KnownStays == ASSUME Growth, NEW name, Known(name) PROVE Known(name)'
BY DEF Growth, Known

LEMMA AskedStays ==
    ASSUME TypeInv, Growth, NEW content \in Clients \X Nat, Asked(content)
    PROVE  Asked(content)'
<1>1. content[1] \in Clients /\ content[2] \in Nat
  OBVIOUS
<1> QED
  BY <1>1 DEF TypeInv, Growth, Asked

LEMMA RequestStays ==
    ASSUME TypeInv, Growth, NEW c \in Clients, NEW r \in Requests,
           RequestOK(c, r)
    PROVE  RequestOK(c, r)'
<1>1. ASSUME r.type = "Login" PROVE r.serial \in 1..sent'[c]
  BY <1>1 DEF RequestOK, TypeInv, Growth
<1>2. ASSUME r.type = "ChatMessage"
      PROVE  Known(r.sender)' /\ Asked(r.content)'
  <2>1. r.content \in Clients \X Nat
    BY <1>2 DEF Requests
  <2> QED
    BY <1>2, <2>1, KnownStays, AskedStays DEF RequestOK
<1>3. ASSUME r.type \in {"Sql", "Chat"}
      PROVE  r.confirmed \subseteq Rows(message')
  BY <1>3 DEF RequestOK, Growth
<1> QED
  BY <1>1, <1>2, <1>3 DEF RequestOK

LEMMA AnswerStays ==
    ASSUME TypeInv, Growth, NEW c \in Clients, NEW a, AnswerOK(c, a)
    PROVE  AnswerOK(c, a)'
<1>1. ASSUME a.type = "Login" PROVE a.serial \in 1..sent'[c]
  BY <1>1 DEF AnswerOK, TypeInv, Growth
<1>2. ASSUME a.type = "Login", a.ok
      PROVE  a.username \in Names /\ Named(a.username, a.email)'
  BY <1>2 DEF AnswerOK, Growth, Named
<1>3. ASSUME a.type = "ChatMessage", a.ok PROVE a.row \in Rows(message')
  BY <1>3 DEF AnswerOK, Growth
<1>4. ASSUME a.type \in {"Sql", "Chat"}, a.ok PROVE Complete(a)'
  BY <1>4 DEF AnswerOK, Complete, Between
<1> QED
  BY <1>1, <1>2, <1>3, <1>4 DEF AnswerOK

(* A step that adds to each channel only packets that keep their promise,  *)
(* and leaves the clients' own variables alone, keeps DataInv.             *)
LEMMA PacketsStay ==
    ASSUME TypeInv, TypeInv', DataInv, Growth, KeysInv', RowsOK', ClientsOK',
           \A c \in Clients : \A r \in Rows(toServer'[c]) :
              r \in Rows(toServer[c]) \/ RequestOK(c, r)',
           \A c \in Clients : \A a \in Rows(toClient'[c]) :
              \/ a \in Rows(toClient[c])
              \/ \E thread \in Threads : \E l \in outbox[thread] :
                    l.to = c /\ l.answer = a,
           \A thread \in Threads : \A l \in outbox'[thread] :
              l \in outbox[thread] \/ AnswerOK(l.to, l.answer)'
    PROVE  DataInv'
<1> USE DEF DataInv
<1>1. RequestsOK'
  <2> SUFFICES ASSUME NEW c \in Clients, NEW r \in Rows(toServer'[c]),
                      r \in Rows(toServer[c])
               PROVE  RequestOK(c, r)'
    BY DEF RequestsOK
  <2>1. r \in Requests
    BY ElementOfSeq, LenProperties DEF TypeInv, Rows
  <2> QED
    BY <2>1, RequestStays DEF RequestsOK
<1>2. \A thread \in Threads : \A l \in outbox[thread] :
         l.to \in Clients /\ AnswerOK(l.to, l.answer)
  BY DEF TypeInv, Letters, AnswersOK
<1>3. AnswersOK'
  <2>1. ASSUME NEW c \in Clients, NEW a \in Rows(toClient'[c])
        PROVE  AnswerOK(c, a)'
    <3>1. AnswerOK(c, a)
      BY <1>2 DEF AnswersOK
    <3> QED
      BY <3>1, AnswerStays
  <2>2. ASSUME NEW thread \in Threads, NEW l \in outbox'[thread]
        PROVE  AnswerOK(l.to, l.answer)'
    BY <1>2, AnswerStays
  <2> QED
    BY <2>1, <2>2 DEF AnswersOK
<1> QED
  BY <1>1, <1>3

LEMMA MessageRow == TypeInv => Rows(message) \subseteq MessageRows
<1> SUFFICES ASSUME TypeInv, NEW i \in DOMAIN message
             PROVE  message[i] \in MessageRows
  BY DEF Rows
<1>1. message \in Seq(MessageRows)
  BY DEF TypeInv
<1> QED
  BY <1>1, ElementOfSeq, LenProperties

-----------------------------------------------------------------------------
(* The commands of the client.                                             *)
LEMMA SendEffect ==
    ASSUME TypeInv, NEW c \in Clients, NEW request \in Requests,
           Send(c, request), sent[c] < MaxRequests[c]
    PROVE  /\ TypeInv' /\ Growth
           /\ \A d \in Clients : sent'[d] = IF d = c THEN sent[d] + 1 ELSE sent[d]
           /\ \A d \in Clients : d # c => toServer'[d] = toServer[d]
           /\ toServer'[c] = Append(toServer[c], request)
<1>1. /\ toServer[c] \in Seq(Requests)
      /\ toServer' = [toServer EXCEPT ![c] = Append(toServer[c], request)]
      /\ sent' = [sent EXCEPT ![c] = sent[c] + 1]
      /\ UNCHANGED <<user, message, toClient, outbox, m_username, account,
                     loginSerial, confirmed, answered, unanswered>>
  BY DEF Send, TypeInv, database, session
<1>2. Append(toServer[c], request) \in Seq(Requests)
  BY <1>1, AppendRows
<1>3. /\ toServer' \in [Clients -> Seq(Requests)]
      /\ toServer'[c] = Append(toServer[c], request)
      /\ \A d \in Clients : d # c => toServer'[d] = toServer[d]
  BY <1>1, <1>2 DEF TypeInv
<1>4. /\ sent' \in [Clients -> Nat]
      /\ \A d \in Clients : sent'[d] = IF d = c THEN sent[d] + 1 ELSE sent[d]
      /\ \A d \in Clients : sent[d] <= sent'[d] /\ sent'[d] <= MaxRequests[d]
  <2>1. sent \in [Clients -> Nat] /\ \A d \in Clients : sent[d] <= MaxRequests[d]
    BY DEF TypeInv
  <2>2. \A d \in Clients : MaxRequests[d] \in Nat
    BY BoundsAssumption
  <2>3. \A d \in Clients : sent'[d] = IF d = c THEN sent[d] + 1 ELSE sent[d]
    BY <1>1, <2>1
  <2> QED
    BY <1>1, <2>1, <2>2, <2>3
<1>5. Growth
  BY <1>1, <1>4 DEF Growth
<1>6. TypeInv'
  BY <1>1, <1>3, <1>4 DEF TypeInv
<1> QED
  BY <1>3, <1>4, <1>5, <1>6

LEMMA CommandSends ==
    ASSUME TypeInv, DataInv, NEW c \in Clients, Commands(c)
    PROVE  \E request \in Requests :
              /\ Send(c, request) /\ RequestOK(c, request)'
              /\ IsLogin(request) => request.serial = sent[c] + 1
<1> DEFINE Goal(request) ==
      /\ request \in Requests
      /\ Send(c, request) /\ RequestOK(c, request)'
      /\ IsLogin(request) => request.serial = sent[c] + 1
<1>0. /\ sent[c] < MaxRequests[c] /\ sent[c] \in Nat
      /\ m_username[c] \in Names /\ confirmed \in SUBSET MessageRows
      /\ Known(m_username[c]) /\ confirmed \subseteq Rows(message)
  BY DEF Commands, TypeInv, DataInv, ClientsOK, Known
<1>1. CASE Register(c)
  <2>1. PICK email \in Emails, username \in Usernames, password \in Passwords :
          Send(c, [type |-> "Register", email |-> email,
                   username |-> username, password |-> password])
    BY <1>1 DEF Register
  <2>2. Goal([type |-> "Register", email |-> email, username |-> username,
              password |-> password])
    BY <2>1 DEF Requests, RequestOK, IsLogin
  <2> QED
    BY <2>2
<1>2. CASE Login(c)
  <2>1. PICK email \in Emails, password \in Passwords :
          Send(c, [type |-> "Login", email |-> email, password |-> password,
                   serial |-> sent[c] + 1])
    BY <1>2 DEF Login
  <2>2. PICK request \in Requests :
          request = [type |-> "Login", email |-> email, password |-> password,
                     serial |-> sent[c] + 1]
    <3>1. sent[c] + 1 \in Nat
      BY <1>0
    <3>2. [type |-> "Login", email |-> email, password |-> password,
           serial |-> sent[c] + 1] \in Requests
      BY <3>1 DEF Requests
    <3> QED
      BY <3>2
  <2>3. Send(c, request) /\ sent'[c] = sent[c] + 1
    BY <1>0, <2>1, <2>2, SendEffect
  <2>4. request.type = "Login" /\ request.serial = sent[c] + 1
    BY <2>2
  <2>5. RequestOK(c, request)'
    BY <1>0, <2>3, <2>4 DEF RequestOK
  <2> QED
    BY <2>3, <2>4, <2>5
<1>3. CASE ListAll(c)
  <2>1. PICK request \in Requests :
          request = [type |-> "Sql", username |-> m_username[c],
                     confirmed |-> confirmed]
    BY <1>0 DEF Requests
  <2>2. Send(c, request) /\ message' = message
    BY <1>3, <2>1 DEF ListAll, Send, database
  <2>3. request.type = "Sql" /\ request.confirmed = confirmed
    BY <2>1
  <2>4. RequestOK(c, request)' /\ ~IsLogin(request)
    BY <1>0, <2>2, <2>3 DEF RequestOK, IsLogin
  <2> QED
    BY <2>2, <2>4
<1>4. CASE SendMessage(c)
  <2>1. PICK receiver \in Usernames :
          Send(c, [type |-> "ChatMessage", sender |-> m_username[c],
                   receiver |-> receiver, content |-> <<c, sent[c] + 1>>])
    BY <1>4 DEF SendMessage
  <2>2. PICK content \in Clients \X Nat : content = <<c, sent[c] + 1>>
    <3>1. <<c, sent[c] + 1>> \in Clients \X Nat
      BY <1>0
    <3> QED
      BY <3>1
  <2>3. PICK request \in Requests :
          request = [type |-> "ChatMessage", sender |-> m_username[c],
                     receiver |-> receiver, content |-> content]
    BY <1>0 DEF Requests
  <2>4. Send(c, request)
    BY <2>1, <2>2, <2>3
  <2>5. sent'[c] = sent[c] + 1 /\ Growth
    BY <1>0, <2>4, SendEffect
  <2>6. /\ request.type = "ChatMessage" /\ request.content = content
        /\ Known(request.sender)
    BY <1>0, <2>3
  <2>7. Asked(content)'
    <3>1. content[1] = c /\ content[2] = sent[c] + 1
      BY <2>2
    <3>2. sent'[c] \in Nat
      BY <2>5 DEF Growth
    <3> QED
      BY <1>0, <2>5, <3>1, <3>2 DEF Asked
  <2>8. Known(request.sender)'
    BY <2>5, <2>6, KnownStays
  <2>9. RequestOK(c, request)' /\ ~IsLogin(request)
    BY <2>6, <2>7, <2>8 DEF RequestOK, IsLogin
  <2> QED
    BY <2>4, <2>9
<1>5. CASE ListWith(c)
  <2>1. PICK other \in Usernames :
          Send(c, [type |-> "Chat", first |-> m_username[c], second |-> other,
                   confirmed |-> confirmed])
    BY <1>5 DEF ListWith
  <2>2. PICK request \in Requests :
          request = [type |-> "Chat", first |-> m_username[c],
                     second |-> other, confirmed |-> confirmed]
    BY <1>0 DEF Requests
  <2>3. Send(c, request) /\ message' = message
    BY <2>1, <2>2 DEF Send, database
  <2>4. request.type = "Chat" /\ request.confirmed = confirmed
    BY <2>2
  <2>5. RequestOK(c, request)' /\ ~IsLogin(request)
    BY <1>0, <2>3, <2>4 DEF RequestOK, IsLogin
  <2> QED
    BY <2>3, <2>5
<1> QED
  BY <1>1, <1>2, <1>3, <1>4, <1>5 DEF Commands

LEMMA CommandStep ==
    ASSUME TypeInv, DataInv, NEW c \in Clients, Commands(c)
    PROVE  TypeInv' /\ DataInv'
<1>1. PICK request \in Requests : Send(c, request) /\ RequestOK(c, request)'
  BY CommandSends
<1>2. /\ TypeInv' /\ Growth
      /\ \A d \in Clients : d # c => toServer'[d] = toServer[d]
      /\ toServer'[c] = Append(toServer[c], request)
      /\ \A d \in Clients : sent[d] <= sent'[d]
  BY <1>1, SendEffect DEF Commands, Growth
<1>3. UNCHANGED <<user, message, toClient, outbox, m_username, account,
                  loginSerial, confirmed>>
  BY <1>1 DEF Send, database, session
<1>4. \A d \in Clients : \A r \in Rows(toServer'[d]) :
         r \in Rows(toServer[d]) \/ RequestOK(d, r)'
  <2> SUFFICES ASSUME NEW r \in Rows(toServer'[c])
               PROVE  r \in Rows(toServer[c]) \/ RequestOK(c, r)'
    BY <1>2
  <2>1. toServer[c] \in Seq(Requests)
    BY DEF TypeInv
  <2>2. r \in Rows(toServer[c]) \/ r = request
    BY <1>2, <2>1, AppendRows
  <2> QED
    BY <1>1, <2>2
<1>5. KeysInv' /\ RowsOK' /\ ClientsOK'
  <2>1. KeysInv'
    BY <1>3 DEF DataInv, KeysInv
  <2>2. RowsOK'
    <3> SUFFICES ASSUME NEW m \in Rows(message)
                 PROVE  Known(m.sender)' /\ Asked(m.content)'
      BY <1>3 DEF RowsOK
    <3>1. m.content \in Clients \X Nat
      BY MessageRow DEF MessageRows
    <3>2. Known(m.sender) /\ Asked(m.content)
      BY DEF DataInv, RowsOK
    <3> QED
      BY <1>2, <3>1, <3>2, KnownStays, AskedStays
  <2>3. ClientsOK'
    <3>1. \A d \in Clients : loginSerial[d] <= sent'[d]
      <4>1. \A d \in Clients : /\ loginSerial[d] \in Nat /\ sent[d] \in Nat
                               /\ sent'[d] \in Nat /\ loginSerial[d] <= sent[d]
        BY <1>2 DEF TypeInv, DataInv, ClientsOK
      <4> QED
        BY <1>2, <4>1
    <3> QED
      BY <1>3, <3>1 DEF DataInv, ClientsOK
  <2> QED
    BY <2>1, <2>2, <2>3
<1>6. \A d \in Clients : \A a \in Rows(toClient'[d]) : a \in Rows(toClient[d])
  BY <1>3
<1>7. \A thread \in Threads : \A l \in outbox'[thread] : l \in outbox[thread]
  BY <1>3
<1> QED
  BY <1>2, <1>4, <1>5, <1>6, <1>7, PacketsStay

-----------------------------------------------------------------------------
(* The handlers of the server.  What each does to the network:             *)
Takes(c, arrival) ==
    /\ outbox[ThreadOf(c)] = {}
    /\ toServer' = [toServer EXCEPT ![c] = arrival.rest]
    /\ UNCHANGED <<toClient, m_username, account, loginSerial, confirmed,
                   sent, answered>>

(* and to the tables:                                                      *)
TablesKept ==
    /\ user \subseteq user' /\ user' \in SUBSET UserRows /\ KeysInv'
    /\ message' \in Seq(MessageRows) /\ Len(message') <= MaxMessages
    /\ Rows(message) \subseteq Rows(message') /\ RowsOK'

Passes(request, answer) ==
    IsLogin(answer) => IsLogin(request) /\ answer.serial = request.serial

LEMMA TablesUntouched ==
    ASSUME TypeInv, DataInv, UNCHANGED <<user, message, sent>>
    PROVE  TablesKept
BY DEF TablesKept, TypeInv, DataInv, KeysInv, RowsOK, Known, Asked

LEMMA RegisterEffect ==
    ASSUME TypeInv, DataInv, NEW c \in Clients,
           NEW arrival \in Arrivals(toServer, c), arrival.packet \in Requests,
           HandleRegister(c, arrival)
    PROVE  /\ TablesKept
           /\ \E answer \in AnswerPackets :
                 /\ Answer(c, answer) /\ AnswerOK(c, answer)'
                 /\ Passes(arrival.packet, answer)
<1> DEFINE row == [email |-> arrival.packet.email,
                   username |-> arrival.packet.username,
                   password |-> HashOf[arrival.packet.password]]
<1>1. row \in UserRows
  <2>1. /\ arrival.packet.email \in Emails
        /\ arrival.packet.username \in Usernames
        /\ arrival.packet.password \in Passwords
    BY DEF HandleRegister, Handling, Requests
  <2>2. HashOf[arrival.packet.password] \in Range(HashOf)
    BY <2>1, NamesAssumption DEF Range
  <2> QED
    BY <2>1, <2>2 DEF UserRows
<1>2. PICK inserted \in BOOLEAN :
         /\ inserted => Insertable(row)
         /\ user' = IF inserted THEN user \cup {row} ELSE user
         /\ Answer(c, [type |-> "Register", ok |-> inserted])
  BY DEF HandleRegister
<1>3. UNCHANGED <<message, sent>>
  BY DEF HandleRegister, Handling
<1>4. TablesKept
  <2>1. KeysInv'
    BY <1>2 DEF DataInv, KeysInv, Insertable
  <2>2. user \subseteq user' /\ user' \in SUBSET UserRows
    BY <1>1, <1>2 DEF TypeInv
  <2>3. RowsOK'
    BY <1>3, <2>2 DEF DataInv, RowsOK, Known, Asked
  <2> QED
    BY <1>3, <2>1, <2>2, <2>3 DEF TablesKept, TypeInv
<1>5. PICK answer \in AnswerPackets :
         answer = [type |-> "Register", ok |-> inserted]
  BY DEF AnswerPackets
<1>6. AnswerOK(c, answer)' /\ Passes(arrival.packet, answer)
  BY <1>5 DEF AnswerOK, Passes, IsLogin
<1> QED
  BY <1>2, <1>4, <1>5, <1>6

LEMMA LoginEffect ==
    ASSUME TypeInv, DataInv, NEW c \in Clients,
           NEW arrival \in Arrivals(toServer, c), arrival.packet \in Requests,
           RequestOK(c, arrival.packet), HandleLogin(c, arrival)
    PROVE  /\ TablesKept
           /\ \E answer \in AnswerPackets :
                 /\ Answer(c, answer) /\ AnswerOK(c, answer)'
                 /\ Passes(arrival.packet, answer)
<1>1. /\ IsLogin(arrival.packet) /\ arrival.packet.email \in Emails
      /\ arrival.packet.serial \in Nat
      /\ arrival.packet.serial \in 1..sent[c]
  BY DEF HandleLogin, Handling, Requests, RequestOK, IsLogin
<1>2. PICK result \in Authenticated(arrival.packet.email,
                                    arrival.packet.password) :
         Answer(c, [type |-> "Login", ok |-> result # Denied,
                    username |-> result, email |-> arrival.packet.email,
                    serial |-> arrival.packet.serial])
  BY DEF HandleLogin
<1>3. UNCHANGED <<user, message, sent>>
  BY DEF HandleLogin, Handling, database
<1>4. /\ result \in Names \cup {Denied}
      /\ result # Denied =>
            result \in Names /\ Named(result, arrival.packet.email)
  <2>1. CASE result = Denied
    BY <2>1
  <2>2. CASE result = NoName
    BY <2>2 DEF Names, Named
  <2>3. CASE \E row \in user : /\ row.email = arrival.packet.email
                               /\ result = row.username
    BY <2>3 DEF Named, Names, TypeInv, UserRows
  <2> QED
    BY <1>2, <2>1, <2>2, <2>3 DEF Authenticated
<1>5. PICK answer \in AnswerPackets :
         answer = [type |-> "Login", ok |-> result # Denied,
                   username |-> result, email |-> arrival.packet.email,
                   serial |-> arrival.packet.serial]
  <2>1. [type |-> "Login", ok |-> result # Denied, username |-> result,
         email |-> arrival.packet.email, serial |-> arrival.packet.serial]
            \in AnswerPackets
    BY <1>1, <1>4 DEF AnswerPackets
  <2> QED
    BY <2>1
<1>6. /\ answer.type = "Login" /\ answer.username = result
      /\ answer.ok => result # Denied
      /\ answer.email = arrival.packet.email
      /\ answer.serial = arrival.packet.serial
  BY <1>5
<1>7. AnswerOK(c, answer)' /\ Passes(arrival.packet, answer)
  <2>1. answer.serial \in 1..sent'[c]
    BY <1>1, <1>3, <1>6
  <2>2. ASSUME answer.ok
        PROVE  answer.username \in Names /\ Named(answer.username, answer.email)'
    BY <1>3, <1>4, <1>6, <2>2 DEF Named
  <2> QED
    BY <1>1, <1>6, <2>1, <2>2 DEF AnswerOK, Passes, IsLogin
<1> QED
  BY <1>2, <1>3, <1>5, <1>7, TablesUntouched

(* What the two queries for messages find.                                 *)
LEMMA ListingComplete ==
    ASSUME TypeInv, NEW first, NEW second, NEW rows, NEW before,
           before \subseteq Rows(message),
           rows = MessagesBetween(first, second)
    PROVE  /\ rows \subseteq MessageRows
           /\ \A m \in before : Between(m, first, second) => m \in rows
           /\ \A m \in rows : first # second =>
                                 {m.sender, m.receiver} = {first, second}
BY MessageRow DEF MessagesBetween, Between

LEMMA SqlEffect ==
    ASSUME TypeInv, DataInv, NEW c \in Clients,
           NEW arrival \in Arrivals(toServer, c), arrival.packet \in Requests,
           RequestOK(c, arrival.packet), HandleSql(c, arrival)
    PROVE  /\ TablesKept
           /\ \/ NoAnswer(c)
              \/ \E answer \in AnswerPackets :
                    /\ Answer(c, answer) /\ AnswerOK(c, answer)'
                    /\ Passes(arrival.packet, answer)
<1> DEFINE name == arrival.packet.username
<1>1. /\ name \in Names
      /\ arrival.packet.confirmed \in SUBSET MessageRows
      /\ arrival.packet.confirmed \subseteq Rows(message)
  BY DEF HandleSql, Handling, Requests, RequestOK
<1>2. TablesKept
  BY TablesUntouched DEF HandleSql, Handling, database
<1>3. ASSUME Answer(c, [type |-> "Sql", ok |-> TRUE, first |-> name,
                        second |-> name,
                        rows |-> MessagesBetween(name, name),
                        confirmed |-> arrival.packet.confirmed])
      PROVE  \E answer \in AnswerPackets :
                /\ Answer(c, answer) /\ AnswerOK(c, answer)'
                /\ Passes(arrival.packet, answer)
  <2>1. PICK rows \in SUBSET MessageRows : rows = MessagesBetween(name, name)
    BY MessageRow DEF MessagesBetween
  <2>2. PICK answer \in AnswerPackets :
           answer = [type |-> "Sql", ok |-> TRUE, first |-> name,
                     second |-> name, rows |-> rows,
                     confirmed |-> arrival.packet.confirmed]
    <3>1. [type |-> "Sql", ok |-> TRUE, first |-> name, second |-> name,
           rows |-> rows, confirmed |-> arrival.packet.confirmed]
             \in AnswerPackets
      BY <1>1 DEF AnswerPackets
    <3> QED
      BY <3>1
  <2>3. /\ answer.type = "Sql" /\ answer.first = name /\ answer.second = name
        /\ answer.rows = rows /\ answer.confirmed = arrival.packet.confirmed
    BY <2>2
  <2>4. Complete(answer)
    BY <1>1, <2>1, <2>3, ListingComplete DEF Complete
  <2>5. AnswerOK(c, answer)'
    BY <2>3, <2>4 DEF AnswerOK, Complete, Between
  <2>6. Passes(arrival.packet, answer)
    BY <2>3 DEF Passes, IsLogin
  <2>7. Answer(c, answer)
    BY <1>3, <2>1, <2>2
  <2> QED
    BY <2>5, <2>6, <2>7
<1> QED
  BY <1>2, <1>3 DEF HandleSql

LEMMA ChatMessageEffect ==
    ASSUME TypeInv, DataInv, NEW c \in Clients,
           NEW arrival \in Arrivals(toServer, c), arrival.packet \in Requests,
           RequestOK(c, arrival.packet), HandleChatMessage(c, arrival)
    PROVE  /\ TablesKept
           /\ \E answer \in AnswerPackets :
                 /\ Answer(c, answer) /\ AnswerOK(c, answer)'
                 /\ Passes(arrival.packet, answer)
<1> DEFINE row == [sender |-> arrival.packet.sender,
                   receiver |-> arrival.packet.receiver,
                   content |-> arrival.packet.content]
<1>1. /\ row \in MessageRows /\ Known(row.sender) /\ Asked(row.content)
      /\ UNCHANGED <<user, sent>>
  BY DEF HandleChatMessage, Handling, Requests, RequestOK, MessageRows
<1>2. PICK ok \in BOOLEAN :
         /\ Answer(c, [type |-> "ChatMessage", ok |-> ok, row |-> row])
         /\ IF ok THEN Len(message) < MaxMessages /\ message' = Append(message, row)
                  ELSE UNCHANGED message
  BY DEF HandleChatMessage
<1> HIDE DEF row
<1>3. TablesKept /\ (ok => row \in Rows(message'))
  <2>1. CASE ~ok
    BY <1>1, <1>2, <2>1, TablesUntouched
  <2>2. CASE ok
    <3>1. message \in Seq(MessageRows) /\ Len(message) \in Nat
      BY LenProperties DEF TypeInv
    <3>2. /\ message' \in Seq(MessageRows)
          /\ Len(message') <= MaxMessages
          /\ Rows(message') = Rows(message) \cup {row}
      <4>1. message' = Append(message, row) /\ Len(message) < MaxMessages
        BY <1>2, <2>2
      <4>2. /\ Append(message, row) \in Seq(MessageRows)
            /\ Len(Append(message, row)) = Len(message) + 1
            /\ Rows(Append(message, row)) = Rows(message) \cup {row}
        BY <1>1, <3>1, AppendRows
      <4> QED
        BY <3>1, <4>1, <4>2, BoundsAssumption
    <3>3. RowsOK'
      BY <1>1, <3>2 DEF DataInv, RowsOK, Known, Asked
    <3>4. KeysInv' /\ user \subseteq user' /\ user' \in SUBSET UserRows
      BY <1>1 DEF DataInv, KeysInv, TypeInv
    <3> QED
      BY <3>2, <3>3, <3>4 DEF TablesKept
  <2> QED
    BY <2>1, <2>2
<1>4. PICK answer \in AnswerPackets :
         answer = [type |-> "ChatMessage", ok |-> ok, row |-> row]
  BY <1>1 DEF AnswerPackets
<1>5. answer.type = "ChatMessage" /\ answer.ok = ok /\ answer.row = row
  BY <1>4
<1>6. AnswerOK(c, answer)' /\ Passes(arrival.packet, answer)
  BY <1>3, <1>5 DEF AnswerOK, Passes, IsLogin
<1> QED
  BY <1>2, <1>3, <1>4, <1>6

LEMMA ChatEffect ==
    ASSUME TypeInv, DataInv, NEW c \in Clients,
           NEW arrival \in Arrivals(toServer, c), arrival.packet \in Requests,
           RequestOK(c, arrival.packet), HandleChat(c, arrival)
    PROVE  /\ TablesKept
           /\ \E answer \in AnswerPackets :
                 /\ Answer(c, answer) /\ AnswerOK(c, answer)'
                 /\ Passes(arrival.packet, answer)
<1> DEFINE first == arrival.packet.first
           second == arrival.packet.second
<1>1. /\ first \in Names /\ second \in Names
      /\ arrival.packet.confirmed \in SUBSET MessageRows
      /\ arrival.packet.confirmed \subseteq Rows(message)
  BY DEF HandleChat, Handling, Requests, RequestOK, Names
<1>2. TablesKept
  BY TablesUntouched DEF HandleChat, Handling, database
<1>3. PICK ok \in BOOLEAN, rows \in SUBSET MessageRows,
           before \in SUBSET MessageRows :
         /\ Answer(c, [type |-> "Chat", ok |-> ok, first |-> first,
                       second |-> second, rows |-> rows,
                       confirmed |-> before])
         /\ ok => /\ rows = MessagesBetween(first, second)
                  /\ before = arrival.packet.confirmed
  <2>1. MessagesBetween(first, second) \in SUBSET MessageRows
    BY MessageRow DEF MessagesBetween
  <2>2. CASE Answer(c, [type |-> "Chat", ok |-> TRUE, first |-> first,
                        second |-> second,
                        rows |-> MessagesBetween(first, second),
                        confirmed |-> arrival.packet.confirmed])
    BY <1>1, <2>1, <2>2
  <2>3. CASE Answer(c, [type |-> "Chat", ok |-> FALSE, first |-> first,
                        second |-> second, rows |-> {}, confirmed |-> {}])
    <3>1. {} \in SUBSET MessageRows /\ FALSE \in BOOLEAN
      OBVIOUS
    <3> QED
      BY <2>3, <3>1, Zenon
  <2> QED
    BY <2>2, <2>3 DEF HandleChat
<1>4. PICK answer \in AnswerPackets :
         answer = [type |-> "Chat", ok |-> ok, first |-> first,
                   second |-> second, rows |-> rows, confirmed |-> before]
  <2>1. [type |-> "Chat", ok |-> ok, first |-> first, second |-> second,
         rows |-> rows, confirmed |-> before] \in AnswerPackets
    BY <1>1 DEF AnswerPackets
  <2> QED
    BY <2>1
<1>5. /\ answer.type = "Chat" /\ answer.ok = ok /\ answer.first = first
      /\ answer.second = second /\ answer.rows = rows
      /\ answer.confirmed = before
  BY <1>4
<1>6. ASSUME ok PROVE Complete(answer)
  <2>1. rows = MessagesBetween(first, second) /\ before \subseteq Rows(message)
    BY <1>1, <1>3, <1>6
  <2> HIDE DEF first, second
  <2>2. /\ \A m \in before : Between(m, first, second) => m \in rows
        /\ \A m \in rows : first # second =>
                              {m.sender, m.receiver} = {first, second}
    BY <2>1 DEF MessagesBetween, Between
  <2> QED
    BY <1>5, <2>2 DEF Complete
<1>7. AnswerOK(c, answer)' /\ Passes(arrival.packet, answer)
  BY <1>5, <1>6 DEF AnswerOK, Complete, Between, Passes, IsLogin
<1> QED
  BY <1>2, <1>3, <1>4, <1>7

LEMMA HandlerEffect ==
    ASSUME TypeInv, DataInv, NEW c \in Clients, Handlers(c)
    PROVE  \E arrival \in Arrivals(toServer, c) :
              /\ Takes(c, arrival)
              /\ TablesKept
              /\ \/ NoAnswer(c)
                 \/ \E answer \in AnswerPackets :
                       /\ Answer(c, answer) /\ AnswerOK(c, answer)'
                       /\ Passes(arrival.packet, answer)
<1>1. PICK arrival \in Arrivals(toServer, c) :
         \/ HandleRegister(c, arrival) \/ HandleLogin(c, arrival)
         \/ HandleSql(c, arrival) \/ HandleChatMessage(c, arrival)
         \/ HandleChat(c, arrival)
  BY DEF Handlers
<1>2. Takes(c, arrival)
  <2>1. \E type : Handling(c, arrival, type)
    BY <1>1 DEF HandleRegister, HandleLogin, HandleSql, HandleChatMessage,
                HandleChat
  <2> QED
    BY <2>1 DEF Handling, Takes, session
<1>3. arrival.packet \in Requests /\ RequestOK(c, arrival.packet)
  <2>1. toServer \in [Clients -> Seq(Requests)]
    BY DEF TypeInv
  <2>2. /\ arrival.packet \in Requests
        /\ arrival.packet \in Rows(toServer[c])
    BY <2>1, ArrivalRows
  <2> QED
    BY <2>2 DEF DataInv, RequestsOK
<1> QED
  BY <1>1, <1>2, <1>3, RegisterEffect, LoginEffect, SqlEffect,
     ChatMessageEffect, ChatEffect

(* The outbox after a handler.                                             *)
LEMMA AnswerPosted ==
    ASSUME TypeInv, NEW c \in Clients, NEW answer \in AnswerPackets,
           Answer(c, answer)
    PROVE  /\ DOMAIN outbox' = Threads
           /\ \A thread \in Threads :
                 /\ outbox'[thread] \subseteq Letters(thread)
                 /\ \A k, l \in outbox'[thread] : k = l
                 /\ thread # ThreadOf(c) => outbox'[thread] = outbox[thread]
           /\ outbox'[ThreadOf(c)] = {[to |-> c, answer |-> answer]}
           /\ UNCHANGED unanswered
<1>1. ThreadOf(c) \in Threads
  BY DEF ThreadOf, Threads
<1>2. /\ DOMAIN outbox' = Threads
      /\ outbox'[ThreadOf(c)] = {[to |-> c, answer |-> answer]}
      /\ \A thread \in Threads :
            thread # ThreadOf(c) => outbox'[thread] = outbox[thread]
      /\ UNCHANGED unanswered
  BY <1>1 DEF Answer, TypeInv
<1>3. [to |-> c, answer |-> answer] \in Letters(ThreadOf(c))
  BY DEF Letters
<1>4. ASSUME NEW thread \in Threads
      PROVE  /\ outbox'[thread] \subseteq Letters(thread)
             /\ \A k, l \in outbox'[thread] : k = l
  <2>1. CASE thread = ThreadOf(c)
    BY <1>2, <1>3, <2>1
  <2>2. CASE thread # ThreadOf(c)
    <3>1. outbox'[thread] = outbox[thread]
      BY <1>2, <2>2
    <3> QED
      BY <3>1 DEF TypeInv
  <2> QED
    BY <2>1, <2>2
<1> QED
  BY <1>2, <1>4

LEMMA HandlerStep ==
    ASSUME TypeInv, DataInv, NEW c \in Clients, Handlers(c)
    PROVE  TypeInv' /\ DataInv'
<1>1. PICK arrival \in Arrivals(toServer, c) :
         /\ Takes(c, arrival) /\ TablesKept
         /\ \/ NoAnswer(c)
            \/ \E answer \in AnswerPackets :
                  Answer(c, answer) /\ AnswerOK(c, answer)'
  BY HandlerEffect
<1>2. toServer \in [Clients -> Seq(Requests)]
  BY DEF TypeInv
<1>3. /\ arrival.rest \in Seq(Requests)
      /\ Rows(arrival.rest) \subseteq Rows(toServer[c])
  BY <1>2, ArrivalRows
<1>4. /\ toServer' \in [Clients -> Seq(Requests)]
      /\ \A d \in Clients : Rows(toServer'[d]) \subseteq Rows(toServer[d])
  BY <1>1, <1>2, <1>3 DEF Takes
<1>5. /\ DOMAIN outbox' = Threads
      /\ \A thread \in Threads :
            /\ outbox'[thread] \subseteq Letters(thread)
            /\ \A k, l \in outbox'[thread] : k = l
      /\ \A thread \in Threads : \A l \in outbox'[thread] :
            l \in outbox[thread] \/ AnswerOK(l.to, l.answer)'
      /\ unanswered' \in [Clients -> Nat]
  <2>1. CASE NoAnswer(c)
    BY <2>1 DEF NoAnswer, TypeInv
  <2>2. ASSUME NEW answer \in AnswerPackets, Answer(c, answer),
               AnswerOK(c, answer)'
        PROVE  /\ DOMAIN outbox' = Threads
               /\ \A thread \in Threads :
                     /\ outbox'[thread] \subseteq Letters(thread)
                     /\ \A k, l \in outbox'[thread] : k = l
               /\ \A thread \in Threads : \A l \in outbox'[thread] :
                     l \in outbox[thread] \/ AnswerOK(l.to, l.answer)'
               /\ unanswered' \in [Clients -> Nat]
    <3>1. ASSUME NEW thread \in Threads, NEW l \in outbox'[thread]
          PROVE  l \in outbox[thread] \/ AnswerOK(l.to, l.answer)'
      <4>1. CASE thread = ThreadOf(c)
        <5>1. l = [to |-> c, answer |-> answer]
          BY <2>2, <4>1, AnswerPosted
        <5>2. l.to = c /\ l.answer = answer
          BY <5>1
        <5> QED
          BY <2>2, <5>2
      <4>2. CASE thread # ThreadOf(c)
        BY <2>2, <4>2, AnswerPosted
      <4> QED
        BY <4>1, <4>2
    <3>2. unanswered' \in [Clients -> Nat]
      BY <2>2, AnswerPosted DEF TypeInv
    <3> QED
      BY <2>2, <3>1, <3>2, AnswerPosted
  <2> QED
    BY <1>1, <2>1, <2>2
<1>6. Growth
  BY <1>1 DEF Growth, Takes, TablesKept, TypeInv
<1>7. TypeInv'
  BY <1>1, <1>4, <1>5 DEF Takes, TablesKept, TypeInv
<1>8. ClientsOK'
  <2>1. \A d \in Clients : loginSerial'[d] <= sent'[d]
    BY <1>1 DEF Takes, DataInv, ClientsOK
  <2>2. ASSUME NEW d \in Clients
        PROVE  m_username'[d] = NoName
                 \/ \E row \in user' : /\ row.username = m_username'[d]
                                       /\ account'[d] = {row.email}
    BY <1>1 DEF Takes, TablesKept, DataInv, ClientsOK
  <2>3. confirmed' \subseteq Rows(message')
    BY <1>1 DEF Takes, TablesKept, DataInv, ClientsOK
  <2> QED
    BY <2>1, <2>2, <2>3 DEF ClientsOK
<1>9. KeysInv' /\ RowsOK'
  BY <1>1 DEF TablesKept
<1>10. \A d \in Clients : toClient'[d] = toClient[d]
  BY <1>1 DEF Takes
<1> QED
  BY <1>4, <1>5, <1>6, <1>7, <1>8, <1>9, <1>10, PacketsStay

-----------------------------------------------------------------------------
(* send(), the listener of the client, and the network.                    *)

(* A step that only moves packets keeps what is said of the tables.        *)
LEMMA TablesStay ==
    ASSUME TypeInv, DataInv, UNCHANGED <<user, message, sent>>
    PROVE  Growth /\ KeysInv' /\ RowsOK'
BY DEF TypeInv, DataInv, Growth, KeysInv, RowsOK, Known, Asked

LEMMA SendAnswerEffect ==
    ASSUME TypeInv, NEW thread \in Threads, NEW letter \in outbox[thread],
           outbox' = [outbox EXCEPT ![thread] = {}],
           IF letter.to \in UdpClients
                /\ Len(toClient[letter.to]) >= MaxDatagrams
           THEN UNCHANGED toClient
           ELSE toClient' =
                  [toClient EXCEPT ![letter.to] = Append(@, letter.answer)]
    PROVE  /\ letter.to \in Clients /\ letter.answer \in AnswerPackets
           /\ ThreadOf(letter.to) = thread
           /\ toClient' \in [Clients -> Seq(AnswerPackets)]
           /\ \A d \in Clients : d # letter.to => toClient'[d] = toClient[d]
           /\ \/ toClient' = toClient /\ letter.to \in UdpClients
              \/ toClient'[letter.to] = Append(toClient[letter.to], letter.answer)
           /\ DOMAIN outbox' = Threads /\ outbox'[thread] = {}
           /\ \A other \in Threads : other # thread =>
                                        outbox'[other] = outbox[other]
<1>1. /\ letter.to \in Clients /\ letter.answer \in AnswerPackets
      /\ ThreadOf(letter.to) = thread
  BY DEF TypeInv, Letters
<1>2. toClient \in [Clients -> Seq(AnswerPackets)]
  BY DEF TypeInv
<1>3. Append(toClient[letter.to], letter.answer) \in Seq(AnswerPackets)
  BY <1>1, <1>2, AppendRows
<1>4. /\ DOMAIN outbox' = Threads /\ outbox'[thread] = {}
      /\ \A other \in Threads : other # thread =>
                                   outbox'[other] = outbox[other]
  BY DEF TypeInv
<1> QED
  BY <1>1, <1>2, <1>3, <1>4

LEMMA SendAnswerStep ==
    ASSUME TypeInv, DataInv, NEW thread \in Threads, SendAnswer(thread)
    PROVE  TypeInv' /\ DataInv'
<1>1. PICK letter \in outbox[thread] :
         /\ outbox' = [outbox EXCEPT ![thread] = {}]
         /\ IF letter.to \in UdpClients
                 /\ Len(toClient[letter.to]) >= MaxDatagrams
            THEN UNCHANGED toClient
            ELSE toClient' =
                   [toClient EXCEPT ![letter.to] = Append(@, letter.answer)]
  BY DEF SendAnswer
<1>2. UNCHANGED <<user, message, toServer, m_username, account, loginSerial,
                  confirmed, sent, answered, unanswered>>
  BY DEF SendAnswer, database, session, counters
<1>3. /\ letter.to \in Clients /\ letter.answer \in AnswerPackets
      /\ toClient' \in [Clients -> Seq(AnswerPackets)]
      /\ \A d \in Clients : d # letter.to => toClient'[d] = toClient[d]
      /\ \/ toClient' = toClient /\ letter.to \in UdpClients
         \/ toClient'[letter.to] = Append(toClient[letter.to], letter.answer)
      /\ DOMAIN outbox' = Threads /\ outbox'[thread] = {}
      /\ \A other \in Threads : other # thread =>
                                   outbox'[other] = outbox[other]
  BY <1>1, SendAnswerEffect
<1>4. TypeInv'
  <2>1. ASSUME NEW other \in Threads
        PROVE  /\ outbox'[other] \subseteq Letters(other)
               /\ \A k, l \in outbox'[other] : k = l
    <3>1. CASE other = thread
      BY <1>3, <3>1
    <3>2. CASE other # thread
      BY <1>3, <3>2 DEF TypeInv
    <3> QED
      BY <3>1, <3>2
  <2> QED
    BY <1>2, <1>3, <2>1 DEF TypeInv
<1>5. ASSUME NEW d \in Clients, NEW a \in Rows(toClient'[d])
      PROVE  \/ a \in Rows(toClient[d])
             \/ letter.to = d /\ letter.answer = a
  <2>1. toClient[letter.to] \in Seq(AnswerPackets)
    BY <1>3 DEF TypeInv
  <2>2. Rows(Append(toClient[letter.to], letter.answer)) =
            Rows(toClient[letter.to]) \cup {letter.answer}
    BY <1>3, <2>1, AppendRows
  <2>3. CASE d = letter.to
    BY <1>3, <1>5, <2>2, <2>3
  <2>4. CASE d # letter.to
    BY <1>3, <1>5, <2>4
  <2> QED
    BY <2>3, <2>4
<1>6. ClientsOK'
  BY <1>2 DEF DataInv, ClientsOK
<1>7. Growth /\ KeysInv' /\ RowsOK'
  BY <1>2, TablesStay
<1>8. \A t \in Threads : \A l \in outbox'[t] : l \in outbox[t]
  BY <1>3
<1>9. \A d \in Clients : toServer'[d] = toServer[d]
  BY <1>2
<1> QED
  BY <1>4, <1>5, <1>6, <1>7, <1>8, <1>9, PacketsStay

LEMMA ReceivingEffect ==
    ASSUME TypeInv, DataInv, NEW c \in Clients,
           NEW arrival \in Arrivals(toClient, c), Receiving(c, arrival)
    PROVE  /\ arrival.packet \in AnswerPackets /\ AnswerOK(c, arrival.packet)
           /\ toClient' \in [Clients -> Seq(AnswerPackets)]
           /\ toClient'[c] = arrival.rest
           /\ \A d \in Clients : d # c => toClient'[d] = toClient[d]
           /\ \A d \in Clients : Rows(toClient'[d]) \subseteq Rows(toClient[d])
           /\ answered' \in [Clients -> Nat]
           /\ UNCHANGED <<user, message, toServer, outbox, sent, unanswered>>
<1>1. toClient \in [Clients -> Seq(AnswerPackets)]
  BY DEF TypeInv
<1>2. /\ arrival.packet \in Rows(toClient[c])
      /\ arrival.packet \in AnswerPackets
      /\ arrival.rest \in Seq(AnswerPackets)
      /\ Rows(arrival.rest) \subseteq Rows(toClient[c])
  BY <1>1, ArrivalRows
<1>3. AnswerOK(c, arrival.packet)
  BY <1>2 DEF DataInv, AnswersOK
<1>4. toClient' = [toClient EXCEPT ![c] = arrival.rest]
  BY DEF Receiving
<1>5. /\ answered' \in [Clients -> Nat]
      /\ UNCHANGED <<user, message, toServer, outbox, sent, unanswered>>
  BY DEF Receiving, TypeInv, database
<1> QED
  BY <1>1, <1>2, <1>3, <1>4, <1>5

LEMMA ReceiptStep ==
    ASSUME TypeInv, DataInv, NEW c \in Clients, Receipts(c)
    PROVE  TypeInv' /\ DataInv'
<1>1. PICK arrival \in Arrivals(toClient, c) :
         \/ ReceiveLogin(c, arrival) \/ ReceiveConfirmation(c, arrival)
         \/ ReceiveText(c, arrival)
  BY DEF Receipts
<1>2. Receiving(c, arrival)
  BY <1>1 DEF ReceiveLogin, ReceiveConfirmation, ReceiveText
<1>3. /\ arrival.packet \in AnswerPackets /\ AnswerOK(c, arrival.packet)
      /\ toClient' \in [Clients -> Seq(AnswerPackets)]
      /\ \A d \in Clients : Rows(toClient'[d]) \subseteq Rows(toClient[d])
      /\ answered' \in [Clients -> Nat]
      /\ UNCHANGED <<user, message, toServer, outbox, sent, unanswered>>
  BY <1>2, ReceivingEffect
<1>4. /\ m_username' \in [Clients -> Names]
      /\ account' \in [Clients -> SUBSET Emails]
      /\ loginSerial' \in [Clients -> Nat]
      /\ confirmed' \in SUBSET MessageRows
      /\ ClientsOK'
  <2>1. CASE ReceiveLogin(c, arrival)
    <3> DEFINE p == arrival.packet
    <3>1. /\ p.username \in Names /\ Named(p.username, p.email)
          /\ p.email \in Emails /\ p.serial \in Nat /\ p.serial <= sent[c]
      BY <1>3, <2>1 DEF ReceiveLogin, AnswerPackets, AnswerOK, TypeInv
    <3>2. /\ m_username' = [m_username EXCEPT ![c] = p.username]
          /\ account' = [account EXCEPT ![c] = {p.email}]
          /\ loginSerial' = [loginSerial EXCEPT ![c] = p.serial]
          /\ confirmed' = confirmed
      BY <2>1 DEF ReceiveLogin
    <3> HIDE DEF p
    <3>3. /\ m_username' \in [Clients -> Names]
          /\ account' \in [Clients -> SUBSET Emails]
          /\ loginSerial' \in [Clients -> Nat]
          /\ confirmed' \in SUBSET MessageRows
      BY <3>1, <3>2 DEF TypeInv
    <3>4. \A d \in Clients : d # c =>
             /\ m_username'[d] = m_username[d]
             /\ account'[d] = account[d]
             /\ loginSerial'[d] = loginSerial[d]
      BY <3>2 DEF TypeInv
    <3>5. /\ m_username'[c] = p.username /\ account'[c] = {p.email}
          /\ loginSerial'[c] = p.serial
      BY <3>2 DEF TypeInv
    <3>6. ASSUME NEW d \in Clients
          PROVE  /\ loginSerial'[d] <= sent'[d]
                 /\ \/ m_username'[d] = NoName
                    \/ \E row \in user' : /\ row.username = m_username'[d]
                                          /\ account'[d] = {row.email}
      <4>1. CASE d = c
        BY <1>3, <3>1, <3>5, <4>1 DEF Named
      <4>2. CASE d # c
        BY <1>3, <3>4, <4>2 DEF DataInv, ClientsOK
      <4> QED
        BY <4>1, <4>2
    <3>7. ClientsOK'
      BY <1>3, <3>2, <3>6 DEF DataInv, ClientsOK
    <3> QED
      BY <3>3, <3>7
  <2>2. CASE ReceiveConfirmation(c, arrival)
    <3>1. /\ arrival.packet.row \in MessageRows
          /\ arrival.packet.row \in Rows(message)
      BY <1>3, <2>2 DEF ReceiveConfirmation, AnswerPackets, AnswerOK
    <3> QED
      BY <1>3, <2>2, <3>1 DEF ReceiveConfirmation, session, TypeInv, DataInv,
                              ClientsOK
  <2>3. CASE ReceiveText(c, arrival)
    BY <1>3, <2>3 DEF ReceiveText, session, TypeInv, DataInv, ClientsOK
  <2> QED
    BY <1>1, <2>1, <2>2, <2>3
<1>5. TypeInv'
  BY <1>3, <1>4 DEF TypeInv
<1>6. Growth /\ KeysInv' /\ RowsOK'
  BY <1>3, TablesStay
<1>7. /\ \A d \in Clients : toServer'[d] = toServer[d]
      /\ \A thread \in Threads : outbox'[thread] = outbox[thread]
  BY <1>3
<1> QED
  BY <1>3, <1>4, <1>5, <1>6, <1>7, PacketsStay

LEMMA LoseEffect ==
    ASSUME TypeInv, Lose
    PROVE  /\ toServer' \in [Clients -> Seq(Requests)]
           /\ toClient' \in [Clients -> Seq(AnswerPackets)]
           /\ \A d \in Clients : /\ Rows(toServer'[d]) \subseteq Rows(toServer[d])
                                 /\ Rows(toClient'[d]) \subseteq Rows(toClient[d])
           /\ \A d \in TcpClients : /\ toServer'[d] = toServer[d]
                                    /\ toClient'[d] = toClient[d]
<1>1. /\ toServer \in [Clients -> Seq(Requests)]
      /\ toClient \in [Clients -> Seq(AnswerPackets)]
  BY DEF TypeInv
<1>2. PICK c \in UdpClients :
         \/ /\ \E i \in DOMAIN toServer[c] :
                  toServer' = [toServer EXCEPT ![c] = RemoveAt(@, i)]
            /\ UNCHANGED toClient
         \/ /\ \E i \in DOMAIN toClient[c] :
                  toClient' = [toClient EXCEPT ![c] = RemoveAt(@, i)]
            /\ UNCHANGED toServer
  BY DEF Lose
<1>3. c \in Clients /\ c \notin TcpClients
  BY ClientsAssumption DEF Clients
<1>4. CASE /\ \E i \in DOMAIN toServer[c] :
                 toServer' = [toServer EXCEPT ![c] = RemoveAt(@, i)]
           /\ UNCHANGED toClient
  <2>1. PICK i \in DOMAIN toServer[c] :
           toServer' = [toServer EXCEPT ![c] = RemoveAt(toServer[c], i)]
    BY <1>4
  <2>2. /\ RemoveAt(toServer[c], i) \in Seq(Requests)
        /\ Rows(RemoveAt(toServer[c], i)) \subseteq Rows(toServer[c])
    BY <1>1, <1>3, RemoveAtRows
  <2> QED
    BY <1>1, <1>3, <1>4, <2>1, <2>2 DEF Clients
<1>5. CASE /\ \E i \in DOMAIN toClient[c] :
                 toClient' = [toClient EXCEPT ![c] = RemoveAt(@, i)]
           /\ UNCHANGED toServer
  <2>1. PICK i \in DOMAIN toClient[c] :
           toClient' = [toClient EXCEPT ![c] = RemoveAt(toClient[c], i)]
    BY <1>5
  <2>2. /\ RemoveAt(toClient[c], i) \in Seq(AnswerPackets)
        /\ Rows(RemoveAt(toClient[c], i)) \subseteq Rows(toClient[c])
    BY <1>1, <1>3, RemoveAtRows
  <2> QED
    BY <1>1, <1>3, <1>5, <2>1, <2>2 DEF Clients
<1> QED
  BY <1>2, <1>4, <1>5

LEMMA LoseStep == ASSUME TypeInv, DataInv, Lose PROVE TypeInv' /\ DataInv'
<1>1. UNCHANGED <<user, message, outbox, m_username, account, loginSerial,
                  confirmed, sent, answered, unanswered>>
  BY DEF Lose, database, session, counters
<1>2. TypeInv'
  BY <1>1, LoseEffect DEF TypeInv
<1>3. Growth /\ KeysInv' /\ RowsOK' /\ ClientsOK'
  BY <1>1, TablesStay DEF DataInv, ClientsOK
<1>4. /\ \A d \in Clients : /\ Rows(toServer'[d]) \subseteq Rows(toServer[d])
                            /\ Rows(toClient'[d]) \subseteq Rows(toClient[d])
      /\ \A thread \in Threads : outbox'[thread] = outbox[thread]
  BY <1>1, LoseEffect
<1> QED
  BY <1>2, <1>3, <1>4, PacketsStay

LEMMA StutterStep ==
    ASSUME TypeInv, DataInv, UNCHANGED vars PROVE TypeInv' /\ DataInv'
<1>1. UNCHANGED <<user, message, toServer, toClient, outbox, m_username,
                  account, loginSerial, confirmed, sent, answered, unanswered>>
  BY DEF vars, database, network, session, counters
<1>2. TypeInv'
  BY <1>1 DEF TypeInv
<1>3. Growth /\ KeysInv' /\ RowsOK' /\ ClientsOK'
  BY <1>1, TablesStay DEF DataInv, ClientsOK
<1> QED
  BY <1>1, <1>2, <1>3, PacketsStay

LEMMA InitInv == Init => TypeInv /\ DataInv
<1> SUFFICES ASSUME Init PROVE TypeInv /\ DataInv
  OBVIOUS
<1>1. /\ << >> \in Seq(MessageRows) /\ << >> \in Seq(Requests)
      /\ << >> \in Seq(AnswerPackets) /\ Len(<< >>) = 0
      /\ Rows(<< >>) = {}
  BY EmptySeq DEF Rows
<1>2. user \in SUBSET UserRows
  BY DEF Init, UserRows
<1>3. \A c \in Clients : 0 <= MaxRequests[c]
  BY BoundsAssumption
<1>4. TypeInv
  BY <1>1, <1>2, <1>3, BoundsAssumption DEF Init, TypeInv, Names
<1>5. KeysInv
  BY DEF Init, KeysInv
<1>6. RowsOK /\ RequestsOK /\ AnswersOK /\ ClientsOK
  BY <1>1 DEF Init, RowsOK, RequestsOK, AnswersOK, ClientsOK
<1> QED
  BY <1>4, <1>5, <1>6 DEF DataInv

(* What is true of the tables, of every packet in flight, and of what the  *)
(* clients hold, whatever the handlers of both threads do in between       *)
(* (server/main.cpp:27-123, client/main.cpp:12-36).                        *)
THEOREM AccountsInvariant == Spec => [](TypeInv /\ DataInv)
<1>1. TypeInv /\ DataInv /\ [Next]_vars => TypeInv' /\ DataInv'
  BY CommandStep, HandlerStep, ReceiptStep, SendAnswerStep, LoseStep,
     StutterStep DEF Next
<1> QED
  BY <1>1, InitInv, PTL DEF Spec

-----------------------------------------------------------------------------
(* TypeOK holds of every server database, network and client: names come   *)
(* from the tables or are empty, the content of a stored message was sent, *)
(* no login is from the future, and each listener thread has at most one   *)
(* answer in hand (server/main.cpp:27-123, Server.cpp:459-586).            *)
THEOREM TypeCorrect == Spec => []TypeOK
<1>1. TypeInv /\ DataInv => TypeOK
  <2> SUFFICES ASSUME TypeInv, DataInv PROVE TypeOK
    OBVIOUS
  <2>1. \A row \in user : /\ row.email \in Emails /\ row.username \in Usernames
                          /\ row.password \in Range(HashOf)
    BY DEF TypeInv, UserRows
  <2>2. ASSUME NEW m \in Rows(message)
        PROVE  /\ m.sender \in Names /\ m.receiver \in Usernames
               /\ m.content[1] \in Clients
               /\ m.content[2] \in 1..sent[m.content[1]]
    <3>1. m \in MessageRows
      BY MessageRow
    <3>2. Asked(m.content)
      BY DEF DataInv, RowsOK
    <3>3. m.content \in Clients \X Nat
      BY <3>1 DEF MessageRows
    <3> QED
      BY <3>1, <3>2, <3>3 DEF MessageRows, Asked
  <2>3. ASSUME NEW c \in Clients
        PROVE  /\ sent[c] \in 0..MaxRequests[c]
               /\ loginSerial[c] \in 0..sent[c]
    <3>1. MaxRequests[c] \in Nat
      BY BoundsAssumption
    <3> QED
      BY <3>1 DEF TypeInv, DataInv, ClientsOK
  <2>4. ASSUME NEW thread \in Threads
        PROVE  Cardinality(outbox[thread]) <= 1
    <3>1. CASE outbox[thread] = {}
      BY <3>1, FS_EmptySet
    <3>2. CASE outbox[thread] # {}
      <4>1. PICK l \in outbox[thread] : TRUE
        BY <3>2
      <4>2. \A k \in outbox[thread] : k = l
        BY DEF TypeInv
      <4>3. outbox[thread] = {l}
        BY <4>2
      <4>4. Cardinality({l}) = 1
        BY FS_Singleton
      <4> QED
        BY <4>3, <4>4
    <3> QED
      BY <3>1, <3>2
  <2>5. Len(message) <= MaxMessages /\ m_username \in [Clients -> Names]
    BY DEF TypeInv
  <2> QED
    BY <2>1, <2>2, <2>3, <2>4, <2>5 DEF TypeOK
<1> QED
  BY <1>1, AccountsInvariant, PTL

(* Whoever goes by a name has logged in to the one account that has it, in *)
(* whatever order registrations and logins of any number of clients meet   *)
(* on the two threads (Server.cpp:468-469, 482-520).                       *)
THEOREM OneAccountPerName == Spec => []SameNameSameAccount
<1>1. TypeInv /\ DataInv => SameNameSameAccount
  <2> SUFFICES ASSUME TypeInv, DataInv, NEW c \in Clients, NEW d \in Clients,
                      m_username[c] = m_username[d], m_username[c] # NoName
               PROVE  account[c] = account[d]
    BY DEF SameNameSameAccount
  <2>1. PICK a \in user : a.username = m_username[c] /\ account[c] = {a.email}
    BY DEF DataInv, ClientsOK
  <2>2. PICK b \in user : b.username = m_username[d] /\ account[d] = {b.email}
    BY DEF DataInv, ClientsOK
  <2>3. a = b
    BY <2>1, <2>2 DEF DataInv, KeysInv
  <2> QED
    BY <2>1, <2>2, <2>3
<1> QED
  BY <1>1, AccountsInvariant, PTL

(* The sender of a stored message is a user, or nobody: the server does    *)
(* not look, the clients hold no other name (Server.cpp:522-537,           *)
(* client/main.cpp:12-21).                                                 *)
THEOREM SendersAreUsers == Spec => []SendersExist
<1>1. TypeInv /\ DataInv => SendersExist
  BY DEF DataInv, RowsOK, Known, SendersExist
<1> QED
  BY <1>1, AccountsInvariant, PTL

(* A list of messages, wherever it is on its way to the client, holds what *)
(* was confirmed before it was asked for, and nothing of other people's    *)
(* conversations (server/main.cpp:57-123, Server.cpp:522-586).             *)
THEOREM ListingsAreComplete == Spec => []ListingsComplete
<1>1. TypeInv /\ DataInv => ListingsComplete
  <2> SUFFICES ASSUME TypeInv, DataInv, NEW a \in Answers,
                      a.type \in {"Sql", "Chat"}, a.ok
               PROVE  Complete(a)
    BY DEF ListingsComplete, Listings, Complete
  <2>1. CASE \E c \in Clients : a \in Rows(toClient[c])
    BY <2>1 DEF DataInv, AnswersOK, AnswerOK
  <2>2. CASE \E l \in UNION Range(outbox) : a = l.answer
    <3>1. PICK thread \in DOMAIN outbox : \E l \in outbox[thread] : a = l.answer
      BY <2>2 DEF Range
    <3>2. thread \in Threads
      BY <3>1 DEF TypeInv
    <3> QED
      BY <3>1, <3>2 DEF DataInv, AnswersOK, AnswerOK
  <2> QED
    BY <2>1, <2>2 DEF Answers
<1> QED
  BY <1>1, AccountsInvariant, PTL

-----------------------------------------------------------------------------
(* Counting.  The answers a TCP client has coming from its listener thread.*)
Owed(c) == Cardinality({l \in outbox["TCP"] : l.to = c})

Balance(c) == sent[c] = Outstanding(c) + unanswered[c]

LEMMA NothingOwed ==
    ASSUME NEW S, NEW c, \A l \in S : l.to # c
    PROVE  Cardinality({l \in S : l.to = c}) = 0
<1>1. {l \in S : l.to = c} = {}
  OBVIOUS
<1> QED
  BY <1>1, FS_EmptySet

LEMMA OneOwed ==
    ASSUME NEW letter, NEW S, S = {letter}
    PROVE  Cardinality({l \in S : l.to = letter.to}) = 1
<1>1. {l \in S : l.to = letter.to} = {letter}
  OBVIOUS
<1>2. Cardinality({letter}) = 1
  BY FS_Singleton
<1> QED
  BY <1>1, <1>2

LEMMA OnlyLetter ==
    ASSUME TypeInv, NEW thread \in Threads, NEW letter \in outbox[thread]
    PROVE  outbox[thread] = {letter}
<1>1. \A l \in outbox[thread] : l = letter
  BY DEF TypeInv
<1> QED
  BY <1>1

LEMMA Numbers ==
    ASSUME TypeInv, NEW c \in Clients
    PROVE  /\ Len(toServer[c]) \in Nat /\ Len(toClient[c]) \in Nat
           /\ answered[c] \in Nat /\ unanswered[c] \in Nat /\ sent[c] \in Nat
           /\ Owed(c) \in Nat
           /\ Outstanding(c) = Len(toServer[c]) + Len(toClient[c]) + answered[c]
                                 + Owed(c)
<1>1. /\ toServer[c] \in Seq(Requests) /\ toClient[c] \in Seq(AnswerPackets)
      /\ answered[c] \in Nat /\ unanswered[c] \in Nat /\ sent[c] \in Nat
  BY DEF TypeInv
<1>2. Owed(c) \in Nat
  <2>1. CASE \A l \in outbox["TCP"] : l.to # c
    <3>1. Owed(c) = 0
      BY <2>1, NothingOwed DEF Owed
    <3> QED
      BY <3>1
  <2>2. CASE \E l \in outbox["TCP"] : l.to = c
    <3>1. PICK l \in outbox["TCP"] : l.to = c
      BY <2>2
    <3>2. outbox["TCP"] = {l}
      BY OnlyLetter DEF Threads
    <3>3. Owed(c) = 1
      BY <3>1, <3>2, OneOwed DEF Owed
    <3> QED
      BY <3>3
  <2> QED
    BY <2>1, <2>2
<1> QED
  BY <1>1, <1>2, LenProperties DEF Outstanding, Owed

LEMMA Counted ==
    ASSUME TypeInv, NEW c \in Clients
    PROVE  \E i, j, k, l, m \in Nat :
              /\ i = Len(toServer[c]) /\ j = Len(toClient[c])
              /\ k = answered[c] /\ l = Owed(c) /\ m = unanswered[c]
              /\ Outstanding(c) = i + j + k + l
BY Numbers

(* A client that a step does not concern.                                  *)
LEMMA BalanceKept ==
    ASSUME NEW c \in Clients, Balance(c), sent'[c] = sent[c],
           toServer'[c] = toServer[c], toClient'[c] = toClient[c],
           answered'[c] = answered[c], unanswered'[c] = unanswered[c],
           Owed(c)' = Owed(c)
    PROVE  Balance(c)'
BY DEF Balance, Outstanding, Owed

LEMMA CommandCounts ==
    ASSUME TypeInv, TypeInv', DataInv, NEW c \in Clients, Commands(c),
           NEW d \in TcpClients, Balance(d)
    PROVE  Balance(d)'
<1>1. PICK request \in Requests : Send(c, request)
  BY CommandSends
<1>2. /\ sent'[d] = IF d = c THEN sent[d] + 1 ELSE sent[d]
      /\ d # c => toServer'[d] = toServer[d]
      /\ toServer'[c] = Append(toServer[c], request)
  BY <1>1, SendEffect DEF Commands, Clients
<1>3. /\ UNCHANGED <<toClient, outbox, answered, unanswered>>
      /\ d \in Clients
  BY <1>1 DEF Send, Clients
<1>4. Owed(d)' = Owed(d)
  BY <1>3 DEF Owed
<1>5. CASE d = c
  <2>1. toServer[c] \in Seq(Requests)
    BY DEF TypeInv
  <2>2. Len(toServer'[d]) = Len(toServer[d]) + 1
    BY <1>2, <1>5, <2>1, AppendRows
  <2>3. sent'[d] = sent[d] + 1
    BY <1>2, <1>5
  <2>4. PICK i, j, k, l, m \in Nat :
           /\ i = Len(toServer[d]) /\ j = Len(toClient[d])
           /\ k = answered[d] /\ l = Owed(d) /\ m = unanswered[d]
           /\ Outstanding(d) = i + j + k + l
    BY <1>3, Counted
  <2>5. Outstanding(d)' = (i + 1) + j + k + l
    BY <1>3, <1>4, <2>2, <2>4 DEF Outstanding, Owed
  <2>6. sent[d] = i + j + k + l + m /\ unanswered'[d] = m
    BY <1>3, <2>4 DEF Balance
  <2> QED
    BY <2>3, <2>5, <2>6 DEF Balance
<1>6. CASE d # c
  BY <1>2, <1>3, <1>4, <1>6, BalanceKept
<1> QED
  BY <1>5, <1>6

LEMMA HandlerCounts ==
    ASSUME TypeInv, TypeInv', DataInv, NEW c \in Clients, Handlers(c),
           NEW d \in TcpClients, Balance(d)
    PROVE  Balance(d)'
<1>1. PICK arrival \in Arrivals(toServer, c) :
         /\ Takes(c, arrival)
         /\ NoAnswer(c) \/ \E answer \in AnswerPackets : Answer(c, answer)
  BY HandlerEffect
<1>2. /\ UNCHANGED <<toClient, sent, answered>> /\ d \in Clients
      /\ toServer'[c] = arrival.rest
      /\ d # c => toServer'[d] = toServer[d]
      /\ outbox[ThreadOf(c)] = {}
  BY <1>1 DEF Takes, TypeInv, Clients
<1>3. ThreadOf(d) = "TCP" /\ (ThreadOf(c) = "TCP" \/ c \notin TcpClients)
  BY DEF ThreadOf
<1>4. CASE NoAnswer(c)
  <2>1. Owed(d)' = Owed(d)
    BY <1>4 DEF NoAnswer, Owed
  <2>2. unanswered'[d] = IF d = c THEN unanswered[d] + 1 ELSE unanswered[d]
    BY <1>2, <1>4 DEF NoAnswer, TypeInv
  <2>3. CASE d = c
    <3>1. Len(toServer'[d]) = Len(toServer[d]) - 1
      <4>1. toServer \in [Clients -> Seq(Requests)]
        BY DEF TypeInv
      <4> QED
        BY <1>2, <2>3, <4>1, ArrivalRows
    <3>2. PICK i, j, k, l, m \in Nat :
             /\ i = Len(toServer[d]) /\ j = Len(toClient[d])
             /\ k = answered[d] /\ l = Owed(d) /\ m = unanswered[d]
             /\ Outstanding(d) = i + j + k + l
      BY <1>2, Counted
    <3>3. Outstanding(d)' = (i - 1) + j + k + l
      BY <1>2, <2>1, <3>1, <3>2 DEF Outstanding, Owed
    <3>4. unanswered'[d] = m + 1 /\ sent'[d] = i + j + k + l + m
      BY <1>2, <2>2, <2>3, <3>2 DEF Balance
    <3> QED
      BY <3>3, <3>4 DEF Balance
  <2>4. CASE d # c
    BY <1>2, <2>1, <2>2, <2>4, BalanceKept
  <2> QED
    BY <2>3, <2>4
<1>5. ASSUME NEW answer \in AnswerPackets, Answer(c, answer)
      PROVE  Balance(d)'
  <2>1. /\ outbox'[ThreadOf(c)] = {[to |-> c, answer |-> answer]}
        /\ ThreadOf(c) # "TCP" => outbox'["TCP"] = outbox["TCP"]
        /\ UNCHANGED unanswered
    BY <1>5, AnswerPosted DEF Threads
  <2>2. [to |-> c, answer |-> answer].to = c
    OBVIOUS
  <2>3. CASE d = c
    <3>1. Owed(d) = 0
      BY <1>2, <1>3, <2>3, NothingOwed DEF Owed
    <3>2. Owed(d)' = 1
      BY <1>3, <2>1, <2>2, <2>3, OneOwed DEF Owed
    <3>3. Len(toServer'[d]) = Len(toServer[d]) - 1
      <4>1. toServer \in [Clients -> Seq(Requests)]
        BY DEF TypeInv
      <4> QED
        BY <1>2, <2>3, <4>1, ArrivalRows
    <3>4. PICK i, j, k, l, m \in Nat :
             /\ i = Len(toServer[d]) /\ j = Len(toClient[d])
             /\ k = answered[d] /\ l = Owed(d) /\ m = unanswered[d]
             /\ Outstanding(d) = i + j + k + l
      BY <1>2, Counted
    <3>5. Outstanding(d)' = (i - 1) + j + k + 1
      BY <1>2, <3>1, <3>2, <3>3, <3>4 DEF Outstanding, Owed
    <3>6. Outstanding(d)' = Outstanding(d)
      <4>1. i \in Nat /\ j \in Nat /\ k \in Nat
        BY <3>4
      <4>2. (i - 1) + j + k + 1 = i + j + k + 0
        BY <4>1
      <4>3. Outstanding(d) = i + j + k + 0
        BY <3>1, <3>4
      <4> QED
        BY <3>5, <4>2, <4>3
    <3> QED
      BY <1>2, <2>1, <3>6 DEF Balance
  <2>4. CASE d # c
    <3>1. Owed(d)' = Owed(d)
      <4>1. CASE ThreadOf(c) = "TCP"
        <5>1. \A l \in outbox'["TCP"] : l.to # d
          BY <2>1, <2>4, <4>1
        <5>2. Owed(d)' = 0
          BY <5>1, NothingOwed DEF Owed
        <5>3. Owed(d) = 0
          BY <1>2, <4>1, NothingOwed DEF Owed
        <5> QED
          BY <5>2, <5>3
      <4>2. CASE ThreadOf(c) # "TCP"
        BY <2>1, <4>2 DEF Owed
      <4> QED
        BY <4>1, <4>2
    <3> QED
      BY <1>2, <2>1, <2>4, <3>1, BalanceKept
  <2> QED
    BY <2>3, <2>4
<1> QED
  BY <1>1, <1>4, <1>5

LEMMA SendAnswerCounts ==
    ASSUME TypeInv, TypeInv', DataInv, NEW thread \in Threads,
           SendAnswer(thread), NEW d \in TcpClients, Balance(d)
    PROVE  Balance(d)'
<1>1. PICK letter \in outbox[thread] :
         /\ outbox' = [outbox EXCEPT ![thread] = {}]
         /\ IF letter.to \in UdpClients
                 /\ Len(toClient[letter.to]) >= MaxDatagrams
            THEN UNCHANGED toClient
            ELSE toClient' =
                   [toClient EXCEPT ![letter.to] = Append(@, letter.answer)]
  BY DEF SendAnswer
<1>2. UNCHANGED <<toServer, sent, answered, unanswered>> /\ d \in Clients
  BY DEF SendAnswer, counters, Clients
<1>3. /\ letter.to \in Clients /\ letter.answer \in AnswerPackets
      /\ ThreadOf(letter.to) = thread
      /\ d # letter.to => toClient'[d] = toClient[d]
      /\ \/ toClient' = toClient /\ letter.to \in UdpClients
         \/ toClient'[letter.to] = Append(toClient[letter.to], letter.answer)
      /\ outbox'[thread] = {}
      /\ thread # "TCP" => outbox'["TCP"] = outbox["TCP"]
  BY <1>1, <1>2, SendAnswerEffect DEF Threads
<1>4. outbox[thread] = {letter}
  BY OnlyLetter
<1>5. CASE d = letter.to
  <2>1. thread = "TCP" /\ toClient'[d] = Append(toClient[d], letter.answer)
    BY <1>3, <1>5, ClientsAssumption DEF ThreadOf
  <2>2. toClient[d] \in Seq(AnswerPackets)
    BY <1>2 DEF TypeInv
  <2>3. Len(toClient'[d]) = Len(toClient[d]) + 1
    BY <1>3, <2>1, <2>2, AppendRows
  <2>4. Owed(d) = 1
    <3>1. outbox["TCP"] = {letter}
      BY <1>4, <2>1
    <3>2. Cardinality({l \in outbox["TCP"] : l.to = letter.to}) = 1
      BY <3>1, OneOwed
    <3> QED
      BY <1>5, <3>2 DEF Owed
  <2>5. Owed(d)' = 0
    BY <1>3, <2>1, NothingOwed DEF Owed
  <2>6. PICK i, j, k, l, m \in Nat :
           /\ i = Len(toServer[d]) /\ j = Len(toClient[d])
           /\ k = answered[d] /\ l = Owed(d) /\ m = unanswered[d]
           /\ Outstanding(d) = i + j + k + l
    BY <1>2, Counted
  <2>7. Outstanding(d)' = i + (j + 1) + k + 0
    BY <1>2, <2>3, <2>4, <2>5, <2>6 DEF Outstanding, Owed
  <2>8. Outstanding(d)' = Outstanding(d)
    <3>1. i \in Nat /\ j \in Nat /\ k \in Nat
      BY <2>6
    <3>2. i + (j + 1) + k + 0 = i + j + k + 1
      BY <3>1
    <3>3. Outstanding(d) = i + j + k + 1
      BY <2>4, <2>6
    <3> QED
      BY <2>7, <3>2, <3>3
  <2> QED
    BY <1>2, <2>8 DEF Balance
<1>6. CASE d # letter.to
  <2>1. Owed(d)' = Owed(d)
    <3>1. CASE thread = "TCP"
      <4>1. \A l \in outbox["TCP"] : l.to # d
        BY <1>4, <1>6, <3>1
      <4>2. Owed(d) = 0
        BY <4>1, NothingOwed DEF Owed
      <4>3. Owed(d)' = 0
        BY <1>3, <3>1, NothingOwed DEF Owed
      <4> QED
        BY <4>2, <4>3
    <3>2. CASE thread # "TCP"
      BY <1>3, <3>2 DEF Owed
    <3> QED
      BY <3>1, <3>2
  <2> QED
    BY <1>2, <1>3, <1>6, <2>1, BalanceKept
<1> QED
  BY <1>5, <1>6

LEMMA ReceiptCounts ==
    ASSUME TypeInv, TypeInv', DataInv, NEW c \in Clients, Receipts(c),
           NEW d \in TcpClients, Balance(d)
    PROVE  Balance(d)'
<1>1. PICK arrival \in Arrivals(toClient, c) : Receiving(c, arrival)
  BY DEF Receipts, ReceiveLogin, ReceiveConfirmation, ReceiveText
<1>2. /\ toClient'[c] = arrival.rest
      /\ d # c => toClient'[d] = toClient[d]
      /\ UNCHANGED <<toServer, outbox, sent, unanswered>>
      /\ d \in Clients
  BY <1>1, ReceivingEffect DEF Clients
<1>3. answered'[d] = IF d = c THEN answered[d] + 1 ELSE answered[d]
  BY <1>1, <1>2 DEF Receiving, TypeInv
<1>4. Owed(d)' = Owed(d)
  BY <1>2 DEF Owed
<1>5. CASE d = c
  <2>1. toClient \in [Clients -> Seq(AnswerPackets)]
    BY DEF TypeInv
  <2>2. Len(toClient'[d]) = Len(toClient[d]) - 1
    BY <1>2, <1>5, <2>1, ArrivalRows
  <2>3. PICK i, j, k, l, m \in Nat :
           /\ i = Len(toServer[d]) /\ j = Len(toClient[d])
           /\ k = answered[d] /\ l = Owed(d) /\ m = unanswered[d]
           /\ Outstanding(d) = i + j + k + l
    BY <1>2, Counted
  <2>4. Outstanding(d)' = i + (j - 1) + (k + 1) + l
    BY <1>2, <1>3, <1>4, <1>5, <2>2, <2>3 DEF Outstanding, Owed
  <2>5. Outstanding(d)' = Outstanding(d)
    <3>1. i \in Nat /\ j \in Nat /\ k \in Nat /\ l \in Nat
      BY <2>3
    <3>2. i + (j - 1) + (k + 1) + l = i + j + k + l
      BY <3>1
    <3> QED
      BY <2>3, <2>4, <3>2
  <2> QED
    BY <1>2, <2>5 DEF Balance
<1>6. CASE d # c
  BY <1>2, <1>3, <1>4, <1>6, BalanceKept
<1> QED
  BY <1>5, <1>6

(* The request of a TCP client is answered once: by the time the client    *)
(* has sent n requests, n are on their way, being answered, answered, or   *)
(* were listings of all messages whose query failed                        *)
(* (server/main.cpp:27-123).                                               *)
THEOREM EachRequestOnce == Spec => []RequestsAccountedFor
<1> DEFINE Inv == TypeInv /\ DataInv
<1>1. Init => RequestsAccountedFor
  <2> SUFFICES ASSUME Init, NEW c \in TcpClients
               PROVE  sent[c] = Outstanding(c) + unanswered[c]
    BY DEF RequestsAccountedFor
  <2>1. c \in Clients /\ "TCP" \in Threads
    BY DEF Clients, Threads
  <2>2. Len(toServer[c]) = 0 /\ Len(toClient[c]) = 0
    BY <2>1, EmptySeq DEF Init
  <2>3. Cardinality({l \in outbox["TCP"] : l.to = c}) = 0
    <3>1. outbox["TCP"] = {}
      BY <2>1 DEF Init
    <3> QED
      BY <3>1, NothingOwed
  <2>4. sent[c] = 0 /\ answered[c] = 0 /\ unanswered[c] = 0
    BY <2>1 DEF Init
  <2> QED
    BY <2>2, <2>3, <2>4 DEF Outstanding
<1>2. /\ Inv /\ Inv' /\ RequestsAccountedFor
      /\ [Next]_vars
      => RequestsAccountedFor'
  <2> SUFFICES ASSUME TypeInv, TypeInv', DataInv, [Next]_vars,
                      NEW d \in TcpClients, Balance(d)
               PROVE  Balance(d)'
    BY DEF RequestsAccountedFor, Balance
  <2>1. CASE Lose \/ UNCHANGED vars
    <3>1. /\ UNCHANGED <<outbox, sent, answered, unanswered>>
          /\ toServer'[d] = toServer[d] /\ toClient'[d] = toClient[d]
          /\ d \in Clients
      BY <2>1, LoseEffect DEF Lose, vars, counters, network, Clients
    <3> QED
      BY <3>1, BalanceKept DEF Owed
  <2> QED
    BY <2>1, CommandCounts, HandlerCounts, SendAnswerCounts, ReceiptCounts
    DEF Next
<1> QED
  BY <1>1, <1>2, AccountsInvariant, PTL DEF Spec

-----------------------------------------------------------------------------
(* The order of logins.                                                    *)
LEMMA InOrderAppend ==
    ASSUME NEW S, NEW s \in Seq(S), NEW e \in S, InOrder(s),
           IsLogin(e) => \A i \in DOMAIN s : IsLogin(s[i]) =>
                                                s[i].serial <= e.serial,
           IsLogin(e) => e.serial \in Nat
    PROVE  InOrder(Append(s, e))
<1>1. /\ Len(s) \in Nat /\ DOMAIN s = 1..Len(s)
      /\ Append(s, e) \in Seq(S) /\ Len(Append(s, e)) = Len(s) + 1
      /\ \A i \in 1..Len(s) : Append(s, e)[i] = s[i]
      /\ Append(s, e)[Len(s) + 1] = e
  BY AppendRows, LenProperties
<1>2. DOMAIN Append(s, e) = 1..(Len(s) + 1)
  BY <1>1, LenProperties
<1> DEFINE t == Append(s, e)
<1> SUFFICES ASSUME NEW i \in DOMAIN t, NEW j \in DOMAIN t, i < j,
                    IsLogin(t[i]), IsLogin(t[j])
             PROVE  t[i].serial <= t[j].serial
  BY DEF InOrder
<1> HIDE DEF t
<1>3. i \in 1..Len(s) /\ (j \in 1..Len(s) \/ j = Len(s) + 1)
  BY <1>1, <1>2 DEF t
<1>4. CASE j \in 1..Len(s)
  BY <1>1, <1>3, <1>4 DEF InOrder, t
<1>5. CASE j = Len(s) + 1
  BY <1>1, <1>3, <1>5 DEF t
<1> QED
  BY <1>3, <1>4, <1>5

LEMMA InOrderRest ==
    ASSUME NEW S, NEW s \in Seq(S), NEW rest \in Seq(S), InOrder(s),
           1 \in DOMAIN s, Len(rest) = Len(s) - 1,
           \A j \in 1..Len(rest) : rest[j] = s[j + 1]
    PROVE  /\ InOrder(rest)
           /\ IsLogin(s[1]) => \A r \in Rows(rest) : IsLogin(r) =>
                                                        s[1].serial <= r.serial
<1>1. /\ Len(s) \in Nat /\ DOMAIN s = 1..Len(s)
      /\ Len(rest) \in Nat /\ DOMAIN rest = 1..Len(rest)
  BY LenProperties
<1>2. \A j \in 1..Len(rest) : j + 1 \in DOMAIN s /\ 1 < j + 1
  BY <1>1
<1>3. InOrder(rest)
  <2> SUFFICES ASSUME NEW i \in 1..Len(rest), NEW j \in 1..Len(rest), i < j,
                      IsLogin(rest[i]), IsLogin(rest[j])
               PROVE  rest[i].serial <= rest[j].serial
    BY <1>1 DEF InOrder
  <2>1. i + 1 < j + 1 /\ i + 1 \in DOMAIN s /\ j + 1 \in DOMAIN s
    BY <1>1, <1>2
  <2>2. rest[i] = s[i + 1] /\ rest[j] = s[j + 1]
    OBVIOUS
  <2> QED
    BY <2>1, <2>2 DEF InOrder
<1>4. ASSUME IsLogin(s[1]), NEW r \in Rows(rest), IsLogin(r)
      PROVE  s[1].serial <= r.serial
  <2>1. PICK j \in 1..Len(rest) : r = s[j + 1]
    BY <1>1 DEF Rows
  <2> QED
    BY <1>2, <1>4, <2>1 DEF InOrder
<1> QED
  BY <1>3, <1>4

(* The logins that the packets in flight are about.                        *)
LEMMA Serials ==
    ASSUME TypeInv, DataInv, NEW c \in TcpClients
    PROVE  /\ \A n \in Asking(c) \cup Written(c) \cup Returning(c) :
                 n \in Nat /\ n <= sent[c]
           /\ loginSerial[c] \in Nat /\ loginSerial[c] <= sent[c]
           /\ sent[c] \in Nat
<1>1. c \in Clients /\ sent[c] \in Nat /\ loginSerial[c] \in Nat
  BY DEF TypeInv, Clients
<1>2. loginSerial[c] <= sent[c]
  BY <1>1 DEF DataInv, ClientsOK
<1>3. ASSUME NEW r \in Rows(toServer[c]), IsLogin(r)
      PROVE  r.serial \in Nat /\ r.serial <= sent[c]
  <2>1. RequestOK(c, r)
    BY <1>1 DEF DataInv, RequestsOK
  <2> QED
    BY <1>1, <1>3, <2>1 DEF RequestOK, IsLogin
<1>4. ASSUME NEW a, AnswerOK(c, a), IsLogin(a)
      PROVE  a.serial \in Nat /\ a.serial <= sent[c]
  BY <1>1, <1>4 DEF AnswerOK, IsLogin
<1>5. \A a \in Rows(toClient[c]) : AnswerOK(c, a)
  BY <1>1 DEF DataInv, AnswersOK
<1>6. \A l \in outbox["TCP"] : l.to = c => AnswerOK(c, l.answer)
  BY <1>1 DEF DataInv, AnswersOK, Threads
<1>7. \A n \in Asking(c) : n \in Nat /\ n <= sent[c]
  BY <1>3 DEF Asking
<1>8. \A n \in Written(c) : n \in Nat /\ n <= sent[c]
  BY <1>4, <1>6 DEF Written
<1>9. \A n \in Returning(c) : n \in Nat /\ n <= sent[c]
  BY <1>4, <1>5 DEF Returning
<1> QED
  BY <1>1, <1>2, <1>7, <1>8, <1>9

(* A client none of whose logins has moved down.                           *)
LEMMA OrderKept ==
    ASSUME NEW d \in TcpClients, InOrderFor(d),
           InOrder(toServer'[d]), InOrder(toClient'[d]),
           loginSerial'[d] = loginSerial[d],
           Asking(d)' \subseteq Asking(d), Written(d)' \subseteq Written(d),
           Returning(d)' \subseteq Returning(d)
    PROVE  InOrderFor(d)'
BY DEF InOrderFor, NotAfter

LEMMA CommandOrder ==
    ASSUME TypeInv, DataInv, NEW c \in Clients, Commands(c),
           NEW d \in TcpClients, InOrderFor(d)
    PROVE  InOrderFor(d)' /\ loginSerial'[d] = loginSerial[d]
<1>1. PICK request \in Requests :
         /\ Send(c, request)
         /\ IsLogin(request) => request.serial = sent[c] + 1
  BY CommandSends
<1>2. /\ d # c => toServer'[d] = toServer[d]
      /\ toServer'[c] = Append(toServer[c], request)
  BY <1>1, SendEffect DEF Commands, Clients
<1>3. UNCHANGED <<toClient, outbox, loginSerial>>
  BY <1>1 DEF Send, session
<1>4. Written(d)' = Written(d) /\ Returning(d)' = Returning(d)
  BY <1>3 DEF Written, Returning
<1>5. CASE d # c
  <2>1. Asking(d)' = Asking(d)
    BY <1>2, <1>5 DEF Asking
  <2>2. InOrder(toServer'[d]) /\ InOrder(toClient'[d])
    BY <1>2, <1>3, <1>5 DEF InOrderFor
  <2> QED
    BY <1>3, <1>4, <2>1, <2>2, OrderKept
<1>6. CASE d = c
  <2>1. toServer[d] \in Seq(Requests)
    BY <1>6 DEF TypeInv
  <2>2. Rows(toServer'[d]) = Rows(toServer[d]) \cup {request}
    <3>1. Rows(Append(toServer[d], request)) = Rows(toServer[d]) \cup {request}
      BY <1>1, <2>1, AppendRows
    <3>2. toServer'[d] = Append(toServer[d], request)
      BY <1>2, <1>6
    <3> QED
      BY <3>1, <3>2
  <2>3. \A n \in Asking(d)' : n \in Asking(d) \/ n = sent[d] + 1
    <3>1. \A r \in Rows(toServer'[d]) : IsLogin(r) =>
             \/ r \in Rows(toServer[d])
             \/ r.serial = sent[d] + 1
      BY <1>1, <1>6, <2>2
    <3> QED
      BY <3>1 DEF Asking
  <2>4. InOrder(toServer'[d])
    <3>1. ASSUME IsLogin(request)
          PROVE  /\ request.serial \in Nat
                 /\ \A i \in DOMAIN toServer[d] : IsLogin(toServer[d][i]) =>
                       toServer[d][i].serial <= request.serial
      <4>1. request.serial = sent[d] + 1 /\ sent[d] \in Nat
        BY <1>1, <1>6, <3>1, Serials
      <4>2. ASSUME NEW i \in DOMAIN toServer[d], IsLogin(toServer[d][i])
            PROVE  toServer[d][i].serial <= request.serial
        <5>1. toServer[d][i].serial \in Asking(d)
          BY <4>2 DEF Asking, Rows
        <5>2. /\ toServer[d][i].serial \in Nat
              /\ toServer[d][i].serial <= sent[d]
          BY <5>1, Serials
        <5> QED
          BY <4>1, <5>2
      <4> QED
        BY <4>1, <4>2
    <3>2. InOrder(toServer[d])
      BY DEF InOrderFor
    <3> QED
      BY <1>2, <1>6, <2>1, <3>1, <3>2, InOrderAppend
  <2>5. \A n \in {loginSerial[d]} \cup Returning(d) \cup Written(d) :
           n \in Nat /\ n <= sent[d]
    BY Serials
  <2>6. \A n \in {loginSerial[d]} \cup Returning(d) \cup Written(d) :
           n <= sent[d] + 1
    <3> SUFFICES ASSUME NEW n \in Nat, n <= sent[d]
                 PROVE  n <= sent[d] + 1
      BY <2>5
    <3>1. sent[d] \in Nat
      BY Serials
    <3> QED
      BY <3>1
  <2>7. \A m \in {loginSerial[d]} \cup Returning(d) \cup Written(d) :
           \A n \in Asking(d)' : m <= n
    BY <2>3, <2>6 DEF InOrderFor, NotAfter
  <2> QED
    BY <1>3, <1>4, <2>4, <2>7 DEF InOrderFor, NotAfter
<1> QED
  BY <1>3, <1>5, <1>6

LEMMA HandlerOrder ==
    ASSUME TypeInv, DataInv, NEW c \in Clients, Handlers(c),
           NEW d \in TcpClients, InOrderFor(d)
    PROVE  InOrderFor(d)' /\ loginSerial'[d] = loginSerial[d]
<1>1. PICK arrival \in Arrivals(toServer, c) :
         /\ Takes(c, arrival)
         /\ \/ NoAnswer(c)
            \/ \E answer \in AnswerPackets :
                  Answer(c, answer) /\ Passes(arrival.packet, answer)
  BY HandlerEffect
<1>2. /\ UNCHANGED <<toClient, loginSerial>> /\ d \in Clients
      /\ toServer'[c] = arrival.rest
      /\ d # c => toServer'[d] = toServer[d]
      /\ outbox[ThreadOf(c)] = {}
  BY <1>1 DEF Takes, TypeInv, Clients
<1>3. ThreadOf(d) = "TCP" /\ (ThreadOf(c) = "TCP" \/ c \notin TcpClients)
  BY DEF ThreadOf
<1>4. Returning(d)' = Returning(d) /\ InOrder(toClient'[d])
  BY <1>2 DEF Returning, InOrderFor
<1>5. CASE d # c
  <2>1. Asking(d)' = Asking(d) /\ InOrder(toServer'[d])
    BY <1>2, <1>5 DEF Asking, InOrderFor
  <2>2. Written(d)' \subseteq Written(d)
    <3>1. CASE NoAnswer(c)
      BY <3>1 DEF NoAnswer, Written
    <3>2. ASSUME NEW answer \in AnswerPackets, Answer(c, answer)
          PROVE  Written(d)' \subseteq Written(d)
      <4>1. /\ outbox'[ThreadOf(c)] = {[to |-> c, answer |-> answer]}
            /\ ThreadOf(c) # "TCP" => outbox'["TCP"] = outbox["TCP"]
        BY <3>2, AnswerPosted DEF Threads
      <4>2. \A l \in outbox'["TCP"] : l.to = d => l \in outbox["TCP"]
        BY <1>5, <4>1
      <4> QED
        BY <4>2 DEF Written
    <3> QED
      BY <1>1, <3>1, <3>2
  <2> QED
    BY <1>2, <1>4, <2>1, <2>2, OrderKept
<1>6. CASE d = c
  <2>1. /\ toServer \in [Clients -> Seq(Requests)]
        /\ toServer[d] \in Seq(Requests) /\ InOrder(toServer[d])
    BY <1>2 DEF TypeInv, InOrderFor
  <2>2. /\ arrival.packet \in Rows(toServer[d])
        /\ arrival.rest \in Seq(Requests)
        /\ Rows(arrival.rest) \subseteq Rows(toServer[d])
        /\ 1 \in DOMAIN toServer[d] /\ arrival.packet = toServer[d][1]
        /\ Len(arrival.rest) = Len(toServer[d]) - 1
        /\ \A j \in 1..Len(arrival.rest) : arrival.rest[j] = toServer[d][j + 1]
    <3>1. /\ toServer \in [Clients -> Seq(Requests)]
          /\ c \in TcpClients /\ arrival \in Arrivals(toServer, c)
      BY <1>1, <1>6, <2>1
    <3>2. /\ arrival.packet \in Rows(toServer[c])
          /\ arrival.rest \in Seq(Requests)
          /\ Rows(arrival.rest) \subseteq Rows(toServer[c])
      BY <3>1, ArrivalRows
    <3>3. /\ 1 \in DOMAIN toServer[c] /\ arrival.packet = toServer[c][1]
          /\ Len(arrival.rest) = Len(toServer[c]) - 1
          /\ \A j \in 1..Len(arrival.rest) :
                arrival.rest[j] = toServer[c][j + 1]
      BY <3>1, ArrivalRows
    <3> QED
      BY <1>6, <3>2, <3>3
  <2>3. /\ InOrder(toServer'[d])
        /\ IsLogin(arrival.packet) => \A r \in Rows(toServer'[d]) :
              IsLogin(r) => arrival.packet.serial <= r.serial
    <3>1. /\ InOrder(arrival.rest)
          /\ IsLogin(toServer[d][1]) => \A r \in Rows(arrival.rest) :
                IsLogin(r) => toServer[d][1].serial <= r.serial
      BY <2>1, <2>2, InOrderRest
    <3>2. toServer'[d] = arrival.rest
      BY <1>2, <1>6
    <3> QED
      BY <2>2, <3>1, <3>2
  <2>4. Asking(d)' \subseteq Asking(d)
    BY <1>2, <1>6, <2>2 DEF Asking
  <2>5. CASE NoAnswer(c)
    <3>1. Written(d)' = Written(d)
      BY <2>5 DEF NoAnswer, Written
    <3> QED
      BY <1>2, <1>4, <2>3, <2>4, <3>1, OrderKept
  <2>6. ASSUME NEW answer \in AnswerPackets, Answer(c, answer),
               Passes(arrival.packet, answer)
        PROVE  InOrderFor(d)'
    <3>1. outbox'["TCP"] = {[to |-> c, answer |-> answer]}
      BY <1>3, <1>6, <2>6, AnswerPosted
    <3>2. \A l \in outbox'["TCP"] : l.answer = answer
      BY <3>1
    <3>3. ASSUME NEW n \in Written(d)'
          PROVE  IsLogin(arrival.packet) /\ n = arrival.packet.serial
      BY <2>6, <3>2, <3>3 DEF Written, Passes
    <3>4. \A n \in Written(d)' : n \in Asking(d)
      BY <2>2, <3>3 DEF Asking
    <3>5. NotAfter(Written(d)', Asking(d)')
      BY <2>3, <3>3 DEF NotAfter, Asking
    <3> QED
      BY <1>2, <1>4, <2>3, <2>4, <3>4, <3>5 DEF InOrderFor, NotAfter
  <2> QED
    BY <1>1, <1>2, <2>5, <2>6
<1> QED
  BY <1>2, <1>5, <1>6

LEMMA SendAnswerOrder ==
    ASSUME TypeInv, DataInv, NEW thread \in Threads, SendAnswer(thread),
           NEW d \in TcpClients, InOrderFor(d)
    PROVE  InOrderFor(d)' /\ loginSerial'[d] = loginSerial[d]
<1>1. PICK letter \in outbox[thread] :
         /\ outbox' = [outbox EXCEPT ![thread] = {}]
         /\ IF letter.to \in UdpClients
                 /\ Len(toClient[letter.to]) >= MaxDatagrams
            THEN UNCHANGED toClient
            ELSE toClient' =
                   [toClient EXCEPT ![letter.to] = Append(@, letter.answer)]
  BY DEF SendAnswer
<1>2. UNCHANGED <<toServer, loginSerial>> /\ d \in Clients
  BY DEF SendAnswer, session, Clients
<1>3. /\ letter.to \in Clients /\ letter.answer \in AnswerPackets
      /\ ThreadOf(letter.to) = thread
      /\ d # letter.to => toClient'[d] = toClient[d]
      /\ \/ toClient' = toClient /\ letter.to \in UdpClients
         \/ toClient'[letter.to] = Append(toClient[letter.to], letter.answer)
      /\ outbox'[thread] = {}
      /\ thread # "TCP" => outbox'["TCP"] = outbox["TCP"]
  BY <1>1, <1>2, SendAnswerEffect DEF Threads
<1>4. Asking(d)' = Asking(d) /\ InOrder(toServer'[d])
  BY <1>2 DEF Asking, InOrderFor
<1>5. Written(d)' \subseteq Written(d)
  BY <1>3 DEF Written
<1>6. CASE d # letter.to
  <2>1. Returning(d)' = Returning(d) /\ InOrder(toClient'[d])
    BY <1>3, <1>6 DEF Returning, InOrderFor
  <2> QED
    BY <1>2, <1>4, <1>5, <2>1, OrderKept
<1>7. CASE d = letter.to
  <2>1. thread = "TCP" /\ toClient'[d] = Append(toClient[d], letter.answer)
    BY <1>3, <1>7, ClientsAssumption DEF ThreadOf
  <2>2. toClient[d] \in Seq(AnswerPackets) /\ InOrder(toClient[d])
    BY <1>2 DEF TypeInv, InOrderFor
  <2>3. Rows(toClient'[d]) = Rows(toClient[d]) \cup {letter.answer}
    BY <1>3, <2>1, <2>2, AppendRows
  <2>4. Written(d)' = {}
    BY <1>3, <2>1 DEF Written
  <2>5. IsLogin(letter.answer) => letter.answer.serial \in Written(d)
    BY <1>7, <2>1 DEF Written
  <2>6. Returning(d)' \subseteq Returning(d) \cup Written(d)
    BY <2>3, <2>5 DEF Returning
  <2>7. InOrder(toClient'[d])
    <3>1. ASSUME IsLogin(letter.answer)
          PROVE  /\ letter.answer.serial \in Nat
                 /\ \A i \in DOMAIN toClient[d] : IsLogin(toClient[d][i]) =>
                       toClient[d][i].serial <= letter.answer.serial
      <4>1. letter.answer.serial \in Nat
        BY <2>5, <3>1, Serials
      <4>2. ASSUME NEW i \in DOMAIN toClient[d], IsLogin(toClient[d][i])
            PROVE  toClient[d][i].serial \in Returning(d)
        BY <4>2 DEF Returning, Rows
      <4> QED
        BY <2>5, <3>1, <4>1, <4>2 DEF InOrderFor, NotAfter
    <3> QED
      BY <1>3, <2>1, <2>2, <3>1, InOrderAppend
  <2> QED
    BY <1>2, <1>4, <2>4, <2>6, <2>7 DEF InOrderFor, NotAfter
<1> QED
  BY <1>2, <1>6, <1>7

(* The one step that sets loginSerial: the oldest answer on its way.       *)
LEMMA ReceiptOrder ==
    ASSUME TypeInv, DataInv, NEW c \in Clients, Receipts(c),
           NEW d \in TcpClients, InOrderFor(d)
    PROVE  InOrderFor(d)' /\ loginSerial'[d] >= loginSerial[d]
<1>1. PICK arrival \in Arrivals(toClient, c) :
         \/ ReceiveLogin(c, arrival) \/ ReceiveConfirmation(c, arrival)
         \/ ReceiveText(c, arrival)
  BY DEF Receipts
<1>2. Receiving(c, arrival)
  BY <1>1 DEF ReceiveLogin, ReceiveConfirmation, ReceiveText
<1>3. /\ toClient'[c] = arrival.rest
      /\ d # c => toClient'[d] = toClient[d]
      /\ Rows(toClient'[d]) \subseteq Rows(toClient[d])
      /\ UNCHANGED <<toServer, outbox>> /\ d \in Clients
  BY <1>2, ReceivingEffect DEF Clients
<1>4. /\ Asking(d)' = Asking(d) /\ InOrder(toServer'[d])
      /\ Written(d)' = Written(d) /\ Returning(d)' \subseteq Returning(d)
  BY <1>3 DEF Asking, Written, Returning, InOrderFor
<1>5. \/ loginSerial' = loginSerial
      \/ /\ IsLogin(arrival.packet)
         /\ loginSerial' = [loginSerial EXCEPT ![c] = arrival.packet.serial]
  BY <1>1 DEF ReceiveLogin, ReceiveConfirmation, ReceiveText, session, IsLogin
<1>6. loginSerial[d] \in Nat
  BY Serials
<1>7. CASE d # c
  <2>1. loginSerial'[d] = loginSerial[d] /\ InOrder(toClient'[d])
    BY <1>3, <1>5, <1>7 DEF InOrderFor, TypeInv
  <2> QED
    BY <1>4, <1>6, <2>1, OrderKept
<1>8. CASE d = c
  <2>1. /\ toClient \in [Clients -> Seq(AnswerPackets)]
        /\ toClient[d] \in Seq(AnswerPackets) /\ InOrder(toClient[d])
    BY <1>3 DEF TypeInv, InOrderFor
  <2>2. /\ arrival.packet \in Rows(toClient[d])
        /\ arrival.rest \in Seq(AnswerPackets)
        /\ 1 \in DOMAIN toClient[d] /\ arrival.packet = toClient[d][1]
        /\ Len(arrival.rest) = Len(toClient[d]) - 1
        /\ \A j \in 1..Len(arrival.rest) : arrival.rest[j] = toClient[d][j + 1]
    BY <1>8, <2>1, ArrivalRows
  <2>3. /\ InOrder(toClient'[d])
        /\ IsLogin(arrival.packet) => \A r \in Rows(toClient'[d]) :
              IsLogin(r) => arrival.packet.serial <= r.serial
    BY <1>3, <1>8, <2>1, <2>2, InOrderRest
  <2>4. CASE loginSerial' = loginSerial
    BY <1>4, <1>6, <2>3, <2>4, OrderKept
  <2>5. CASE /\ IsLogin(arrival.packet)
             /\ loginSerial' = [loginSerial EXCEPT ![c] = arrival.packet.serial]
    <3>1. loginSerial'[d] = arrival.packet.serial
      BY <1>3, <1>8, <2>5 DEF TypeInv
    <3>2. loginSerial'[d] \in Returning(d)
      BY <2>2, <2>5, <3>1 DEF Returning
    <3>3. NotAfter({loginSerial'[d]}, Returning(d)')
      BY <2>3, <2>5, <3>1 DEF NotAfter, Returning
    <3>4. loginSerial[d] <= loginSerial'[d] /\ loginSerial'[d] \in Nat
      BY <3>2, Serials DEF InOrderFor, NotAfter
    <3>5. InOrderFor(d)'
      BY <1>4, <2>3, <3>2, <3>3 DEF InOrderFor, NotAfter
    <3> QED
      BY <1>6, <3>4, <3>5
  <2> QED
    BY <1>5, <2>4, <2>5
<1> QED
  BY <1>7, <1>8

LEMMA OrderStep ==
    ASSUME TypeInv, DataInv, OrderInv, [Next]_vars
    PROVE  /\ OrderInv'
           /\ \A c \in TcpClients : loginSerial'[c] >= loginSerial[c]
<1> SUFFICES ASSUME NEW d \in TcpClients
             PROVE  InOrderFor(d)' /\ loginSerial'[d] >= loginSerial[d]
  BY DEF OrderInv
<1>1. InOrderFor(d) /\ loginSerial[d] \in Nat
  BY Serials DEF OrderInv
<1>2. CASE Lose \/ UNCHANGED vars
  <2>1. /\ UNCHANGED <<outbox, loginSerial>>
        /\ toServer'[d] = toServer[d] /\ toClient'[d] = toClient[d]
    BY <1>2, LoseEffect DEF Lose, vars, session, network
  <2>2. /\ Asking(d)' = Asking(d) /\ Written(d)' = Written(d)
        /\ Returning(d)' = Returning(d)
    BY <2>1 DEF Asking, Written, Returning
  <2>3. InOrder(toServer'[d]) /\ InOrder(toClient'[d])
    BY <1>1, <2>1 DEF InOrderFor
  <2> QED
    BY <1>1, <2>1, <2>2, <2>3, OrderKept
<1>3. \/ InOrderFor(d)' /\ loginSerial'[d] = loginSerial[d]
      \/ InOrderFor(d)' /\ loginSerial'[d] >= loginSerial[d]
  BY <1>1, <1>2, CommandOrder, HandlerOrder, SendAnswerOrder, ReceiptOrder
  DEF Next
<1> QED
  BY <1>1, <1>3

(* The logins of a TCP client take effect in the order it asked for them:  *)
(* no answer overtakes another, neither in a channel nor between the two   *)
(* channels and the thread that is about to send (client/main.cpp:12-21,   *)
(* server/main.cpp:43-55).                                                 *)
THEOREM LaterLoginWins == Spec => LoginsInOrder
<1>1. Init => OrderInv
  <2> SUFFICES ASSUME Init, NEW c \in TcpClients PROVE InOrderFor(c)
    BY DEF OrderInv
  <2>1. c \in Clients /\ "TCP" \in Threads
    BY DEF Clients, Threads
  <2>2. toServer[c] = << >> /\ toClient[c] = << >> /\ outbox["TCP"] = {}
    BY <2>1 DEF Init
  <2>3. Asking(c) = {} /\ Returning(c) = {} /\ Written(c) = {}
    BY <2>2 DEF Asking, Returning, Written, Rows
  <2>4. InOrder(toServer[c]) /\ InOrder(toClient[c])
    BY <2>2 DEF InOrder
  <2> QED
    BY <2>3, <2>4 DEF InOrderFor, NotAfter
<1>2. /\ TypeInv /\ DataInv /\ OrderInv
      /\ [Next]_vars
      => /\ OrderInv'
         /\ [\A c \in TcpClients : loginSerial'[c] >= loginSerial[c]]_vars
  BY OrderStep
<1> QED
  BY <1>1, <1>2, AccountsInvariant, PTL DEF Spec, LoginsInOrder
=============================================================================
