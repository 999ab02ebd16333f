----------------------------- MODULE MCAccounts -----------------------------
(* A client over TCP and one over UDP, two of everything they may name.    *)
EXTENDS Accounts

CONSTANTS c1, c2, e1, e2, n1, n2, w1

OneHash == [w \in Passwords |-> w]

TwoAndOne == [c \in Clients |-> IF c \in TcpClients THEN 2 ELSE 1]

Names2 == Permutations(Usernames) \cup Permutations(Emails)
=============================================================================
