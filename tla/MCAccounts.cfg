CONSTANTS
    c1 = c1
    c2 = c2
    e1 = e1
    e2 = e2
    n1 = n1
    n2 = n2
    w1 = w1
    TcpClients = {c1}
    UdpClients = {c2}
    Emails = {e1, e2}
    Usernames = {n1, n2}
    Passwords = {w1}
    HashOf <- OneHash
    NoName = NoName
    Denied = Denied
    MaxRequests <- TwoAndOne
    MaxMessages = 2
    MaxDatagrams = 1
SYMMETRY Names2
SPECIFICATION Spec
INVARIANTS TypeOK SameNameSameAccount SendersExist ListingsComplete RequestsAccountedFor
PROPERTIES LoginsInOrder
CHECK_DEADLOCK FALSE
