SPECIFICATION Spec
CONSTANTS
    a = a  b = b  c3 = c3  short = short  long = long
    Nobody = Nobody  NoReq = NoReq
    Clients <- TwoClients
    Kinds <- TwoKinds
    Want <- MCWant
    Unit <- MCUnit
    ExcLen = 2
    Backlog = 2
    MaxLate = 1
INVARIANT PairedAlways
