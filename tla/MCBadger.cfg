CONSTANTS
    n1 = n1
    n2 = n2
    a1 = a1
    geth = geth
    Node = {n1, n2}
    Account = {a1}
    Kind = {geth}
    None = None
    Caller = {c1, c2}
    Calls <- MCCalls
    ExpireInterval = 1
    ExpireNonce = 1
    Second = 1
    PrefetchSize = 2
    MaxTime = 1
    MaxCredit = 1
SYMMETRY Symmetry
SPECIFICATION BadgerSpec
INVARIANTS BadgerTypeOK Serializable ViewsAgree
PROPERTIES LedgerSpec NonceHighest NoncesExpire SilentPeerDropped
\* A database of a newer release cannot be opened: nothing but the clock moves.
CHECK_DEADLOCK FALSE
