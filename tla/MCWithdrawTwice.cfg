CONSTANTS
    n1 = n1
    a1 = a1
    a2 = a2
    Hex <- MCHex
    Node = {n1}
    Account = {a1, a2}
    Kind = {}
    None = None
    ExpireInterval = 1
    ExpireNonce = 0
    MaxTime = 0
    PayRequest <- MCTwoWithdraws
    WithdrawMin = 1
    Fee = 0
    MaxDeposit = 0
    MaxEarned = 1
SPECIFICATION PaymentSpec
INVARIANT PaidOnce
CHECK_DEADLOCK FALSE
