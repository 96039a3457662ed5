CONSTANTS
    n1 = n1
    a1 = a1
    a2 = a2
    Hex <- MCHex
    Node = {n1}
    Account = {a1, a2}
    Kind = {}
    None = None
    ExpireInterval = 1
    ExpireNonce = 0
    MaxTime = 0
    PayRequest <- MCPayRequest
    WithdrawMin = 1
    Fee = 0
    MaxDeposit = 1
    MaxEarned = 1
SPECIFICATION PaymentFairSpec
INVARIANTS PaymentTypeOK OnePayoutPerRequest StaleExplained
PROPERTY HitsNotBlocked
CHECK_DEADLOCK FALSE
