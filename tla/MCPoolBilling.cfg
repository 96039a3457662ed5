CONSTANTS
    Node = {"client", "host"}
    Account = {"wallet"}
    Kind = {"geth"}
    Conn = {"c1"}
    None = None
    ExpireInterval = 2
    ExpireNonce = 0
    MaxTime = 2
    MaxRequestHosts = 0
    Interval = 1
    CreditPerInterval = 1
    MinBalance <- Overdraft
    Request <- LinkedUpdates
SPECIFICATION Spec
CHECK_DEADLOCK FALSE
INVARIANTS PoolTypeOK ZeroSum CreditCannotFail
PROPERTY NoReplay
