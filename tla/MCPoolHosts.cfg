CONSTANTS
    Node = {"client", "host"}
    Account = {}
    Kind = {"geth"}
    Conn = {"c1", "c2"}
    None = None
    ExpireInterval = 2
    ExpireNonce = 0
    MaxTime = 0
    MaxRequestHosts = 1
    Interval = 1
    CreditPerInterval = 1
    MinBalance = None
    Request <- ReconnectRequests
SPECIFICATION FairSpec
CHECK_DEADLOCK FALSE
INVARIANTS RemoteAuthenticated RemoteCanBeClosed ReturnedHostTrusts
PROPERTY RequestsAnswered
