CONSTANTS
    Side = {"pool", "agent"}
    Call = {"ask", "callback", "nested", "whitelist"}
    Deadline = {"callback", "whitelist"}
    None = None
    From <- MCFrom
    Parent <- MCParent
    PendingLimit <- Limited
    PendingDiscard <- Limited
SPECIFICATION RemoteFairSpec
CHECK_DEADLOCK FALSE
INVARIANT PendingBounded
PROPERTIES RPCSpec CallsReturn ServeGoesOn
