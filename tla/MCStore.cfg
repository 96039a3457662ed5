CONSTANTS
    Node = {n1, n2}
    Account = {a1, a2}
    Kind = {geth}
    None = None
    ExpireInterval = 1
    ExpireNonce = 2
    MaxTime = 2
    Credit <- MCCredit
    Nonces <- MCNonces
    Reports <- MCReports
    MaxCredit = 2
SYMMETRY Symmetry
SPECIFICATION StoreSpec
INVARIANTS StoreTypeOK NoStrandedTrial SilentPeerDropped
PROPERTY LedgerSpec
