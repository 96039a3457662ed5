CONSTANTS
    Caller = {c1, c2, c3}
    CacheDuration = 2
    None = None
    MaxTime = 3
SPECIFICATION StatusSpec
INVARIANTS StatusTypeOK FreshEnough
PROPERTIES RefreshRate CallsReturn
