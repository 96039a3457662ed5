CONSTANTS
    h1 = h1
    h2 = h2
    c = c
    x = x
    ip = ip
    lo1 = lo1
    lo2 = lo2
    Host = {h1, h2}
    Client = {c}
    Stranger = {x}
    Caller = {h2}
    Addr = {ip, lo1, lo2}
    Loopback = {lo1, lo2}
    HostAddr <- MCHostAddr
    Config <- MCConfig
    None = None
    MaxFaults = 2
SPECIFICATION AgentSpec
INVARIANTS AgentTypeOK UpdateCleans ConfirmedKept WhitelistKept
PROPERTY HostsMaintained
