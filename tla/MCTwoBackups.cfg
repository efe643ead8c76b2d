SPECIFICATION Spec
CONSTANTS
    Farms <- MCFarms
    Listeners = {0}
    Services = {0}
    Keys = {"k"}
    Backends = {1}
    NoSession = NoSession
    Tables <- MCTables
    Addrs = {"a"}
    Entries = {"e"}
    NoEntry = NoEntry
    Backups = {b1, b2}
    MaxConns = 2
    SockBuf = 1
    NoPacket = NoPacket
    NoOwner = NoOwner
    HttpInputs <- JustAdd
    RecentInputs <- Nothing
    FlagAtBirth = {"off"}
    MaxItems = 1
    CtlOps = {"start_http"}
    Faults = {"backup"}
    MaxFeed = 1
    MaxCtl = 1
    MaxFault = 1
INVARIANT TypeOK
INVARIANT ServerCount
INVARIANT ServedCounted
INVARIANT NoSessionLost
SYMMETRY Alike
