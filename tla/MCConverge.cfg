SPECIFICATION FairSpec
CONSTANTS
    Farms <- MCFarms
    Listeners = {0}
    Services = {0}
    Keys = {"k"}
    Backends = {1}
    NoSession = NoSession
    Tables <- MCTables
    Addrs = {"a"}
    Entries = {"e"}
    NoEntry = NoEntry
    Backups = {b1}
    MaxConns = 1
    SockBuf = 2
    NoPacket = NoPacket
    NoOwner = NoOwner
    HttpInputs <- AddDelete
    RecentInputs <- OneEntry
    FlagAtBirth = {"off"}
    MaxItems = 1
    CtlOps = {"start_http", "farm_gone", "start_recent"}
    Faults = {}
    MaxFeed = 2
    MaxCtl = 2
    MaxFault = 0
INVARIANT NoGhostSession
PROPERTY Converges
PROPERTY LagsBehind
