SPECIFICATION FairSpec
CONSTANTS
    Farms <- MCFarms
    Listeners = {0}
    Services = {0}
    Keys = {"k"}
    Backends = {1}
    NoSession = NoSession
    Tables <- MCTables
    Addrs = {"a"}
    Entries = {"e"}
    NoEntry = NoEntry
    Backups = {b1}
    MaxConns = 3
    SockBuf = 2
    NoPacket = NoPacket
    NoOwner = NoOwner
    HttpInputs <- Nothing
    RecentInputs <- Nothing
    FlagAtBirth = {"off"}
    MaxItems = 1
    CtlOps = {"start_http"}
    Faults = {"master"}
    MaxFeed = 0
    MaxCtl = 0
    MaxFault = 1
PROPERTY Reconnects
