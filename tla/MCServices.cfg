SPECIFICATION Spec
CONSTANTS
    Farms <- MCFarms
    Listeners = {0}
    Services = {0, 1}
    Keys = {"k"}
    Backends = {1}
    NoSession = NoSession
    Tables <- MCTables
    Addrs = {"a"}
    Entries = {"e"}
    NoEntry = NoEntry
    Backups = {b1}
    MaxConns = 1
    SockBuf = 2
    NoPacket = NoPacket
    NoOwner = NoOwner
    HttpInputs <- TwoServices
    RecentInputs <- Nothing
    FlagAtBirth = {"off"}
    MaxItems = 1
    CtlOps = {"start_http"}
    Faults = {}
    MaxFeed = 2
    MaxCtl = 1
    MaxFault = 0
PROPERTY ServicesApart
