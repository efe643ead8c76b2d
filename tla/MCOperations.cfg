SPECIFICATION Spec
CONSTANTS
    Farms <- MCFarms
    Listeners = {0}
    Services = {0}
    Keys = {"k"}
    Backends = {1}
    NoSession = NoSession
    Tables <- MCTables
    Addrs = {"a"}
    Entries = {"e"}
    NoEntry = NoEntry
    Backups = {b1}
    MaxConns = 2
    SockBuf = 1
    NoPacket = NoPacket
    NoOwner = NoOwner
    HttpInputs <- JustAdd
    RecentInputs <- JustEntry
    FlagAtBirth = {"off", "garbage"}
    MaxItems = 1
    CtlOps = {"start_http", "start_recent", "clear_http", "stop_recent"}
    Faults = {"master", "quit", "reset"}
    MaxFeed = 1
    MaxCtl = 3
    MaxFault = 1
INVARIANT NoSessionLost
INVARIANT NoEntryLost
