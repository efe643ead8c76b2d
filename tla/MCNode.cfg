SPECIFICATION NodeSpec
CONSTANTS
    Farms <- MCFarms
    NoName = ""
    Absent = Absent
    MaxFd = 3
    CommandLines <- AllCalls
    Modes = {"master", "backup"}
    FlagAtBirth = {TRUE, FALSE}
    MaxClients = 2
    MaxEvents = 2
INVARIANTS
    NodeTypeOK
    NotMisfiled
    NoCrossWrite
    AsDocumented

    
CHECK_DEADLOCK FALSE
