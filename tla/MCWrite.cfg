SPECIFICATION NodeSpec
CONSTANTS
    Farms <- MCFarms
    NoName = ""
    Absent = Absent
    MaxFd = 6
    CommandLines <- Everyday
    Modes = {"backup"}
    FlagAtBirth = {FALSE}
    MaxClients = 2
    MaxEvents = 2
CHECK_DEADLOCK FALSE
INVARIANT
    WrittenToPound
