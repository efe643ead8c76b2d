SPECIFICATION DumpSpec
CONSTANTS
    Hosts = {h1, h2}
    RingSize = 2
    IndexSize = 256
    ListTot = 2
    Rules <- MCRules
    MaxTime = 6
    Dumps <- MCDumps
    MaxWrite = 2
    OpenFails = TRUE
INVARIANTS
    DumpTypeOK
    NoStaleStamp
    RingRebuilt
    
CHECK_DEADLOCK FALSE
