SPECIFICATION PollerSpec
CONSTANTS
    Hosts = {h1, h2}
    RingSize = 2
    IndexSize = 256
    ListTot = 2
    Rules <- MCRules
    MaxTime = 3
    MaxStarts = 2
    MaxPerPoll = 1
PROPERTIES
    LoadsHostTables
CHECK_DEADLOCK FALSE
