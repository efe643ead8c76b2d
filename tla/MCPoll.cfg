SPECIFICATION PollerSpec
CONSTANTS
    Hosts = {h1, h2, h3}
    RingSize = 2
    IndexSize = 256
    ListTot = 2
    Rules <- MCRules
    MaxTime = 5
    MaxStarts = 1
    MaxPerPoll = 9
INVARIANTS
    PollerTypeOK
    ReportsAddUp
PROPERTIES
    CatchesUp
CHECK_DEADLOCK FALSE
