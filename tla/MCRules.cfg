SPECIFICATION RulesSpec
CONSTANTS
    Hosts = {h1, h2, h3}
    IndexSize = 256
    ListTot = 2
    MaxTime = 9
    Offered <- MCOffered
    DefaultRing = 2
    PktListTot = 0
SYMMETRY AlikeHosts
INVARIANTS
    RulesTypeOK
    TableThere
    HitsFit
    LastIsNewest
    HeadIsOldest
    WithinListTot
    
CHECK_DEADLOCK FALSE
