SPECIFICATION StreamSpec
CONSTANTS
    NodePackets <- MCNodePackets
    PoundPackets <- MCPoundPackets
    Commands <- MCCommands
    BufSize = 90
    MaxSent = 3
    MaxCopies = 2
INVARIANTS
    StreamTypeOK
    RoomToMove
PROPERTIES
    FirstInFirstOut
    AllTaken
CHECK_DEADLOCK FALSE
