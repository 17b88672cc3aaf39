SPECIFICATION IoSpec
CONSTANTS
    Ids = {1, 2, 3}
    Data <- CharDrivers
    Nothing <- NoDevice
    MaxNodes = 3
    MEM_DEV_LO = 4
    MEM_DEV_HI = 6
    PortBits = 2
    Bytes = {0, 237}
    BlockDrivers <- Disks
    Codes <- SomeCodes
    Tasks = {init}
    Tokens <- SomeTokens
    Paths <- AbsolutePaths
    Fds = {0}
    Implemented = {}
INVARIANTS
    AbsolutePathsConverted
    CallsReachTheirDevice
PROPERTIES
    ReadsSweep
