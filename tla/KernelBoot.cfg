SPECIFICATION KernelSpec
CONSTANTS
    MAX_TASK = 2
    Entries <- OnlyInit
    NrPositions = 2
    Registers = {0, 1}
    NrPins = 24
    NrVectors = 36
    RaisingPins = {1, 2, 3, 14}
    BlockInit = {TRUE, FALSE}
INVARIANTS
    TasksSound
    PanicHasCause
PROPERTIES
    TaskResumes
    PanicIsFinal
    TicksKeepComing
