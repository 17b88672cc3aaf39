SPECIFICATION Spec
CONSTANTS
    MAX_TASK = 3
    Entries <- ThreeTasks
    NrPositions = 1
    Registers = {0, 1}
PROPERTIES
    RegistersTimeShared
    EveryTaskRuns
