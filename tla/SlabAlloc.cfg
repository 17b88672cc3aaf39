SPECIFICATION AllocSpec
CONSTANTS
    SLAB_SIZE = 256
    NrClasses = 8
    MaxSlabs = 6
    MaxLent = 18
    Requests <- SmallSizes
INVARIANTS
    ObjectsSound
    ChainIsTheRest
    ListsSound
