SPECIFICATION Spec
CONSTANTS
    SLAB_SIZE = 256
    NrClasses = 8
    MaxSlabs = 4
    MaxLent = 13
    Requests <- SmallSizes
INVARIANTS
    MustInPartial
