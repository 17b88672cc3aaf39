SPECIFICATION Spec
CONSTANTS
    Quarter = 16
    TotalMem = 64
    KernelEnd = 3000
    PAGE_SIZE = 4096
    Requests <- OnePageUser
    Callers = {c1, c2, c3}
    None = None
SYMMETRY Sym
INVARIANTS
    TypeOK
    BlocksDisjoint
    BytemapTracksBlocks
    KernelBlocksAboveImage
    KernelUsedIsPrefix
PROPERTIES
    KernelPagesNeverReclaimed
    UserFreeIsExact
