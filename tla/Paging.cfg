SPECIFICATION Spec
CONSTANTS
    Quarter = 64
    Entries = 16
    TableFrames = {4, 5}
    Virts <- UserPages
    Phys <- SomePhys
INVARIANTS
    MapSound
PROPERTIES
    ChangesOnlyItsOwn
    MapMaps
