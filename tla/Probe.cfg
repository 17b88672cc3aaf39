SPECIFICATION ProbeSpec
CONSTANTS
    NrSlots = 3
    Classes = {IDE, Other}
    Absent = Absent
    IDE = IDE
    BufSizes = {0, 1, 2}
    NrDrives = 2
    Addr = {1, 2, 3}
    Payloads <- ThreeSlots
    NoData = NoData
    Tasks = {kmain}
    NrParagraphs = 2
    Addresses <- SomeAddresses
    Rsdts <- SomeRsdts
    Entries <- SomeMadts
    Starts = {0, 1, 3, 4, 7, 20}
INVARIANTS
    SearchesFind
    DrivesIdentified
    IoapicIsFirst
PROPERTIES
    ProbingEnds
