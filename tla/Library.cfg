SPECIFICATION LibrarySpec
CONSTANTS
    Parts = {"bst", "list", "fifo", "printk", "strings"}
    Ids = {1, 2, 3, 4}
    Data = {a, b}
    Nothing = Nothing
    MaxNodes = 4
    Addr <- FourAddresses
    Payloads = {k, l}
    NoData = NoData
    Tasks = {t}
    size = 11
    data_size = 3
    Values = {0, 1, 2}
    Zero = 0
    NrDigits = 2
    BufSize = 3
    Formats <- ShortFormats
    Strings <- SomeStrings
    MemSize = 4
    Chars = {0, 1}
    WordBits = 3
CHECK_DEADLOCK FALSE
INVARIANTS
    WellFormed
    SearchIsSound
    ListSound
    ReadsBack
    StaysInside
PROPERTIES
    InsertionKeeps
    ListImplementsRing
    FifoIsQueue
    StringsRight
