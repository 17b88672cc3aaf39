SPECIFICATION InOrderSpec
CONSTANTS
    Ids <- OrderedIds
    Data = {a}
    Nothing = Nothing
    MaxNodes = 24
CHECK_DEADLOCK FALSE
INVARIANT
    Balanced
