SPECIFICATION Spec
CONSTANTS
    VGA_COLUMN = 3
    VGA_ROW = 1
    CMD_BUF_SZ = 32
    MaxParam = 1
    Ttys = {1}
    Bytes <- TextBytes
INVARIANTS
    ScreenSound
PROPERTIES
    TextBeforeCursorStays
    CursorFollowsText
