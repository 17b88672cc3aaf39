SPECIFICATION Spec
CONSTANTS
    VGA_COLUMN = 2
    VGA_ROW = 1
    CMD_BUF_SZ = 32
    MaxParam = 2
    Ttys = {1, 2}
    Bytes <- ColourBytes
PROPERTIES
    TerminalsApart
