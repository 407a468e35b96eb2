SPECIFICATION TerminalSpec
CONSTANTS
    W = 5
    H = 4
    VideoWords = 35
    Blank = " "
    NewLine = "nl"
    BackSpace = "bs"
    Chars = {a, b}
    Gt = ">"
    MaxPrinted = 10
SYMMETRY Alike
INVARIANTS
    TerminalTypeOK
    
    CursorBehindText
