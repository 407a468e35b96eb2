SPECIFICATION Spec
CONSTANTS
    W = 5
    H = 3
    VideoWords = 35
    Blank = " "
    NewLine = "nl"
    BackSpace = "bs"
    Keys <- AllKeys
    Low = 4
INVARIANTS
    TypeOK
    RestInBounds
    StoresInWindow
