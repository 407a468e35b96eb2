SPECIFICATION Spec
CONSTANTS
    SCREEN_W = 4
    SCREEN_H = 3
    Movements <- MCMovements
    MaxLost = 1
    Width = 4
    Height = 3
    CURSOR = 2
    DefaultCursor <- MCDefault
    None = None
    Ramdisks <- MCRamdisks
    REGION = 2
    EarlyMotion = FALSE
INVARIANTS
    TypeOK
    NoTrace
PROPERTIES
    PointerFollows
    MovesAsReported
