SPECIFICATION SetupSpec
CONSTANTS
    SCREEN_W = 1
    SCREEN_H = 1
    Movements <- MCMovements
    MaxLost = 0
    CommandBytes = {97, 71}
    Scancodes = {28, 156}
    MaxKeys = 2
CHECK_DEADLOCK FALSE
INVARIANTS
    SetupTypeOK
    MouseOn
PROPERTIES
    InitReturns
