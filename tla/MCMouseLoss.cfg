SPECIFICATION MouseSpec
CONSTANTS
    SCREEN_W = 7
    SCREEN_H = 5
    Movements <- Steady
    MaxLost = 1
PROPERTIES
    Resynchronises
