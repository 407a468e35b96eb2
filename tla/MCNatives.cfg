SPECIFICATION Spec
CONSTANTS
    Bits = 4
    STACK_SIZE = 3
    LOCALS_SIZE = 2
    Coordinates = {1, 6}
    Programs <- MCPrograms
CHECK_DEADLOCK FALSE
INVARIANT CallsNatives
