SPECIFICATION Spec
CONSTANTS
    Chars <- MCChars
    Blank = " "
    NUL = "0"
    MaxLen = 4
    Words <- MCWords
    MaxOwed = 2
CHECK_DEADLOCK FALSE
INVARIANTS
    TerminatorAhead
    NoPhantomCommand
    IInv
PROPERTIES
    WakesForLine
    FollowsDiscipline
