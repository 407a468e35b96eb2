SPECIFICATION Spec
CONSTANTS
    Start = 5
    Size = 15
    HDR = 2
    SLACK = 1
    Requests <- MCRequests
INVARIANTS
    TypeOK
    Tiling
    Coalesced
    IInv
PROPERTIES
    ImplementsAllocator
    CallsReturn
