SPECIFICATION PicSpec
CONSTANTS
    Lines <- MCLines
INVARIANTS
    PicTypeOK
    WorkingLinesFree
PROPERTIES
    OwnHandler
    Delivered
