SPECIFICATION PicSpec
CONSTANTS
    Lines <- MCLines
INVARIANTS
    StrayAcknowledged
