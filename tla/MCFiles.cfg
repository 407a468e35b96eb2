SPECIFICATION Spec
CONSTANTS
    NUL = 0
    NL = 1
    CR = 2
    TAB = 3
    SPACE = 4
    EQ = 5
    DOT = 6
    SLASH = 7
    SEMI = 8
    Letters <- MCLetters
    KeyTheme <- MCTheme
    KeyCore <- MCCore
    KeyAutostart <- MCAutostart
    Manifest <- MCManifest
    KeyMain <- MCKeyMain
    DotJar <- MCDotJar
    DotClass <- MCDotClass
    NameMain <- MCNameMain
    NameCode <- MCNameCode
    InitYc <- MCInitYc
    SectorWords = 4
    PacketWords = 2
    PvdLba = 1
    Junk <- MCJunk
    BlockUnits = 4
    SizeDigits = 3
    Word = 256
    LineMax = 4
    ManifestMax = 8
    ClassMax = 6
    LocalSig = 901
    CentralSig = 902
    ClassMagic = 900
    MaxPool = 8
    HeapSize = 8
    HeapHdr = 1
    Worlds <- MCWorlds
INVARIANTS
    TypeOK
    WholeSector
    MountFinds
    Balanced
    ReadsSettings
    ListsAll
    CatShowsFile
    JavaRuns
PROPERTIES
    CommandsReturn
