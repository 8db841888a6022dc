CONSTANTS
    d1 = d1
    d2 = d2
    eth0 = eth0
    one = one
    Device <- MCDevice
    NoFile = NoFile
    Broken = Broken
    NoScale = NoScale
    NoNumber = NoNumber
    Library <- MCLibrary
    Home <- MCHome
    Mib <- MCMib
    Syntax <- MCSyntax
    Authorities <- MCAuthorities
    MaxObjects = 2
    MaxInits = 2
SYMMETRY Symmetry
SPECIFICATION Spec
INVARIANTS LoadsItsDefinition OnlyOwnMistakesFail ReadsOwnObject
CHECK_DEADLOCK FALSE
