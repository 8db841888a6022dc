CONSTANTS
    a1 = a1
    a2 = a2
    Attr <- MCAttr
    Period <- AlwaysAndOnce
    MaxAge = 1
    Transport = "snmp"
    MaxObjects = 1
    Drift = FALSE
    MaxStamp = 2
    None = None
SPECIFICATION ReadSpec
INVARIANTS TypeOK WriteOrder BatchOrder NoWriteVanishes InvalidOnlyIfOmitted StateAgreesWithComm CacheCoherent
PROPERTIES ImplementsMailbox
