CONSTANTS
    a1 = a1
    a2 = a2
    Attr <- MCAttr
    Period <- EveryPeriod
    MaxAge = 1
    Transport = "proxr"
    MaxObjects = 1
    Drift = TRUE
    MaxStamp = 3
    None = None
SPECIFICATION Spec
PROPERTIES ImplementsMailbox
