CONSTANTS
    a1 = a1
    a2 = a2
    Attr <- MCAttr
    Period <- EveryPeriod
    MaxAge = 1
    Transport = "proxr"
    MaxObjects = 1
    Drift = FALSE
    MaxStamp = 0
    None = None
SPECIFICATION FairSpec
PROPERTIES StopDisables
