CONSTANTS
    a1 = a1
    a2 = a2
    Attr <- MCAttr
    Period <- RarelyAndOnce
    MaxAge = 1
    Transport = "snmp"
    MaxObjects = 2
    Drift = FALSE
    MaxStamp = 2
    None = None
SPECIFICATION FairSpec
PROPERTIES RecoversWhenReachable AttributesConverge OutageNoticed StopDisables EveryWriteConcludes
