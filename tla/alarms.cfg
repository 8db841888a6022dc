CONSTANTS
    NoLink = NoLink
    Pump = Pump
    Foreign = Foreign
    chiller1 = chiller1
    None = None
    Known <- MCKnown
    Unknown <- MCUnknown
    Self = chiller2
    Others <- MCOthers
    MaxRaises = 2
SPECIFICATION FairSpec
INVARIANTS TypeOK OnlyOwnAlarms ConfirmedAlarmStays
PROPERTIES CacheConverges
