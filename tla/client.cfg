CONSTANTS
    chiller1 = chiller1
    chiller2 = chiller2
    state = state
    hidden = hidden
    ChillerState = ChillerState
    None = None
    Key <- MCKey
    DeviceName <- MCDeviceName
    AttributeName <- MCAttributeName
    ChillerName = chiller1
    Detail <- MCDetail
    Controlled <- MCControlled
    MaxChanges = 1
    MaxCommands = 1
SPECIFICATION FairSpec
INVARIANTS OwnValuesOnly NotOlderThanConnection CommandOutcome
PROPERTIES ClientRecovers
