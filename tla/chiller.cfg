CONSTANTS
    MaxStarts = 2
    ConstructorFirst = FALSE
SPECIFICATION FairSpec
INVARIANTS TypeOK ReceiveNeedsSocket NoCloseUnderReceive OneManagerAtATime StoppedStaysDisabled
PROPERTIES StopCompletes ConnectionSettles OutageDetected
