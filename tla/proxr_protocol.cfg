CONSTANTS
    NumberOfRelays = 8
    Fragmented = FALSE
    None = None
SPECIFICATION Spec
INVARIANTS AnsweredWriteTookEffect HeardIsTrue
PROPERTIES OnlyItsRelaySwitches ImplementsExchange
