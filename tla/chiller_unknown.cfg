CONSTANTS
    MaxStarts = 1
    ConstructorFirst = TRUE
SPECIFICATION Spec
INVARIANTS EstablishedIsOn
