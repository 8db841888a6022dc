CONSTANTS
    Types <- MCTypes
    Values <- MCValues
    SignedMax = 15
    UnsignedMax = 31
    None = None
SPECIFICATION Spec
INVARIANTS ReadsBack OnlyLegalIsWritten LegalIsWritable
