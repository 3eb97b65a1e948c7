SPECIFICATION FairSpec
CONSTANTS
    Specs <- SessionSpecs
    BodySizes = {1, 2}
    MaxTxn = 2
    MaxEpoch = 2
    MaxAge = 2
INVARIANTS OneTransaction OKMeansStored AuthOnThisChannel BodyOfThisEpoch
PROPERTIES SessionEnds
CHECK_DEADLOCK FALSE
