SPECIFICATION Spec
CONSTANTS
    Specs <- ScriptSpecs
    BodySizes = {1, 2}
    MaxTxn = 2
    MaxEpoch = 2
    MaxAge = 2
INVARIANT RefusedNotStored
CHECK_DEADLOCK FALSE
