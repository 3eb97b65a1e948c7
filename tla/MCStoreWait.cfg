\* Two long polls, mail of two kinds, deletes, wipes and timeouts.
CONSTANTS
    w1 = w1
    w2 = w2
    code = code
    bulk = bulk
    Waiters = {w1, w2}
    Ids = {1, 2, 3}
    Kinds = {code, bulk}
    KindOf <- TwoAndOne
    Filter <- OneAndAny
    IOFaults = TRUE
SPECIFICATION FairSpec
INVARIANTS SleepersMissNothing
PROPERTIES WaitReturns
