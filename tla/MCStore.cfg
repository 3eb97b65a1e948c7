CONSTANTS
    Inserters = {s1, s2}
    Readers = {r1}
    d1 = d1
    d2 = d2
    NoDir = NoDir
    Dirs = {d1, d2}
    OptionSet <- StoreOptions
    Sizes = {1, 3}
    Times = {1, 2}
    Parts = {0, 1}
    FaultyParts = {1}
    ConfigureMoves = FALSE
    MaxId = 3
    MaxEpoch = 2
SYMMETRY SessionSymmetry
SPECIFICATION Spec
CONSTRAINT Sides
INVARIANTS CapsHeld IndexExact MembersReadable OwnedFiles MissingMeansGone
PROPERTIES EvictsOldestAndFew ImplementsInbox
