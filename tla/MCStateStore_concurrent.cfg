\* Two workers on the same slice, one bar evaluated again, halts.
SPECIFICATION Spec
CONSTANTS
    Threshold = 2
    Keys = {k1, k2}
    Versions = {v1}
    NoVersion = NoVersion
    Workers = {w1, w2}
    Notifying <- Always
    Halting <- Either
    MaxBar = 2
    Replays = 1
SYMMETRY WorkerSymmetry
INVARIANTS
    LockedRowsAreCurrent
    MessagesAreLogged
    DoubtIsBounded
PROPERTIES
    EndsOnlyOnEvidence
    AbandonedIsTerminal
