\* The scheduled feed: one worker, bars in order and once.
SPECIFICATION Spec
CONSTANTS
    Threshold = 3
    Keys = {k1, k2}
    Versions = {v1, v2}
    NoVersion = NoVersion
    Workers = {w1}
    Notifying <- Always
    Halting <- Silent
    MaxBar = 5
    Replays = 0
SYMMETRY Symmetry
INVARIANTS
    TypeOK
    DoubtCountsBars
    ActiveIsTold
    EndsAreOfAnnouncedStates
    OneEntryPerEpisode
    LogRebuildsRows
PROPERTIES
    UpgradeIsSilent
    ImplementsLifecycle
