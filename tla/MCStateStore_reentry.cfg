\* An entry after an exit keeps the valid_from of the inactive row.
SPECIFICATION Spec
CONSTANTS
    Threshold = 3
    Keys = {k1}
    Versions = {v1}
    NoVersion = NoVersion
    Workers = {w1}
    Notifying <- Either
    Halting <- Silent
    MaxBar = 3
    Replays = 0
INVARIANT
    ActiveSinceMatch
