\* A scan-worker and a scan-due that requires complete coverage and retries share
\* a lane that has completed bar 1; a scanner is enabled later and one fault of any
\* kind happens.
SPECIFICATION FairSpec
CONSTANTS
    live = live
    due = due
    N = 2
    Scanners = {1, 2}
    Family <- TwoFamilies
    First = {2}
    Procs = {live, due}
    NoProc = NoProc
    Live = {live}
    Parallel = 1
    Retries = 1
    Complete = TRUE
    Lookback = 3
    Start = 1
    MaxBar = 3
    MaxFaults = 1
INVARIANTS
    TypeOK
    RunsDoNotOverlap
    PassedBarsAccountForAll
    CompletedAreReported
PROPERTIES
    NewestBarIsCovered
