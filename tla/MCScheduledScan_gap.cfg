\* scan-due catches up while a scanner is enabled; nothing fails.
SPECIFICATION Spec
CONSTANTS
    due = due
    N = 1
    Scanners = {1, 2}
    Family <- TwoFamilies
    First = {1}
    Procs = {due}
    NoProc = NoProc
    Live = {}
    Parallel = 1
    Retries = 0
    Complete = FALSE
    Lookback = 3
    Start = 0
    MaxBar = 3
    MaxFaults = 0
INVARIANTS
    MissedBarsAreCompleted
