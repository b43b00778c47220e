\* Two publishers, one slow batch, nothing fails.
SPECIFICATION Spec
CONSTANTS
    m1 = m1
    m2 = m2
    central = central
    targeted = targeted
    Messages <- TwoMessages
    Publishers <- BothPublishers
    Scope <- Scopes
    Limit = 2
    Lease = 2
    DelayCap = 2
    MaxAge = 1
    MaxFaults <- OnlyOverruns
INVARIANTS
    NoResend
