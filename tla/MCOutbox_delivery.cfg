\* Every kind of failure, two publishers, batches of two.
SPECIFICATION FairSpec
CONSTANTS
    m1 = m1
    m2 = m2
    central = central
    targeted = targeted
    Messages <- TwoMessages
    Publishers <- BothPublishers
    Scope <- Scopes
    Limit = 2
    Lease = 2
    DelayCap = 2
    MaxAge = 1
    MaxFaults <- AnyFault
INVARIANTS
    TypeOK
    DuplicatesAreExcused
    HoldersAreExcused
PROPERTIES
    ImplementsAtLeastOnce
    EverythingIsServed
