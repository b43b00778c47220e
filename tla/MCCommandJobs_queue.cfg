\* A request, a candidate, two rounds, two command workers, every failure.
SPECIFICATION FairSpec
CONSTANTS
    r1 = r1
    c1 = c1
    w1 = w1
    w2 = w2
    p1 = p1
    s1 = s1
    Requests = {r1}
    Candidates = {c1}
    MaxSlot = 2
    Workers = {w1, w2, p1}
    PdfWorkers = {p1}
    Producers = {s1}
    NoJob = NoJob
    Lease = 1
    MaxFaults <- AnyFault
INVARIANTS
    TypeOK
    AnsweredIsSettled
    SettledIsAnswered
    OnlyOverrunsContradict
    PdfAfterSummaries
    WaitingPdfIsNewest
PROPERTIES
    EverythingIsSettled
    NewestRoundIsReported
