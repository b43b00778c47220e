\* The service and the pulse, live or not, share the bot; commands of all kinds;
\* two faults of any kind.
SPECIFICATION FairSpec
CONSTANTS
    service = service
    pulse = pulse
    Consumers = {service, pulse}
    NoConsumer = NoConsumer
    Ghost = Ghost
    Modes = {{service}, {service, pulse}}
    Kinds = {"read", "job", "unknown", "other"}
    Limit = 2
    MaxUpdates = 3
    MaxFaults = 2
INVARIANTS
    TypeOK
    PassedAreAnswered
    ExtraJobsAreExcused
PROPERTIES
    ImplementsFeed
    OnlyUnknownSymbolsStop
