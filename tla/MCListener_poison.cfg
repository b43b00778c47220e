\* One live service; nothing fails.
SPECIFICATION FairSpec
CONSTANTS
    service = service
    Consumers = {service}
    NoConsumer = NoConsumer
    Ghost = Ghost
    Modes = {{service}}
    Kinds = {"read", "job", "unknown", "other"}
    Limit = 2
    MaxUpdates = 2
    MaxFaults = 0
PROPERTIES
    EveryUpdateIsConsumed
