SPECIFICATION AutoSpec
CONSTANTS
    a = a
    b = b
    c = c
    operator = operator
    Scheduler = auto
    SHA = {a, b, c}
    Descends <- Ancestry
    Requests = {auto, operator}
    Recovery = recovery
    NoSHA = none
    Unknown = unknown
    Malformed = malformed
    MaxFaults = 1
    MaxPublish = 2
    MaxAsked = 1
CONSTRAINT NotAdopted
INVARIANTS
    AutoTypeOK
PROPERTIES
    FailedTargetNotRetried
    ImplementsAtomicDeployment
