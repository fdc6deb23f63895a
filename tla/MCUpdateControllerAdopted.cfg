SPECIFICATION Spec
CONSTANTS
    a = a
    b = b
    c = c
    r1 = r1
    r2 = r2
    SHA = {a, b, c}
    Descends <- Ancestry
    Requests = {r1, r2}
    Recovery = recovery
    NoSHA = none
    Unknown = unknown
    Malformed = malformed
    MaxFaults = 0
INVARIANTS
    TerminalStateTruthful
