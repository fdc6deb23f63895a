SPECIFICATION Spec
CONSTANTS
    Peers = {}
    Ids = {r1}
    Ports = {w1, w2}
    Reserved = {}
    MaxFaults = 2
    MaxRestarts = 1
INVARIANTS
    TypeOK
    ForwardsAreEnforced
    ExplicitWins
    DmzOffMeansOff
    ExtIsDurable
CONSTRAINT ChainOnly
