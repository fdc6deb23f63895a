SPECIFICATION FairSpec
CONSTANTS
    Peers = {}
    Ids = {r1}
    Ports = {w1}
    Reserved = {}
    MaxFaults = 1
    MaxRestarts = 1
INVARIANTS
    ExplicitWins
    DmzOffMeansOff
PROPERTIES
    DmzYields
    DmzComesBack
CONSTRAINT Focus
