SPECIFICATION FairSpec
CONSTANTS
    WgPeers = {w1}
    AwgPeers = {a1}
    MaxFaults = 4
INVARIANTS
    EmergencyIsProved
    ReportedIsEnforced
PROPERTIES
    BlockLiftedOnlyByResume StaleEmergencyEnds
