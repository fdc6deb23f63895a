SPECIFICATION NativeSpec
CONSTANTS
    Manifests <- MCManifests
    Installed = "a"
    None = None
    Failures = {}
    MaxFaults = 3
    MaxTouches = 2
INVARIANTS
    OfferedIsCurrent
    FilesMatchState
PROPERTIES
    SequenceIsMonotone
    ForeignIsPreserved
