SPECIFICATION NativeSpec
CONSTANTS
    Manifests <- Repackaged
    Installed = "a"
    None = None
    Failures = {}
    MaxFaults = 0
    MaxTouches = 0
INVARIANTS
    NothingLeftBehind
