SPECIFICATION NativeSpec
CONSTANTS
    Manifests <- MCManifests
    Installed = "a"
    None = None
    Failures = {}
    MaxFaults = 0
    MaxTouches = 1
PROPERTIES
    NothingIsClobbered
