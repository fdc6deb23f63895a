SPECIFICATION NativeSpec
CONSTANTS
    Manifests <- MCManifests
    Installed = "a"
    None = None
    Failures = {"read"}
    MaxFaults = 2
    MaxTouches = 0
PROPERTIES
    SequenceIsMonotone
