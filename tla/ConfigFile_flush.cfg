SPECIFICATION Spec
CONSTANTS
    MaxStarts = 3
    SaveServers = 2
    Servers = {"a", "b"}
    Models = {"m"}
    Devices = {"mic", "mic #2"}
    Hashed = {"mic #2"}
    Stem = "mic"
PROPERTY WrittenFirst
\* The run ends at the first violation.
CHECK_DEADLOCK FALSE
