SPECIFICATION Spec
CONSTANTS
    MaxStarts = 3
    SaveServers = 2
    Servers = {"a", "b"}
    Models = {"m"}
    Devices = {"mic", "mic #2"}
    Hashed = {"mic #2"}
    Stem = "mic"
INVARIANTS IdSurvives IdOnDisk
PROPERTIES Restored
\* After the last start the program may stop for good.
CHECK_DEADLOCK FALSE
