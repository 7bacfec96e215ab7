SPECIFICATION Spec
CONSTANTS
    Attempts = 2
    MaxSignals = 2
    CaseSets = {{}}
PROPERTY CancelStops
