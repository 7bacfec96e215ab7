SPECIFICATION Spec
CONSTANTS
    Devices = {d1, d2, d3}
    MaxSignals = 3
    CaseSets = {{"remove"}}
INVARIANT ValidatedIsShown
