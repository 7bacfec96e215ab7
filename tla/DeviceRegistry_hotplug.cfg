SPECIFICATION Spec
CONSTANTS
    Devices = {d1, d2, d3}
    MaxSignals = 3
    CaseSets = {{}, {"grow"}, {"remove", "grow", "single"}, {"early"}}
INVARIANTS Mirror SelectedStarts
