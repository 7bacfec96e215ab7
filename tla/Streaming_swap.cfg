SPECIFICATION Spec
CONSTANTS
    Capacity = 4
    Quantum = 2
    Chunk = 2
    MaxSignals = 3
    CaseSets = {{"swap"}}
PROPERTY SwapKeepsConverting
