SPECIFICATION FairSpec
CONSTANTS
    Capacity = 7
    Quantum = 3
    Chunk = 4
    MaxSignals = 3
    CaseSets = {{"error", "fail", "unplug", "stop twice"}, {"overtake", "stop twice", "fail"}, {"drop", "exit", "error", "stop twice"}, {"input first", "swap", "error"}, {"input first", "error"}, {"refused", "no stream", "error"}}
INVARIANTS BufferExists OneButton Agreement StopStops ConversionHasStreams
PROPERTIES EmitEnds DiscardEndsInOrder ChunksFlow
