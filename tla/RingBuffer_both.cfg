\* The loudspeaker's ring and the microphone's, in turn.
SPECIFICATION Spec
CONSTANTS
    BufferSize = 5
    Prefill = 2
    WriteSizes = {1, 2, 4}
    ReadSizes = {1, 3}
    MaxSamples = 14
INVARIANTS TypeOK NoOverlap InOrder NoUnderrun
PROPERTIES StartsPrefilled ImplementsFifo
\* A reader that waits for a whole chunk stops when the bound MaxSamples is met.
CHECK_DEADLOCK FALSE
