\* The pre-fill flag and the last block racing the first new one.
SPECIFICATION Spec
CONSTANTS
    BufferSize = 5
    Prefill = 2
    WriteSizes = {1, 2, 4}
    ReadSizes = {1, 3}
    MaxSamples = 14
PROPERTY ClearedWhenExhausted
