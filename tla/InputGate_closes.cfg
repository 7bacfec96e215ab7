SPECIFICATION GateSpec
CONSTANTS
    Most = 3
    Sizes = {2, 3}
    Longest = 7
    Tails = {4, 7}
INVARIANT GateCloses
