SPECIFICATION GateSpec
CONSTANTS
    Most = 2
    Sizes = {2}
    Longest = 4
    Tails = {4}
PROPERTY TailIsKept
