SPECIFICATION Spec
CONSTANTS
    Top = 2
    Step = 2
    Short = {1}
    MaxLinks = 2
    MaxMoves = 3
    MaxUp = 4
    Sessions = {{"gate"}}
INVARIANT AllShown
CHECK_DEADLOCK FALSE
