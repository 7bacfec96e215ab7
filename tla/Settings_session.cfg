SPECIFICATION FairSpec
CONSTANTS
    Top = 2
    Step = 2
    Short = {1}
    MaxLinks = 2
    MaxMoves = 3
    MaxUp = 4
    Sessions = {{"pitch"}, {"chunk"}, {"gate"}, {"match"}, {"model", "check"}, {"compute"}, {"pitch", "keys"}, {"gate", "hasty"}, {"model", "check", "hasty"}, {"chunk", "resize"}, {"gate", "late"}, {"model", "lists"}, {"model", "lists", "hasty"}}
INVARIANTS WindowShowsStored LengthsAgree GateIsShown
PROPERTY ShownAtLast
\* The bounds on links and on what the user does end every behaviour.
CHECK_DEADLOCK FALSE
