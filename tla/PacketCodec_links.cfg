SPECIFICATION Spec
CONSTANTS
    Shapes <- MCShapes
    MaxLinks = 2
    MaxEmits = 2
    MaxSays = 2
    CaseSets = {{}, {"acks"}}
INVARIANTS TypeOK AttachmentsMeet DecodesAsSaid
\* The bounds on links and messages end every behaviour.
CHECK_DEADLOCK FALSE
