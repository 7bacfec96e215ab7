SPECIFICATION Spec
CONSTANTS
    MaxLinks = 2
    MaxEmits = 3
    MaxLoop = 3
    Greetings = 2
    CaseSets = {{}}
INVARIANT ParamsFirst
CHECK_DEADLOCK FALSE
