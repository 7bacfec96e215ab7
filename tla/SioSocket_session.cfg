SPECIFICATION FairSpec
CONSTANTS
    MaxLinks = 2
    MaxEmits = 4
    MaxLoop = 3
    Greetings = 2
    CaseSets = {{}, {"slow"}, {"leave"}, {"races"}}
INVARIANTS OnceEach InOrder JoinedFirst Heard
PROPERTIES ImplementsChannel Flushed Rejoins
\* The bounds on links and messages end every behaviour.
CHECK_DEADLOCK FALSE
