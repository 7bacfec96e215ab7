SPECIFICATION FairSpec
CONSTANTS
    Attempts = 2
    MaxSignals = 2
    CaseSets = {{}, {"rejected"}, {"rejected", "races"}}
INVARIANTS OpenedIsUp OneAttempt
PROPERTIES ImplementsLink LossIsShown ButtonReturns MainReturns
\* The main thread may wait for ever in connect (see MainReturns).
CHECK_DEADLOCK FALSE
