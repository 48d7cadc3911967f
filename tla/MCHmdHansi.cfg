\* The whole life of a hansi, twice over.
SPECIFICATION FairSpec
CONSTANTS
    EAG_FAILS = 2
    EAG_TIMEOUTS = 3
    MaxGen = 3
    MaxRepeat = 1
    MaxLoss = 1
    MaxToggle = 2
    MaxCrash = 1
    ThreadFails = TRUE
INVARIANTS TypeOK ChainAlive NoOrphan NoUseAfterFree
PROPERTIES DeletesWhatWasAsked DeleteCompletes EagHealed
CHECK_DEADLOCK FALSE
