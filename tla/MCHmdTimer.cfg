SPECIFICATION FairSpec
CONSTANTS
    MICRO_PER_SEC = 3
    ALMOST_NOW = 1
    Delay = {1, 2, 4}
    MaxTime = 7
    MaxId = 3
    MaxJump = 1
INVARIANTS TypeOK QueueInOrder WakeupComes
PROPERTIES KeepsService EveryTimerServed
