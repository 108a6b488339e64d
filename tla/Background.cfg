SPECIFICATION MCSpec
CONSTANTS
    j1 = j1 j2 = j2 j3 = j3 w1 = w1 w2 = w2 NoCheckpoint = NoCheckpoint
    Waiters = {w1, w2}  MaxChans = 3
INVARIANT CatchUpSignalSound
PROPERTIES SamplingProgress StopReturns OldBlocksGetPruned
CHECK_DEADLOCK FALSE
