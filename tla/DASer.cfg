CONSTANTS
    MaxHeight = 2
    SamplingRange = 2
    ConcurrencyLimit = 1
    JobIds = {j1, j2, j3}
    MaxStarts = 2
    NoCheckpoint = NoCheckpoint
SYMMETRY JobSymmetry
CONSTRAINT LastStart
SPECIFICATION DSpec
CHECK_DEADLOCK FALSE
INVARIANT StoredCheckpointCovers
