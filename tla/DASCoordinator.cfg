CONSTANTS
    MaxHeight = 3
    SamplingRange = 2
    ConcurrencyLimit = 2
    JobIds = {j1, j2, j3, j4, j5}
SYMMETRY JobSymmetry
SPECIFICATION Spec
INVARIANTS NoHeightLost CatchUpDoneSound SampledChainHeadSound CheckpointSound
