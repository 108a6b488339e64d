SPECIFICATION MCSpec
CONSTANTS
    p1 = p1  p2 = p2  g1 = g1  r1 = r1  None = None  NoCheckpoint = NoCheckpoint
    Putters = {p1, p2}  Pruners = {g1}  CachedReaders = {r1}  archival = FALSE  Crashes = TRUE
    MaxHeight = 4  MaxTime = 2  Window = 1  BlockTime = 1  MaxHeadersPerLoop = 2  MaxStarts = 3
    Modes = {TRUE, FALSE}
INVARIANTS StoredIsComplete 
PROPERTY PruningStepsSound
CHECK_DEADLOCK FALSE
