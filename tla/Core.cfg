SPECIFICATION MCSpec
CONSTANTS
    s1 = s1  s2 = s2  NoSource = none
    Sources = {s1, s2}  Good = {}  MaxHeight = 2  Capacity = 1  Window = 1  Archival = FALSE
    Exchanging = TRUE  Faults = TRUE  MaxStarts = 1
    ChainLength = 6  BlockTimes <- Paces  BlockTime = 2  AvailabilityWindow = 5  MaxDelay = 2  FetchLimit = 2
INVARIANTS AnnouncementsSound RangeSound HeadersSound FetchSound
CHECK_DEADLOCK FALSE
