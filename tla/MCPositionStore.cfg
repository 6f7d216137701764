CONSTANTS
  S1 = S1
  S2 = S2
  Here = Here
  Station = {S1, S2}
  Place = {Here}
  MaxTime = 2
  MaxMishaps = 2

SPECIFICATION FairSpec

INVARIANTS
  CheckpointHolds
  CacheLeadsTable
  QuietShutdownSaves

PROPERTY HeardIsSaved
