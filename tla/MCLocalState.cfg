\* Two requests recording at once, each of two paths, two starts of the process.
SPECIFICATION FairSpec
CONSTANTS
    Recorders = {r1, r2}
    Uses <- MCUses
    MaxRecords = 2
    MaxBoots = 2
INVARIANTS PartsCovered CountedOnce
PROPERTIES PersistedOnlyGrows FileCatchesUp
CHECK_DEADLOCK FALSE
