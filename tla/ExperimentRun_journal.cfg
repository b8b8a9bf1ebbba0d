CONSTANTS
    None = None
    MaxExperiments = 2
    MaxFaults = 1
    StopAllowed = TRUE
SPECIFICATION FairSpec
INVARIANTS JournalReadable WriteAhead LineageAgrees ReleaseCharged
PROPERTIES OneUse KeepsPromise Settles
