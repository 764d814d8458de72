\* exp1's sweep with one fault (failure or kill) and a re-run after it.
SPECIFICATION FairSpec
CONSTANTS
    Modes <- MCModes
    Points <- MCPoints
    Header = Header
    Absent = Absent
    NoBinary = NoBinary
    MaxRuns = 2
    MaxFaults = 1
INVARIANT TypeOK
INVARIANT CompletedPointsDurable
PROPERTY RefinesResultStore
PROPERTY AllPointsEventuallyWritten
