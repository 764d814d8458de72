\* Re-running a completed or interrupted sweep: expected violation of resumability.
SPECIFICATION FairSpec
CONSTANTS
    Modes <- MCModes
    Points <- MCPoints
    Header = Header
    Absent = Absent
    NoBinary = NoBinary
    MaxRuns = 2
    MaxFaults = 1
INVARIANT NoReexecution
