\* multi-threading-all-data-at-once.py and exp4-performance-counters-experiment-SUDO.py
\* of scripts/: their rows against the header of the file they append to.
SPECIFICATION Spec
CONSTANTS
    LoopWidth = 2
    ConfigModes <- MCConfigModes
    Threads = 3
    Phases <- MCPhases
    Sessions <- MCSchemaSessions
    Absent = Absent
    NoBinary = NoBinary
    FheProgram = FheProgram
    AppMayFail = FALSE
INVARIANT RowsMatchHeader
