\* The helpers scripts whose check_output runs in ../
SPECIFICATION Spec
CONSTANTS
    LoopWidth = 2
    ConfigModes <- MCConfigModes
    Threads = 3
    Phases <- MCPhases
    Sessions <- MCCwdSessions
    Absent = Absent
    NoBinary = NoBinary
    FheProgram = FheProgram
    AppMayFail = FALSE
INVARIANT AppFoundWhereBuilt
