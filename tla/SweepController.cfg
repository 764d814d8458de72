\* Every script whose build and run directories agree, run from each
\* directory it may be run from, with config['experiment'] on and off, and
\* the app allowed to fail at any point.
SPECIFICATION Spec
CONSTANTS
    LoopWidth = 2
    ConfigModes <- MCConfigModes
    Threads = 3
    Phases <- MCPhases
    Sessions <- MCSessions
    Absent = Absent
    NoBinary = NoBinary
    FheProgram = FheProgram
    AppMayFail = TRUE
INVARIANT TypeOK
INVARIANT RowsMatchHeader
INVARIANT AppFoundWhereBuilt
INVARIANT RowMeasuredByItsBuild
INVARIANT OneRowPerKey
INVARIANT PlotReadsWrittenColumns
PROPERTY RefinesResultStore
