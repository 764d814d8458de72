\* helpers/top-graph.py writes data/throughput-top-graph.csv; top-graph.py of
\* scripts/ plots that file and groups its rows by a ds column.
SPECIFICATION Spec
CONSTANTS
    LoopWidth = 2
    ConfigModes <- MCConfigModes
    Threads = 3
    Phases <- MCPhases
    Sessions <- MCPlotSessions
    Absent = Absent
    NoBinary = NoBinary
    FheProgram = FheProgram
    AppMayFail = FALSE
INVARIANT PlotReadsWrittenColumns
