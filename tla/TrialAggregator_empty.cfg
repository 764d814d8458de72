\* res += float(t) per line, res /= reps (exp10, exp12, exp13,
\* perf-degradation-wrt-native) and mean-or-0 (helpers/exp0): a run that
\* printed no Throughput line.
SPECIFICATION Spec
CONSTANTS
    Policies = {"sum_over_reps", "zero_default"}
    Threshold = 3
    Reps = 2
    LinesPerRun = 1
    Values <- MCValues
    Sentinel <- MCSentinel
    NoNumber = NoNumber
    None = None
    ParseError = "IndexError"
INVARIANT RowIsSpecAggregate
