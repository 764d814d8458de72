\* The reductions that keep an empty group out of the file: statistics.mean
\* (helpers/exp1 and most throughput scripts), trimming one max and one min
\* when reps > 3 (helpers/scale-s-native-experiment.py) and the [-1]
\* sentinel (helpers/exp6-scale-r-experiment.py); 4 runs of up to one
\* Throughput line each.
SPECIFICATION Spec
CONSTANTS
    Policies = {"mean", "trim", "sentinel"}
    Threshold = 3
    Reps = 4
    LinesPerRun = 1
    Values <- MCValues
    Sentinel <- MCSentinel
    NoNumber = NoNumber
    None = None
    ParseError = "IndexError"
INVARIANT TypeOK
INVARIANT RowIsSpecAggregate
