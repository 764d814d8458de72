\* The counter scan of helpers/exp4 on well-formed app output (two runs of
\* at most seven lines), the Throughput and Phase scan of helpers/exp1 and
\* exp8 on every marker line of up to three words (two runs of up to two
\* such lines each), and the combined scan of multi-threading-all-data-at-
\* once (one run: a Throughput line and two blocks of one counter fit).
CONSTANTS
    Scripts = {"exp4", "exp1", "exp8", "mtall"}
    Words <- MCWords
    MaxWords = 3
    MaxWordLines = 2
    None = None
    Names <- MCNames
    Metrics <- MCMetrics
    Values <- MCValues
    Malformed = Malformed
    Absent = Absent
    Unbound = Unbound
    NoName = NoName
    Reps = 2
    MaxLines = 7
    ClosedBlocks = TRUE
    CountersInBlocks = TRUE
    ValidValues = TRUE
SPECIFICATION Spec
INVARIANT TypeOK
INVARIANT ResultMatchesSpec
INVARIANT OutcomeMatchesSpec
INVARIANT CombinedOutcomeMatchesSpec
