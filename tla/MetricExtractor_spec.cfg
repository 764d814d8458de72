\* Counter lines printed outside a header ... end==== block, and counter
\* values that do not parse. The code appends the first kind to the last
\* Phase object, which the spec does not. The second kind, and a counter
\* printed before the first header, abort run_join and the sweep instead of
\* being dropped as spec 4.2 and 7 require.
CONSTANTS
    Scripts = {"exp4"}
    Words = {}
    MaxWords = 0
    MaxWordLines = 0
    None = None
    Names <- MCNames
    Metrics <- MCMetrics
    Values <- MCValues
    Malformed = Malformed
    Absent = Absent
    Unbound = Unbound
    NoName = NoName
    Reps = 2
    MaxLines = 4
    ClosedBlocks = TRUE
    CountersInBlocks = FALSE
    ValidValues = FALSE
SPECIFICATION Spec

INVARIANT ResultMatchesSpec
