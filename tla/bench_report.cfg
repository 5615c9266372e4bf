SPECIFICATION Spec
CONSTANTS
    Workers = {w1, w2}
    Connections = 5
INVARIANT ReportIsComplete
PROPERTY BenchEnds
