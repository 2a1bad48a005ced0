\* The family as main.go builds it: one derived handler logs and is closed.
CONSTANTS
    base = base
    child = child
    Handlers = {base, child}
    Base = base
    Loggers = {child}
    Closers = {child}
    Records = {r1, r2, r3}
    BufferSize = 2
    MaxBatchSize = 2
    WriteOutcomes = {"ok", "fail"}
    MaxReceived = 4
SPECIFICATION MainSpec
INVARIANTS NoPanic
PROPERTIES EventuallyWritten CloseStopsWriter
