\* main.go: SIGTERM cancels the context of Start before Close runs.
CONSTANTS
    base = base
    child = child
    Handlers = {base, child}
    Base = base
    Loggers = {child}
    Closers = {child}
    Records = {r1, r2}
    BufferSize = 2
    MaxBatchSize = 2
    WriteOutcomes = {"ok", "lost", "fail", "failSeen"}
    MaxReceived = 4
SPECIFICATION MainSpec
INVARIANTS ShutdownFlushes
