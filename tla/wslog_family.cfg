\* Any handler may log and any may be closed, as the package's README allows.
CONSTANTS
    base = base
    child = child
    Handlers = {base, child}
    Base = base
    Loggers = {base, child}
    Closers = {base, child}
    Records = {r1, r2, r3}
    BufferSize = 2
    MaxBatchSize = 2
    WriteOutcomes = {"ok", "lost", "fail", "failSeen"}
    MaxReceived = 4
SPECIFICATION Spec
SYMMETRY RecordSymmetry
INVARIANTS Conserved FullBatchWasTried ExitIsComplete
PROPERTIES RelayImplemented
