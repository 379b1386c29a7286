SPECIFICATION Spec
CONSTANTS
    Blocks = {b1, b2}
    Values = {zero, v1}
    Zero = zero
    Torn = torn
    FailureModes = {{"power", "disk_io"}, {"kill", "disk_io", "log_io"}}
    CheckpointRecords = 3
    MaxLsn = 7
    MaxCrashes = 2
    MaxRunning = 1
SYMMETRY Symmetry
INVARIANTS
    Inv
    RecoveryAtomic
    CleanOwesNothing
PROPERTY
    ImplementsAtomicStore
