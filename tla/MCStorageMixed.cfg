SPECIFICATION Spec
CONSTANTS
    Blocks = {b1, b2}
    Values = {zero, v1}
    Zero = zero
    Torn = torn
    FailureModes = {{"kill", "power"}, {"power", "log_io"}}
    CheckpointRecords = 3
    MaxLsn = 4
    MaxCrashes = 2
    MaxRunning = 1
SYMMETRY Symmetry
INVARIANT
    RecoveryAtomic
