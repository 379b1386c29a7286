SPECIFICATION FairSpec
CONSTANTS
    Clients = {c1, c2}
    Flusher = flusher
    NoThread = NoThread
    MaxOp = 1
    MaxTxn = 1
    MaxCalls = 2
    IoErrors = TRUE
INVARIANTS
    Inv
    NoHalfOperation
    OneCommitter
    CommitDurable
    CheckpointDurable
    OvershootBounded
PROPERTY
    CallsReturn
