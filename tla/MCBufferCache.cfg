SPECIFICATION Spec
CONSTANTS
    Blocks = {b1, b2}
    FrameIds = {f1, f2, f3}
    Share = 1
    Clients = {c1, c2}
    NoThread = NoThread
    NoBlock = NoBlock
    NoFrame = NoFrame
    IoErrors = TRUE
    MaxChanges = 3
SYMMETRY Symmetry
INVARIANTS
    Inv
    NothingUncommittedOnDisk
    NothingLost
    CleanMeansWritten
