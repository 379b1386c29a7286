SPECIFICATION Spec
CONSTANTS
    Blocks = {1, 2}
    PayCells = 2
    BatchCells = 5
    Length = 4
    MaxOp = 2
    MaxTxn = 3
    CheckpointCells = 9
INVARIANTS
    TypeOK
    Verified
    EverythingReadable
