SPECIFICATION Spec
CONSTANTS
    NumTx = 2
    NumRx = 2
    Buffers = {b1, b2, b3, b4}
    NoBuf = NoBuf
    ErrDepth = 2
    MaxFrames = 3
    MaxErrors = 1
    TxErrors = {"tx_run", "tx_coll"}
INVARIANTS
    TypeOK
    BufferInOnePlace
    TxAccounting
    DmaOwnsItsBuffer
PROPERTIES
    FramesInOrderOnce
SYMMETRY BufferSymmetry
CONSTRAINT Explored
