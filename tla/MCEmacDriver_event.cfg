SPECIFICATION FairSpec
CONSTANTS
    NumTx = 2
    NumRx = 1
    Buffers = {b1, b2}
    NoBuf = NoBuf
    ErrDepth = 2
    MaxFrames = 1
    MaxErrors = 0
    TxErrors = {}
PROPERTIES
    FramesServed
