\* A vector of four cells, two of them reserved.
CONSTANTS
    Byte <- MCByte
    Zero = 0
    Chunks <- MCChunks
    Prepend = 2
    InitSize = 4
    ExtraBuf = 2
    MaxReadable = 5
SPECIFICATION Spec
INVARIANTS
    TypeOK
    NoFault
    SizeBound
PROPERTY StreamSpec
