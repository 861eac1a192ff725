SPECIFICATION WireSpec
CONSTANTS
    k1 = k1
    k2 = k2
    Keys = {k1, k2}
    RfqProgram = k1
    DexPrograms = {}
    MaxAccountKeys = 4
    RfqIds = {}
    Radix = 2
    U16Max = 5
    Signatures = {sig}
    Blockhash = hash
    Data = {data}
    Words = {0, 1, 2, 3, 4, 6}
    Indices = {0, 2}
    HeaderBytes = {0, 1, 2}
    Masks = {0, 1, 2, 3, 4, 7, 8, 12, 15, 16, 19, 20, 24, 27, 28, 31, 32, 35}
    MaxVec = 2
    V1MaxSigs = 1
    V1MaxKeys = 1
    V1MaxIxs = 0
    SignatureLen = 2
    V1MaxSize = 16
    MinHeap = 2
    MaxHeap = 4
    HeapUnit = 2
    MaxSize = 18
INVARIANTS
    ReadsWhatWasWritten
    WireInv
CHECK_DEADLOCK FALSE
