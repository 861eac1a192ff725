SPECIFICATION WireSpec
CONSTANTS
    k1 = k1
    k2 = k2
    Keys = {k1, k2}
    RfqProgram = k1
    DexPrograms = {}
    MaxAccountKeys = 4
    RfqIds = {}
    Radix = 4
    U16Max = 20
    Signatures = {sig}
    Blockhash = hash
    Data = {data}
    Words = {0}
    Indices = {0, 1, 2}
    HeaderBytes = {0, 1, 2, 3}
    Masks = {0}
    MaxVec = 1
    V1MaxSigs = 2
    V1MaxKeys = 2
    V1MaxIxs = 2
    SignatureLen = 2
    V1MaxSize = 21
    MinHeap = 0
    MaxHeap = 0
    HeapUnit = 1
    MaxSize = 22
INVARIANTS
    WireInv
    ReadsWhatWasWritten
    V1WholeAndFits
    V1AlwaysDecodes
CHECK_DEADLOCK FALSE
