SPECIFICATION CliSpec
CONSTANTS
    Keys = {"PAY", "FA", "MB", "MQ", "RFQ", "DEX", "DEX2", "X", "Y"}
    RfqProgram = "RFQ"
    DexPrograms = {"DEX", "DEX2"}
    MaxAccountKeys = 8
    RfqIds = {1, 2}
    LegWidth = 5
    LegProgramId = 0
    LegFillAuthority = 2
    LegMakerBase = 3
    LegMakerQuote = 4
    Presented <- MCMessages
    Makers <- MCMakers
INVARIANTS
    CliInv
    ZeroIsSafeToSign
    ZeroIsOneFill
    ExitAgreesWithReport
\* The process exits.
CHECK_DEADLOCK FALSE
