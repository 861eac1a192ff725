SPECIFICATION SignedSpec
CONSTANTS
    Keys = {"T", "M", "TB", "TQ", "TX", "MB", "MQ", "MX", "RFQ", "DEX", "DEX2", "P"}
    RfqProgram = "RFQ"
    DexPrograms = {"DEX", "DEX2"}
    MaxAccountKeys = 16
    RfqIds = {1, 2, 3}
    LegWidth = 7
    LegProgramId = 0
    LegTaker = 1
    LegSource = 2
    LegDestination = 3
    LegFillAuthority = 4
    LegMakerBase = 5
    LegMakerQuote = 6
    Presented <- MCMessages
    Makers <- MCMakers
    QuoteOf <- MCQuoteOf
    Offered = {1, 2}
    U64Max = 9
    Amounts = {1, 2}
    MinOuts = {0}
    Ladders <- MCLadders
    Wallets = {"T", "M"}
    TokenAccounts = {"TB", "TQ", "TX", "MB", "MQ", "MX"}
    Mints = {"B", "Q"}
    MintOf <- MCMintOf
    OwnerOf <- MCOwnerOf
    TransferFee <- MCTransferFee
    NoFeeConfig = NoFeeConfig
    InitialBalances <- MCInitialBalances
    EpochLength = 2
    MaxTime = 1
    Inboxes <- MCInboxes
    MaxMessages = 3
    Transactions <- MCOthers
    MaxTxs = 2
INVARIANTS
    SignedIsExclusive
    MakerTradesAsQuoted
    SignedInv
CHECK_DEADLOCK FALSE
