SPECIFICATION Spec
CONSTANTS
    U64Max = 7
    Amounts = {1, 2, 3}
    MinOuts = {0, 4}
    Ladders <- MCLadders
    Wallets = {"T", "M"}
    TokenAccounts = {"TB", "TQ", "MB", "MQ", "MX"}
    Mints = {"B", "Q"}
    NoFeeConfig = NoFeeConfig
    MintOf <- MCMintOf
    OwnerOf <- MCOwnerOf
    TransferFee <- MCTransferFee
    InitialBalances <- MCInitialBalances
    Transactions <- MCRepeated
    EpochLength = 2
    MaxTime = 4
    MaxTxs = 3
INVARIANTS
    MakerNeverShort
    LedgerInv
\* The bounds on the clock and on the transactions stop the model.
CHECK_DEADLOCK FALSE
