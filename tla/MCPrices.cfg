SPECIFICATION PricesSpec
CONSTANTS
    U64Max = 12
    Ladders = {}
    Amounts = {1, 3, 6}
    MinOuts = {0}
    Radix = 2
    Digits = {0, 1, 3, 5}
    MaxFrac = 2
    TypedLevels <- MCTyped
    Decimals <- MCDecimals
INVARIANTS
    PriceInv
    TypedPriceKept
    FilledAtTypedPrice
    ApartIsInOrder
\* One fill is sent, or none.
CHECK_DEADLOCK FALSE
