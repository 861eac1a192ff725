SPECIFICATION SweepSpec
CONSTANTS
    U64Max = 5
    MaxLevels = 3
    MaxAtoms = 3
    Ladders <- MCLadders
    Amounts <- MCAmounts
    MinOuts = {0, 3}
INVARIANTS
    SweepInv
    SweptInv
    NeverBetterThanBestLevel
    NeverWorseThanLastLevel
    BestExecution
    PartialFitsLevel
PROPERTIES
    AnswersAsQuoted
