SPECIFICATION RoutesSpec
CONSTANTS
    MaxVec = 2
    Fillers = {0, 117}
    Inputs <- MCInputs
INVARIANTS
    RoutesTypeOK
    SeesTheRoutes
    TruncatedRefused
CHECK_DEADLOCK FALSE
