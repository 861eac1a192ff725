SPECIFICATION RoutesSpec
CONSTANTS
    MaxVec = 1
    Fillers = {0}
    Inputs <- MCRawInputs
INVARIANT OnlyDeclaredVariants
CHECK_DEADLOCK FALSE
