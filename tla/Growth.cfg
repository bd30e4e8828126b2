SPECIFICATION FairSpec
CONSTANTS
    Width = 6
    Policies <- AllPolicies
    Increment = 3
    ElementSizes <- Sizes
    Capacities <- NonEmpty
INVARIANTS
    Contract
PROPERTY GrowReturns
\* A buffer at its maximum cannot grow again.
CHECK_DEADLOCK FALSE
