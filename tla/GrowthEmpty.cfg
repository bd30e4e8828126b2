SPECIFICATION FairSpec
CONSTANTS
    Width = 6
    Policies <- JustDouble
    Increment = 1
    ElementSizes <- Sizes
    Capacities <- Empty
PROPERTY ReservesAtLeast
\* A buffer at its maximum cannot grow again.
CHECK_DEADLOCK FALSE
