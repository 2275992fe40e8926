SPECIFICATION Spec
CONSTANTS
    Holdings <- SomeHoldings
    N = 3
    Grace = 2
    Interval = 1
    Delay = 1
    MaxArrivals = 4
INVARIANTS TypeOK ReportsAreConsistent PruningLosesNothing ReorderingIsReal
PROPERTIES OldHolesReported NoEarlyRepair
