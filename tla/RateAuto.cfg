SPECIFICATION RateSpec
CONSTANTS
    MinRate = 100
    MaxRate = 2000
    Mbps = 100
    Reports = 4
    Capacities <- SomeCapacities
    MaxOutages = 2
    MaxShifts = 1
INVARIANT WithinBounds
PROPERTY UsesThePath
PROPERTY DoesNotFlood
