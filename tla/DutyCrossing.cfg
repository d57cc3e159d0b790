\* The clocks drift by a quarter either way, measurements come as fast as the
\* crossing allows.
SPECIFICATION CrossingSpec
CONSTANTS
    MinFast = 3
    MaxFast = 5
    MinGap = 5
INVARIANTS
    CrossesIntact
