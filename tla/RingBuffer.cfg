\* The ring wraps three times; a window of most of it can be lapped.
SPECIFICATION Spec
CONSTANTS
    Capacity = 5
    Count = 3
    MaxBlock = 3
    MaxSamples = 16
INVARIANT WindowExact
