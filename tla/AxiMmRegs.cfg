\* CTRL, TRIG_ARM, the write-ignored TRIG_STATUS and an
\* unmapped address; data with bit 0 and bit 2 set, or neither.
SPECIFICATION Spec
CONSTANTS
    Addresses = {56, 72, 76, 128}
    Data = {0, 5}
    MaxWrites = 3
INVARIANTS
    ResponseMeansWritten
    ReadIsAtomic
    OnePulsePerRaise
PROPERTIES
    WritesAnswered
