\* A ring that is not a power of two; time for a second capture.
SPECIFICATION CaptureSpec
CONSTANTS
    BufferDepth = 5
    PreTrigger = 2
    CaptureSize = 3
    MaxSamples = 11
INVARIANTS
    ReadsTheCapture
    
    IdleMissesNothing
PROPERTIES
    TransferEnds
