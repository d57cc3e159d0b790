\* Frames of two bits, a step of three cycles: strobes come while the interface
\* is busy (divider 1) and when it is idle again (divider 5).
SPECIFICATION TopSpec
CONSTANTS
    SpiClkDiv = 1
    CodeBits = 1
    STEP_DIV = 3
    Volts = {0, 1, 2}
    Amps = {0, 1}
    VoutRange = 1
    ILRange = 1
    VoutScale = 1
    ILScale = 1
    Divs = {1, 5}
INVARIANTS
    FramesIntact
    ReadBackIsSent
PROPERTIES
    UpdateCompletes
