\* A counter of eight values, so that it wraps often; a pass may take two of
\* them.
SPECIFICATION Spec
CONSTANTS
    DMA_BD_COUNT = 3
    Word = 8
    TCP_TMR_INTERVAL_MS = 2
    HEARTBEAT_INTERVAL_MS = 3
    ProtoTimeout = 4
    MaxPass = 2
    MaxCmds = 1
INVARIANTS
    BacklogExact
    CopyIsUndisturbed
    TimeoutMeansSilence
PROPERTIES
    TimersKeepPeriod
