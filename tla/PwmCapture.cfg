\* Periods of 4 (the fastest the filter passes) to 5 cycles: duty cycles of 40, 50 and 60 %.
SPECIFICATION Spec
CONSTANTS
    Timeout = 5
    MaxMeasured = 5
INVARIANTS
    MeasuresTheSignal
    NoEdgeMissed
    LossReported
