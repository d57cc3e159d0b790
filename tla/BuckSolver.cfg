\* Five cycles a step and four steps a period instead of 10 and 50; a duty of 1 or 3 quarters,
\* never and always on.
SPECIFICATION Spec
CONSTANTS
    Scale = 4
    CoefScale = 2
    ILMax = 4
    Duties = {0, 1, 3, 4}
    Period = 20
    StepDiv = 5
    ParamSets <- Handed
    ResetParams <- AfterReset
INVARIANTS
    OnTimeMatchesDuty

    
