\* One parameter of each kind of register, an id that has no value, and values
\* inside, at and outside the ranges.
SPECIFICATION Spec
CONSTANTS
    Ids = {1, 4, 5, 9, 256}
    Values = {1000, 70000}
    MaxBatch = 2
    Sources = {1}
    Edges = {0}
    Levels = {0, 5000}
INVARIANTS
    
    BatchOutcome
    AnswersTheMirror
PROPERTIES
    ErrorChangesNothing
