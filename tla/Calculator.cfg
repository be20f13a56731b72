SPECIFICATION Spec
CONSTANTS
    Width = 4
    Inputs <- SetOfInputs
INVARIANTS
    AnswersTrue
    InStep
CHECK_DEADLOCK FALSE
