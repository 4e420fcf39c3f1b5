SPECIFICATION Spec
CONSTANTS
    Optimizers = {"coord", "powell", "simu", "bobyqa", "rbf", "simplex"}
    Dim = 2
    MaxEvaluations = 5
    Quality <- MCQuality
    NaN = NaN
INVARIANTS TypeOK BestIsReturned SavedIsBestOfLog WithinBudget
PROPERTIES Termination ImplementsSearch
CHECK_DEADLOCK FALSE
