SPECIFICATION Spec
CONSTANT Inputs <- MCInputs
INVARIANTS
    ChainListsItsGroup
    AutomaticChoiceIsSafe
    ResultsPassValidation
PROPERTY ReviewOnlyClearedByHuman
