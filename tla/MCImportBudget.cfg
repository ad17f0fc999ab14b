CONSTANT
    Imports <- Sizes
SPECIFICATION Spec
INVARIANT
    WithinBudget
