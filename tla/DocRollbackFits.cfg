CONSTANT
    Imports <- Sizes
SPECIFICATION Spec
INVARIANT
    RollbackFits
