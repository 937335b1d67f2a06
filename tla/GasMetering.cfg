CONSTANTS
    Blocks <- MCBlocks
    Entry = "entry"
    Exit = "exit"
    Ops <- MCOps
    Succ <- MCSucc
    GasLimit = 8230
    Pages = {0, 1}
    CalleeLocals = 2
    CalleeUse = {0, 3}

SPECIFICATION Spec

PROPERTIES GasBudgetRefinement Terminates
