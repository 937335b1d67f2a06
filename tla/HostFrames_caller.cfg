CONSTANTS
    aTop = aTop  aTarget = aTarget  aUnknown = aUnknown
    aCreate = aCreate  aCreate2 = aCreate2  aEoa = aEoa
    cTop = cTop  cTarget = cTarget  d1 = d1  k1 = k1
    Top <- aTop  Target <- aTarget  Unknown <- aUnknown
    CreateAddr <- aCreate  Create2Addr <- aCreate2  EOA <- aEoa
    TopCode <- cTop  TargetCode <- cTarget
    Data <- MCData  Keys <- MCKeys  Vals <- MCVals
    CallValues <- MCCallValues  GasArgs <- MCGasArgs
    CreateCodes <- MCCreateCodes
    TxGasLimit = 2
    MaxDepth = 2
    MaxTx = 1
    ReuseContext = FALSE
SPECIFICATION Spec
INVARIANT CallerIsParentAddress
