SPECIFICATION Spec
CONSTANTS
    W = 4
    MemSize = 4
    AddrSize = 1
    WordSize = 2
    ByteVals = {0, 1}
    Offsets <- MCOffsets
    WordOffsets <- MCWordOffsets
    TopicCounts <- MCTopicCounts
    Lengths <- MCLengths
    BlockNums <- MCBlockNums
    CallData <- MCCallData
    Code <- MCCode
    ReturnData <- MCReturnData
    ExtCodeOf <- MCExtCodeOf
    CurrentBlock = 2
    KnownBlocks <- MCKnownBlocks
    BlockHash <- MCBlockHash
    Digest <- MCDigest
    BalanceOf <- MCBalanceOf
PROPERTIES LogCarriesMemory
