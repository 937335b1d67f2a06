SPECIFICATION Spec
CONSTANTS
    ByteBase = 4
    WordSize = 2
INVARIANTS TypeOK ArithMatchesReference
