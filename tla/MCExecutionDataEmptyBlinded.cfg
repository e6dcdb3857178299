CONSTANTS
    WeiPerGwei = 2
    MaxNonZero = 1
    NilWei = NilWei
    NoData = NoData
    ByteValues = {0, 1, 3}
    MaxValueLen = 2
SPECIFICATION Spec
INVARIANTS
    BlindingPreservesEmptiness
