CONSTANTS
    Items = {i1}
    MaxItems = 2
    ByteValues = {0, 255}
    MaxGraffitiLen = 3
    Bytes32Len = 2
    Malformed = Malformed
SPECIFICATION Spec
INVARIANTS
    TypeOK
    ServedObjectMatchesVersion
