SPECIFICATION Spec
CONSTANTS
    Shells = {s1}
    Ops = {"|"}
    MaxLen = 3
    MaxTotal = 3
INVARIANTS
    PipeTransmits
