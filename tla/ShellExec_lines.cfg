SPECIFICATION Spec
CONSTANTS
    Shells = {s1, s2}
    Ops = {";", "&&", "||", "|", "|&"}
    MaxLen = 4
    MaxTotal = 5
SYMMETRY Symmetry
INVARIANTS
    LineHasItsMeaning
    PairTransmits
    RunsInOrder
    LogIsTemporary
