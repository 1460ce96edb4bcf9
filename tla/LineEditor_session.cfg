SPECIFICATION EditorSpec
CONSTANTS
    Commands <- MCCommands
    Semicolon = 3
    Byte = 8
    MaxUses = 1
    MaxBadUses = 1
    MaxCutUses = 1
    Shells = {s1}
    NoShell = NoShell
    Chars = {1, 2}
    Names <- MCNames
    MaxLen = 3
    MaxRing = 2
    MaxEntered = 3
INVARIANTS
    RingIsRecent
    EditorMemory
    ScreenShowsLine
CHECK_DEADLOCK FALSE
