SPECIFICATION Spec
CONSTANTS
    Commands <- Forked
    Semicolon = 3
    Byte = 6
    MaxUses = 19
    MaxBadUses = 7
    MaxCutUses = 3
INVARIANTS
    FrequenceCountsUses
    FavouriteIsMostUsed
    SearchAnswers
    NothingInvented
