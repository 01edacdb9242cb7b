SPECIFICATION MatchSpec
CONSTANTS
    Units <- MCUnits
    Fold <- MCFold
    MaxPattern = 2
    MaxName = 2
CHECK_DEADLOCK FALSE
INVARIANTS
    StarIsImplemented
