SPECIFICATION LibSpec
CONSTANTS
    LibAliases = {"a", "b"}
    LibFiles = {"f", "g"}
    LocalFiles = {}
    MaxInstalls = 2
    MaxRestarts = 0
    MaxMoves = 1
PROPERTY DeleteSparesOthers
CHECK_DEADLOCK FALSE
