SPECIFICATION InstallsSpec
CONSTANTS
    a = a
    c = c
    r = r
    q = q
    NoRepo = NoRepo
    NoAlias = NoAlias
    Aliases = {a, c}
    Repos = {r, q}
    GgufRepos = {q}
    Home <- MCHome
    CacheOf <- MCCacheOf
    Configs <- MCConfigs
    BusyReload = FALSE
    MaxInstalls = 2
    MaxEvents = 1
INVARIANT InstalledIsComplete
CHECK_DEADLOCK FALSE
