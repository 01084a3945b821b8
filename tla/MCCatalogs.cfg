SPECIFICATION CatalogsSpec
CONSTANTS
    a = a
    c = c
    r = r
    q = q
    NoRepo = NoRepo
    NoAlias = NoAlias
    Aliases = {a, c}
    Repos = {r, q}
    GgufRepos = {q}
    Home <- MCHome
    CacheOf <- MCCacheOf
    Configs <- MCConfigs
    BusyReload = FALSE
    MaxInstalls = 2
    MaxEvents = 2
    Instances = {i1, i2, i3, i4}
    None = None
    MaxSequence = 1
    MaxRetired = 2
    Ttl = 0
INVARIANTS OneWriterPerRepo InstalledHasSnapshot ActiveRowOwned
PROPERTY NeverRollsBack
CHECK_DEADLOCK FALSE
