SPECIFICATION FairSpec
CONSTANTS
    None = None
    Callers = {c1, c2}
    Items = {i1}
    TTL = 2
    MaxTime = 4
INVARIANT HitsAreRecent
INVARIANT MissesAreConfirmed
PROPERTY LookupsReturn
