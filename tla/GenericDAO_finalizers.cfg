CONSTANTS
    Ids = {i1, i2}
    Datas = {d1, d2}
    Finalizers = {f1}
    Users = {u1}
    Tenants = {t1}
    NoRow = NoRow
    Callers = {c1, c2}
    c1 = c1
    c2 = c2
    u1 = u1
    u2 = u2
    t1 = t1
    Creators <- MCCreators
    AssignedTenants <- SharedTenancy
    VisibleTenants <- SharedTenancy
    BlindUpdates = FALSE
    DefaultLimit = 1
    MaxLimit = 2
    ListOffsets <- MCListOffsets
    ListLimits <- MCListLimits
SPECIFICATION Spec
PROPERTY FinalizersRemovedOnlyOnRequest
