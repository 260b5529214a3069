\* Two concurrent reconciles of differently named objects, a 2-tick
\* interval, and POSTs that never time out, so that every refire comes
\* from the cache itself.
CONSTANTS
    o1 = o1
    o2 = o2
    n1 = n1
    n2 = n2
    None = None
    Objects = {o1, o2}
    Names = {n1, n2}
    NameOf <- DistinctNames
    Interval = 2
    Timeouts = FALSE
SPECIFICATION Spec
PROPERTY NoRefireWithinInterval
