\* Forward reconciler over two hubs with failing saves: a retry after a
\* failed save picks a hub again.
CONSTANTS
    Hubs = {h1, h2}
    NoHub = NoHub
    NoRow = NoRow
    MaxCreates = 2
    Failures = TRUE
    ConditionsChurn = FALSE
SPECIFICATION Spec
INVARIANT NativeOnOneHub
