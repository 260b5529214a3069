\* Forward and feedback reconcilers of one VM over two hubs, without
\* transient failures or condition churn; the forward reconciler is
\* retried forever.
CONSTANTS
    Hubs = {h1, h2}
    NoHub = NoHub
    NoRow = NoRow
    MaxCreates = 3
    Failures = FALSE
    ConditionsChurn = FALSE
SPECIFICATION FairSpec
PROPERTY NativeRemovedAfterDelete
