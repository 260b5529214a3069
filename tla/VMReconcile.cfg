\* Forward and feedback reconcilers of one VM over two hubs, with
\* transient failures and condition churn.
CONSTANTS
    Hubs = {h1, h2}
    NoHub = NoHub
    NoRow = NoRow
    MaxCreates = 3
    Failures = TRUE
    ConditionsChurn = TRUE
SPECIFICATION Spec
INVARIANT TypeOK
