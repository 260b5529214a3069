\* Forward and feedback reconcilers of one VM over two hubs, with no
\* transient failures and condition churn.
CONSTANTS
    Hubs = {h1, h2}
    NoHub = NoHub
    NoRow = NoRow
    MaxCreates = 3
    Failures = FALSE
    ConditionsChurn = FALSE
SPECIFICATION Spec

PROPERTY HubBindingKept
