--------------------------- MODULE MC_WebhookCache ---------------------------
EXTENDS WebhookCache, TLC

CONSTANTS o1, o2, n1, n2

\* Two objects with different names.
DistinctNames == (o1 :> n1) @@ (o2 :> n2)
=============================================================================
