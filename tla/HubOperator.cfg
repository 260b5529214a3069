\* One VM on a hub whose informer cache of the VM may lag and whose
\* namespace cache is up to date when listed, both webhooks configured
\* and no management-state annotation.  The system stops once the VM is
\* gone and its namespace deleted, or once a live VM is quiet.
CONSTANTS
    StaleVMCache = TRUE
    StaleNsCache = FALSE
    CreateVMWebhook = TRUE
    DeleteVMWebhook = TRUE
    Annotation = "none"
SPECIFICATION FairSpec
INVARIANT TypeOK
PROPERTY LifecycleRefinement
PROPERTY DeletionCompletes
PROPERTY ReconcileQuiesces
CHECK_DEADLOCK FALSE
