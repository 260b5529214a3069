\* One VM on a hub whose informer caches of the VM and of namespaces may
\* lag, both webhooks configured and no management-state annotation.
CONSTANTS
    StaleVMCache = TRUE
    StaleNsCache = TRUE
    CreateVMWebhook = TRUE
    DeleteVMWebhook = TRUE
    Annotation = "none"
SPECIFICATION Spec
INVARIANT NoOrphanNamespace
CHECK_DEADLOCK FALSE
