---------------------------- MODULE HubLifecycle ----------------------------
(***************************************************************************)
(* What the hub operator's finalizer promises for one native              *)
(* VirtualMachine (spec.md 4.13, 5): the operator may provision the VM's   *)
(* namespace while the VM exists, the namespace may be torn down at any    *)
(* time, and the VM leaves the API server only once its namespace is gone; *)
(* after that, no namespace is provisioned for it again.                  *)
(***************************************************************************)
VARIABLES
    vm,     \* "live", "deleting" (deletion requested) or "gone"
    space   \* the VM's namespace: "absent" or "present"

Init ==
    /\ vm = "live"
    /\ space = "absent"

Provision ==
    /\ vm # "gone"
    /\ space = "absent"
    /\ space' = "present"
    /\ UNCHANGED vm

Deprovision ==
    /\ space = "present"
    /\ space' = "absent"
    /\ UNCHANGED vm

\* A delete request: the VM is held by the finalizer, or leaves at once
\* when nothing was provisioned.
Delete ==
    /\ vm = "live"
    /\ \/ vm' = "deleting"
       \/ space = "absent" /\ vm' = "gone"
    /\ UNCHANGED space

Release ==
    /\ vm = "deleting"
    /\ space = "absent"
    /\ vm' = "gone"
    /\ UNCHANGED space

Next == Provision \/ Deprovision \/ Delete \/ Release

Spec == Init /\ [][Next]_<<vm, space>>
=============================================================================
