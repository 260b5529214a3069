-------------------------- MODULE FeedbackConditions --------------------------
(***************************************************************************)
(* The feedback reconciler's condition and phase mapping (cloudkit-        *)
(* operator virtualmachine_feedback_controller.go) against the native      *)
(* VirtualMachine whose status the hub operator maintains                  *)
(* (virtualmachine_controller.go, crds/v1alpha1/virtualmachine_conditions).*)
(*                                                                         *)
(* One feedback pass is one step: fetch the VM, clone it, walk the native  *)
(* conditions in list order, map the phase, and Update when the clone      *)
(* differs.  Every timestamppb.Now() is a fresh tick of `clock`.  Messages *)
(* are all empty in the operator and are left out.                         *)
(***************************************************************************)
EXTENDS Naturals, Sequences, SequencesExt

CONSTANTS
    MaxClock    \* bound on timestamps handed out by timestamppb.Now()

\* The native condition types in list order: initializeStatusConditions
\* appends them in this order and SetStatusCondition replaces in place.
NativeTypes == <<"Accepted", "Deleting", "Progressing", "Available">>
NativeStatuses == {"True", "False", "Unknown", "Absent"}
NativePhases == {"", "Progressing", "Ready", "Deleting"}

InternalTypes == {"PROGRESSING", "READY"}
InternalStatuses == {"TRUE", "FALSE", "UNSPECIFIED"}
States == {"UNSPECIFIED", "PROGRESSING", "READY", "FAILED"}

\* syncCondition: the internal condition each native condition writes.
InternalOf == [Accepted |-> "PROGRESSING", Deleting |-> "PROGRESSING",
               Progressing |-> "PROGRESSING", Available |-> "READY"]

Condition == [status: InternalStatuses, ltt: 0..MaxClock]
VM == [state: States, conds: [InternalTypes -> Condition]]

VARIABLES
    native,     \* native status: [type -> status], "Absent" if not listed
    phase,      \* native status.phase
    kvReady,    \* the KubeVirt machine has condition Ready=True
    vm,         \* the VM row in the fulfillment service
    clock,      \* last timestamp handed out
    writes,     \* VirtualMachines.Update calls issued by the feedback pass
    lastSeen    \* native status and phase seen by the previous pass

vars == <<native, phase, kvReady, vm, clock, writes, lastSeen>>

-----------------------------------------------------------------------------
\* Mutant of mapConditionStatus: copies the Kubernetes status string.
mapConditionStatusRaw(s) == s

\* mapConditionStatus.
mapConditionStatus(s) ==
    CASE s = "True" -> "TRUE" [] s = "False" -> "FALSE" [] OTHER -> "UNSPECIFIED"

\* syncCondition on the accumulated <<conditions, clock>>: set status (and
\* message) of the internal condition; stamp a new transition time only
\* when the status differs from what the clone holds at this point.
syncCondition(acc, t) ==
    LET c == InternalOf[t]
        new == mapConditionStatus(native[t])
    IN IF native[t] = "Absent" THEN acc
       ELSE IF new # acc[1][c].status
            THEN <<[acc[1] EXCEPT ![c] = [status |-> new, ltt |-> acc[2] + 1]],
                   acc[2] + 1>>
            ELSE acc

\* syncPhase: Deleting and unknown phases leave the state alone.
syncPhase(state) ==
    CASE phase = "Progressing" -> "PROGRESSING"
      [] phase = "Ready" -> "READY"
      [] OTHER -> state

-----------------------------------------------------------------------------
\* The VM as the forward reconciler's setDefaults leaves it, and a native
\* object whose status the operator has not written yet.
Init ==
    /\ native = [t \in {"Accepted", "Deleting", "Progressing", "Available"} |-> "Absent"]
    /\ phase = ""
    /\ kvReady = FALSE
    /\ vm = [state |-> "PROGRESSING",
             conds |-> [c \in InternalTypes |-> [status |-> "FALSE", ltt |-> 0]]]
    /\ clock = 0
    /\ writes = 0
    /\ lastSeen = <<>>

\* Reconcile (feedback): handleUpdate on a clone of the fetched VM, then
\* saveVirtualMachine when the clone differs from what was fetched.
FeedbackPass ==
    LET r == FoldLeft(syncCondition, <<vm.conds, clock>>, NativeTypes)
        after == [state |-> syncPhase(vm.state), conds |-> r[1]]
    IN /\ r[2] <= MaxClock
       /\ clock' = r[2]
       /\ IF after # vm
          THEN /\ vm' = after
               /\ writes' = writes + 1
          ELSE UNCHANGED <<vm, writes>>
       /\ lastSeen' = <<native, phase>>
       /\ UNCHANGED <<native, phase, kvReady>>

\* handleUpdate of the hub operator: initialize missing conditions, set
\* phase Progressing, Accepted=True; with the KubeVirt machine ready,
\* Available=True and phase Ready.
OperatorReconcile ==
    /\ native' = [t \in DOMAIN native |->
                    CASE t = "Accepted" -> "True"
                      [] t = "Available" /\ kvReady -> "True"
                      [] native[t] # "Absent" -> native[t]
                      [] t = "Progressing" -> "True"
                      [] OTHER -> "False"]
    /\ phase' = IF kvReady THEN "Ready" ELSE "Progressing"
    /\ UNCHANGED <<kvReady, vm, clock, writes, lastSeen>>

\* KubeVirt reports the machine ready, or no longer ready (stopped,
\* restarted); the operator never sets Available back to False.
KubeVirtReady ==
    /\ kvReady' = ~kvReady
    /\ UNCHANGED <<native, phase, vm, clock, writes, lastSeen>>

Next == FeedbackPass \/ OperatorReconcile \/ KubeVirtReady

Spec == Init /\ [][Next]_vars

-----------------------------------------------------------------------------
TypeOK ==
    /\ native \in [{"Accepted", "Deleting", "Progressing", "Available"} -> NativeStatuses]
    /\ phase \in NativePhases
    /\ kvReady \in BOOLEAN
    /\ vm \in VM
    /\ clock \in 0..MaxClock
    /\ writes \in Nat
    /\ lastSeen \in {<<>>} \cup ([DOMAIN native -> NativeStatuses] \X NativePhases)

\* A feedback pass over a native object whose conditions and phase have
\* not changed since the previous pass issues no Update (spec.md 6,
\* scenario 8: at most one DAO update for two passes on an unchanged VM).
FeedbackIdempotent ==
    [][FeedbackPass /\ lastSeen = <<native, phase>> => writes' = writes]_vars
=============================================================================
