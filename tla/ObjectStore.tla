---------------------------- MODULE ObjectStore ----------------------------
(***************************************************************************)
(* What the generic DAO promises (spec.md sections 3 and 4.2), stated as  *)
(* an atomic store of one table: every call is a single step.  An object  *)
(* is created live, may be changed, is soft-deleted by setting its        *)
(* deletion flag, and leaves the live table for the archive exactly when  *)
(* it is pending deletion and holds no finalizer.  Its creators and       *)
(* tenants never change while it is live.                                 *)
(***************************************************************************)
EXTENDS FiniteSets

CONSTANTS
    Ids,          \* object identifiers
    Datas,        \* abstract JSON payloads
    Finalizers,   \* finalizer names
    Users,        \* creator names produced by the attribution logic
    Tenants,      \* tenant names produced by the tenancy logic
    NoRow         \* the live table has no row for an identifier

VARIABLES table, archived

Row == [data: Datas, finalizers: SUBSET Finalizers, creators: SUBSET Users,
        tenants: SUBSET Tenants, deleted: BOOLEAN]

ArchivedRow == [id: Ids, data: Datas, creators: SUBSET Users,
                tenants: SUBSET Tenants]

\* A row that is pending deletion and has no finalizers left is moved to
\* the archive by the same step that made it so.
Released(r) == r.deleted /\ r.finalizers = {}

Settle(id, r) ==
    IF Released(r)
    THEN /\ table' = [table EXCEPT ![id] = NoRow]
         /\ archived' = archived \cup
                {[id |-> id, data |-> r.data, creators |-> r.creators,
                  tenants |-> r.tenants]}
    ELSE /\ table' = [table EXCEPT ![id] = r]
         /\ UNCHANGED archived

Init ==
    /\ table = [id \in Ids |-> NoRow]
    /\ archived = {}

\* A new live row; its identifier is free in the live table.
Create(id) ==
    /\ table[id] = NoRow
    /\ \E r \in Row :
         /\ ~r.deleted
         /\ table' = [table EXCEPT ![id] = r]
    /\ UNCHANGED archived

\* New payload and finalizers; identity, attribution, tenancy and the
\* deletion flag are kept.
Update(id) ==
    /\ table[id] # NoRow
    /\ \E d \in Datas, f \in SUBSET Finalizers :
         Settle(id, [table[id] EXCEPT !.data = d, !.finalizers = f])

Delete(id) ==
    /\ table[id] # NoRow
    /\ Settle(id, [table[id] EXCEPT !.deleted = TRUE])

Next == \E id \in Ids : Create(id) \/ Update(id) \/ Delete(id)

vars == <<table, archived>>

Spec == Init /\ [][Next]_vars
=============================================================================
