--------------------------- MODULE MC_GenericDAO ---------------------------
(***************************************************************************)
(* Model of two concurrent callers of one DAO.  Caller c1 runs under the   *)
(* default tenancy logic (it stamps and sees the tenant "shared", here     *)
(* t1); caller c2 goes through a DAO built without tenancy logic (the      *)
(* empty logic: stamps no tenant and sees every row), as the templates DAO *)
(* of the private virtual machines server is.                              *)
(***************************************************************************)
EXTENDS GenericDAO

CONSTANTS c1, c2, u1, u2, t1

MCCreators == [c \in Callers |-> IF c = c1 THEN {u1} ELSE {}]
MCAssignedTenants == [c \in Callers |-> IF c = c1 THEN {t1} ELSE {}]
MCVisibleTenants == [c \in Callers |-> IF c = c1 THEN {t1} ELSE {}]

\* Both callers under the default tenancy logic.
SharedTenancy == [c \in Callers |-> {t1}]

\* List inputs: a negative and a positive offset; a negative, zero,
\* in-range and above-maximum limit, so every clamp branch is taken.
MCListOffsets == {-1, 1}
MCListLimits == {-1, 0, 1, 3}

=============================================================================
