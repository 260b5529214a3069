----------------------------- MODULE GenericDAO -----------------------------
(***************************************************************************)
(* The generic DAO of src/fulfillment/service/internal/database/dao/      *)
(* generic_dao.go over one table, with concurrent callers.                 *)
(*                                                                         *)
(* Each DAO call runs in its own transaction.  Rows are locked by the      *)
(* UPDATE/INSERT that writes them and released at commit, so a statement   *)
(* that writes one row, the event callbacks fired after it and the archive *)
(* that may follow take effect as one step.  Update is two steps, as in    *)
(* the code: `d.get` reads the current row (read committed), and the      *)
(* equivalence check, the UPDATE, the event and the archive happen later,  *)
(* after other callers may have committed.                                 *)
(*                                                                         *)
(* Timestamps are abstracted to the deletion flag; the payload is a model  *)
(* value; lists of finalizers, creators and tenants are sets (the code     *)
(* deduplicates and sorts finalizers before writing them).                 *)
(***************************************************************************)
EXTENDS Integers, FiniteSets

CONSTANTS
    Ids, Datas, Finalizers, Users, Tenants, NoRow,
    Callers,          \* concurrent gRPC calls reaching the DAO
    Creators,         \* [Callers -> SUBSET Users]: attribution logic result
    AssignedTenants,  \* [Callers -> SUBSET Tenants]: DetermineAssignedTenants
    VisibleTenants,   \* [Callers -> SUBSET Tenants]: DetermineVisibleTenants
    BlindUpdates,     \* whether callers may send objects they never read
    DefaultLimit,     \* defaultLimit of the builder (100 in the code)
    MaxLimit,         \* maxLimit of the builder (1000 in the code)
    ListOffsets,      \* offsets a List request may carry
    ListLimits        \* limits a List request may carry

ASSUME /\ DefaultLimit \in Nat \ {0} /\ MaxLimit \in Nat \ {0}
       /\ DefaultLimit <= MaxLimit
       /\ ListOffsets \subseteq Int /\ ListLimits \subseteq Int

VARIABLES
    table,      \* live table: id -> row or NoRow
    archived,   \* rows of archived_<table>
    view,       \* what an event subscriber has been told: id -> row
    copy,       \* per caller: last object read with Get, or NoRow
    pc,         \* per caller: "idle" or "update" (between get and write)
    req,        \* per caller: the object passed to the ongoing Update
    cur,        \* per caller: the row `d.get` returned inside Update
    base,       \* per caller: finalizers of the copy req was built from
    lst         \* per caller: the List request and its count, or NoRow

vars == <<table, archived, view, copy, pc, req, cur, base, lst>>

Store == INSTANCE ObjectStore

Row == Store!Row

\* An object as the callers send it: id, payload and metadata.
Object == [id: Ids, data: Datas, finalizers: SUBSET Finalizers,
           creators: SUBSET Users, tenants: SUBSET Tenants, deleted: BOOLEAN]

ObjectOf(id, r) ==
    [id |-> id, data |-> r.data, finalizers |-> r.finalizers,
     creators |-> r.creators, tenants |-> r.tenants, deleted |-> r.deleted]

\* addTenancyFilter: no visible tenants means no filtering at all; else the
\* row's tenants must overlap the visible ones (`tenants && $n`).
Visible(c, r) ==
    VisibleTenants[c] = {} \/ r.tenants \cap VisibleTenants[c] # {}

\* get: the row if it exists and passes the tenancy filter, else nothing.
get(c, id) ==
    IF table[id] # NoRow /\ Visible(c, table[id]) THEN table[id] ELSE NoRow

\* equivalent: equal in every field except the creation and deletion
\* timestamps; an absent current object is never equivalent.
equivalent(current, obj) ==
    /\ current # NoRow
    /\ current.data = obj.data
    /\ current.finalizers = obj.finalizers
    /\ current.creators = obj.creators
    /\ current.tenants = obj.tenants

\* archive: insert into archived_<table> and delete the live row.
archive(id, r) ==
    /\ archived' = archived \cup
          {[id |-> id, data |-> r.data, creators |-> r.creators,
            tenants |-> r.tenants]}
    /\ table' = [table EXCEPT ![id] = NoRow]

\* fireEvent: the callbacks run in the transaction; a subscriber records
\* the object carried by the event.
fireEvent(id, r) == view' = [view EXCEPT ![id] = r]

\* list: a negative limit is 0, zero the default, above the maximum the
\* maximum.
limitOf(l) ==
    IF l < 0 THEN 0
    ELSE IF l = 0 THEN DefaultLimit
    ELSE IF l > MaxLimit THEN MaxLimit ELSE l

\* list: `offset := max(request.Offset, 0)`.
offsetOf(o) == IF o < 0 THEN 0 ELSE o

\* The rows a caller's select or count sees: live and passing the tenancy
\* filter.
VisibleIds(c) == {id \in Ids : get(c, id) # NoRow}

\* Mutant of updatedRow: writes the request object as it was sent.
updatedRowRequest(row, obj) == obj

\* The object written by update: payload and finalizers from the request,
\* creators, tenants and deletion timestamp re-read by `returning`.
updatedRow(row, obj) == [row EXCEPT !.data = obj.data,
                                    !.finalizers = obj.finalizers]

\* update archives when `deletionTs.Unix() != 0 && len(finalizers) == 0`.
updateArchives(r) == r.deleted /\ r.finalizers = {}

\* Mutant of deleteArchives: archives whatever the finalizers.
deleteArchivesAlways(r) == TRUE

\* delete archives when `len(finalizers) == 0`.
deleteArchives(r) == r.finalizers = {}

-----------------------------------------------------------------------------
Init ==
    /\ table = [id \in Ids |-> NoRow]
    /\ archived = {}
    /\ view = [id \in Ids |-> NoRow]
    /\ copy = [c \in Callers |-> NoRow]
    /\ pc = [c \in Callers |-> "idle"]
    /\ req = [c \in Callers |-> NoRow]
    /\ cur = [c \in Callers |-> NoRow]
    /\ base = [c \in Callers |-> {}]
    /\ lst = [c \in Callers |-> NoRow]

\* Get: the caller keeps what it read, to edit it and send it back.
Get(c, id) ==
    /\ pc[c] = "idle"
    /\ copy' = [copy EXCEPT ![c] = IF get(c, id) = NoRow THEN NoRow
                                   ELSE ObjectOf(id, get(c, id))]
    /\ UNCHANGED <<table, archived, view, pc, req, cur, base, lst>>

\* An identifier never used in this table, as `d.newId` (a random UUID)
\* gives when the object has none.
Fresh(id) == table[id] = NoRow /\ \A a \in archived : a.id # id

\* create: the row gets the caller's creators and assigned tenants and a
\* zero deletion timestamp, and the `created` event is fired.
Create(c, id, d, f) ==
    /\ pc[c] = "idle"
    /\ Fresh(id)
    /\ LET r == [data |-> d, finalizers |-> f, creators |-> Creators[c],
                 tenants |-> AssignedTenants[c], deleted |-> FALSE]
       IN /\ table' = [table EXCEPT ![id] = r]
          /\ fireEvent(id, r)
    /\ UNCHANGED <<archived, copy, pc, req, cur, base, lst>>

\* The objects a caller may pass to Update: its copy with a new payload or
\* new finalizers, or (when BlindUpdates) an object it never read.
Requests(c) ==
    LET edits == IF copy[c] = NoRow THEN {}
                 ELSE {[copy[c] EXCEPT !.data = d, !.finalizers = f] :
                         d \in Datas, f \in SUBSET Finalizers}
        blind == IF BlindUpdates
                 THEN {[id |-> i, data |-> d, finalizers |-> f,
                        creators |-> {}, tenants |-> {}, deleted |-> FALSE] :
                         i \in Ids, d \in Datas, f \in SUBSET Finalizers}
                 ELSE {}
    IN edits \cup blind

\* update, first statement: `current, err := d.get(ctx, tx, id)`.
UpdateGet(c) ==
    /\ pc[c] = "idle"
    /\ \E obj \in Requests(c) :
         /\ req' = [req EXCEPT ![c] = obj]
         /\ base' = [base EXCEPT ![c] =
                       IF copy[c] # NoRow /\ copy[c].id = obj.id
                       THEN copy[c].finalizers ELSE {}]
         /\ cur' = [cur EXCEPT ![c] = get(c, obj.id)]
    /\ pc' = [pc EXCEPT ![c] = "update"]
    /\ copy' = [copy EXCEPT ![c] = NoRow]
    /\ UNCHANGED <<table, archived, view, lst>>

\* The call returns; its request is forgotten.
Done(c) ==
    /\ pc' = [pc EXCEPT ![c] = "idle"]
    /\ req' = [req EXCEPT ![c] = NoRow]
    /\ cur' = [cur EXCEPT ![c] = NoRow]
    /\ base' = [base EXCEPT ![c] = {}]
    /\ UNCHANGED lst

\* update, rest: skip when equivalent to what get returned; otherwise
\* `update ... where id = $3` (no tenancy filter), which finds no row if
\* the object is gone (ErrNoRows, rollback); else fire `updated` and
\* archive if the row is pending deletion and has no finalizers.
UpdateWrite(c) ==
    /\ pc[c] = "update"
    /\ LET id == req[c].id
           new == updatedRow(table[id], req[c])
       IN IF equivalent(cur[c], req[c]) \/ table[id] = NoRow
          THEN UNCHANGED <<table, archived, view>>
          ELSE /\ fireEvent(id, new)
               /\ IF updateArchives(new)
                  THEN archive(id, new)
                  ELSE /\ table' = [table EXCEPT ![id] = new]
                       /\ UNCHANGED archived
    /\ Done(c)
    /\ UNCHANGED copy

\* An event callback or the database fails after the UPDATE: the
\* transaction is rolled back and the caller gets the error.
UpdateAbort(c) ==
    /\ pc[c] = "update"
    /\ Done(c)
    /\ UNCHANGED <<table, archived, view, copy>>

\* delete: `update ... set deletion_timestamp = now() where id and tenancy
\* returning ...`; nothing when no row matches; else fire `deleted` and
\* archive when there are no finalizers.
Delete(c, id) ==
    /\ pc[c] = "idle"
    /\ get(c, id) # NoRow
    /\ LET new == [table[id] EXCEPT !.deleted = TRUE]
       IN /\ fireEvent(id, new)
          /\ IF deleteArchives(new)
             THEN archive(id, new)
             ELSE /\ table' = [table EXCEPT ![id] = new]
                  /\ UNCHANGED archived
    /\ UNCHANGED <<copy, pc, req, cur, base, lst>>

\* list, first statement: `select count(*)` with the tenancy filter.
ListCount(c, o, l) ==
    /\ pc[c] = "idle"
    /\ lst' = [lst EXCEPT ![c] = [offset |-> o, limit |-> l,
                                  total |-> Cardinality(VisibleIds(c))]]
    /\ pc' = [pc EXCEPT ![c] = "list"]
    /\ UNCHANGED <<table, archived, view, copy, req, cur, base>>

\* list, second statement: the select with the same filter, `offset` and
\* `limit`, run after other callers may have committed (read committed);
\* the response carries the rows it returns and the earlier count.
ListFetch(c) ==
    /\ pc[c] = "list"
    /\ pc' = [pc EXCEPT ![c] = "idle"]
    /\ lst' = [lst EXCEPT ![c] = NoRow]
    /\ UNCHANGED <<table, archived, view, copy, req, cur, base>>

\* The number of items the select of a pending list returns.
PageSize(c) ==
    LET n == Cardinality(VisibleIds(c)) - offsetOf(lst[c].offset)
    IN IF n < limitOf(lst[c].limit) THEN (IF n < 0 THEN 0 ELSE n)
       ELSE limitOf(lst[c].limit)

Next ==
    \E c \in Callers :
        \/ \E o \in ListOffsets, l \in ListLimits : ListCount(c, o, l)
        \/ ListFetch(c)
        \/ \E id \in Ids : Get(c, id) \/ Delete(c, id)
        \/ \E id \in Ids, d \in Datas, f \in SUBSET Finalizers : Create(c, id, d, f)
        \/ UpdateGet(c)
        \/ UpdateWrite(c)
        \/ UpdateAbort(c)

Spec == Init /\ [][Next]_vars

-----------------------------------------------------------------------------
TypeOK ==
    /\ table \in [Ids -> Row \cup {NoRow}]
    /\ archived \subseteq Store!ArchivedRow
    /\ view \in [Ids -> Row \cup {NoRow}]
    /\ copy \in [Callers -> Object \cup {NoRow}]
    /\ pc \in [Callers -> {"idle", "update", "list"}]
    /\ req \in [Callers -> Object \cup {NoRow}]
    /\ cur \in [Callers -> Row \cup {NoRow}]
    /\ base \in [Callers -> SUBSET Finalizers]
    /\ lst \in [Callers -> [offset: ListOffsets, limit: ListLimits,
                            total: 0..Cardinality(Ids)] \cup {NoRow}]

\* Every committed DAO step, including an update built from a stale read,
\* is one step of the atomic store of spec.md section 3: creators and
\* tenants never change, and a row is archived exactly when it is pending
\* deletion with no finalizers (Update and Delete in generic_dao.go).
StoreRefinement == Store!Spec

\* A caller changes only rows it can see: the tenancy filter that guards
\* get, list and delete also guards update (generic_dao.go update).
UpdatesRespectTenancy ==
    [][\A c \in Callers :
         (UpdateWrite(c) /\ table' # table) => Visible(c, table[req[c].id])]_vars

\* A finalizer is removed from a row only by an update whose caller read
\* it and dropped it: "removed by whoever placed it" (spec.md glossary),
\* against update writing the whole finalizer list of the request.
FinalizersRemovedOnlyOnRequest ==
    [][\A c \in Callers :
         LET id == req[c].id IN
         (UpdateWrite(c) /\ table[id] # NoRow) =>
           LET after == IF table'[id] = NoRow THEN {} ELSE table'[id].finalizers
           IN table[id].finalizers \ after \subseteq base[c] \ req[c].finalizers]_vars
=============================================================================
