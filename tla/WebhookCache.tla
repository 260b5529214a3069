---------------------------- MODULE WebhookCache ----------------------------
(***************************************************************************)
(* The in-flight request cache of cloudkit-operator                       *)
(* controllers/controller/clusterorder_webhook.go, shared by concurrent   *)
(* reconciles of different objects.  triggerWebHook runs, in order:       *)
(*   checkForExistingRequest: read the entry under RLock, then purge;     *)
(*   the HTTP POST;                                                        *)
(*   addInflightRequest: write the entry under Lock, then purge.           *)
(* purgeExpiredRequests collects expired names under RLock and deletes    *)
(* them under Lock, two separate critical sections.                        *)
(*                                                                         *)
(* Time is the age of each entry in ticks, saturated at Interval + 1:     *)
(* every comparison in the code (>= and > against the interval) is kept.  *)
(* Reconciles of one object are serialized by the controller; different  *)
(* objects run concurrently.                                              *)
(***************************************************************************)
EXTENDS Naturals

CONSTANTS
    Objects,     \* objects reconciled concurrently
    Names,       \* object names, the cache key
    NameOf,      \* [Objects -> Names]
    Interval,    \* minimumRequestInterval, in ticks
    Timeouts,    \* a POST may reach the receiver and still fail (timeout)
    None

ASSUME Interval \in Nat \ {0}

Ages == 0..(Interval + 1)

VARIABLES
    inflight,   \* the map: name -> age of the entry, or None
    pc,         \* per object: "idle", "scan", "purge", "post", "add"
    after,      \* per object: where to go once the purge is done
    expired,    \* per object: names collected by the purge scan
    requeue,    \* per object: the delay the last check returned
    requeued,   \* per object: the controller will run its reconcile again
    sinceSent   \* per name: ticks since the receiver got a POST, or None

vars == <<inflight, pc, after, expired, requeue, requeued, sinceSent>>

Older(a) == IF a = Interval + 1 THEN a ELSE a + 1

-----------------------------------------------------------------------------
Init ==
    /\ inflight = [n \in Names |-> None]
    /\ pc = [o \in Objects |-> "idle"]
    /\ after = [o \in Objects |-> "idle"]
    /\ expired = [o \in Objects |-> {}]
    /\ requeue = [o \in Objects |-> 0]
    /\ requeued = [o \in Objects |-> TRUE]
    /\ sinceSent = [n \in Names |-> None]

\* The reconcile calls triggerWebHook; checkForExistingRequest, first
\* critical section: delta is time.Since the entry was made (an age of a
\* ticks is between a and a + 1 ticks, counted as a + 1), or 0 when there
\* is no entry or it reached the interval.  The reconcile posts only when
\* delta = 0; otherwise it returns RequeueAfter delta.
Check(o) ==
    /\ pc[o] = "idle"
    /\ requeued[o]
    /\ LET a == inflight[NameOf[o]]
           delta == IF a = None \/ a >= Interval THEN 0 ELSE a + 1
       IN /\ requeue' = [requeue EXCEPT ![o] = delta]
          /\ after' = [after EXCEPT ![o] = IF delta = 0 THEN "post" ELSE "idle"]
    /\ pc' = [pc EXCEPT ![o] = "scan"]
    /\ requeued' = [requeued EXCEPT ![o] = FALSE]
    /\ UNCHANGED <<inflight, expired, sinceSent>>

\* purgeExpiredRequests, under RLock: the names whose entry is older than
\* the interval (time.Since > interval; an entry of age Interval is
\* already past it).
PurgeScan(o) ==
    /\ pc[o] = "scan"
    /\ expired' = [expired EXCEPT ![o] =
                     {n \in Names : inflight[n] # None /\ inflight[n] >= Interval}]
    /\ pc' = [pc EXCEPT ![o] = "purge"]
    /\ UNCHANGED <<inflight, after, requeue, requeued, sinceSent>>

\* purgeExpiredRequests, under Lock: delete the collected names as they
\* are now, whatever was written since the scan.
PurgeDelete(o) ==
    /\ pc[o] = "purge"
    /\ inflight' = [n \in Names |-> IF n \in expired[o] THEN None ELSE inflight[n]]
    /\ expired' = [expired EXCEPT ![o] = {}]
    /\ pc' = [pc EXCEPT ![o] = after[o]]
    /\ UNCHANGED <<after, requeue, requeued, sinceSent>>

\* The POST reaches the receiver, which answers 2xx.
PostOk(o) ==
    /\ pc[o] = "post"
    /\ pc' = [pc EXCEPT ![o] = "add"]
    /\ sinceSent' = [sinceSent EXCEPT ![NameOf[o]] = 0]
    /\ UNCHANGED <<inflight, after, expired, requeue, requeued>>

\* The POST fails before reaching the receiver (connection refused, non
\* 2xx): triggerWebHook returns the error, the reconcile asks for Requeue.
PostFail(o) ==
    /\ pc[o] = "post"
    /\ pc' = [pc EXCEPT ![o] = "idle"]
    /\ requeued' = [requeued EXCEPT ![o] = TRUE]
    /\ UNCHANGED <<inflight, after, expired, requeue, sinceSent>>

\* The POST reaches the receiver but the client gives up (10 s timeout):
\* an error as above, though the request was delivered.
PostTimeout(o) ==
    /\ Timeouts
    /\ pc[o] = "post"
    /\ pc' = [pc EXCEPT ![o] = "idle"]
    /\ requeued' = [requeued EXCEPT ![o] = TRUE]
    /\ sinceSent' = [sinceSent EXCEPT ![NameOf[o]] = 0]
    /\ UNCHANGED <<inflight, after, expired, requeue>>

\* A skipped reconcile is requeued after delta.
Skipped(o) ==
    /\ pc[o] = "idle"
    /\ ~requeued[o]
    /\ requeue[o] # 0
    /\ requeued' = [requeued EXCEPT ![o] = TRUE]
    /\ requeue' = [requeue EXCEPT ![o] = 0]
    /\ UNCHANGED <<inflight, pc, after, expired, sinceSent>>

\* Any other watch event on the object (a status update) runs its
\* reconcile again.
Event(o) ==
    /\ ~requeued[o]
    /\ requeued' = [requeued EXCEPT ![o] = TRUE]
    /\ UNCHANGED <<inflight, pc, after, expired, requeue, sinceSent>>

\* addInflightRequest: record the entry with age 0, then purge.
Add(o) ==
    /\ pc[o] = "add"
    /\ inflight' = [inflight EXCEPT ![NameOf[o]] = 0]
    /\ after' = [after EXCEPT ![o] = "idle"]
    /\ pc' = [pc EXCEPT ![o] = "scan"]
    /\ UNCHANGED <<expired, requeue, requeued, sinceSent>>

\* A tick of time.
Tick ==
    /\ \E n \in Names : inflight[n] \notin {None, Interval + 1}
                        \/ sinceSent[n] \notin {None, Interval + 1}
    /\ inflight' = [n \in Names |-> IF inflight[n] = None THEN None
                                    ELSE Older(inflight[n])]
    /\ sinceSent' = [n \in Names |-> IF sinceSent[n] = None THEN None
                                     ELSE Older(sinceSent[n])]
    /\ UNCHANGED <<pc, after, expired, requeue, requeued>>

Next ==
    \/ Tick
    \/ \E o \in Objects :
         \/ Check(o) \/ PurgeScan(o) \/ PurgeDelete(o) \/ Add(o)
         \/ PostOk(o) \/ PostFail(o) \/ PostTimeout(o)
         \/ Skipped(o) \/ Event(o)

Spec == Init /\ [][Next]_vars

-----------------------------------------------------------------------------
TypeOK ==
    /\ inflight \in [Names -> Ages \cup {None}]
    /\ pc \in [Objects -> {"idle", "scan", "purge", "post", "add"}]
    /\ after \in [Objects -> {"idle", "post"}]
    /\ expired \in [Objects -> SUBSET Names]
    /\ requeue \in [Objects -> 0..Interval]
    /\ requeued \in [Objects -> BOOLEAN]
    /\ sinceSent \in [Names -> Ages \cup {None}]

\* The receiver never gets two POSTs for one name less than the minimum
\* interval apart (spec.md 4.12: within that interval the call is
\* skipped).
NoRefireWithinInterval ==
    [][\A o \in Objects :
         PostOk(o) \/ PostTimeout(o) =>
           sinceSent[NameOf[o]] = None \/ sinceSent[NameOf[o]] >= Interval]_vars

=============================================================================
