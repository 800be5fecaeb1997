----------------------------- MODULE LocalStore -----------------------------
(***************************************************************************)
(* The SQLite database on a pod's own volume, as the two HA modes that keep *)
(* one per pod (MetaSync, Replicator) see it.                               *)
(***************************************************************************)
VARIABLES
    db,           \* per pod: what its database file holds
    open          \* per pod: the Store's handle answers queries

\* Store.SwapFromSnapshot: the old handle is closed first; an error after that
\* (certain once the context is cancelled: PingContext) leaves the Store with a
\* closed handle, before or after the file was replaced.
SwapFromSnapshot(p, content, live) ==
    \/ /\ live
       /\ db' = [db EXCEPT ![p] = content]
       /\ open' = [open EXCEPT ![p] = TRUE]
    \/ /\ db' \in {db, [db EXCEPT ![p] = content]}
       /\ open' = [open EXCEPT ![p] = FALSE]
=============================================================================
