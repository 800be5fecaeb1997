----------------------------- MODULE Replicator -----------------------------
(***************************************************************************)
(* PV replication: every pod has a database and a blob store on its own     *)
(* volume.  A standby pulls the Lease holder's database snapshot, mirrors   *)
(* its blobs by a merge of two ordered listings, and only then commits the  *)
(* snapshot; startLeading applies the committed one.                        *)
(*                                                                          *)
(* Every HTTP call to the leader is a step: clients write, the sweeper runs *)
(* and the Lease changes hands between them.                                *)
(***************************************************************************)
EXTENDS Leadership, LocalStore, FiniteSetsExt

CONSTANTS
    MaxDigest,    \* digests are 1..MaxDigest, in lexicographic order
    PageSize,     \* defaultPageSize of the blob listing
    MaxRequests,  \* bound on clients' stores and deletes
    MaxCrashes    \* bound on pod restarts

ASSUME ReplicatorAssumption ==
    /\ MaxDigest \in Nat /\ PageSize \in Nat \ {0}
    /\ MaxRequests \in Nat /\ MaxCrashes \in Nat

Digests == 1..MaxDigest

VARIABLES
    isLeader,     \* per pod: Replicator.isLeader
    bytes,        \* per pod: digests in its blob store
    snap,         \* per pod: {the snapshot at snapshotPath}, {} for ""
    sync,         \* per pod: the cycle that holds syncMu
    dropped,      \* history: digests whose row or bytes some pod gave up
    requests,     \* stores and deletes so far
    crashes

vars == <<holder, transitions, nterms, terms, isLeader, db, open, bytes, snap,
          sync, dropped, requests, crashes>>

\* Blob rows, and the digests artifacts refer to.
Database == {d \in [rows : SUBSET Digests, refs : SUBSET Digests] : d.refs \subseteq d.rows}
Empty == [rows |-> {}, refs |-> {}]

\* from: the pod resolved as leader; tmp: its snapshot; cur: the last digest
\* merged; page: the listing page in hand; last: the listing is complete.
Cycle == [pc : {"idle", "db", "merge"}, from : Pods \cup {None}, tmp : Database,
          cur : 0..MaxDigest, page : SUBSET Digests, last : BOOLEAN]
NoCycle == [pc |-> "idle", from |-> None, tmp |-> Empty, cur |-> 0, page |-> {},
            last |-> FALSE]

TypeOK ==
    /\ LeaseTypeOK
    /\ isLeader \in [Pods -> BOOLEAN]
    /\ db \in [Pods -> Database]
    /\ open \in [Pods -> BOOLEAN]
    /\ bytes \in [Pods -> SUBSET Digests]
    /\ snap \in [Pods -> {{}} \cup {{c} : c \in Database}]
    /\ sync \in [Pods -> Cycle]
    /\ \A p \in Pods : sync[p].pc # "idle" => sync[p].from \in Pods \ {p}
    /\ dropped \in SUBSET Digests
    /\ requests \in 0..MaxRequests
    /\ crashes \in 0..MaxCrashes

Init ==
    /\ LeaseInit
    /\ isLeader = [p \in Pods |-> FALSE]
    /\ db = [p \in Pods |-> Empty]
    /\ open = [p \in Pods |-> TRUE]
    /\ bytes = [p \in Pods |-> {}]
    /\ snap = [p \in Pods |-> {}]
    /\ sync = [p \in Pods |-> NoCycle]
    /\ dropped = {}
    /\ requests = 0
    /\ crashes = 0

-----------------------------------------------------------------------------
(* Leadership.                                                              *)

Elected(p) ==
    /\ Acquire(p)
    /\ UNCHANGED <<isLeader, db, open, bytes, snap, sync, dropped, requests, crashes>>

\* The term ends and stopLeading runs Replicator.Demote.
Stop(t) ==
    /\ EndTerm(t)
    /\ isLeader' = [isLeader EXCEPT ![terms[t].pod] = FALSE]
    /\ UNCHANGED <<db, open, bytes, snap, sync, dropped, requests, crashes>>

\* Replicator.Promote: isLeader.Store(true), before syncMu is taken.
PromoteFlag(t) ==
    /\ Advance(t, "start", "swap")
    /\ isLeader' = [isLeader EXCEPT ![terms[t].pod] = TRUE]
    /\ UNCHANGED <<db, open, bytes, snap, sync, dropped, requests, crashes>>

\* Promote under syncMu: apply the committed snapshot.  An error is logged and
\* startLeading goes on.
PromoteSwap(t) ==
    LET p == terms[t].pod IN
    /\ Advance(t, "swap", "done")
    /\ sync[p].pc = "idle"
    /\ \/ snap[p] = {} /\ UNCHANGED <<db, open>>
       \/ \E c \in snap[p] : SwapFromSnapshot(p, c, terms[t].live)
    /\ snap' = [snap EXCEPT ![p] = {}]
    /\ dropped' = dropped \cup (db[p].rows \ db'[p].rows)
    /\ UNCHANGED <<isLeader, bytes, sync, requests, crashes>>

-----------------------------------------------------------------------------
(* Replicator.sync, one cycle of a standby.                                 *)

\* Mutant: the pod's own identity is not told apart.
AnyHolder(p) == holder

\* LeaseLeaderURL: None when nobody or this pod itself holds the Lease.
LeaseLeader(p) == IF holder = p THEN None ELSE holder

\* The cycle starts unless this pod leads, with the leader of the moment.
ResolveLeader(p) ==
    /\ sync[p].pc = "idle"
    /\ ~isLeader[p]
    /\ LeaseLeader(p) # None
    /\ sync' = [sync EXCEPT ![p] = [NoCycle EXCEPT !.pc = "db", !.from = LeaseLeader(p)]]
    /\ UNCHANGED <<leaseVars, terms, isLeader, db, open, bytes, snap, dropped, requests, crashes>>

\* downloadSnapshot: the leader's database as it is now, into the temp file.
DownloadSnapshot(p) ==
    LET q == sync[p].from IN
    /\ sync[p].pc = "db"
    /\ open[q]
    /\ sync' = [sync EXCEPT ![p] = [@ EXCEPT !.pc = "merge", !.tmp = db[q]]]
    /\ UNCHANGED <<leaseVars, terms, isLeader, db, open, bytes, snap, dropped, requests, crashes>>

\* Both listings beyond the last digest merged.
Remote(p) == {d \in sync[p].page : d > sync[p].cur}
Local(p) == {d \in bytes[p] : d > sync[p].cur}

\* ListBlobDigests: up to PageSize rows strictly after the cursor, in order.
PageAfter(rows, after) ==
    LET beyond == {d \in rows : d > after}
    IN  {d \in beyond : Cardinality({e \in beyond : e < d}) < PageSize}

\* fetchBlobPage, once the page in hand is used up: the leader's rows as they
\* are now.  An empty page completes the listing.
FetchBlobPage(p) ==
    LET q == sync[p].from
        page == PageAfter(db[q].rows, sync[p].cur)
    IN  /\ sync[p].pc = "merge"
        /\ ~sync[p].last
        /\ Remote(p) = {}
        /\ open[q]
        /\ sync' = [sync EXCEPT ![p] = [@ EXCEPT !.page = page, !.last = (page = {})]]
        /\ UNCHANGED <<leaseVars, terms, isLeader, db, open, bytes, snap, dropped, requests, crashes>>

\* One round of syncBlobs' merge: fetch what only the leader listed (a 404 is
\* taken for a blob the leader has collected since), delete what only this pod
\* has.
MergeDigest(p) ==
    LET d == Min(Remote(p) \cup Local(p))
        q == sync[p].from
    IN  /\ sync[p].pc = "merge"
        /\ Remote(p) # {} \/ (sync[p].last /\ Local(p) # {})
        /\ bytes' = [bytes EXCEPT ![p] =
              IF d \notin Remote(p) THEN @ \ {d}
              ELSE IF d \in bytes[q] THEN @ \cup {d} ELSE @]
        /\ dropped' = dropped \cup (bytes[p] \ bytes'[p])
        /\ sync' = [sync EXCEPT ![p].cur = d]
        /\ UNCHANGED <<leaseVars, terms, isLeader, db, open, snap, requests, crashes>>

\* Mutant: the snapshot is committed before the blobs are mirrored.
CommitFirst(p) == TRUE

\* syncBlobs returns when both listings are done.
BlobsMirrored(p) == sync[p].last /\ Remote(p) \cup Local(p) = {}

\* The temp file is renamed.
Commit(p) ==
    /\ sync[p].pc = "merge"
    /\ BlobsMirrored(p)
    /\ snap' = [snap EXCEPT ![p] = {sync[p].tmp}]
    /\ sync' = [sync EXCEPT ![p] = NoCycle]
    /\ UNCHANGED <<leaseVars, terms, isLeader, db, open, bytes, dropped, requests, crashes>>

\* A call to the leader or the local store failed: the temp file is removed, what
\* was merged stays.
SyncFails(p) ==
    /\ sync[p].pc # "idle"
    /\ sync' = [sync EXCEPT ![p] = NoCycle]
    /\ UNCHANGED <<leaseVars, terms, isLeader, db, open, bytes, snap, dropped, requests, crashes>>

-----------------------------------------------------------------------------
(* The artifact store of a pod that serves clients (see ArtifactStore), and *)
(* restarts.                                                                *)

\* The label that routes clients to a pod is set after the promotion and may
\* outlive the term (see LeaderLabels).
Serves(p) == open[p] /\ \E t \in TermIds : terms[t].pod = p /\ terms[t].pc = "done"

\* Mutant: the rows are written although the bytes were not.
RecordOnly(p, d) ==
    /\ requests < MaxRequests
    /\ requests' = requests + 1
    /\ Serves(p)
    /\ d \notin db[p].refs
    /\ db' = [db EXCEPT ![p] = [rows |-> @.rows \cup {d}, refs |-> @.refs \cup {d}]]
    /\ UNCHANGED <<leaseVars, terms, isLeader, open, bytes, snap, sync, dropped, crashes>>

\* Engine.storeArtifact: bytes first, then the rows.
StoreArtifact(p, d) ==
    /\ requests < MaxRequests
    /\ requests' = requests + 1
    /\ Serves(p)
    /\ d \notin db[p].refs
    /\ bytes' = [bytes EXCEPT ![p] = @ \cup {d}]
    /\ db' = [db EXCEPT ![p] = [rows |-> @.rows \cup {d}, refs |-> @.refs \cup {d}]]
    /\ UNCHANGED <<leaseVars, terms, isLeader, open, snap, sync, dropped, crashes>>

\* The last artifact with this digest is deleted; its blob row stays.
DeleteArtifact(p, d) ==
    /\ requests < MaxRequests
    /\ requests' = requests + 1
    /\ Serves(p)
    /\ d \in db[p].refs
    /\ db' = [db EXCEPT ![p].refs = @ \ {d}]
    /\ UNCHANGED <<leaseVars, terms, isLeader, open, bytes, snap, sync, dropped, crashes>>

\* The sweeper of a live term: bytes, then row.
Sweep(t, d) ==
    LET p == terms[t].pod IN
    /\ terms[t].live /\ terms[t].pc = "done"
    /\ open[p]
    /\ d \in db[p].rows \ db[p].refs
    /\ bytes' = [bytes EXCEPT ![p] = @ \ {d}]
    /\ db' = [db EXCEPT ![p].rows = @ \ {d}]
    /\ dropped' = dropped \cup {d}
    /\ UNCHANGED <<leaseVars, terms, isLeader, open, snap, sync, requests, crashes>>

\* The process dies and comes back with its volume; Run clears the replica
\* directory.
Restart(p) ==
    /\ crashes < MaxCrashes
    /\ crashes' = crashes + 1
    /\ KillTerms(p)
    /\ isLeader' = [isLeader EXCEPT ![p] = FALSE]
    /\ open' = [open EXCEPT ![p] = TRUE]
    /\ snap' = [snap EXCEPT ![p] = {}]
    /\ sync' = [sync EXCEPT ![p] = NoCycle]
    /\ UNCHANGED <<db, bytes, dropped, requests>>

Sync(p) ==
    \/ ResolveLeader(p) \/ DownloadSnapshot(p) \/ FetchBlobPage(p) \/ MergeDigest(p)
    \/ Commit(p) \/ SyncFails(p)

Next ==
    \/ \E p \in Pods : Elected(p) \/ Sync(p) \/ Restart(p)
    \/ \E t \in TermIds : Stop(t) \/ PromoteFlag(t) \/ PromoteSwap(t)
    \/ \E p \in Pods, d \in Digests : StoreArtifact(p, d) \/ DeleteArtifact(p, d)
    \/ \E t \in TermIds, d \in Digests : Sweep(t, d)

Spec == Init /\ [][Next]_vars

-----------------------------------------------------------------------------
(* Properties.                                                              *)

\* "Snapshot first, blobs second, commit last": a committed snapshot refers to
\* no blob that was merely not fetched.  What it lacks, some pod has given up
\* (swept it, mirrored it away, or lost its row to an older snapshot).
CommittedLacksOnlyDropped ==
    \A p \in Pods : \A c \in snap[p] : c.refs \subseteq bytes[p] \cup dropped

\* The same of the database a pod serves or would serve when elected: of its own
\* data as well as of an applied snapshot, an artifact lacks its bytes only when
\* some pod has given them up.
LocalLacksOnlyDropped ==
    \A p \in Pods : db[p].refs \subseteq bytes[p] \cup dropped

\* Both of them: whatever a standby commits or a pod serves, in any interleaving of
\* the pull, the leader's requests and sweeps, and the election.
LacksOnlyDropped == CommittedLacksOnlyDropped /\ LocalLacksOnlyDropped

\* Replicator: "a committed snapshot never references blobs that were not
\* mirrored".
CommittedIsMirrored ==
    \A p \in Pods : \A c \in snap[p] : c.refs \subseteq bytes[p]
=============================================================================
