--------------------------- MODULE ArtifactStore ---------------------------
(***************************************************************************)
(* The metadata database and the content-addressed blob store of one       *)
(* forklift instance: artifacts refer to blobs by digest, blob rows carry a *)
(* reference count, and a background sweeper reclaims the bytes of blobs    *)
(* whose count is zero.                                                     *)
(*                                                                          *)
(* The database has one connection (meta.openAndMigrate), so a transaction  *)
(* is one atomic step.  The blob store is a separate file system or bucket: *)
(* every call on it is a step of its own, and request goroutines, the       *)
(* sweeper and the administration API interleave between those steps.       *)
(***************************************************************************)
EXTENDS Integers, FiniteSets

CONSTANTS
    Repos,        \* repository ids (AUTOINCREMENT: a deleted id never returns)
    Paths,        \* repo-relative storage keys
    Digests,      \* SHA-256 digests
    Writers,      \* request goroutines that store an artifact
    None,         \* "no artifact at this path", "no digest in hand"
    SweepLimit,   \* LIMIT of the sweeper's query (256 in sweepOnce)
    MaxCrashes    \* bound on process restarts

ASSUME StoreAssumption ==
    /\ IsFiniteSet(Repos) /\ IsFiniteSet(Paths) /\ IsFiniteSet(Digests)
    /\ None \notin Digests
    /\ SweepLimit \in Nat \ {0}
    /\ MaxCrashes \in Nat

VARIABLES
    repos,        \* per id: "unused", "live" or "deleted"
    artifacts,    \* table artifacts: (repo, path) -> blob_sha256, or None
    blobs,        \* digests that have a row in table blobs
    refCount,     \* blobs.ref_count; 0 for a digest with no row
    bytes,        \* digests whose bytes are in the blob store
    writers,      \* per request: what it stores and how far it got
    sweepTodo,    \* digests sweepOnce listed and has not reached yet
    sweepCur,     \* digest whose bytes are deleted and whose row is not yet
    crashes,
    raced         \* history: digests whose bytes the sweeper deleted while
                  \* an artifact or a request in flight relied on them

vars == <<repos, artifacts, blobs, refCount, bytes, writers, sweepTodo,
          sweepCur, crashes, raced>>

Key == Repos \X Paths

\* "store" is Engine.storeArtifact (proxy cache fill, Engine.put); "upload" is
\* pypiUpload, which stores the bytes before it knows the form is valid.
BusyWriter ==
    [pc : {"stat", "rename", "record"}, kind : {"store", "upload"},
     key : Key, digest : Digests]
IdleWriter == [pc |-> "idle", kind |-> "store", key |-> None, digest |-> None]

TypeOK ==
    /\ repos \in [Repos -> {"unused", "live", "deleted"}]
    /\ artifacts \in [Key -> Digests \cup {None}]
    /\ blobs \in SUBSET Digests
    /\ refCount \in [Digests -> Int]
    /\ bytes \in SUBSET Digests
    /\ writers \in [Writers -> BusyWriter \cup {IdleWriter}]
    /\ sweepTodo \in SUBSET Digests
    /\ sweepCur \in Digests \cup {None}
    /\ crashes \in 0..MaxCrashes
    /\ raced \in SUBSET Digests

\* The artifacts that refer to digest d.
Refs(d) == {k \in Key : artifacts[k] = d}

\* A request that has the bytes of d in the store and no row for them yet.
InFlight(d) == \E w \in Writers : writers[w].pc = "record" /\ writers[w].digest = d

\* Mutant: a finished request keeps its key and digest.
IdleKeepsKey(w) == [writers EXCEPT ![w].pc = "idle"]

\* A request that ended keeps no state.
Idle(w) == [writers EXCEPT ![w] = IdleWriter]

Init ==
    /\ repos = [r \in Repos |-> "unused"]
    /\ artifacts = [k \in Key |-> None]
    /\ blobs = {}
    /\ refCount = [d \in Digests |-> 0]
    /\ bytes = {}
    /\ writers = [w \in Writers |-> IdleWriter]
    /\ sweepTodo = {}
    /\ sweepCur = None
    /\ crashes = 0
    /\ raced = {}

-----------------------------------------------------------------------------
(* Storing an artifact: BlobStore.Put, then the database transaction.       *)

\* A request resolved repository k[1] and starts streaming a body whose digest
\* will be d.
StartWrite(w, kind, k, d) ==
    /\ writers[w].pc = "idle"
    /\ repos[k[1]] = "live"
    /\ writers' = [writers EXCEPT ![w] =
                      [pc |-> "stat", kind |-> kind, key |-> k, digest |-> d]]
    /\ UNCHANGED <<repos, artifacts, blobs, refCount, bytes, sweepTodo,
                   sweepCur, crashes, raced>>

\* FSStore.Put / S3Store.Put: bytes already under the digest are kept.
PutStat(w) ==
    /\ writers[w].pc = "stat"
    /\ writers' = [writers EXCEPT ![w].pc =
                      IF writers[w].digest \in bytes THEN "record" ELSE "rename"]
    /\ UNCHANGED <<repos, artifacts, blobs, refCount, bytes, sweepTodo,
                   sweepCur, crashes, raced>>

\* FSStore.Put: the temp file is renamed to the digest path.
PutRename(w) ==
    /\ writers[w].pc = "rename"
    /\ bytes' = bytes \cup {writers[w].digest}
    /\ raced' = raced \ {writers[w].digest}
    /\ writers' = [writers EXCEPT ![w].pc = "record"]
    /\ UNCHANGED <<repos, artifacts, blobs, refCount, sweepTodo, sweepCur,
                   crashes>>

\* BlobStore.Put returns an error (body cut short, disk full).
PutFails(w) ==
    /\ writers[w].pc \in {"stat", "rename"}
    /\ writers' = Idle(w)
    /\ UNCHANGED <<repos, artifacts, blobs, refCount, bytes, sweepTodo,
                   sweepCur, crashes, raced>>

\* Mutant: an overwrite releases the old digest and does not count the new one.
RefCountOfNewRowsOnly(k, d) ==
    [x \in Digests |-> refCount[x] + (IF x = d /\ artifacts[k] = None THEN 1 ELSE 0)
                                   - (IF x = artifacts[k] THEN 1 ELSE 0)]

\* ref_count after PutArtifact moved key k to digest d.
RefCountAfterPut(k, d) ==
    IF artifacts[k] = d THEN refCount
    ELSE [x \in Digests |-> refCount[x] + (IF x = d THEN 1 ELSE 0)
                                       - (IF x = artifacts[k] THEN 1 ELSE 0)]

\* Store.PutArtifact commits: blob row ensured, artifact upserted, counts moved.
\* The foreign key on repo_id lets it commit only while the repository exists.
PutArtifact(w) ==
    LET k == writers[w].key
        d == writers[w].digest
    IN /\ writers[w].pc = "record"
       /\ repos[k[1]] = "live"
       /\ blobs' = blobs \cup {d}
       /\ artifacts' = [artifacts EXCEPT ![k] = d]
       /\ refCount' = RefCountAfterPut(k, d)
       /\ writers' = Idle(w)
       /\ UNCHANGED <<repos, bytes, sweepTodo, sweepCur, crashes, raced>>

\* PutArtifact rolls back: repository deleted meanwhile, or a database error.
\* Neither storeArtifact nor pypiUpload undoes the Put.
PutArtifactFails(w) ==
    /\ writers[w].pc = "record"
    /\ writers' = Idle(w)
    /\ UNCHANGED <<repos, artifacts, blobs, refCount, bytes, sweepTodo,
                   sweepCur, crashes, raced>>

\* Mutant: the rejected upload deletes its bytes instead of leaving them to the
\* sweeper; another artifact may share them.
AbandonDeletesBytes(w) ==
    /\ writers[w].pc = "record"
    /\ writers[w].kind = "upload"
    /\ bytes' = bytes \ {writers[w].digest}
    /\ writers' = Idle(w)
    /\ UNCHANGED <<repos, artifacts, blobs, refCount, sweepTodo, sweepCur,
                   crashes, raced>>

\* pypiUpload rejects a form it read to the end: abandonBlob -> EnsureBlob.
AbandonUpload(w) ==
    /\ writers[w].pc = "record"
    /\ writers[w].kind = "upload"
    /\ blobs' = blobs \cup {writers[w].digest}
    /\ writers' = Idle(w)
    /\ UNCHANGED <<repos, artifacts, refCount, bytes, sweepTodo, sweepCur,
                   crashes, raced>>

\* pypiUpload returns from inside the part loop (malformed multipart, second
\* content part, unreadable field) after the content part was stored; an
\* EnsureBlob that fails, which abandonBlob only logs, has the same effect.
RejectUpload(w) ==
    /\ writers[w].pc = "record"
    /\ writers[w].kind = "upload"
    /\ writers' = Idle(w)
    /\ UNCHANGED <<repos, artifacts, blobs, refCount, bytes, sweepTodo,
                   sweepCur, crashes, raced>>

-----------------------------------------------------------------------------
(* Deleting artifacts and repositories.                                     *)

\* Store.CreateRepository: a fresh id.
CreateRepository(r) ==
    /\ repos[r] = "unused"
    /\ repos' = [repos EXCEPT ![r] = "live"]
    /\ UNCHANGED <<artifacts, blobs, refCount, bytes, writers, sweepTodo,
                   sweepCur, crashes, raced>>

\* Store.DeleteArtifact (API delete, EvictLRU, idle reaper).
DeleteArtifact(k) ==
    /\ artifacts[k] # None
    /\ artifacts' = [artifacts EXCEPT ![k] = None]
    /\ refCount' = [refCount EXCEPT ![artifacts[k]] = @ - 1]
    /\ UNCHANGED <<repos, blobs, bytes, writers, sweepTodo, sweepCur, crashes,
                   raced>>

\* The artifacts of repository r that refer to d.
RepoRefs(r, d) == {k \in Refs(d) : k[1] = r}

WithoutRepo(r) == [k \in Key |-> IF k[1] = r THEN None ELSE artifacts[k]]

\* Mutant: a purge takes one reference per blob, however many rows referred to it.
PurgeTakesOne(r) ==
    /\ repos[r] = "live"
    /\ artifacts' = WithoutRepo(r)
    /\ refCount' = [d \in Digests |->
                      refCount[d] - (IF RepoRefs(r, d) # {} THEN 1 ELSE 0)]
    /\ UNCHANGED <<repos, blobs, bytes, writers, sweepTodo, sweepCur, crashes,
                   raced>>

\* Store.PurgeArtifacts: every artifact of r goes, and every count drops by the
\* number of rows that referred to it.
PurgeArtifacts(r) ==
    /\ repos[r] = "live"
    /\ artifacts' = WithoutRepo(r)
    /\ refCount' = [d \in Digests |-> refCount[d] - Cardinality(RepoRefs(r, d))]
    /\ UNCHANGED <<repos, blobs, bytes, writers, sweepTodo, sweepCur, crashes,
                   raced>>

\* Store.DeleteRepository: every count the repository's artifacts refer to drops
\* by one, then the artifacts cascade away with the repository row.
DeleteRepository(r) ==
    /\ repos[r] = "live"
    /\ repos' = [repos EXCEPT ![r] = "deleted"]
    /\ artifacts' = WithoutRepo(r)
    /\ refCount' = [d \in Digests |->
                      refCount[d] - (IF RepoRefs(r, d) # {} THEN 1 ELSE 0)]
    /\ UNCHANGED <<blobs, bytes, writers, sweepTodo, sweepCur, crashes, raced>>

-----------------------------------------------------------------------------
(* Engine.sweepOnce.                                                        *)

Unreferenced == {d \in blobs : refCount[d] <= 0}

\* Store.ListUnreferencedBlobs: up to SweepLimit rows, in no stated order.
SweepList ==
    /\ sweepTodo = {} /\ sweepCur = None
    /\ \E S \in SUBSET Unreferenced :
          /\ S # {}
          /\ Cardinality(S) <= SweepLimit
          /\ S = Unreferenced \/ Cardinality(S) = SweepLimit
          /\ sweepTodo' = S
    /\ UNCHANGED <<repos, artifacts, blobs, refCount, bytes, writers, sweepCur,
                   crashes, raced>>

\* Mutant: deleting bytes that are not there is an error.
SweepBytesOnlyIfPresent(d) ==
    /\ sweepCur = None
    /\ d \in sweepTodo \cap bytes
    /\ sweepTodo' = sweepTodo \ {d}
    /\ sweepCur' = d
    /\ bytes' = bytes \ {d}
    /\ raced' = IF Refs(d) # {} \/ InFlight(d) THEN raced \cup {d} ELSE raced
    /\ UNCHANGED <<repos, artifacts, blobs, refCount, writers, crashes>>

\* BlobStore.Delete of the next listed digest.  The count is not read again.
SweepBytes(d) ==
    /\ sweepCur = None
    /\ d \in sweepTodo
    /\ sweepTodo' = sweepTodo \ {d}
    /\ sweepCur' = d
    /\ bytes' = bytes \ {d}
    /\ raced' = IF Refs(d) # {} \/ InFlight(d) THEN raced \cup {d} ELSE raced
    /\ UNCHANGED <<repos, artifacts, blobs, refCount, writers, crashes>>

\* BlobStore.Delete fails: logged, next digest.
SweepBytesFails(d) ==
    /\ sweepCur = None
    /\ d \in sweepTodo
    /\ sweepTodo' = sweepTodo \ {d}
    /\ UNCHANGED <<repos, artifacts, blobs, refCount, bytes, writers, sweepCur,
                   crashes, raced>>

\* Mutant: the row goes without a second look at ref_count.
DeleteBlobRecordUnchecked ==
    /\ sweepCur # None
    /\ blobs' = blobs \ {sweepCur}
    /\ refCount' = [refCount EXCEPT ![sweepCur] = 0]
    /\ sweepCur' = None
    /\ UNCHANGED <<repos, artifacts, bytes, writers, sweepTodo, crashes, raced>>

\* Store.DeleteBlobRecord: DELETE ... WHERE sha256 = ? AND ref_count <= 0.
DeleteBlobRecord ==
    /\ sweepCur # None
    /\ blobs' = IF refCount[sweepCur] <= 0 THEN blobs \ {sweepCur} ELSE blobs
    /\ refCount' = IF refCount[sweepCur] <= 0
                   THEN [refCount EXCEPT ![sweepCur] = 0] ELSE refCount
    /\ sweepCur' = None
    /\ UNCHANGED <<repos, artifacts, bytes, writers, sweepTodo, crashes, raced>>

\* DeleteBlobRecord fails: logged, next digest.
DeleteBlobRecordFails ==
    /\ sweepCur # None
    /\ sweepCur' = None
    /\ UNCHANGED <<repos, artifacts, blobs, refCount, bytes, writers, sweepTodo,
                   crashes, raced>>

\* The process dies and comes back: requests and the sweep in progress are
\* gone, the database and the blob store are as they were.
Restart ==
    /\ crashes < MaxCrashes
    /\ crashes' = crashes + 1
    /\ writers' = [w \in Writers |-> IdleWriter]
    /\ sweepTodo' = {} /\ sweepCur' = None
    /\ UNCHANGED <<repos, artifacts, blobs, refCount, bytes, raced>>

WriterNext(w) ==
    \/ \E kind \in {"store", "upload"}, k \in Key, d \in Digests :
          StartWrite(w, kind, k, d)
    \/ PutStat(w) \/ PutRename(w) \/ PutFails(w)
    \/ AbandonUpload(w) \/ RejectUpload(w)
    \/ PutArtifact(w) \/ PutArtifactFails(w)

AdminNext ==
    \/ \E r \in Repos : CreateRepository(r) \/ PurgeArtifacts(r) \/ DeleteRepository(r)
    \/ \E k \in Key : DeleteArtifact(k)

SweepNext ==
    \/ SweepList
    \/ \E d \in Digests : SweepBytes(d) \/ SweepBytesFails(d)
    \/ DeleteBlobRecord \/ DeleteBlobRecordFails

Next ==
    \/ \E w \in Writers : WriterNext(w)
    \/ AdminNext
    \/ SweepNext
    \/ Restart

Spec == Init /\ [][Next]_vars

\* The sweeper's ticker keeps firing while the process leads, and a blob store
\* or a database that fails is assumed to answer again some time.
SweeperFairness ==
    /\ WF_vars(SweepList)
    /\ \A d \in Digests : /\ SF_vars(SweepBytes(d))
                           /\ SF_vars(sweepCur = d /\ DeleteBlobRecord)

FairSpec == Spec /\ SweeperFairness

-----------------------------------------------------------------------------
(* Properties.                                                              *)

\* Reference counts err only upwards: a blob row's ref_count is never below the
\* number of artifacts that refer to it, and every digest an artifact refers to
\* has a row, so the sweeper's ref_count <= 0 test never selects, and
\* DeleteBlobRecord never removes, the row of a blob in use.
RefCountSafe ==
    \A d \in Digests :
        /\ refCount[d] >= Cardinality(Refs(d))
        /\ Refs(d) # {} => d \in blobs
        /\ d \notin blobs => refCount[d] = 0

\* The only way an artifact (or a request about to record one) can lack its
\* bytes is sweepOnce deleting them after it listed the digest as unreferenced
\* and a request took the digest up again; no upload, abandon, delete, purge,
\* repository deletion or restart loses bytes in use.
BytesLostOnlyByStaleSweep ==
    \A d \in Digests : Refs(d) # {} \/ InFlight(d) => d \in bytes \cup raced

\* Only DeleteRepository changes how far a ref_count is above the number of
\* references; PutArtifact, DeleteArtifact, PurgeArtifacts and DeleteBlobRecord
\* keep count and references in step.
Surplus(d) == refCount[d] - Cardinality(Refs(d))
LeakOnlyByDeleteRepository ==
    [][\A d \in Digests :
          Surplus(d)' # Surplus(d) => \E r \in Repos : repos[r] = "live" /\ repos'[r] = "deleted"]_vars

\* A blob row whose ref_count is zero is reclaimed or referred to again
\* (RunSweeper keeps sweeping, EnsureBlob hands abandoned uploads to it).
UnreferencedReclaimed ==
    \A d \in Digests : (d \in Unreferenced) ~> (d \notin Unreferenced)

\* The abstract tables: the references of artifacts and the rows, whatever
\* their counts, the bytes and the requests in flight.
Ledger == INSTANCE BlobLedger WITH links <- artifacts, rows <- blobs

\* DeleteBlobRecord, the only step that forgets a row, decides by ref_count; it
\* never forgets the row of a blob an artifact still refers to.
ImplementsLedger == Ledger!Spec

\* What "decremented first so unreferenced blobs can be garbage-collected"
\* (DeleteRepository) needs: a ref_count is the number of references.
RefCountExact == \A d \in Digests : refCount[d] = Cardinality(Refs(d))

\* RunSweeper "reclaims blob bytes whose reference count has dropped to zero":
\* the bytes of a blob some artifact refers to are in the store.
ArtifactBytesPresent == \A d \in Digests : Refs(d) # {} => d \in bytes
=============================================================================
