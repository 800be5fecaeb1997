------------------------ MODULE ArtifactStoreProofs ------------------------
(***************************************************************************)
(* Proofs about ArtifactStore, for any sets of repositories, paths,         *)
(* digests and requests.                                                    *)
(***************************************************************************)
EXTENDS ArtifactStore, FiniteSetTheorems, TLAPS

-----------------------------------------------------------------------------
(* How the set of keys that refer to a digest changes with the table.        *)

\* The keys that table f maps to digest d: Refs(d) is RefSet(artifacts, d).
RefSet(f, d) == {k \in Key : f[k] = d}

\* There are finitely many keys, so the references to a digest can be counted,
\* as can any part of them (PurgeArtifacts counts those of one repository).
LEMMA RefSetFinite ==
    ASSUME NEW f, NEW d, NEW S \in SUBSET RefSet(f, d)
    PROVE  /\ IsFiniteSet(S)
           /\ Cardinality(S) \in Nat
           /\ S = {} <=> Cardinality(S) = 0
<1>1. IsFiniteSet(Key)
  BY StoreAssumption, FS_Product DEF Key
<1>2. S \in SUBSET Key
  BY DEF RefSet
<1>3. IsFiniteSet(S)
  BY <1>1, <1>2, FS_Subset
<1> QED
  BY <1>3, FS_CardinalityType, FS_EmptySet

\* Writing at one key k (PutArtifact writes a digest, DeleteArtifact None) adds
\* a reference to what is written and takes one from what was there.
LEMMA RefSetUpdate ==
    ASSUME NEW f, NEW g, NEW d, NEW k \in Key,
           \A x \in Key : x # k => g[x] = f[x]
    PROVE  /\ f[k] = g[k] =>
                Cardinality(RefSet(g, d)) = Cardinality(RefSet(f, d))
           /\ f[k] # g[k] /\ d = g[k] =>
                Cardinality(RefSet(g, d)) = Cardinality(RefSet(f, d)) + 1
           /\ f[k] # g[k] /\ d = f[k] =>
                Cardinality(RefSet(g, d)) = Cardinality(RefSet(f, d)) - 1
           /\ d # g[k] /\ d # f[k] =>
                Cardinality(RefSet(g, d)) = Cardinality(RefSet(f, d))
<1>1. IsFiniteSet(RefSet(f, d))
  BY RefSetFinite
<1>2. CASE f[k] = g[k]
  <2>1. RefSet(g, d) = RefSet(f, d)
    BY <1>2 DEF RefSet
  <2> QED
    BY <1>2, <2>1
<1>3. CASE f[k] # g[k] /\ d = g[k]
  <2>1. RefSet(g, d) = RefSet(f, d) \cup {k} /\ k \notin RefSet(f, d)
    BY <1>3 DEF RefSet
  <2> QED
    BY <1>1, <1>3, <2>1, FS_AddElement, ZenonT(30)
<1>4. CASE f[k] # g[k] /\ d = f[k]
  <2>1. RefSet(g, d) = RefSet(f, d) \ {k} /\ k \in RefSet(f, d)
    BY <1>4 DEF RefSet
  <2> QED
    BY <1>1, <1>4, <2>1, FS_RemoveElement, Zenon
<1>5. CASE d # g[k] /\ d # f[k]
  <2>1. RefSet(g, d) = RefSet(f, d)
    BY <1>5 DEF RefSet
  <2> QED
    BY <1>5, <2>1
<1> QED
  BY <1>2, <1>3, <1>4, <1>5

\* Taking a set of keys away takes that many references away.
LEMMA RefSetMinus ==
    ASSUME NEW f, NEW d, NEW S \in SUBSET RefSet(f, d)
    PROVE  Cardinality(RefSet(f, d) \ S)
             = Cardinality(RefSet(f, d)) - Cardinality(S)
<1>1. RefSet(f, d) \cap S = S
  OBVIOUS
<1>2. IsFiniteSet(RefSet(f, d))
  BY RefSetFinite
<1> QED
  BY <1>1, <1>2, FS_Difference

-----------------------------------------------------------------------------
(* Type correctness.                                                        *)

\* Every step of Next keeps every variable in its type.
LEMMA TypeStep ==
    ASSUME TypeOK, [Next]_vars
    PROVE  TypeOK'
<1> USE DEF TypeOK
<1>1. ASSUME NEW w \in Writers, WriterNext(w) PROVE TypeOK'
  <2> USE DEF BusyWriter, IdleWriter, Idle
  <2>1. ASSUME NEW kind \in {"store", "upload"}, NEW k \in Key, NEW d \in Digests,
               StartWrite(w, kind, k, d)
        PROVE  TypeOK'
    BY <2>1 DEF StartWrite
  <2>2. CASE PutStat(w)
    BY <2>2 DEF PutStat
  <2>3. CASE PutRename(w)
    BY <2>3 DEF PutRename
  <2>4. CASE PutFails(w)
    BY <2>4 DEF PutFails
  <2>5. CASE PutArtifact(w)
    <3>1. writers[w] \in BusyWriter
      BY <2>5 DEF PutArtifact
    <3>2. refCount' \in [Digests -> Int]
      BY <2>5 DEF PutArtifact, RefCountAfterPut
    <3> QED
      BY <2>5, <3>1, <3>2 DEF PutArtifact
  <2>6. CASE PutArtifactFails(w)
    BY <2>6 DEF PutArtifactFails
  <2>7. CASE AbandonUpload(w)
    BY <2>7 DEF AbandonUpload
  <2>8. CASE RejectUpload(w)
    BY <2>8 DEF RejectUpload
  <2> QED
    BY <1>1, <2>1, <2>2, <2>3, <2>4, <2>5, <2>6, <2>7, <2>8, SMTT(120) DEF WriterNext
<1>2. CASE AdminNext
  <2>1. ASSUME NEW r \in Repos, CreateRepository(r) PROVE TypeOK'
    BY <2>1 DEF CreateRepository
  <2>2. ASSUME NEW r \in Repos, PurgeArtifacts(r) PROVE TypeOK'
    <3>1. \A d \in Digests :
             RepoRefs(r, d) = {k \in RefSet(artifacts, d) : k[1] = r}
      BY DEF RepoRefs, Refs, RefSet
    <3>2. ASSUME NEW d \in Digests PROVE Cardinality(RepoRefs(r, d)) \in Nat
      <4>1. RepoRefs(r, d) \in SUBSET RefSet(artifacts, d)
        BY <3>1
      <4> QED
        BY <4>1, RefSetFinite, Zenon
    <3> QED
      BY <2>2, <3>2 DEF PurgeArtifacts, WithoutRepo
  <2>3. ASSUME NEW r \in Repos, DeleteRepository(r) PROVE TypeOK'
    BY <2>3 DEF DeleteRepository, WithoutRepo
  <2>4. ASSUME NEW k \in Key, DeleteArtifact(k) PROVE TypeOK'
    BY <2>4 DEF DeleteArtifact
  <2> QED
    BY <1>2, <2>1, <2>2, <2>3, <2>4 DEF AdminNext
<1>3. CASE SweepNext
  <2>1. CASE SweepList
    BY <2>1 DEF SweepList, Unreferenced
  <2>2. ASSUME NEW d \in Digests, SweepBytes(d) PROVE TypeOK'
    BY <2>2 DEF SweepBytes
  <2>3. ASSUME NEW d \in Digests, SweepBytesFails(d) PROVE TypeOK'
    BY <2>3 DEF SweepBytesFails
  <2>4. CASE DeleteBlobRecord
    BY <2>4 DEF DeleteBlobRecord
  <2>5. CASE DeleteBlobRecordFails
    BY <2>5 DEF DeleteBlobRecordFails
  <2> QED
    BY <1>3, <2>1, <2>2, <2>3, <2>4, <2>5 DEF SweepNext
<1>4. CASE Restart
  BY <1>4, StoreAssumption DEF Restart
<1>5. CASE UNCHANGED vars
  BY <1>5 DEF vars
<1> QED
  BY <1>1, <1>2, <1>3, <1>4, <1>5, SMTT(30) DEF Next

\* Every variable keeps its type: in particular an idle request holds no digest
\* and a busy one (Put under way or record pending) holds a key and a digest.
THEOREM TypeCorrect == Spec => []TypeOK
<1>1. Init => TypeOK
  BY StoreAssumption DEF Init, TypeOK
<1>2. TypeOK /\ [Next]_vars => TypeOK'
  BY TypeStep, SMTT(30)
<1> QED
  BY <1>1, <1>2, PTL DEF Spec

-----------------------------------------------------------------------------
(* Reference counts.                                                        *)

\* A request that is not idle has a key and a digest.
LEMMA BusyHasTarget ==
    ASSUME TypeOK, NEW w \in Writers, writers[w].pc # "idle"
    PROVE  writers[w].key \in Key /\ writers[w].digest \in Digests
<1>1. writers[w] \in BusyWriter \cup {IdleWriter}
  BY Zenon DEF TypeOK
<1>2. IdleWriter.pc = "idle"
  BY DEF IdleWriter
<1>3. writers[w] \in BusyWriter
  BY <1>1, <1>2, Zenon
<1> QED
  BY <1>3 DEF BusyWriter

\* One step never lowers the margin of a ref_count over the references, and
\* only DeleteRepository (one decrement for any number of rows) raises it.
LEMMA SurplusStep ==
    ASSUME TypeOK, RefCountSafe, [Next]_vars, NEW d \in Digests
    PROVE  /\ Surplus(d)' >= Surplus(d)
           /\ Surplus(d)' # Surplus(d) =>
                \E r \in Repos : repos[r] = "live" /\ repos'[r] = "deleted"
<1>a. /\ artifacts \in [Key -> Digests \cup {None}]
      /\ refCount \in [Digests -> Int]
  BY DEF TypeOK
<1>0. /\ Cardinality(RefSet(artifacts, d)) \in Nat
      /\ Cardinality(RefSet(artifacts', d)) \in Nat
      /\ Surplus(d) = refCount[d] - Cardinality(RefSet(artifacts, d))
      /\ Surplus(d)' = refCount'[d] - Cardinality(RefSet(artifacts', d))
      /\ refCount[d] \in Int
      /\ refCount[d] >= Cardinality(RefSet(artifacts, d))
  <2>1. Refs(d) = RefSet(artifacts, d) /\ Refs(d)' = RefSet(artifacts', d)
    BY DEF Refs, RefSet
  <2>2. refCount[d] \in Int /\ refCount[d] >= Cardinality(Refs(d))
    BY <1>a DEF RefCountSafe
  <2>3. /\ Surplus(d) = refCount[d] - Cardinality(Refs(d))
        /\ Surplus(d)' = refCount'[d] - Cardinality(Refs(d)')
    BY DEF Surplus
  <2>4. /\ Cardinality(RefSet(artifacts, d)) \in Nat
        /\ Cardinality(RefSet(artifacts', d)) \in Nat
    BY RefSetFinite, Zenon
  <2> QED
    BY <2>1, <2>2, <2>3, <2>4
<1>1. CASE UNCHANGED <<artifacts, refCount>>
  BY <1>0, <1>1, SMTT(30)
<1>2. ASSUME NEW w \in Writers, PutArtifact(w) PROVE Surplus(d)' = Surplus(d)
  <2> DEFINE k == writers[w].key
             v == writers[w].digest
  <2>1. k \in Key /\ v \in Digests
    BY <1>2, BusyHasTarget DEF PutArtifact
  <2>2. artifacts'[k] = v /\ \A x \in Key : x # k => artifacts'[x] = artifacts[x]
    BY <1>a, <1>2, <2>1, SMTT(30) DEF PutArtifact
  <2>3. Cardinality(RefSet(artifacts', d)) =
          IF artifacts[k] = v THEN Cardinality(RefSet(artifacts, d))
          ELSE IF d = v THEN Cardinality(RefSet(artifacts, d)) + 1
          ELSE IF d = artifacts[k] THEN Cardinality(RefSet(artifacts, d)) - 1
          ELSE Cardinality(RefSet(artifacts, d))
    BY <1>a, <2>1, <2>2, RefSetUpdate
  <2>4. refCount'[d] =
          IF artifacts[k] = v THEN refCount[d]
          ELSE IF d = v THEN refCount[d] + 1
          ELSE IF d = artifacts[k] THEN refCount[d] - 1
          ELSE refCount[d]
    <3>1. refCount' = RefCountAfterPut(k, v)
      BY <1>2, Zenon DEF PutArtifact
    <3> QED
      BY <1>a, <3>1, SMTT(30) DEF RefCountAfterPut
  <2> QED
    BY <1>0, <2>3, <2>4
<1>3. ASSUME NEW k \in Key, DeleteArtifact(k) PROVE Surplus(d)' = Surplus(d)
  <2>1. /\ \A x \in Key : x # k => artifacts'[x] = artifacts[x]
        /\ artifacts'[k] = None /\ artifacts[k] # None
    BY <1>a, <1>3 DEF DeleteArtifact
  <2>2. Cardinality(RefSet(artifacts', d)) =
          IF d = artifacts[k] THEN Cardinality(RefSet(artifacts, d)) - 1
          ELSE Cardinality(RefSet(artifacts, d))
    <3>1. d # artifacts'[k]
      BY <2>1, StoreAssumption
    <3>2. CASE d = artifacts[k]
      BY <2>1, <3>1, <3>2, RefSetUpdate
    <3>3. CASE d # artifacts[k]
      BY <2>1, <3>1, <3>3, RefSetUpdate
    <3> QED
      BY <3>2, <3>3
  <2>3. refCount'[d] = IF d = artifacts[k] THEN refCount[d] - 1 ELSE refCount[d]
    BY <1>3, <1>a DEF DeleteArtifact
  <2> QED
    BY <1>0, <2>2, <2>3
<1>4. ASSUME NEW r \in Repos, artifacts' = WithoutRepo(r)
      PROVE  /\ Cardinality(RefSet(artifacts', d))
                  = Cardinality(RefSet(artifacts, d)) - Cardinality(RepoRefs(r, d))
             /\ Cardinality(RepoRefs(r, d)) \in Nat
             /\ RepoRefs(r, d) # {} => Cardinality(RepoRefs(r, d)) # 0
  <2>1. RepoRefs(r, d) = {k \in RefSet(artifacts, d) : k[1] = r}
    BY DEF RepoRefs, Refs, RefSet
  <2>2. RepoRefs(r, d) \in SUBSET RefSet(artifacts, d)
    BY <2>1
  <2>3. /\ Cardinality(RepoRefs(r, d)) \in Nat
        /\ RepoRefs(r, d) # {} => Cardinality(RepoRefs(r, d)) # 0
    BY <2>2, RefSetFinite, Zenon
  <2>4. RefSet(artifacts', d) = RefSet(artifacts, d) \ RepoRefs(r, d)
    BY <1>4, <2>1, StoreAssumption DEF WithoutRepo, RefSet
  <2>5. Cardinality(RefSet(artifacts', d))
          = Cardinality(RefSet(artifacts, d)) - Cardinality(RepoRefs(r, d))
    BY <2>2, <2>4, RefSetMinus, SMTT(30)
  <2> QED
    BY <2>3, <2>5
<1>5. ASSUME NEW r \in Repos, PurgeArtifacts(r) PROVE Surplus(d)' = Surplus(d)
  <2>1. refCount'[d] = refCount[d] - Cardinality(RepoRefs(r, d))
    BY <1>5 DEF PurgeArtifacts
  <2>2. artifacts' = WithoutRepo(r)
    BY <1>5, SMTT(30) DEF PurgeArtifacts
  <2> QED
    BY <1>0, <1>4, <2>1, <2>2
<1>6. ASSUME NEW r \in Repos, DeleteRepository(r)
      PROVE  /\ Surplus(d)' >= Surplus(d)
             /\ repos[r] = "live" /\ repos'[r] = "deleted"
  <2>1. refCount'[d] = refCount[d] - (IF RepoRefs(r, d) # {} THEN 1 ELSE 0)
    BY <1>6 DEF DeleteRepository
  <2>2. artifacts' = WithoutRepo(r) /\ repos[r] = "live" /\ repos'[r] = "deleted"
    BY <1>6 DEF DeleteRepository, TypeOK
  <2> QED
    BY <1>0, <1>4, <2>1, <2>2
<1>7. CASE DeleteBlobRecord
  <2>1. refCount'[d] = refCount[d] \/ (refCount'[d] = 0 /\ refCount[d] <= 0)
    <3>1. CASE sweepCur = d /\ refCount[d] <= 0
      BY <1>7, <3>1, <1>a DEF DeleteBlobRecord
    <3>2. CASE ~(sweepCur = d /\ refCount[d] <= 0)
      BY <1>7, <3>2, <1>a DEF DeleteBlobRecord, TypeOK
    <3> QED
      BY <3>1, <3>2
  <2>2. artifacts' = artifacts
    BY <1>7 DEF DeleteBlobRecord
  <2> QED
    BY <1>0, <2>1, <2>2
<1> QED
  BY <1>0, <1>1, <1>2, <1>3, <1>5, <1>6, <1>7, SMTT(120)
     DEF Next, WriterNext, AdminNext, SweepNext, vars, StartWrite, PutStat,
         PutRename, PutFails, PutArtifactFails, AbandonUpload, RejectUpload,
         CreateRepository, SweepList, SweepBytes, SweepBytesFails,
         DeleteBlobRecordFails, Restart

-----------------------------------------------------------------------------
(* Reference counts err only upwards.                                       *)

\* The test of ListUnreferencedBlobs and DeleteBlobRecord is sound.
LEMMA ZeroCountUnreferenced ==
    ASSUME TypeOK, RefCountSafe, NEW d \in Digests, refCount[d] <= 0
    PROVE  Refs(d) = {}
<1>1. Refs(d) = RefSet(artifacts, d)
  BY DEF Refs, RefSet
<1>2. Refs(d) \in SUBSET RefSet(artifacts, d)
  BY <1>1
<1>3. Cardinality(Refs(d)) \in Nat /\ (Refs(d) # {} => Cardinality(Refs(d)) # 0)
  BY <1>2, RefSetFinite, Zenon
<1>4. refCount[d] \in Int /\ refCount[d] >= Cardinality(Refs(d))
  BY DEF TypeOK, RefCountSafe
<1> QED
  BY <1>3, <1>4

\* One step of Next preserves what RefCountSafe says of digest d.
LEMMA RefCountSafeStep ==
    ASSUME TypeOK, RefCountSafe, [Next]_vars, NEW d \in Digests
    PROVE  /\ (refCount[d] >= Cardinality(Refs(d)))'
           /\ Refs(d)' # {} => d \in blobs'
           /\ d \notin blobs' => refCount'[d] = 0
<1>a. /\ artifacts \in [Key -> Digests \cup {None}]
      /\ refCount \in [Digests -> Int]
      /\ blobs \in SUBSET Digests
  BY DEF TypeOK
<1>b. /\ refCount[d] >= Cardinality(Refs(d))
      /\ Refs(d) # {} => d \in blobs
      /\ d \notin blobs => refCount[d] = 0
  BY DEF RefCountSafe
<1>c. TypeOK'
  BY TypeStep
<1>1. refCount'[d] >= Cardinality(Refs(d)')
  <2>1. Refs(d) = RefSet(artifacts, d) /\ Refs(d)' = RefSet(artifacts', d)
    BY DEF Refs, RefSet
  <2>2. Cardinality(Refs(d)) \in Nat /\ Cardinality(Refs(d)') \in Nat
    BY <2>1, RefSetFinite, ZenonT(30)
  <2>3. refCount[d] \in Int /\ refCount'[d] \in Int
    BY <1>a, <1>c DEF TypeOK
  <2>4. Surplus(d)' >= Surplus(d)
    BY SurplusStep
  <2>5. refCount'[d] - Cardinality(Refs(d)') >= refCount[d] - Cardinality(Refs(d))
    BY <2>4 DEF Surplus
  <2> QED
    BY <1>b, <2>2, <2>3, <2>5
<1> DEFINE Rest == (Refs(d)' # {} => d \in blobs') /\ (d \notin blobs' => refCount'[d] = 0)
<1>2. ASSUME UNCHANGED <<artifacts, refCount, blobs>> PROVE Rest
  BY <1>b, <1>2 DEF Refs
<1>3. ASSUME NEW w \in Writers, PutArtifact(w) PROVE Rest
  <2>1. writers[w].key \in Key /\ writers[w].digest \in Digests
    BY <1>3, BusyHasTarget, SMTT(30) DEF PutArtifact
  <2>2. /\ blobs' = blobs \cup {writers[w].digest}
        /\ artifacts' = [artifacts EXCEPT ![writers[w].key] = writers[w].digest]
        /\ refCount' = RefCountAfterPut(writers[w].key, writers[w].digest)
    BY <1>3 DEF PutArtifact
  <2>3. CASE d = writers[w].digest
    BY <2>2, <2>3, SMTT(30)
  <2>4. CASE d # writers[w].digest
    <3>1. Refs(d)' \subseteq Refs(d)
      BY <1>a, <2>1, <2>2, <2>4 DEF Refs
    <3>2. d \notin blobs => d # artifacts[writers[w].key]
      BY <1>b, <2>1, SMTT(30) DEF Refs
    <3>3. d \notin blobs' => refCount'[d] = 0
      BY <1>a, <1>b, <2>2, <2>4, <3>2, SMTT(30) DEF RefCountAfterPut
    <3> QED
      BY <1>b, <2>2, <3>1, <3>3
  <2> QED
    BY <2>3, <2>4, SMTT(30)
<1>4. ASSUME NEW w \in Writers, AbandonUpload(w) PROVE Rest
  BY <1>b, <1>4 DEF AbandonUpload, Refs
<1>5. ASSUME NEW k \in Key, DeleteArtifact(k) PROVE Rest
  <2>1. Refs(d)' \subseteq Refs(d)
    BY <1>a, <1>5, StoreAssumption DEF DeleteArtifact, Refs
  <2>2. d \notin blobs => d # artifacts[k]
    BY <1>b DEF Refs
  <2> QED
    BY <1>a, <1>b, <1>5, <2>1, <2>2 DEF DeleteArtifact
<1>6. ASSUME NEW r \in Repos, PurgeArtifacts(r) \/ DeleteRepository(r) PROVE Rest
  <2>1. Refs(d)' \subseteq Refs(d) /\ blobs' = blobs
    BY <1>a, <1>6, StoreAssumption DEF PurgeArtifacts, DeleteRepository, WithoutRepo, Refs
  <2>2. d \notin blobs => RepoRefs(r, d) = {}
    BY <1>b DEF RepoRefs
  <2>3. d \notin blobs => refCount'[d] = refCount[d]
    <3>1. CASE PurgeArtifacts(r)
      <4>1. refCount'[d] = refCount[d] - Cardinality(RepoRefs(r, d))
        BY <3>1 DEF PurgeArtifacts
      <4>2. Cardinality({}) = 0 /\ refCount[d] \in Int
        BY <1>a, FS_EmptySet
      <4> QED
        BY <2>2, <4>1, <4>2
    <3>2. CASE DeleteRepository(r)
      <4>1. refCount'[d] = refCount[d] - (IF RepoRefs(r, d) # {} THEN 1 ELSE 0)
        BY <3>2 DEF DeleteRepository
      <4> QED
        BY <1>a, <2>2, <4>1
    <3> QED
      BY <1>6, <3>1, <3>2
  <2> QED
    BY <1>b, <2>1, <2>3, SMTT(30)
<1>7. ASSUME DeleteBlobRecord PROVE Rest
  <2>1. Refs(d)' = Refs(d)
    BY <1>7 DEF DeleteBlobRecord, Refs
  <2>2. CASE sweepCur = d /\ refCount[d] <= 0
    <3>1. Refs(d) = {}
      BY <2>2, ZeroCountUnreferenced
    <3> QED
      BY <1>a, <1>7, <2>1, <2>2, <3>1 DEF DeleteBlobRecord
  <2>3. CASE ~(sweepCur = d /\ refCount[d] <= 0)
    BY <1>a, <1>b, <1>7, <2>1, <2>3, SMTT(30) DEF DeleteBlobRecord, TypeOK
  <2> QED
    BY <2>2, <2>3
<1>8. Rest
  BY <1>2, <1>3, <1>4, <1>5, <1>6, <1>7
     DEF Next, WriterNext, AdminNext, SweepNext, vars, StartWrite, PutStat,
         PutRename, PutFails, PutArtifactFails, RejectUpload,
         CreateRepository, SweepList, SweepBytes, SweepBytesFails,
         DeleteBlobRecordFails, Restart
<1> QED
  BY <1>1, <1>8

\* A blob row's ref_count is never below the number of artifacts that refer to
\* the blob, whatever the interleaving of uploads, deletions and sweeps.
THEOREM RefCountsSafe == Spec => []RefCountSafe
<1>1. Init => RefCountSafe
  <2> SUFFICES ASSUME Init PROVE RefCountSafe
    OBVIOUS
  <2>1. \A d \in Digests : Refs(d) = {}
    BY StoreAssumption DEF Init, Refs
  <2> QED
    BY <2>1, FS_EmptySet DEF Init, RefCountSafe
<1>2. TypeOK /\ RefCountSafe /\ [Next]_vars => RefCountSafe'
  BY RefCountSafeStep DEF RefCountSafe
<1> QED
  BY <1>1, <1>2, TypeCorrect, PTL DEF Spec

\* Between DeleteRepository calls the counts and the references move together.
THEOREM LeaksOnlyByDeleteRepository == Spec => LeakOnlyByDeleteRepository
<1>1. TypeOK /\ RefCountSafe /\ [Next]_vars =>
        [\A d \in Digests : Surplus(d)' # Surplus(d) =>
            \E r \in Repos : repos[r] = "live" /\ repos'[r] = "deleted"]_vars
  BY SurplusStep
<1> QED
  BY <1>1, TypeCorrect, RefCountsSafe, PTL DEF Spec, LeakOnlyByDeleteRepository

-----------------------------------------------------------------------------
(* Bytes in use are lost only to a stale sweep.                             *)

\* What relies on the bytes of d after a step relied on them before it, or the
\* step is a Put that found or wrote them.
LEMMA InUseStep ==
    ASSUME TypeOK, [Next]_vars, NEW d \in Digests,
           Refs(d)' # {} \/ InFlight(d)'
    PROVE  \/ Refs(d) # {} \/ InFlight(d)
           \/ \E w \in Writers : /\ writers[w].digest = d
                                 /\ PutRename(w) \/ (PutStat(w) /\ d \in bytes)
<1> DEFINE InUse == \/ Refs(d) # {} \/ InFlight(d)
                    \/ \E w \in Writers : /\ writers[w].digest = d
                                          /\ PutRename(w) \/ (PutStat(w) /\ d \in bytes)
<1>a. /\ artifacts \in [Key -> Digests \cup {None}]
      /\ writers \in [Writers -> BusyWriter \cup {IdleWriter}]
      /\ d # None /\ IdleWriter.pc # "record"
  BY StoreAssumption DEF TypeOK, IdleWriter
<1>1. ASSUME Refs(d)' \subseteq Refs(d),
             \A w \in Writers : writers'[w] = writers[w] \/ writers'[w].pc # "record"
      PROVE  InUse
  BY <1>1 DEF InFlight
<1>2. ASSUME NEW w \in Writers, WriterNext(w) PROVE InUse
  <2>1. CASE \E kind \in {"store", "upload"}, k \in Key, x \in Digests :
               StartWrite(w, kind, k, x)
    <3>1. PICK r \in [pc : {"stat"}, kind : {"store", "upload"}, key : Key, digest : Digests] :
             writers' = [writers EXCEPT ![w] = r] /\ artifacts' = artifacts
      BY <2>1, Zenon DEF StartWrite
    <3>2. Refs(d)' = Refs(d)
      BY <3>1, Zenon DEF Refs
    <3>3. \A x \in Writers : writers'[x] = writers[x] \/ writers'[x].pc # "record"
      BY <1>a, <3>1, SMTT(30)
    <3> QED
      BY <1>1, <3>2, <3>3, Zenon
  <2>2. CASE PutStat(w)
    <3>1. writers'[w].pc = (IF writers[w].digest \in bytes THEN "record" ELSE "rename")
          /\ writers'[w].digest = writers[w].digest
          /\ \A x \in Writers : x # w => writers'[x] = writers[x]
      BY <1>a, <2>2 DEF PutStat, BusyWriter, IdleWriter
    <3>2. Refs(d)' = Refs(d)
      BY <2>2 DEF PutStat, Refs
    <3> QED
      BY <2>2, <3>1, <3>2 DEF InFlight
  <2>3. CASE PutRename(w)
    <3>1. writers'[w].digest = writers[w].digest
          /\ \A x \in Writers : x # w => writers'[x] = writers[x]
      BY <1>a, <2>3 DEF PutRename, BusyWriter, IdleWriter
    <3>2. Refs(d)' = Refs(d)
      BY <2>3 DEF PutRename, Refs
    <3> QED
      BY <2>3, <3>1, <3>2 DEF InFlight
  <2>4. CASE PutArtifact(w)
    <3>1. /\ artifacts' = [artifacts EXCEPT ![writers[w].key] = writers[w].digest]
          /\ writers[w].pc = "record"
          /\ writers' = [writers EXCEPT ![w] = IdleWriter]
      BY <2>4 DEF PutArtifact, Idle
    <3>2. CASE writers[w].digest = d
      BY <3>1, <3>2 DEF InFlight
    <3>3. CASE writers[w].digest # d
      <4>1. Refs(d)' \subseteq Refs(d)
        BY <1>a, <3>1, <3>3 DEF Refs
      <4> QED
        BY <1>1, <1>a, <3>1, <4>1
    <3> QED
      BY <3>2, <3>3, SMTT(30)
  <2>5. CASE PutFails(w) \/ PutArtifactFails(w) \/ AbandonUpload(w) \/ RejectUpload(w)
    <3>1. writers' = [writers EXCEPT ![w] = IdleWriter] /\ artifacts' = artifacts
      BY <2>5, SMTT(30) DEF PutFails, PutArtifactFails, AbandonUpload, RejectUpload, Idle
    <3> QED
      BY <1>1, <1>a, <3>1, SMTT(30) DEF Refs
  <2> QED
    BY <1>2, <2>1, <2>2, <2>3, <2>4, <2>5, SMTT(120) DEF WriterNext
<1>3. CASE AdminNext
  <2>1. Refs(d)' \subseteq Refs(d) /\ writers' = writers
    BY <1>a, <1>3 DEF AdminNext, CreateRepository, PurgeArtifacts,
         DeleteRepository, DeleteArtifact, WithoutRepo, Refs
  <2> QED
    BY <1>1, <2>1, SMTT(120)
<1>4. CASE SweepNext \/ UNCHANGED vars
  <2>1. artifacts' = artifacts /\ writers' = writers
    BY <1>4 DEF SweepNext, SweepList, SweepBytes, SweepBytesFails,
         DeleteBlobRecord, DeleteBlobRecordFails, vars
  <2> QED
    BY <1>1, <2>1, SMTT(120) DEF Refs
<1>5. CASE Restart
  BY <1>1, <1>a, <1>5 DEF Restart, Refs
<1> QED
  BY <1>2, <1>3, <1>4, <1>5, SMTT(30) DEF Next

\* An artifact or a request about to record one lacks its bytes only if
\* sweepOnce deleted them after the digest it had listed came back into use.
THEOREM BytesLostOnlyByStaleSweeps == Spec => []BytesLostOnlyByStaleSweep
<1>1. Init => BytesLostOnlyByStaleSweep
  BY StoreAssumption DEF Init, BytesLostOnlyByStaleSweep, Refs, InFlight, IdleWriter
<1>2. ASSUME TypeOK, BytesLostOnlyByStaleSweep, [Next]_vars
      PROVE  BytesLostOnlyByStaleSweep'
  <2> SUFFICES ASSUME NEW d \in Digests, Refs(d)' # {} \/ InFlight(d)'
               PROVE  d \in bytes' \cup raced'
    BY DEF BytesLostOnlyByStaleSweep
  <2>1. CASE \E w \in Writers : /\ writers[w].digest = d
                                /\ PutRename(w) \/ (PutStat(w) /\ d \in bytes)
    BY <2>1, SMTT(30) DEF PutRename, PutStat
  <2>2. CASE Refs(d) # {} \/ InFlight(d)
    <3>1. d \in bytes \cup raced
      BY <1>2, <2>2 DEF BytesLostOnlyByStaleSweep
    <3>2. ASSUME NEW w \in Writers, PutRename(w) PROVE d \in bytes' \cup raced'
      BY <3>1, <3>2 DEF PutRename
    <3>3. ASSUME NEW x \in Digests, SweepBytes(x) PROVE d \in bytes' \cup raced'
      BY <2>2, <3>1, <3>3 DEF SweepBytes
    <3>4. CASE UNCHANGED <<bytes, raced>>
      BY <3>1, <3>4
    <3> QED
      BY <1>2, <3>2, <3>3, <3>4, SMTT(120)
         DEF Next, WriterNext, AdminNext, SweepNext, vars, StartWrite, PutStat,
             PutFails, PutArtifact, PutArtifactFails, AbandonUpload,
             RejectUpload, CreateRepository, DeleteArtifact, PurgeArtifacts,
             DeleteRepository, SweepList, SweepBytesFails, DeleteBlobRecord,
             DeleteBlobRecordFails, Restart
  <2> QED
    BY <1>2, <2>1, <2>2, InUseStep
<1> QED
  BY <1>1, <1>2, TypeCorrect, PTL DEF Spec

-----------------------------------------------------------------------------
(* Counting implements the table of references.                             *)

\* Deciding by ref_count <= 0 implements forgetting only unreferenced rows.
THEOREM CountingImplementsLedger == Spec => ImplementsLedger
<1>1. Init => Ledger!Init
  BY DEF Init, Ledger!Init
<1>2. ASSUME TypeOK, RefCountSafe, [Next]_vars
      PROVE  [Ledger!Next]_Ledger!ledgerVars
  <2> USE DEF Ledger!ledgerVars
  <2>a. artifacts \in [Key -> Digests \cup {None}]
    BY <1>2 DEF TypeOK
  <2>1. ASSUME NEW w \in Writers, PutArtifact(w) PROVE Ledger!Next
    <3>1. writers[w].key \in Key /\ writers[w].digest \in Digests
      BY <1>2, <2>1, BusyHasTarget DEF PutArtifact
    <3>2. Ledger!Record(writers[w].key, writers[w].digest)
      BY <2>1 DEF PutArtifact, Ledger!Record
    <3> QED
      BY <3>1, <3>2, SMTT(30) DEF Ledger!Next
  <2>2. ASSUME NEW w \in Writers, AbandonUpload(w) PROVE Ledger!Next
    <3>1. writers[w].digest \in Digests
      BY <1>2, <2>2, BusyHasTarget DEF AbandonUpload
    <3>2. Ledger!Hand(writers[w].digest)
      BY <2>2 DEF AbandonUpload, Ledger!Hand
    <3> QED
      BY <3>1, <3>2, SMTT(30) DEF Ledger!Next
  <2>3. ASSUME NEW k \in Key, DeleteArtifact(k) PROVE Ledger!Next
    <3>1. Ledger!Remove({k})
      BY <2>a, <2>3, Zenon DEF DeleteArtifact, Ledger!Remove
    <3>2. {k} \in SUBSET Key
      OBVIOUS
    <3> QED
      BY <3>1, <3>2 DEF Ledger!Next
  <2>4. ASSUME NEW r \in Repos, PurgeArtifacts(r) \/ DeleteRepository(r) PROVE Ledger!Next
    <3>1. Ledger!Remove({k \in Key : k[1] = r})
      BY <2>4 DEF PurgeArtifacts, DeleteRepository, WithoutRepo, Ledger!Remove
    <3>2. {k \in Key : k[1] = r} \in SUBSET Key
      OBVIOUS
    <3> QED
      BY <3>1, <3>2, SMTT(30) DEF Ledger!Next
  <2>5. CASE DeleteBlobRecord
    <3>1. sweepCur \in Digests /\ artifacts' = artifacts
      BY <1>2, <2>5 DEF DeleteBlobRecord, TypeOK
    <3>2. CASE refCount[sweepCur] <= 0
      <4>1. Refs(sweepCur) = {}
        BY <1>2, <3>1, <3>2, ZeroCountUnreferenced
      <4>2. Ledger!Forget(sweepCur)
        BY <2>5, <3>2, <4>1 DEF DeleteBlobRecord, Refs, Ledger!Forget
      <4> QED
        BY <3>1, <4>2 DEF Ledger!Next
    <3>3. CASE ~(refCount[sweepCur] <= 0)
      BY <2>5, <3>3 DEF DeleteBlobRecord
    <3> QED
      BY <3>2, <3>3
  <2>6. CASE UNCHANGED <<artifacts, blobs>>
    BY <2>6
  <2> QED
    BY <1>2, <2>1, <2>2, <2>3, <2>4, <2>5, <2>6, SMTT(30)
       DEF Next, WriterNext, AdminNext, SweepNext, vars, StartWrite, PutStat,
           PutRename, PutFails, PutArtifactFails, RejectUpload,
           CreateRepository, SweepList, SweepBytes, SweepBytesFails,
           DeleteBlobRecordFails, Restart
<1> QED
  BY <1>1, <1>2, TypeCorrect, RefCountsSafe, PTL DEF Spec, ImplementsLedger, Ledger!Spec

============================================================================
