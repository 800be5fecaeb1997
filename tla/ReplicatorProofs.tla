-------------------------- MODULE ReplicatorProofs --------------------------
(***************************************************************************)
(* Proofs about PV replication, for any set of pods, any digests and page   *)
(* size, and any number of terms, requests and restarts.                    *)
(***************************************************************************)
EXTENDS Replicator, FiniteSetTheorems, WellFoundedInduction, TLAPS

-----------------------------------------------------------------------------
(* The Lease and its terms, as this module's steps move them.               *)

TermPcs == {"start", "flag", "fence", "swap", "label", "peers", "done"}

\* What a pod may do to the Lease and the terms in one step of the cluster.
LeaseStep ==
    \/ \E p \in Pods : Acquire(p) \/ KillTerms(p)
    \/ \E t \in TermIds : \/ EndTerm(t)
                          \/ \E from \in TermPcs \ {"done"}, to \in TermPcs :
                                Advance(t, from, to)
    \/ UNCHANGED <<holder, transitions, nterms, terms>>

\* Lease and terms keep their types.
LEMMA LeaseTypeStep ==
    ASSUME LeaseTypeOK, LeaseStep
    PROVE  LeaseTypeOK'
<1> USE LeadershipAssumption DEF LeaseTypeOK, TermIds
<1>a. \A x \in Term : x # NoTerm
  BY DEF Term, NoTerm
<1>1. ASSUME NEW p \in Pods, Acquire(p) PROVE LeaseTypeOK'
  <2>1. transitions' \in Nat /\ nterms' \in 0..MaxTerms /\ holder' \in Pods
    BY <1>1 DEF Acquire, TransitionsAfter
  <2>2. [pod |-> p, live |-> TRUE, pc |-> "start", trans |-> transitions'] \in Term
    BY <2>1 DEF Term
  <2> QED
    BY <1>1, <1>a, <2>1, <2>2 DEF Acquire
<1>2. ASSUME NEW t \in TermIds, EndTerm(t) PROVE LeaseTypeOK'
  <2>1. terms[t] \in Term
    BY <1>2 DEF EndTerm, NoTerm
  <2>2. [terms[t] EXCEPT !.live = FALSE] \in Term
    BY <2>1, Zenon DEF Term
  <2> QED
    BY <1>2, <1>a, <2>1, <2>2, Zenon DEF EndTerm
<1>3. ASSUME NEW t \in TermIds, NEW from \in TermPcs \ {"done"}, NEW to \in TermPcs,
             Advance(t, from, to)
      PROVE  LeaseTypeOK'
  <2>1. terms[t] \in Term
    BY <1>3 DEF Advance, NoTerm
  <2>2. [terms[t] EXCEPT !.pc = to] \in Term
    BY <1>3, <2>1, Zenon DEF Term, TermPcs
  <2> QED
    BY <1>3, <1>a, <2>1, <2>2, SMTT(30) DEF Advance, leaseVars
<1>4. ASSUME NEW p \in Pods, KillTerms(p) PROVE LeaseTypeOK'
  BY <1>4, <1>a, ZenonT(30) DEF KillTerms, leaseVars, Term, NoTerm
<1>5. CASE UNCHANGED <<holder, transitions, nterms, terms>>
  BY <1>5
<1> QED
  BY <1>1, <1>2, <1>3, <1>4, <1>5 DEF LeaseStep

\* A term that is live, or whose startLeading still runs, is some pod's.
LEMMA RunningTermHasPod ==
    ASSUME LeaseTypeOK
    PROVE  \A t \in TermIds : terms[t].pc # "done" \/ terms[t].live => terms[t].pod \in Pods
<1>1. \A t \in TermIds : terms[t] \in Term \/ terms[t] = NoTerm
  BY Zenon DEF LeaseTypeOK
<1>2. \A x \in Term : x.pod \in Pods
  BY Zenon DEF Term
<1>3. NoTerm.pc = "done" /\ NoTerm.live = FALSE
  BY DEF NoTerm
<1> QED
  BY <1>1, <1>2, <1>3, Zenon

-----------------------------------------------------------------------------
(* Least digests and pages.                                                 *)

\* A nonempty set of naturals has a least element, which is its Min.
LEMMA MinIsLeast ==
    ASSUME NEW S, S \subseteq Nat, S # {}
    PROVE  Min(S) \in S /\ \A y \in S : Min(S) <= y
<1> DEFINE R == OpToRel(<, Nat)
<1>1. IsWellFoundedOn(R, Nat)
  BY NatLessThanWellFounded, Zenon
<1>2. PICK x \in S : \A y \in S : ~ (<<y, x>> \in R)
  BY <1>1, WFMin, Zenon
<1>3. \A y \in S : ~ (y < x)
  BY <1>2, Zenon DEF OpToRel
<1>4. \A y \in S : x <= y
  BY <1>3
<1> QED
  BY <1>4, Zenon DEF Min

\* A page is made of rows after the cursor, it is empty only when no row is left,
\* and a row it leaves out comes after all of it.
LEMMA PageIsPrefix ==
    ASSUME NEW rows \in SUBSET Digests, NEW after \in Nat
    PROVE  LET page == PageAfter(rows, after) IN
           /\ page \subseteq rows
           /\ \A e \in rows : e > after /\ e \notin page =>
                 page # {} /\ \A d \in page : d < e
<1> DEFINE beyond == {d \in rows : d > after}
           below(d) == {e \in beyond : e < d}
           page == PageAfter(rows, after)
<1>1. page = {d \in beyond : Cardinality(below(d)) < PageSize}
  BY Zenon DEF PageAfter
<1>2. IsFiniteSet(Digests) /\ Digests \subseteq Nat
  <2>1. 1 \in Int /\ MaxDigest \in Int
    BY ReplicatorAssumption
  <2>2. IsFiniteSet(1..MaxDigest)
    BY <2>1, FS_Interval, Zenon
  <2> QED
    BY <2>2, ReplicatorAssumption DEF Digests
<1>3. IsFiniteSet(beyond) /\ beyond \subseteq Nat
  <2>1. beyond \subseteq Digests
    OBVIOUS
  <2> QED
    BY <1>2, <2>1, FS_Subset, Zenon
<1>4. \A d : IsFiniteSet(below(d)) /\ Cardinality(below(d)) \in Nat
  <2>1. \A d : below(d) \subseteq beyond
    OBVIOUS
  <2> QED
    BY <1>3, <2>1, FS_Subset, FS_CardinalityType, Zenon
<1> SUFFICES ASSUME NEW e \in rows, e > after, e \notin page
             PROVE  page # {} /\ \A d \in page : d < e
  BY <1>1, Zenon
<1>5. e \in beyond
  OBVIOUS
<1>6. page # {}
  <2> DEFINE m == Min(beyond)
  <2>1. m \in beyond /\ \A y \in beyond : m <= y
    BY <1>3, <1>5, MinIsLeast, Zenon
  <2>2. below(m) = {}
    BY <1>3, <2>1
  <2>3. Cardinality(below(m)) = 0
    BY <2>2, FS_EmptySet, Zenon
  <2>4. 0 < PageSize
    BY ReplicatorAssumption
  <2> QED
    BY <1>1, <2>1, <2>3, <2>4, Zenon
<1>7. ASSUME NEW d \in page PROVE d < e
  <2>1. d \in beyond /\ Cardinality(below(d)) < PageSize
    BY <1>1, <1>7, Zenon
  <2>2. ~(Cardinality(below(e)) < PageSize)
    BY <1>1, <1>5, Zenon
  <2>3. ASSUME e < d PROVE FALSE
    <3>1. below(e) \subseteq below(d)
      BY <1>3, <1>5, <2>1, <2>3
    <3>2. Cardinality(below(e)) <= Cardinality(below(d))
      BY <1>4, <3>1, FS_Subset, Zenon
    <3>3. Cardinality(below(e)) \in Nat /\ Cardinality(below(d)) \in Nat
      BY <1>4, Zenon
    <3> HIDE DEF below, beyond, page
    <3> QED
      BY <2>1, <2>2, <3>2, <3>3, ReplicatorAssumption
  <2>4. d # e /\ d \in Nat /\ e \in Nat
    BY <1>3, <1>5, <1>7, <2>1, Zenon
  <2> HIDE DEF below, beyond, page
  <2> QED
    BY <2>3, <2>4
<1> QED
  BY <1>6, <1>7, Zenon

-----------------------------------------------------------------------------
(* Types.                                                                   *)

\* The steps of Replicator are steps of the Lease.
LEMMA NextIsLeaseStep == [Next]_vars => LeaseStep
  BY Zenon DEF Next, vars, LeaseStep, TermPcs, Elected, Sync, Restart, Stop, PromoteFlag,
         PromoteSwap, ResolveLeader, DownloadSnapshot, FetchBlobPage, MergeDigest, Commit,
         SyncFails, StoreArtifact, DeleteArtifact, Sweep, leaseVars

\* What a cycle's steps make of it is still one, and which fields they change.
Started(q) == [NoCycle EXCEPT !.pc = "db", !.from = q]
Downloaded(c, x) == [c EXCEPT !.pc = "merge", !.tmp = x]
Paged(c, x) == [c EXCEPT !.page = x, !.last = (x = {})]
Moved(c, x) == [c EXCEPT !.cur = x]

\* downloadSnapshot's step keeps a cycle's other fields.
LEMMA CycleDownloaded ==
    \A c \in Cycle, x \in Database :
        /\ Downloaded(c, x) \in Cycle
        /\ Downloaded(c, x).pc = "merge" /\ Downloaded(c, x).tmp = x
        /\ Downloaded(c, x).from = c.from /\ Downloaded(c, x).cur = c.cur
        /\ Downloaded(c, x).page = c.page /\ Downloaded(c, x).last = c.last
  BY Zenon DEF Cycle, Downloaded

\* So does fetchBlobPage's.
LEMMA CyclePaged ==
    \A c \in Cycle, x \in SUBSET Digests :
        /\ Paged(c, x) \in Cycle
        /\ Paged(c, x).pc = c.pc /\ Paged(c, x).tmp = c.tmp
        /\ Paged(c, x).from = c.from /\ Paged(c, x).cur = c.cur
        /\ Paged(c, x).page = x /\ (Paged(c, x).last <=> x = {})
  BY ZenonT(60) DEF Cycle, Paged

\* And a round of the merge.
LEMMA CycleMoved ==
    \A c \in Cycle, x \in 0..MaxDigest :
        /\ Moved(c, x) \in Cycle
        /\ Moved(c, x).pc = c.pc /\ Moved(c, x).tmp = c.tmp
        /\ Moved(c, x).from = c.from /\ Moved(c, x).cur = x
        /\ Moved(c, x).page = c.page /\ Moved(c, x).last = c.last
  BY Zenon DEF Cycle, Moved

\* The initial database and the idle cycle.
LEMMA EmptyTypes ==
    /\ Empty \in Database /\ NoCycle \in Cycle /\ NoCycle.pc = "idle"
    /\ \A q \in Pods : /\ Started(q) \in Cycle /\ Started(q).pc = "db" /\ Started(q).from = q
                      /\ Started(q).cur = 0 /\ Started(q).page = {} /\ Started(q).last = FALSE
<1>1. Empty \in Database
  BY Zenon DEF Empty, Database
<1>2. 0 \in 0..MaxDigest
  BY ReplicatorAssumption
<1>3. NoCycle \in Cycle /\ NoCycle.pc = "idle"
  BY <1>1, <1>2, Zenon DEF NoCycle, Cycle
<1> QED
  BY <1>1, <1>2, <1>3, Zenon DEF NoCycle, Cycle, Started

\* Databases stay databases under clients' requests and the sweeper.
LEMMA DatabaseUpdates ==
    ASSUME NEW x \in Database, NEW d \in Digests
    PROVE  /\ x.rows \in SUBSET Digests /\ x.refs \subseteq x.rows
           /\ [rows |-> x.rows \cup {d}, refs |-> x.refs \cup {d}] \in Database
           /\ LET n == [x EXCEPT !.refs = @ \ {d}] IN n \in Database /\ n.rows = x.rows
           /\ d \notin x.refs =>
                 LET n == [x EXCEPT !.rows = @ \ {d}] IN n \in Database /\ n.rows = x.rows \ {d}
<1>1. x \in [rows : SUBSET Digests, refs : SUBSET Digests] /\ x.refs \subseteq x.rows
  BY Zenon DEF Database
<1>2. /\ x.rows \in SUBSET Digests /\ x.refs \in SUBSET Digests
      /\ x = [rows |-> x.rows, refs |-> x.refs]
  BY <1>1
<1>3. [rows |-> x.rows \cup {d}, refs |-> x.refs \cup {d}] \in Database
  BY <1>1, <1>2 DEF Database
<1>4. LET n == [x EXCEPT !.refs = @ \ {d}] IN n \in Database /\ n.rows = x.rows
  BY <1>1, <1>2 DEF Database
<1>5. d \notin x.refs =>
         LET n == [x EXCEPT !.rows = @ \ {d}] IN n \in Database /\ n.rows = x.rows \ {d}
  BY <1>1, <1>2 DEF Database
<1> QED
  BY <1>1, <1>2, <1>3, <1>4, <1>5, Zenon

\* What snapshotPath may hold.
Snapshots == {{}} \cup {{c} : c \in Database}

\* No snapshot, or one.
LEMMA SnapshotTypes ==
    /\ {} \in Snapshots /\ \A c \in Database : {c} \in Snapshots
    /\ \A x \in Snapshots : \A c \in x : c \in Database
  BY DEF Snapshots

\* Every step keeps the types.
LEMMA TypeStep ==
    ASSUME TypeOK, [Next]_vars
    PROVE  TypeOK'
<1>a. LeaseTypeOK /\ LeaseTypeOK'
  BY NextIsLeaseStep, LeaseTypeStep, Zenon DEF TypeOK
<1>b. \A t \in TermIds : terms[t].pc # "done" \/ terms[t].live => terms[t].pod \in Pods
  BY <1>a, RunningTermHasPod, Zenon
<1>c. /\ isLeader \in [Pods -> BOOLEAN] /\ open \in [Pods -> BOOLEAN]
      /\ db \in [Pods -> Database] /\ bytes \in [Pods -> SUBSET Digests]
      /\ snap \in [Pods -> Snapshots]
      /\ sync \in [Pods -> Cycle]
      /\ \A p \in Pods : sync[p].pc # "idle" => sync[p].from \in Pods \ {p}
      /\ dropped \in SUBSET Digests /\ requests \in 0..MaxRequests /\ crashes \in 0..MaxCrashes
  BY Zenon DEF TypeOK, Snapshots
<1>d. ASSUME isLeader' \in [Pods -> BOOLEAN], open' \in [Pods -> BOOLEAN],
             db' \in [Pods -> Database], bytes' \in [Pods -> SUBSET Digests],
             snap' \in [Pods -> Snapshots],
             sync' \in [Pods -> Cycle],
             \A p \in Pods : sync'[p].pc # "idle" => sync'[p].from \in Pods \ {p},
             dropped' \in SUBSET Digests, requests' \in 0..MaxRequests,
             crashes' \in 0..MaxCrashes
      PROVE  TypeOK'
  BY <1>a, <1>d, Zenon DEF TypeOK, Snapshots
<1>e. /\ requests < MaxRequests => requests + 1 \in 0..MaxRequests
      /\ crashes < MaxCrashes => crashes + 1 \in 0..MaxCrashes
  BY <1>c, ReplicatorAssumption
\* A cycle step that touches nothing but sync[p].
<1>f. ASSUME NEW p \in Pods, NEW n \in Cycle, sync' = [sync EXCEPT ![p] = n],
             n.pc # "idle" => n.from \in Pods \ {p},
             UNCHANGED <<isLeader, db, open, requests, crashes>>,
             bytes' \in [Pods -> SUBSET Digests],
             snap' \in [Pods -> Snapshots],
             dropped' \in SUBSET Digests
      PROVE  TypeOK'
  <2>1. sync' \in [Pods -> Cycle]
    BY <1>c, <1>f, Zenon
  <2>2. \A q \in Pods : sync'[q].pc # "idle" => sync'[q].from \in Pods \ {q}
    BY <1>c, <1>f, Zenon
  <2> QED
    BY <1>c, <1>d, <1>f, <2>1, <2>2, Zenon
<1>1. ASSUME NEW p \in Pods, Elected(p) PROVE TypeOK'
  BY <1>c, <1>d, <1>1, Zenon DEF Elected
<1>2. ASSUME NEW t \in TermIds, Stop(t) \/ PromoteFlag(t) PROVE TypeOK'
  <2>1. terms[t].pod \in Pods
    BY <1>b, <1>2, Zenon DEF Stop, PromoteFlag, EndTerm, Advance
  <2>2. isLeader' \in [Pods -> BOOLEAN]
    BY <1>c, <1>2, <2>1, Zenon DEF Stop, PromoteFlag
  <2> QED
    BY <1>c, <1>d, <1>2, <2>2, Zenon DEF Stop, PromoteFlag
<1>3. ASSUME NEW t \in TermIds, PromoteSwap(t) PROVE TypeOK'
  <2> DEFINE p == terms[t].pod
  <2>1. p \in Pods
    BY <1>b, <1>3, Zenon DEF PromoteSwap, Advance
  <2>2. \A c \in snap[p] : c \in Database
    BY <1>c, <2>1, SnapshotTypes, Zenon
  <2>3. db' \in [Pods -> Database] /\ open' \in [Pods -> BOOLEAN]
    <3>1. CASE UNCHANGED <<db, open>>
      BY <1>c, <3>1, Zenon
    <3>2. ASSUME NEW c \in snap[p], SwapFromSnapshot(p, c, terms[t].live)
          PROVE  db' \in [Pods -> Database] /\ open' \in [Pods -> BOOLEAN]
      <4>1. [db EXCEPT ![p] = c] \in [Pods -> Database]
        BY <1>c, <2>1, <2>2, Zenon
      <4>2. \A x \in BOOLEAN : [open EXCEPT ![p] = x] \in [Pods -> BOOLEAN]
        BY <1>c, <2>1, Zenon
      <4> QED
        BY <1>c, <3>2, <4>1, <4>2, Zenon DEF SwapFromSnapshot
    <3> QED
      BY <1>3, <3>1, <3>2, Zenon DEF PromoteSwap
  <2>4. snap' \in [Pods -> Snapshots]
    BY <1>c, <1>3, <2>1, SnapshotTypes, Zenon DEF PromoteSwap
  <2>5. db[p].rows \in SUBSET Digests
    BY <1>c, <2>1, Zenon DEF Database
  <2>6. dropped' \in SUBSET Digests
    BY <1>c, <1>3, <2>5, Zenon DEF PromoteSwap
  <2> QED
    BY <1>c, <1>d, <1>3, <2>3, <2>4, <2>6, Zenon DEF PromoteSwap
<1>4. ASSUME NEW p \in Pods, ResolveLeader(p) PROVE TypeOK'
  <2> DEFINE q == LeaseLeader(p)
             n == Started(q)
  <2>1. q \in Pods \ {p}
    BY <1>a, <1>4, Zenon DEF ResolveLeader, LeaseLeader, LeaseTypeOK
  <2>2. n \in Cycle /\ n.from = q
    BY <2>1, EmptyTypes, Zenon
  <2> QED
    BY <1>c, <1>f, <1>4, <2>1, <2>2, Zenon DEF ResolveLeader, Started
<1>5. ASSUME NEW p \in Pods, DownloadSnapshot(p) PROVE TypeOK'
  <2> DEFINE q == sync[p].from
             n == Downloaded(sync[p], db[q])
  <2>1. q \in Pods \ {p}
    BY <1>c, <1>5, Zenon DEF DownloadSnapshot
  <2>a. sync[p] \in Cycle /\ db[q] \in Database
    BY <1>c, <2>1, Zenon
  <2>2. n \in Cycle /\ n.from = q
    BY <2>a, CycleDownloaded, Zenon
  <2> QED
    BY <1>c, <1>f, <1>5, <2>1, <2>2, Zenon DEF DownloadSnapshot, Downloaded
<1>6. ASSUME NEW p \in Pods, FetchBlobPage(p) PROVE TypeOK'
  <2> DEFINE q == sync[p].from
             page == PageAfter(db[q].rows, sync[p].cur)
             n == Paged(sync[p], page)
  <2>1. q \in Pods \ {p}
    BY <1>c, <1>6, Zenon DEF FetchBlobPage
  <2>2. page \in SUBSET Digests
    BY <1>c, <2>1, Zenon DEF PageAfter, Database
  <2>a. sync[p] \in Cycle
    BY <1>c, Zenon
  <2> HIDE DEF page
  <2>3. n \in Cycle /\ n.from = q
    BY <2>a, <2>2, CyclePaged
  <2> QED
    BY <1>c, <1>f, <1>6, <2>1, <2>3, Zenon DEF FetchBlobPage, Paged, page
<1>7. ASSUME NEW p \in Pods, MergeDigest(p) PROVE TypeOK'
  <2> DEFINE d == Min(Remote(p) \cup Local(p))
             n == Moved(sync[p], d)
  <2>1. Remote(p) \subseteq Digests /\ Local(p) \subseteq Digests
    BY <1>c, Zenon DEF Remote, Local, Cycle
  <2>2. Digests \subseteq Nat /\ Digests \subseteq 0..MaxDigest
    BY ReplicatorAssumption DEF Digests
  <2>3. Remote(p) \cup Local(p) \subseteq Nat /\ Remote(p) \cup Local(p) # {}
    BY <1>7, <2>1, <2>2, Zenon DEF MergeDigest
  <2>4. d \in Remote(p) \cup Local(p)
    BY <2>3, MinIsLeast, Zenon
  <2>5. d \in Digests /\ d \in 0..MaxDigest
    BY <2>1, <2>2, <2>4, Zenon
  <2> HIDE DEF d
  <2>a. sync[p] \in Cycle
    BY <1>c, Zenon
  <2>6. n \in Cycle /\ n.from = sync[p].from
    BY <2>a, <2>5, CycleMoved, Zenon
  <2>7. /\ bytes' = [bytes EXCEPT ![p] =
                      IF d \notin Remote(p) THEN @ \ {d}
                      ELSE IF d \in bytes[sync[p].from] THEN @ \cup {d} ELSE @]
        /\ dropped' = dropped \cup (bytes[p] \ bytes'[p])
        /\ sync' = [sync EXCEPT ![p] = n] /\ sync[p].pc = "merge"
        /\ UNCHANGED <<isLeader, db, open, snap, requests, crashes>>
    BY <1>7, Zenon DEF MergeDigest, Moved, d
  <2>8. bytes' \in [Pods -> SUBSET Digests]
    BY <1>c, <2>5, <2>7
  <2>9. dropped' \in SUBSET Digests
    BY <1>c, <2>7, Zenon
  <2> QED
    BY <1>c, <1>f, <2>6, <2>7, <2>8, <2>9, Zenon
<1>8. ASSUME NEW p \in Pods, Commit(p) \/ SyncFails(p) PROVE TypeOK'
  <2>1. sync[p].tmp \in Database
    BY <1>c, Zenon DEF Cycle
  <2>2. snap' \in [Pods -> Snapshots]
    <3>1. {sync[p].tmp} \in Snapshots
      BY <2>1, SnapshotTypes, Zenon
    <3>2. snap' = snap \/ snap' = [snap EXCEPT ![p] = {sync[p].tmp}]
      BY <1>8, Zenon DEF Commit, SyncFails
    <3>3. [snap EXCEPT ![p] = {sync[p].tmp}] \in [Pods -> Snapshots]
      BY <1>c, <3>1
    <3> QED
      BY <1>c, <3>2, <3>3, Zenon
  <2>3. /\ sync' = [sync EXCEPT ![p] = NoCycle] /\ bytes' = bytes /\ dropped' = dropped
        /\ UNCHANGED <<isLeader, db, open, requests, crashes>>
    BY <1>8, Zenon DEF Commit, SyncFails
  <2> QED
    BY <1>c, <1>f, <2>2, <2>3, EmptyTypes, Zenon
<1>9. ASSUME NEW p \in Pods, NEW d \in Digests, StoreArtifact(p, d) \/ DeleteArtifact(p, d)
      PROVE  TypeOK'
  <2>1. db' \in [Pods -> Database] /\ bytes' \in [Pods -> SUBSET Digests]
    <3>1. /\ [rows |-> db[p].rows \cup {d}, refs |-> db[p].refs \cup {d}] \in Database
          /\ [db[p] EXCEPT !.refs = @ \ {d}] \in Database
      BY <1>c, DatabaseUpdates, Zenon
    <3>2. bytes[p] \cup {d} \in SUBSET Digests
      BY <1>c, Zenon
    <3>3. CASE StoreArtifact(p, d)
      BY <1>c, <3>1, <3>2, <3>3, Zenon DEF StoreArtifact
    <3>4. CASE DeleteArtifact(p, d)
      BY <1>c, <3>1, <3>4, Zenon DEF DeleteArtifact
    <3> QED
      BY <1>9, <3>3, <3>4, Zenon
  <2> QED
    BY <1>c, <1>d, <1>e, <1>9, <2>1, Zenon DEF StoreArtifact, DeleteArtifact
<1>10. ASSUME NEW t \in TermIds, NEW d \in Digests, Sweep(t, d) PROVE TypeOK'
  <2>1. terms[t].pod \in Pods
    BY <1>b, <1>10, Zenon DEF Sweep
  <2>2. db' \in [Pods -> Database] /\ bytes' \in [Pods -> SUBSET Digests]
    BY <1>c, <1>10, <2>1, DatabaseUpdates, Zenon DEF Sweep
  <2> QED
    BY <1>c, <1>d, <1>10, <2>2, Zenon DEF Sweep
<1>11. ASSUME NEW p \in Pods, Restart(p) PROVE TypeOK'
  <2>1. /\ isLeader' \in [Pods -> BOOLEAN] /\ open' \in [Pods -> BOOLEAN]
        /\ snap' \in [Pods -> Snapshots]
    BY <1>c, <1>11, SnapshotTypes, Zenon DEF Restart
  <2>2. /\ sync' \in [Pods -> Cycle]
        /\ \A q \in Pods : sync'[q].pc # "idle" => sync'[q].from \in Pods \ {q}
    BY <1>c, <1>11, EmptyTypes, Zenon DEF Restart
  <2> QED
    BY <1>c, <1>d, <1>e, <1>11, <2>1, <2>2, Zenon DEF Restart
<1>12. CASE UNCHANGED vars
  BY <1>c, <1>d, <1>12, Zenon DEF vars
<1> QED
  BY <1>1, <1>2, <1>3, <1>4, <1>5, <1>6, <1>7, <1>8, <1>9, <1>10, <1>11, <1>12, Zenon
     DEF Next, Sync

-----------------------------------------------------------------------------
(* What a standby's snapshot lacks.                                         *)

\* Where the rows of the snapshot being pulled are: given up, merged already, in
\* the page in hand, or still in the leader's listing after that page.
Accounted(p, e) ==
    LET c == sync[p] IN
    \/ e \in dropped
    \/ e <= c.cur /\ e \in bytes[p]
    \/ e > c.cur /\ e \in c.page
    \/ /\ e > c.cur /\ ~c.last /\ e \in db[c.from].rows
       /\ \A d \in c.page : d < e

\* The cycle of pod p: the page in hand holds nothing the leader had no bytes for,
\* and every row of the snapshot is accounted for.
CycleMirrors(p) ==
    /\ sync[p].pc = "db" => sync[p].cur = 0 /\ sync[p].page = {} /\ ~sync[p].last
    /\ sync[p].pc = "merge" =>
          /\ sync[p].page \subseteq bytes[sync[p].from] \cup dropped
          /\ \A e \in sync[p].tmp.rows : Accounted(p, e)

\* Rows lack their bytes only when these were given up: of the databases, of the
\* committed snapshots, and of the page a standby works on.
Mirroring ==
    /\ TypeOK
    /\ \A p \in Pods : db[p].rows \subseteq bytes[p] \cup dropped
    /\ \A p \in Pods : \A c \in snap[p] : c.rows \subseteq bytes[p] \cup dropped
    /\ \A p \in Pods : CycleMirrors(p)

\* What is given up stays so: no step takes a digest out of dropped, and one that
\* takes bytes or a row away adds them to it.
GivenUp ==
    /\ dropped \subseteq dropped'
    /\ \A p \in Pods : bytes[p] \subseteq bytes'[p] \cup dropped'
    /\ \A p \in Pods : db[p].rows \subseteq db'[p].rows \cup dropped'

\* Every step is such.
LEMMA GivenUpStep ==
    ASSUME TypeOK, [Next]_vars
    PROVE  GivenUp
<1>a. /\ db \in [Pods -> Database] /\ bytes \in [Pods -> SUBSET Digests]
      /\ \A p \in Pods : db[p] \in Database
      /\ LeaseTypeOK
  BY Zenon DEF TypeOK
<1>b. \A t \in TermIds : terms[t].pc # "done" \/ terms[t].live => terms[t].pod \in Pods
  BY <1>a, RunningTermHasPod, Zenon
<1>1. ASSUME UNCHANGED <<db, bytes, dropped>> PROVE GivenUp
  BY <1>1, Zenon DEF GivenUp
<1>2. ASSUME NEW t \in TermIds, PromoteSwap(t) PROVE GivenUp
  <2> DEFINE p == terms[t].pod
  <2>1. p \in Pods
    BY <1>b, <1>2, Zenon DEF PromoteSwap, Advance
  <2>2. /\ \A q \in Pods : q # p => db'[q] = db[q]
        /\ bytes' = bytes /\ dropped' = dropped \cup (db[p].rows \ db'[p].rows)
    BY <1>a, <1>2, <2>1, Zenon DEF PromoteSwap, SwapFromSnapshot
  <2> QED
    BY <2>1, <2>2, Zenon DEF GivenUp
<1>3. ASSUME NEW p \in Pods, MergeDigest(p) PROVE GivenUp
  <2>1. /\ \A q \in Pods : q # p => bytes'[q] = bytes[q]
        /\ db' = db /\ dropped' = dropped \cup (bytes[p] \ bytes'[p])
    BY <1>a, <1>3, Zenon DEF MergeDigest
  <2> QED
    BY <2>1, Zenon DEF GivenUp
<1>4. ASSUME NEW p \in Pods, NEW d \in Digests, StoreArtifact(p, d) PROVE GivenUp
  <2>1. /\ \A q \in Pods : q # p => bytes'[q] = bytes[q] /\ db'[q] = db[q]
        /\ bytes'[p] = bytes[p] \cup {d} /\ db'[p].rows = db[p].rows \cup {d}
        /\ dropped' = dropped
    BY <1>a, <1>4, Zenon DEF StoreArtifact
  <2> QED
    BY <2>1, Zenon DEF GivenUp
<1>5. ASSUME NEW p \in Pods, NEW d \in Digests, DeleteArtifact(p, d) PROVE GivenUp
  <2>1. [db[p] EXCEPT !.refs = @ \ {d}].rows = db[p].rows
    BY <1>a, DatabaseUpdates, Zenon
  <2>2. /\ \A q \in Pods : q # p => db'[q] = db[q]
        /\ db'[p] = [db[p] EXCEPT !.refs = @ \ {d}]
        /\ bytes' = bytes /\ dropped' = dropped
    BY <1>a, <1>5, Zenon DEF DeleteArtifact
  <2> QED
    BY <2>1, <2>2, Zenon DEF GivenUp
<1>6. ASSUME NEW t \in TermIds, NEW d \in Digests, Sweep(t, d) PROVE GivenUp
  <2> DEFINE p == terms[t].pod
  <2>1. p \in Pods /\ d \notin db[p].refs
    BY <1>b, <1>6, Zenon DEF Sweep
  <2>2. [db[p] EXCEPT !.rows = @ \ {d}].rows = db[p].rows \ {d}
    BY <1>a, <2>1, DatabaseUpdates, Zenon
  <2>3. /\ \A q \in Pods : q # p => db'[q] = db[q] /\ bytes'[q] = bytes[q]
        /\ db'[p] = [db[p] EXCEPT !.rows = @ \ {d}]
        /\ bytes'[p] = bytes[p] \ {d} /\ dropped' = dropped \cup {d}
    BY <1>a, <1>6, <2>1, Zenon DEF Sweep
  <2>4. \A q \in Pods : bytes[q] \subseteq bytes'[q] \cup dropped'
    BY <2>1, <2>3, Zenon
  <2>5. \A q \in Pods : db[q].rows \subseteq db'[q].rows \cup dropped'
    BY <2>1, <2>2, <2>3, Zenon
  <2> QED
    BY <2>3, <2>4, <2>5, Zenon DEF GivenUp
<1>7. ASSUME NEW p \in Pods,
             \/ Elected(p) \/ Restart(p)
             \/ ResolveLeader(p) \/ DownloadSnapshot(p) \/ FetchBlobPage(p)
             \/ Commit(p) \/ SyncFails(p)
      PROVE  GivenUp
  BY <1>1, <1>7, Zenon DEF Elected, Restart, ResolveLeader, DownloadSnapshot, FetchBlobPage,
     Commit, SyncFails
<1>8. ASSUME NEW t \in TermIds, Stop(t) \/ PromoteFlag(t) PROVE GivenUp
  BY <1>1, <1>8, Zenon DEF Stop, PromoteFlag
<1>9. CASE UNCHANGED vars
  BY <1>1, <1>9, Zenon DEF vars
<1> QED
  BY <1>2, <1>3, <1>4, <1>5, <1>6, <1>7, <1>8, <1>9, Zenon DEF Next, Sync

\* Other actors' steps leave a cycle's digests accounted for.
LEMMA CycleKept ==
    ASSUME TypeOK, GivenUp, NEW p \in Pods, CycleMirrors(p), sync'[p] = sync[p]
    PROVE  CycleMirrors(p)'
<1>1. sync[p].pc = "merge" => sync[p].from \in Pods
  BY Zenon DEF TypeOK
<1>2. ASSUME sync[p].pc = "merge", NEW e \in sync[p].tmp.rows PROVE Accounted(p, e)'
  <2>1. Accounted(p, e)
    BY <1>2, Zenon DEF CycleMirrors
  <2> QED
    BY <1>1, <1>2, <2>1, Zenon DEF Accounted, GivenUp
<1>3. sync[p].pc = "merge" => sync[p].page \subseteq bytes'[sync[p].from] \cup dropped'
  BY <1>1, Zenon DEF CycleMirrors, GivenUp
<1> QED
  BY <1>2, <1>3, Zenon DEF CycleMirrors

\* downloadSnapshot: all of the snapshot is still in the leader's listing.
LEMMA DownloadMirrors ==
    ASSUME TypeOK, NEW p \in Pods, CycleMirrors(p), DownloadSnapshot(p)
    PROVE  CycleMirrors(p)'
<1> DEFINE q == sync[p].from
<1>1. sync[p] \in Cycle /\ q \in Pods /\ db[q] \in Database /\ sync \in [Pods -> Cycle]
  BY Zenon DEF TypeOK, DownloadSnapshot
<1>2. sync'[p] = Downloaded(sync[p], db[q]) /\ db' = db
  BY <1>1, Zenon DEF DownloadSnapshot, Downloaded
<1>3. /\ sync'[p].pc = "merge" /\ sync'[p].tmp = db[q] /\ sync'[p].from = q
      /\ sync'[p].cur = 0 /\ sync'[p].page = {} /\ ~sync'[p].last
  <2>1. sync[p].cur = 0 /\ sync[p].page = {} /\ ~sync[p].last
    BY Zenon DEF CycleMirrors, DownloadSnapshot
  <2>2. /\ sync'[p].pc = "merge" /\ sync'[p].tmp = db[q] /\ sync'[p].from = q
        /\ sync'[p].cur = sync[p].cur /\ sync'[p].page = sync[p].page
        /\ sync'[p].last = sync[p].last
    BY <1>1, <1>2, CycleDownloaded
  <2> QED
    BY <2>1, <2>2, Zenon
<1>4. \A e \in db[q].rows : e > 0
  <2>1. db[q].rows \subseteq Digests
    BY <1>1, Zenon DEF Database
  <2> QED
    BY <2>1, ReplicatorAssumption DEF Digests
<1>5. \A e \in db[q].rows : Accounted(p, e)'
  BY <1>2, <1>3, <1>4, Zenon DEF Accounted
<1> QED
  BY <1>3, <1>5, Zenon DEF CycleMirrors

\* fetchBlobPage: what the page leaves out comes after it, and the listing is not
\* complete while anything does.
LEMMA PageMirrors ==
    ASSUME TypeOK, NEW p \in Pods, CycleMirrors(p), FetchBlobPage(p),
           \A q \in Pods : db[q].rows \subseteq bytes[q] \cup dropped
    PROVE  CycleMirrors(p)'
<1> DEFINE q == sync[p].from
           page == PageAfter(db[q].rows, sync[p].cur)
<1>1. sync[p] \in Cycle /\ q \in Pods /\ db[q] \in Database /\ sync \in [Pods -> Cycle]
  BY Zenon DEF TypeOK, FetchBlobPage
<1>2. db[q].rows \in SUBSET Digests /\ sync[p].cur \in 0..MaxDigest
  BY <1>1, Zenon DEF Database, Cycle
<1>3. sync[p].cur \in Nat
  BY <1>2, ReplicatorAssumption
<1>4. /\ page \subseteq db[q].rows
      /\ \A e \in db[q].rows : e > sync[p].cur /\ e \notin page =>
            page # {} /\ \A d \in page : d < e
  BY <1>2, <1>3, PageIsPrefix, Zenon
<1>5. sync' = [sync EXCEPT ![p] = Paged(sync[p], page)]
  BY Zenon DEF FetchBlobPage, Paged
<1>6. /\ sync[p].pc = "merge" /\ ~sync[p].last /\ Remote(p) = {}
      /\ UNCHANGED <<db, bytes, dropped>>
  BY Zenon DEF FetchBlobPage
<1> HIDE DEF page
<1>7. page \in SUBSET Digests
  BY <1>2, <1>4, Zenon
<1>8. /\ sync'[p].pc = "merge" /\ sync'[p].tmp = sync[p].tmp /\ sync'[p].from = q
      /\ sync'[p].cur = sync[p].cur /\ sync'[p].page = page /\ (sync'[p].last <=> page = {})
  <2>1. sync'[p] = Paged(sync[p], page)
    BY <1>1, <1>5, Zenon
  <2> QED
    BY <1>1, <1>6, <1>7, <2>1, CyclePaged
<1>9. ASSUME NEW e \in sync[p].tmp.rows PROVE Accounted(p, e)'
  <2>1. Accounted(p, e) /\ \A d \in sync[p].page : ~(d > sync[p].cur)
    BY <1>6, <1>9, Zenon DEF CycleMirrors, Remote
  <2>2. \/ e \in dropped
        \/ e <= sync[p].cur /\ e \in bytes[p]
        \/ e > sync[p].cur /\ e \in db[q].rows
    BY <2>1, Zenon DEF Accounted
  <2> QED
    BY <1>4, <1>6, <1>8, <2>2, Zenon DEF Accounted
<1>10. sync'[p].page \subseteq bytes'[sync'[p].from] \cup dropped'
  BY <1>1, <1>4, <1>6, <1>8, Zenon
<1> QED
  BY <1>8, <1>9, <1>10, Zenon DEF CycleMirrors

\* One round of syncBlobs' merge: no digest of the page or after it is passed over.
LEMMA MergeMirrors ==
    ASSUME TypeOK, NEW p \in Pods, CycleMirrors(p), MergeDigest(p), GivenUp
    PROVE  CycleMirrors(p)'
<1> DEFINE c == sync[p]
           q == c.from
           d == Min(Remote(p) \cup Local(p))
<1>1. /\ c \in Cycle /\ q \in Pods \ {p} /\ sync \in [Pods -> Cycle] /\ c.pc = "merge"
      /\ bytes \in [Pods -> SUBSET Digests]
  BY Zenon DEF TypeOK, MergeDigest
<1>2. c.page \subseteq Digests /\ bytes[p] \subseteq Digests /\ c.tmp.rows \subseteq Digests
  BY <1>1, Zenon DEF Cycle, Database
<1>3. Digests \subseteq Nat /\ Digests \subseteq 0..MaxDigest /\ 0..MaxDigest \subseteq Nat
  BY ReplicatorAssumption DEF Digests
<1>4. c.cur \in Nat
  BY <1>1, <1>3, Zenon DEF Cycle
<1>5. /\ d \in Remote(p) \cup Local(p) /\ \A e \in Remote(p) \cup Local(p) : d <= e
      /\ d \in Digests
  <2>1. Remote(p) \cup Local(p) \subseteq Digests
    BY <1>2, Zenon DEF Remote, Local
  <2>2. Remote(p) \cup Local(p) # {}
    BY Zenon DEF MergeDigest
  <2>3. Remote(p) \cup Local(p) \subseteq Nat
    BY <1>3, <2>1, Zenon
  <2> QED
    BY <2>1, <2>2, <2>3, MinIsLeast, Zenon
<1>6. /\ bytes' = [bytes EXCEPT ![p] =
                     IF d \notin Remote(p) THEN @ \ {d}
                     ELSE IF d \in bytes[q] THEN @ \cup {d} ELSE @]
      /\ sync' = [sync EXCEPT ![p] = Moved(c, d)]
      /\ Remote(p) # {} \/ c.last
      /\ db' = db
  BY Zenon DEF MergeDigest, Moved
<1> HIDE DEF d
<1>7. d > c.cur
  BY <1>5, Zenon DEF Remote, Local
<1>8. /\ sync'[p].pc = "merge" /\ sync'[p].tmp = c.tmp /\ sync'[p].from = q
      /\ sync'[p].cur = d /\ sync'[p].page = c.page /\ sync'[p].last = c.last
  <2>1. sync'[p] = Moved(c, d) /\ d \in 0..MaxDigest
    BY <1>1, <1>3, <1>5, <1>6, Zenon
  <2> QED
    BY <1>1, <2>1, CycleMoved
<1>9. ASSUME NEW e \in c.tmp.rows PROVE Accounted(p, e)'
  <2>1. Accounted(p, e)
    BY <1>1, <1>9, Zenon DEF CycleMirrors
  <2>2. e \in Nat /\ d \in Nat
    BY <1>2, <1>3, <1>5, <1>9, Zenon
  <2>3. CASE e \in dropped
    BY <2>3, Zenon DEF Accounted, GivenUp
  <2>4. CASE e <= c.cur /\ e \in bytes[p]
    <3>1. e <= d
      BY <1>4, <1>7, <2>2, <2>4
    <3> QED
      BY <1>8, <2>4, <3>1, Zenon DEF Accounted, GivenUp
  <2>5. CASE e > c.cur /\ e \in c.page
    <3>1. e \in Remote(p) /\ d <= e
      BY <1>5, <2>5, Zenon DEF Remote
    <3>2. CASE e = d
      <4>1. c.page \subseteq bytes[q] \cup dropped
        BY <1>1, Zenon DEF CycleMirrors
      <4>2. e \in bytes[q] => e \in bytes'[p]
        BY <1>1, <1>6, <3>1, <3>2, Zenon
      <4>3. e <= d
        BY <2>2, <3>2
      <4> QED
        BY <1>8, <2>5, <4>1, <4>2, <4>3, Zenon DEF Accounted, GivenUp
    <3>3. CASE e # d
      <4>1. e > d
        BY <2>2, <3>1, <3>3
      <4> QED
        BY <1>8, <2>5, <4>1, Zenon DEF Accounted
    <3> QED
      BY <3>2, <3>3
  <2>6. CASE /\ e > c.cur /\ ~c.last /\ e \in db[q].rows
             /\ \A x \in c.page : x < e
    <3>1. PICK x \in Remote(p) : TRUE
      BY <1>6, <2>6, Zenon
    <3>2. d <= x /\ x < e /\ x \in Nat
      BY <1>2, <1>3, <1>5, <2>6, <3>1, Zenon DEF Remote
    <3>3. e > d
      BY <2>2, <3>2
    <3> QED
      BY <1>6, <1>8, <2>6, <3>3, Zenon DEF Accounted
  <2> QED
    BY <2>1, <2>3, <2>4, <2>5, <2>6, Zenon DEF Accounted
<1>10. sync'[p].page \subseteq bytes'[sync'[p].from] \cup dropped'
  BY <1>1, <1>8, Zenon DEF CycleMirrors, GivenUp
<1> QED
  BY <1>8, <1>9, <1>10, Zenon DEF CycleMirrors

\* Every step keeps it.
LEMMA MirroringStep ==
    ASSUME Mirroring, [Next]_vars
    PROVE  Mirroring'
<1>a. TypeOK /\ TypeOK' /\ GivenUp
  BY TypeStep, GivenUpStep, Zenon DEF Mirroring
<1>b. /\ db \in [Pods -> Database] /\ snap \in [Pods -> Snapshots]
      /\ sync \in [Pods -> Cycle] /\ bytes \in [Pods -> SUBSET Digests]
  BY <1>a, Zenon DEF TypeOK, Snapshots
<1>c. \A t \in TermIds : terms[t].pc # "done" \/ terms[t].live => terms[t].pod \in Pods
  BY <1>a, RunningTermHasPod, Zenon DEF TypeOK
\* Of the databases and the committed snapshots, per pod.
<1>d. \A p \in Pods : \A x : x \subseteq bytes[p] \cup dropped =>
                             x \subseteq bytes'[p] \cup dropped'
  BY <1>a, Zenon DEF GivenUp
<1>e. ASSUME NEW p \in Pods, db'[p].rows \subseteq db[p].rows \/ \E c \in snap[p] : db'[p] = c
      PROVE  db'[p].rows \subseteq bytes'[p] \cup dropped'
  BY <1>d, <1>e, Zenon DEF Mirroring
<1>f. ASSUME NEW p \in Pods, snap'[p] \subseteq snap[p]
      PROVE  \A c \in snap'[p] : c.rows \subseteq bytes'[p] \cup dropped'
  BY <1>d, <1>f, Zenon DEF Mirroring
<1>g. ASSUME \A p \in Pods : db'[p].rows \subseteq bytes'[p] \cup dropped',
             \A p \in Pods : \A c \in snap'[p] : c.rows \subseteq bytes'[p] \cup dropped',
             \A p \in Pods : sync'[p] = sync[p] \/ CycleMirrors(p)'
      PROVE  Mirroring'
  BY <1>a, <1>g, CycleKept, Zenon DEF Mirroring
<1>h. \A p \in Pods : sync'[p] = NoCycle => CycleMirrors(p)'
  BY EmptyTypes, Zenon DEF CycleMirrors
<1>1. ASSUME UNCHANGED <<db, snap, sync>> PROVE Mirroring'
  BY <1>e, <1>f, <1>g, <1>1, Zenon
<1>2. ASSUME NEW p \in Pods, UNCHANGED <<db, snap>>, CycleMirrors(p)',
             \A q \in Pods : q # p => sync'[q] = sync[q]
      PROVE  Mirroring'
  BY <1>e, <1>f, <1>g, <1>2, Zenon
<1>3. ASSUME NEW p \in Pods, Elected(p) PROVE Mirroring'
  BY <1>1, <1>3, Zenon DEF Elected
<1>4. ASSUME NEW t \in TermIds, Stop(t) \/ PromoteFlag(t) PROVE Mirroring'
  BY <1>1, <1>4, Zenon DEF Stop, PromoteFlag
<1>5. ASSUME NEW t \in TermIds, PromoteSwap(t) PROVE Mirroring'
  <2> DEFINE p == terms[t].pod
  <2>1. p \in Pods
    BY <1>c, <1>5, Zenon DEF PromoteSwap, Advance
  <2>2. /\ \A q \in Pods : q # p => db'[q] = db[q]
        /\ db'[p] = db[p] \/ \E c \in snap[p] : db'[p] = c
    BY <1>b, <1>5, <2>1, Zenon DEF PromoteSwap, SwapFromSnapshot
  <2>3. \A q \in Pods : snap'[q] \subseteq snap[q]
    BY <1>b, <1>5, Zenon DEF PromoteSwap
  <2>4. sync' = sync
    BY <1>5, Zenon DEF PromoteSwap
  <2> QED
    BY <1>e, <1>f, <1>g, <2>2, <2>3, <2>4, Zenon
<1>6. ASSUME NEW p \in Pods, ResolveLeader(p) PROVE Mirroring'
  <2>1. LeaseLeader(p) \in Pods
    BY <1>a, <1>6, Zenon DEF ResolveLeader, LeaseLeader, TypeOK, LeaseTypeOK
  <2>2. /\ sync'[p] = Started(LeaseLeader(p))
        /\ \A q \in Pods : q # p => sync'[q] = sync[q]
        /\ UNCHANGED <<db, snap>>
    BY <1>b, <1>6, Zenon DEF ResolveLeader, Started
  <2>3. sync'[p].pc = "db" /\ sync'[p].cur = 0 /\ sync'[p].page = {} /\ ~sync'[p].last
    BY <2>1, <2>2, EmptyTypes
  <2>4. CycleMirrors(p)'
    BY <2>3, Zenon DEF CycleMirrors
  <2> QED
    BY <1>2, <2>2, <2>4, Zenon
<1>7. ASSUME NEW p \in Pods, DownloadSnapshot(p) \/ FetchBlobPage(p) \/ MergeDigest(p)
      PROVE  Mirroring'
  <2>1. CycleMirrors(p) /\ \A q \in Pods : db[q].rows \subseteq bytes[q] \cup dropped
    BY Zenon DEF Mirroring
  <2>2. CycleMirrors(p)'
    BY <1>a, <1>7, <2>1, DownloadMirrors, PageMirrors, MergeMirrors, Zenon
  <2>3. UNCHANGED <<db, snap>> /\ \A q \in Pods : q # p => sync'[q] = sync[q]
    BY <1>b, <1>7, Zenon DEF DownloadSnapshot, FetchBlobPage, MergeDigest
  <2> QED
    BY <1>2, <2>2, <2>3, Zenon
<1>8. ASSUME NEW p \in Pods, Commit(p) PROVE Mirroring'
  <2>1. /\ UNCHANGED <<db, bytes, dropped>>
        /\ \A q \in Pods : q # p => sync'[q] = sync[q] /\ snap'[q] = snap[q]
        /\ sync'[p] = NoCycle /\ snap'[p] = {sync[p].tmp}
        /\ sync[p].pc = "merge" /\ sync[p].last /\ Remote(p) \cup Local(p) = {}
    BY <1>b, <1>8, Zenon DEF Commit, BlobsMirrored
  <2>2. ASSUME NEW e \in sync[p].tmp.rows PROVE e \in bytes[p] \cup dropped
    <3>1. Accounted(p, e)
      BY <2>1, <2>2, Zenon DEF Mirroring, CycleMirrors
    <3> QED
      BY <2>1, <3>1, Zenon DEF Accounted, Remote
  <2>3. \A q \in Pods : \A c \in snap'[q] : c.rows \subseteq bytes'[q] \cup dropped'
    <3>1. \A q \in Pods : q # p => \A c \in snap'[q] : c.rows \subseteq bytes'[q] \cup dropped'
      BY <1>f, <2>1, Zenon
    <3>2. \A c \in snap'[p] : c.rows \subseteq bytes'[p] \cup dropped'
      BY <2>1, <2>2, Zenon
    <3> QED
      BY <3>1, <3>2, Zenon
  <2>4. \A q \in Pods : db'[q].rows \subseteq bytes'[q] \cup dropped'
    BY <1>e, <2>1, Zenon
  <2>5. \A q \in Pods : sync'[q] = sync[q] \/ CycleMirrors(q)'
    BY <1>h, <2>1, Zenon
  <2> QED
    BY <1>g, <2>3, <2>4, <2>5, Zenon
<1>9. ASSUME NEW p \in Pods, SyncFails(p) PROVE Mirroring'
  <2>1. /\ UNCHANGED <<db, snap>> /\ sync'[p] = NoCycle
        /\ \A q \in Pods : q # p => sync'[q] = sync[q]
    BY <1>b, <1>9, Zenon DEF SyncFails
  <2> QED
    BY <1>2, <1>h, <2>1, Zenon
<1>10. ASSUME NEW p \in Pods, NEW d \in Digests, StoreArtifact(p, d) PROVE Mirroring'
  <2>1. /\ \A q \in Pods : q # p => db'[q] = db[q]
        /\ bytes'[p] = bytes[p] \cup {d} /\ db'[p].rows = db[p].rows \cup {d}
        /\ UNCHANGED <<snap, sync>>
    BY <1>b, <1>10, Zenon DEF StoreArtifact
  <2>2. db[p].rows \subseteq bytes'[p] \cup dropped'
    BY <1>d, Zenon DEF Mirroring
  <2>3. db'[p].rows \subseteq bytes'[p] \cup dropped'
    BY <2>1, <2>2, Zenon
  <2> QED
    BY <1>e, <1>f, <1>g, <2>1, <2>3, Zenon
<1>11. ASSUME NEW p \in Pods, NEW d \in Digests, DeleteArtifact(p, d) PROVE Mirroring'
  <2>1. [db[p] EXCEPT !.refs = @ \ {d}].rows = db[p].rows
    BY <1>b, DatabaseUpdates, Zenon
  <2>2. /\ \A q \in Pods : q # p => db'[q] = db[q]
        /\ db'[p] = [db[p] EXCEPT !.refs = @ \ {d}]
        /\ UNCHANGED <<snap, sync>>
    BY <1>b, <1>11, Zenon DEF DeleteArtifact
  <2> QED
    BY <1>e, <1>f, <1>g, <2>1, <2>2, Zenon
<1>12. ASSUME NEW t \in TermIds, NEW d \in Digests, Sweep(t, d) PROVE Mirroring'
  <2> DEFINE p == terms[t].pod
  <2>1. p \in Pods /\ d \notin db[p].refs
    BY <1>c, <1>12, Zenon DEF Sweep
  <2>2. [db[p] EXCEPT !.rows = @ \ {d}].rows = db[p].rows \ {d}
    BY <1>b, <2>1, DatabaseUpdates, Zenon
  <2>3. /\ \A q \in Pods : q # p => db'[q] = db[q]
        /\ db'[p] = [db[p] EXCEPT !.rows = @ \ {d}]
        /\ UNCHANGED <<snap, sync>>
    BY <1>b, <1>12, <2>1, Zenon DEF Sweep
  <2>4. \A q \in Pods : db'[q].rows \subseteq db[q].rows
    BY <2>1, <2>2, <2>3, Zenon
  <2> QED
    BY <1>e, <1>f, <1>g, <2>3, <2>4, Zenon
<1>13. ASSUME NEW p \in Pods, Restart(p) PROVE Mirroring'
  <2>1. /\ db' = db /\ \A q \in Pods : snap'[q] \subseteq snap[q]
        /\ sync'[p] = NoCycle /\ \A q \in Pods : q # p => sync'[q] = sync[q]
    BY <1>b, <1>13, Zenon DEF Restart
  <2>2. \A q \in Pods : sync'[q] = sync[q] \/ CycleMirrors(q)'
    BY <1>h, <2>1, Zenon
  <2> QED
    BY <1>e, <1>f, <1>g, <2>1, <2>2, Zenon
<1>14. CASE UNCHANGED vars
  BY <1>1, <1>14, Zenon DEF vars
<1> QED
  BY <1>3, <1>4, <1>5, <1>6, <1>7, <1>8, <1>9, <1>10, <1>11, <1>12, <1>13, <1>14, Zenon
     DEF Next, Sync

\* The initial state has nothing to mirror.
LEMMA Initially == Init => Mirroring
<1> SUFFICES ASSUME Init PROVE Mirroring
  OBVIOUS
<1>1. LeaseTypeOK
  BY LeadershipAssumption DEF Init, LeaseInit, LeaseTypeOK, TermIds
<1>2. requests \in 0..MaxRequests /\ crashes \in 0..MaxCrashes
  BY ReplicatorAssumption DEF Init
<1>3. snap \in [Pods -> Snapshots] /\ db \in [Pods -> Database] /\ sync \in [Pods -> Cycle]
  BY EmptyTypes, SnapshotTypes, Zenon DEF Init
<1>4. TypeOK
  BY <1>1, <1>2, <1>3, EmptyTypes, Zenon DEF Init, TypeOK, Snapshots
<1>5. \A p \in Pods : /\ db[p].rows = {} /\ snap[p] = {} /\ sync[p].pc = "idle"
  BY EmptyTypes, Zenon DEF Init, Empty
<1> QED
  BY <1>4, <1>5, Zenon DEF Mirroring, CycleMirrors

\* Types: in particular a standby never pulls from itself (LeaseLeaderURL), and no
\* artifact outlives its blob row.
THEOREM TypeCorrect == Spec => []TypeOK
<1>1. Mirroring => TypeOK
  BY Zenon DEF Mirroring
<1>2. Mirroring /\ [Next]_vars => Mirroring'
  BY MirroringStep, Zenon
<1> QED
  BY Initially, <1>1, <1>2, PTL DEF Spec

\* Neither a committed snapshot nor a database refers to a blob whose bytes the pod
\* lacks, unless some pod gave them up: syncBlobs' two ordered listings, read page
\* by page while the leader writes and sweeps, skip nothing.
THEOREM NothingSkipped == Spec => []LacksOnlyDropped
<1>1. Mirroring => LacksOnlyDropped
  <2> SUFFICES ASSUME Mirroring PROVE LacksOnlyDropped
    OBVIOUS
  <2>1. \A x \in Database : x.refs \subseteq x.rows
    BY Zenon DEF Database
  <2>2. \A p \in Pods : db[p] \in Database /\ \A c \in snap[p] : c \in Database
    <3>1. \A p \in Pods : db[p] \in Database /\ snap[p] \in Snapshots
      BY Zenon DEF Mirroring, TypeOK, Snapshots
    <3> QED
      BY <3>1, SnapshotTypes, Zenon
  <2> QED
    BY <2>1, <2>2, Zenon DEF Mirroring, LacksOnlyDropped, CommittedLacksOnlyDropped,
       LocalLacksOnlyDropped
<1>2. Mirroring /\ [Next]_vars => Mirroring'
  BY MirroringStep, Zenon
<1> QED
  BY Initially, <1>1, <1>2, PTL DEF Spec
=============================================================================
