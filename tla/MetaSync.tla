------------------------------ MODULE MetaSync ------------------------------
(***************************************************************************)
(* The object-storage HA mode.  Pods contend for a Kubernetes Lease; the    *)
(* holder's metadata database is copied to one S3 object (VACUUM INTO,      *)
(* HEAD, conditional PUT) that standbys download and apply on promotion.    *)
(* Uploads carry a fencing token, the Lease's transition count.             *)
(*                                                                          *)
(* The startLeading goroutine of a term, the sync ticker of a pod and the   *)
(* other pods interleave at every call that leaves the process.             *)
(***************************************************************************)
EXTENDS Leadership, LocalStore

CONSTANTS
    Writes,       \* client writes to the metadata database
    MaxCrashes    \* bound on pod restarts

ASSUME MetaSyncAssumption == MaxCrashes \in Nat

VARIABLES
    token,        \* per term: the fencing token its startLeading read
    isLeader,     \* per pod: MetaSync.isLeader
    fence,        \* per pod: MetaSync.fence
    snap,         \* per pod: {the snapshot at snapshotPath}, {} for ""
    up,           \* per pod: the upload that holds syncMu, if any
    s3,           \* the snapshot object
    crashes

vars == <<holder, transitions, nterms, terms, token, isLeader, fence, snap, db,
          open, up, s3, crashes>>

NoUpload == [pc |-> "idle", content |-> {}, fence |-> 0, checked |-> 0, fresh |-> FALSE]
Upload == [pc : {"idle", "head", "put"}, content : SUBSET Writes,
           fence : Nat, checked : Nat, fresh : BOOLEAN]

TypeOK ==
    /\ LeaseTypeOK
    /\ token \in [TermIds -> Nat]
    /\ isLeader \in [Pods -> BOOLEAN]
    /\ fence \in [Pods -> Nat]
    /\ snap \in [Pods -> {{}} \cup {{c} : c \in SUBSET Writes}]
    /\ db \in [Pods -> SUBSET Writes]
    /\ open \in [Pods -> BOOLEAN]
    /\ up \in [Pods -> Upload]
    /\ s3 \in [exists : BOOLEAN, fence : Nat, content : SUBSET Writes]
    /\ crashes \in 0..MaxCrashes

\* Pods boot with an empty database and an empty bucket (RestoreOnBoot no-op).
Init ==
    /\ LeaseInit
    /\ token = [t \in TermIds |-> 0]
    /\ isLeader = [p \in Pods |-> FALSE]
    /\ fence = [p \in Pods |-> 0]
    /\ snap = [p \in Pods |-> {}]
    /\ db = [p \in Pods |-> {}]
    /\ open = [p \in Pods |-> TRUE]
    /\ up = [p \in Pods |-> NoUpload]
    /\ s3 = [exists |-> FALSE, fence |-> 0, content |-> {}]
    /\ crashes = 0

\* A pod takes the Lease; its startLeading starts.
Elected(p) ==
    /\ Acquire(p)
    /\ UNCHANGED <<token, isLeader, fence, snap, db, open, up, s3, crashes>>

\* The term ends and stopLeading runs MetaSync.Demote.
Stop(t) ==
    /\ EndTerm(t)
    /\ isLeader' = [isLeader EXCEPT ![terms[t].pod] = FALSE]
    /\ UNCHANGED <<token, fence, snap, db, open, up, s3, crashes>>

-----------------------------------------------------------------------------
(* startLeading.                                                            *)

\* Mutant: transitions are counted from one and the token is made zero-based.
ZeroBasedToken(t) == {0} \cup (IF terms[t].live THEN {transitions - 1} ELSE {})

\* Mutant: the token is that of the next transition.
TokenAhead(t) == {0} \cup (IF terms[t].live THEN {transitions + 1} ELSE {})

\* Elector.FencingToken reads the Lease as it is now.  An error, certain once
\* the term's context is cancelled, makes the token 0.
FencingToken(t) == {0} \cup (IF terms[t].live THEN {transitions} ELSE {})

ReadToken(t) ==
    /\ Advance(t, "start", "flag")
    /\ \E tok \in FencingToken(t) : token' = [token EXCEPT ![t] = tok]
    /\ UNCHANGED <<isLeader, fence, snap, db, open, up, s3, crashes>>

\* MetaSync.Promote: isLeader.Store(true), before syncMu is taken.
PromoteFlag(t) ==
    /\ Advance(t, "flag", "fence")
    /\ isLeader' = [isLeader EXCEPT ![terms[t].pod] = TRUE]
    /\ UNCHANGED <<token, fence, snap, db, open, up, s3, crashes>>

\* MetaSync.Promote: fence.Store(fence), before syncMu is taken.
PromoteFence(t) ==
    /\ Advance(t, "fence", "swap")
    /\ fence' = [fence EXCEPT ![terms[t].pod] = token[t]]
    /\ UNCHANGED <<token, isLeader, snap, db, open, up, s3, crashes>>

\* MetaSync.Promote under syncMu: apply the last downloaded snapshot.  An error
\* is logged and startLeading goes on.
PromoteSwap(t) ==
    LET p == terms[t].pod IN
    /\ Advance(t, "swap", "done")
    /\ up[p].pc = "idle"
    /\ \/ snap[p] = {} /\ UNCHANGED <<db, open>>
       \/ \E c \in snap[p] : SwapFromSnapshot(p, c, terms[t].live)
    /\ snap' = [snap EXCEPT ![p] = {}]
    /\ UNCHANGED <<token, isLeader, fence, up, s3, crashes>>

-----------------------------------------------------------------------------
(* MetaSync.sync, one tick of a pod's ticker; an upload holds syncMu.       *)

\* upload: the snapshot is written and its metadata takes the fence as it is.
UploadSnapshot(p) ==
    /\ up[p].pc = "idle"
    /\ isLeader[p]
    /\ open[p]
    /\ up' = [up EXCEPT ![p] = [pc |-> "head", content |-> db[p], fence |-> fence[p],
                                checked |-> 0, fresh |-> FALSE]]
    /\ UNCHANGED <<leaseVars, terms, token, isLeader, fence, snap, db, open, s3,
                   crashes>>

\* Mutant: a stored fence that is not older than this pod's refuses the upload.
StoredFenceNotOlder(p) == s3.exists /\ s3.fence >= fence[p]

\* The fence is loaded again and compared with the stored one.
StoredFenceNewer(p) == s3.exists /\ s3.fence > fence[p]

\* HEAD: a newer stored fence refuses the upload.
UploadHead(p) ==
    /\ up[p].pc = "head"
    /\ up' = [up EXCEPT ![p] =
                 IF StoredFenceNewer(p) THEN NoUpload
                 ELSE [@ EXCEPT !.pc = "put", !.checked = fence[p], !.fresh = TRUE]]
    /\ UNCHANGED <<leaseVars, terms, token, isLeader, fence, snap, db, open, s3,
                   crashes>>

\* Mutant: an unconditional PUT.
NoPrecondition(p) == TRUE

\* If-Match on the ETag HEAD saw, If-None-Match when HEAD saw no object.
Precondition(p) == up[p].fresh

\* A PUT that succeeds puts every other pod's HEAD result out of date.
UploadPut(p) ==
    /\ up[p].pc = "put"
    /\ Precondition(p)
    /\ s3' = [exists |-> TRUE, fence |-> up[p].fence, content |-> up[p].content]
    /\ up' = [q \in Pods |-> IF q = p THEN NoUpload ELSE [up[q] EXCEPT !.fresh = FALSE]]
    /\ UNCHANGED <<leaseVars, terms, token, isLeader, fence, snap, db, open,
                   crashes>>

\* HEAD or PUT failed, or PUT answered 412: the cycle is skipped.
UploadFails(p) ==
    /\ up[p].pc \in {"head", "put"}
    /\ up' = [up EXCEPT ![p] = NoUpload]
    /\ UNCHANGED <<leaseVars, terms, token, isLeader, fence, snap, db, open, s3,
                   crashes>>

\* A standby's cycle: GET the object, remember it for promotion.
Download(p) ==
    /\ up[p].pc = "idle"
    /\ ~isLeader[p]
    /\ s3.exists
    /\ snap' = [snap EXCEPT ![p] = {s3.content}]
    /\ UNCHANGED <<leaseVars, terms, token, isLeader, fence, db, open, up, s3,
                   crashes>>

-----------------------------------------------------------------------------
(* Clients and restarts.                                                    *)

\* The Service routes a write to a pod with the leader label.  A label set after
\* startLeading applied the snapshot may outlive the term and a restart (see
\* LeaderLabels), so any pod that got that far may receive one.
Write(p, w) ==
    /\ \E t \in TermIds : terms[t].pod = p /\ terms[t].pc = "done"
    /\ open[p]
    /\ \A q \in Pods : w \notin db[q]
    /\ db' = [db EXCEPT ![p] = @ \cup {w}]
    /\ UNCHANGED <<leaseVars, terms, token, isLeader, fence, snap, open, up, s3,
                   crashes>>

\* The process dies and comes back: RestoreOnBoot replaces the local database
\* by the object, or keeps what the volume still has when there is none.
Restart(p) ==
    /\ crashes < MaxCrashes
    /\ crashes' = crashes + 1
    /\ KillTerms(p)
    /\ isLeader' = [isLeader EXCEPT ![p] = FALSE]
    /\ fence' = [fence EXCEPT ![p] = 0]
    /\ snap' = [snap EXCEPT ![p] = {}]
    /\ db' \in IF s3.exists THEN {[db EXCEPT ![p] = s3.content]}
               ELSE {db, [db EXCEPT ![p] = {}]}
    /\ open' = [open EXCEPT ![p] = TRUE]
    /\ up' = [up EXCEPT ![p] = NoUpload]
    /\ UNCHANGED <<token, s3>>

StartLeading(t) ==
    ReadToken(t) \/ PromoteFlag(t) \/ PromoteFence(t) \/ PromoteSwap(t)

Sync(p) ==
    \/ UploadSnapshot(p) \/ UploadHead(p) \/ UploadPut(p) \/ UploadFails(p)
    \/ Download(p)

Next ==
    \/ \E p \in Pods : Elected(p) \/ Sync(p) \/ Restart(p)
    \/ \E t \in TermIds : Stop(t) \/ StartLeading(t)
    \/ \E p \in Pods, w \in Writes : Write(p, w)

Spec == Init /\ [][Next]_vars

\* The startLeading goroutine runs on, the ticker keeps firing, every S3 call
\* returns, and often enough HEAD and the conditional PUT get through.
Fairness ==
    /\ \A t \in TermIds : WF_vars(StartLeading(t))
    /\ \A p \in Pods : /\ WF_vars(UploadSnapshot(p))
                       /\ WF_vars(UploadPut(p) \/ UploadFails(p))
                       /\ SF_vars(UploadHead(p))
                       /\ SF_vars(UploadPut(p))

FairSpec == Spec /\ Fairness

-----------------------------------------------------------------------------
(* Properties.                                                              *)

\* No pod carries a token from the future: every fence in use is at most the
\* Lease's transition count, so the current leader's own token is never the
\* one that is refused.
FenceWithinTransitions ==
    /\ s3.fence <= transitions
    /\ \A p \in Pods : fence[p] <= transitions /\ up[p].fence <= transitions
    /\ \A t \in TermIds : token[t] <= transitions

\* HEAD, compare and conditional PUT keep an older term from replacing a newer
\* snapshot, with one exception: upload loads the fence twice (for the object's
\* metadata and for the comparison), and a promotion in between lets it store
\* the older value.
FenceLoweredOnlyByPromotion ==
    [][s3'.fence < s3.fence =>
          \E p \in Pods : up[p].pc = "put" /\ up[p].fence < up[p].checked]_vars

\* The pod that holds the Lease, finished startLeading with its own token and
\* has a database that answers.
Settled(p) ==
    /\ holder = p
    /\ open[p]
    /\ fence[p] = transitions
    /\ \E t \in TermIds : terms[t].pod = p /\ terms[t].live /\ terms[t].pc = "done"

\* A settled leader is never locked out: what it wrote reaches the object, as
\* long as it stays settled (whatever superseded pods keep uploading).
SettledLeaderUploads ==
    \A p \in Pods, w \in Writes :
        (w \in db[p] /\ Settled(p)) ~> (w \in s3.content \/ ~Settled(p))

\* upload: "never overwrite a snapshot written by a newer leadership term".
FenceNeverLowered == [][s3'.fence >= s3.fence]_vars

\* startLeading: "promote failed; serving local data".
FailedPromoteServesLocalData == \A p \in Pods : open[p]

\* Package doc: "writes within one sync interval can be lost on failover", so a
\* leader that goes on leading gets its writes to the object.
Leading(p) ==
    /\ holder = p
    /\ open[p]
    /\ \E t \in TermIds : terms[t].pod = p /\ terms[t].live /\ terms[t].pc = "done"
LeaderUploads ==
    \A p \in Pods, w \in Writes :
        (w \in db[p] /\ Leading(p)) ~> (w \in s3.content \/ ~Leading(p))
=============================================================================
