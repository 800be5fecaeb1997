-------------------------- MODULE LeadershipProofs --------------------------
(***************************************************************************)
(* Proofs about the Lease and what follows it in the object-storage mode:   *)
(* the fenced metadata uploads and the role labels, for any set of pods and *)
(* any number of terms, restarts, replacements and lost patches.            *)
(***************************************************************************)
EXTENDS MetaSync, LeaderLabels, TLAPS

-----------------------------------------------------------------------------
(* The Lease and its terms.                                                 *)

TermPcs == {"start", "flag", "fence", "swap", "label", "peers", "done"}

\* What a pod may do to the Lease and the terms in one step of the cluster.
LeaseStep ==
    \/ \E p \in Pods : Acquire(p) \/ KillTerms(p)
    \/ \E t \in TermIds : \/ EndTerm(t)
                          \/ \E from \in TermPcs \ {"done"}, to \in TermPcs :
                                Advance(t, from, to)
    \/ UNCHANGED <<holder, transitions, nterms, terms>>

\* Lease and terms keep their types.
LEMMA LeaseTypeStep ==
    ASSUME LeaseTypeOK, LeaseStep
    PROVE  LeaseTypeOK'
<1> USE LeadershipAssumption DEF LeaseTypeOK, TermIds
<1>a. \A x \in Term : x # NoTerm
  BY DEF Term, NoTerm
<1>1. ASSUME NEW p \in Pods, Acquire(p) PROVE LeaseTypeOK'
  <2>1. transitions' \in Nat /\ nterms' \in 0..MaxTerms /\ holder' \in Pods
    BY <1>1 DEF Acquire, TransitionsAfter
  <2>2. [pod |-> p, live |-> TRUE, pc |-> "start", trans |-> transitions'] \in Term
    BY <2>1 DEF Term
  <2> QED
    BY <1>1, <1>a, <2>1, <2>2 DEF Acquire
<1>2. ASSUME NEW t \in TermIds, EndTerm(t) PROVE LeaseTypeOK'
  <2>1. terms[t] \in Term
    BY <1>2 DEF EndTerm, NoTerm
  <2>2. [terms[t] EXCEPT !.live = FALSE] \in Term
    BY <2>1, Zenon DEF Term
  <2> QED
    BY <1>2, <1>a, <2>1, <2>2, Zenon DEF EndTerm
<1>3. ASSUME NEW t \in TermIds, NEW from \in TermPcs \ {"done"}, NEW to \in TermPcs,
             Advance(t, from, to)
      PROVE  LeaseTypeOK'
  <2>1. terms[t] \in Term
    BY <1>3 DEF Advance, NoTerm
  <2>2. [terms[t] EXCEPT !.pc = to] \in Term
    BY <1>3, <2>1, Zenon DEF Term, TermPcs
  <2> QED
    BY <1>3, <1>a, <2>1, <2>2, SMTT(30) DEF Advance, leaseVars
<1>4. ASSUME NEW p \in Pods, KillTerms(p) PROVE LeaseTypeOK'
  BY <1>4, <1>a, ZenonT(30) DEF KillTerms, leaseVars, Term, NoTerm
<1>5. CASE UNCHANGED <<holder, transitions, nterms, terms>>
  BY <1>5
<1> QED
  BY <1>1, <1>2, <1>3, <1>4, <1>5 DEF LeaseStep

\* A term that is live, or whose startLeading still runs, is some pod's.
LEMMA RunningTermHasPod ==
    ASSUME LeaseTypeOK
    PROVE  \A t \in TermIds : terms[t].pc # "done" \/ terms[t].live => terms[t].pod \in Pods
<1>1. \A t \in TermIds : terms[t] \in Term \/ terms[t] = NoTerm
  BY Zenon DEF LeaseTypeOK
<1>2. \A x \in Term : x.pod \in Pods
  BY Zenon DEF Term
<1>3. NoTerm.pc = "done" /\ NoTerm.live = FALSE
  BY DEF NoTerm
<1> QED
  BY <1>1, <1>2, <1>3, Zenon

\* The counts of past terms are behind the Lease's, strictly so unless the
\* term's pod is still the holder.
CountsBehind ==
    \A t \in 1..nterms :
        /\ terms[t].trans <= transitions
        /\ holder # None /\ terms[t].pod # holder => terms[t].trans < transitions

\* Every step of the cluster keeps the counts of terms apart.
LEMMA CountStep ==
    ASSUME LeaseTypeOK, CountsBehind, LaterTermLargerCount, LeaseStep
    PROVE  CountsBehind' /\ LaterTermLargerCount'
<1> USE LeadershipAssumption DEF TermIds
<1>a. /\ nterms \in 0..MaxTerms /\ transitions \in Nat
      /\ holder \in Pods \cup {None}
      /\ terms \in [1..MaxTerms -> Term \cup {NoTerm}]
      /\ \A t \in 1..MaxTerms : terms[t].trans \in Nat
      /\ \A t \in 1..MaxTerms : t <= nterms => terms[t].pod \in Pods
  BY DEF LeaseTypeOK, Term, NoTerm
<1>1. ASSUME NEW p \in Pods, Acquire(p) PROVE CountsBehind' /\ LaterTermLargerCount'
  <2>1. /\ nterms' = nterms + 1 /\ nterms' \in 1..MaxTerms
        /\ holder' = p /\ p # None
        /\ terms'[nterms'].pod = p /\ terms'[nterms'].trans = transitions'
        /\ \A t \in 1..nterms : terms'[t] = terms[t]
        /\ transitions' = TransitionsAfter(p)
    BY <1>1, <1>a DEF Acquire
  <2>2. /\ transitions' \in Nat /\ transitions' >= transitions
        /\ \A t \in 1..nterms : terms[t].pod # p => terms[t].trans < transitions'
    BY <1>a, <2>1 DEF TransitionsAfter, CountsBehind
  <2>3. CountsBehind'
    <3> SUFFICES ASSUME NEW t \in 1..nterms'
                 PROVE  /\ terms'[t].trans <= transitions'
                        /\ terms'[t].pod # holder' => terms'[t].trans < transitions'
      BY DEF CountsBehind
    <3>1. CASE t = nterms'
      BY <2>1, <2>2, <3>1
    <3>2. CASE t # nterms'
      <4>1. t \in 1..nterms /\ terms[t].trans \in Nat
        BY <1>a, <2>1, <3>2
      <4> QED
        BY <1>a, <2>1, <2>2, <4>1 DEF CountsBehind
    <3> QED
      BY <3>1, <3>2
  <2>4. LaterTermLargerCount'
    <3> SUFFICES ASSUME NEW t \in 1..MaxTerms, NEW u \in 1..MaxTerms,
                        t < u, u <= nterms', terms'[t].pod # terms'[u].pod
                 PROVE  terms'[t].trans < terms'[u].trans
      BY DEF LaterTermLargerCount
    <3>1. t \in 1..nterms
      BY <1>a, <2>1
    <3>2. CASE u = nterms'
      BY <2>1, <2>2, <3>1, <3>2
    <3>3. CASE u # nterms'
      BY <1>a, <2>1, <3>1, <3>3, SMTT(120) DEF LaterTermLargerCount
    <3> QED
      BY <3>2, <3>3
  <2> QED
    BY <2>3, <2>4
<1>2. ASSUME transitions' = transitions, nterms' = nterms, holder' \in {holder, None},
             \A t \in 1..MaxTerms : /\ terms'[t].pod = terms[t].pod
                                    /\ terms'[t].trans = terms[t].trans
      PROVE  CountsBehind' /\ LaterTermLargerCount'
  BY <1>2, <1>a, SMTT(30) DEF CountsBehind, LaterTermLargerCount
<1>3. ASSUME NEW t \in TermIds, EndTerm(t) PROVE CountsBehind' /\ LaterTermLargerCount'
  BY <1>2, <1>3, <1>a DEF EndTerm, Term, NoTerm
<1>4. ASSUME NEW t \in TermIds, NEW from \in TermPcs \ {"done"}, NEW to \in TermPcs,
             Advance(t, from, to)
      PROVE  CountsBehind' /\ LaterTermLargerCount'
  BY <1>2, <1>4, <1>a, SMTT(30) DEF Advance, leaseVars, Term, NoTerm
<1>5. ASSUME NEW p \in Pods, KillTerms(p) PROVE CountsBehind' /\ LaterTermLargerCount'
  <2>1. \A t \in 1..MaxTerms : terms[t] \in Term \cup {NoTerm}
    BY <1>a
  <2>2. \A t \in 1..MaxTerms : /\ terms'[t].pod = terms[t].pod
                               /\ terms'[t].trans = terms[t].trans
    <3> SUFFICES ASSUME NEW t \in 1..MaxTerms
                 PROVE  terms'[t].pod = terms[t].pod /\ terms'[t].trans = terms[t].trans
      BY SMTT(30)
    <3>1. \/ terms'[t] = terms[t]
          \/ terms'[t] = [terms[t] EXCEPT !.live = FALSE, !.pc = "done"]
      BY <1>5, Zenon DEF KillTerms
    <3>2. CASE terms[t] \in Term
      BY <3>1, <3>2, Zenon DEF Term
    <3>3. CASE terms[t] = NoTerm
      BY <3>1, <3>3, Zenon DEF NoTerm
    <3> QED
      BY <2>1, <3>2, <3>3
  <2> QED
    BY <1>2, <1>5, <2>2, Zenon DEF KillTerms, leaseVars
<1>6. CASE UNCHANGED <<holder, transitions, nterms, terms>>
  BY <1>2, <1>6
<1> QED
  BY <1>1, <1>3, <1>4, <1>5, <1>6 DEF LeaseStep

-----------------------------------------------------------------------------
(* The metadata object.                                                     *)

\* The steps of MetaSync are steps of the Lease.
LEMMA NextIsLeaseStep == [Next]_vars => LeaseStep
  BY Zenon DEF Next, vars, LeaseStep, TermPcs, Elected, Sync, Restart, Stop, StartLeading, Write,
         ReadToken, PromoteFlag, PromoteFence, PromoteSwap, UploadSnapshot,
         UploadHead, UploadPut, UploadFails, Download, leaseVars

-----------------------------------------------------------------------------
(* Type correctness and the order of terms.                                 *)

\* What HEAD and another pod's PUT make of an upload is still one.
LEMMA UploadUpdates ==
    ASSUME NEW u \in Upload, NEW n \in Nat
    PROVE  /\ [u EXCEPT !.pc = "put", !.checked = n, !.fresh = TRUE] \in Upload
           /\ [u EXCEPT !.fresh = FALSE] \in Upload
  BY Zenon DEF Upload

\* Every variable of the cluster keeps its type; every fence and token is a
\* count the Lease really had, never a negative or missing one.
THEOREM TypeCorrect == Spec => []TypeOK
<1>1. Init => TypeOK
  BY LeadershipAssumption, MetaSyncAssumption
     DEF Init, LeaseInit, TypeOK, LeaseTypeOK, TermIds, Upload, NoUpload
<1>2. TypeOK /\ [Next]_vars => TypeOK'
  <2> SUFFICES ASSUME TypeOK, [Next]_vars PROVE TypeOK'
    OBVIOUS
  <2>a. LeaseTypeOK' /\ \A t \in TermIds : terms[t].pc # "done" => terms[t].pod \in Pods
    <3>1. LeaseTypeOK
      BY DEF TypeOK
    <3>2. LeaseTypeOK'
      BY <3>1, NextIsLeaseStep, LeaseTypeStep
    <3>3. \A t \in TermIds : terms[t] \in Term \cup {NoTerm}
      BY <3>1 DEF LeaseTypeOK
    <3> QED
      BY <3>2, <3>3 DEF Term, NoTerm
  <2>b. transitions \in Nat
    BY DEF TypeOK, LeaseTypeOK
  <2> USE <2>a DEF TypeOK
  <2>1. ASSUME NEW p \in Pods, Elected(p) PROVE TypeOK'
    BY <2>1, Zenon DEF Elected
  <2>2. ASSUME NEW t \in TermIds, Stop(t) PROVE TypeOK'
    BY <2>2, Zenon DEF Stop
  <2>3. ASSUME NEW t \in TermIds, ReadToken(t) PROVE TypeOK'
    <3>1. PICK tok \in FencingToken(t) : token' = [token EXCEPT ![t] = tok]
      BY <2>3, Zenon DEF ReadToken
    <3>2. tok \in Nat
      BY <2>b DEF FencingToken
    <3> QED
      BY <2>3, <3>1, <3>2, Zenon DEF ReadToken
  <2>4. ASSUME NEW t \in TermIds, PromoteFlag(t) PROVE TypeOK'
    BY <2>4, Zenon DEF PromoteFlag
  <2>5. ASSUME NEW t \in TermIds, PromoteFence(t) PROVE TypeOK'
    BY <2>5, Zenon DEF PromoteFence
  <2>6. ASSUME NEW t \in TermIds, PromoteSwap(t) PROVE TypeOK'
    <3>1. terms[t].pod \in Pods
      BY <2>6 DEF PromoteSwap, Advance
    <3>2. \A c \in snap[terms[t].pod] : c \in SUBSET Writes
      BY <3>1
    <3>3. db' \in [Pods -> SUBSET Writes] /\ open' \in [Pods -> BOOLEAN]
      <4>1. ASSUME NEW c \in snap[terms[t].pod], NEW live,
                   SwapFromSnapshot(terms[t].pod, c, live)
            PROVE  db' \in [Pods -> SUBSET Writes] /\ open' \in [Pods -> BOOLEAN]
        BY <3>1, <3>2, <4>1, Zenon DEF SwapFromSnapshot
      <4> QED
        BY <2>6, <4>1 DEF PromoteSwap
    <3>4. snap' \in [Pods -> {{}} \cup {{c} : c \in SUBSET Writes}]
      BY <2>6, <3>1, Zenon DEF PromoteSwap
    <3> QED
      BY <2>6, <3>3, <3>4, Zenon DEF PromoteSwap
  <2>7. ASSUME NEW p \in Pods, Sync(p) PROVE TypeOK'
    <3>a. NoUpload \in Upload /\ up \in [Pods -> Upload] /\ fence \in [Pods -> Nat]
      BY DEF Upload, NoUpload
    <3>1. CASE UploadSnapshot(p)
      BY <3>1, Zenon DEF UploadSnapshot, Upload
    <3>2. CASE UploadHead(p)
      <4>1. [up[p] EXCEPT !.pc = "put", !.checked = fence[p], !.fresh = TRUE] \in Upload
        BY <3>a, UploadUpdates, Zenon
      <4>2. up' \in [Pods -> Upload]
        BY <3>a, <3>2, <4>1 DEF UploadHead
      <4> QED
        BY <3>2, <4>2, Zenon DEF UploadHead
    <3>3. CASE UploadPut(p)
      <4>1. \A q \in Pods : [up[q] EXCEPT !.fresh = FALSE] \in Upload
        BY <3>a, UploadUpdates, Zenon
      <4>2. up' \in [Pods -> Upload]
        BY <3>a, <3>3, <4>1 DEF UploadPut
      <4>3. s3' \in [exists : BOOLEAN, fence : Nat, content : SUBSET Writes]
        BY <3>a, <3>3 DEF UploadPut, Upload
      <4> QED
        BY <3>3, <4>2, <4>3, Zenon DEF UploadPut
    <3>4. CASE UploadFails(p)
      BY <3>a, <3>4, Zenon DEF UploadFails
    <3>5. CASE Download(p)
      BY <3>5, Zenon DEF Download
    <3> QED
      BY <2>7, <3>1, <3>2, <3>3, <3>4, <3>5, Zenon DEF Sync
  <2>8. ASSUME NEW p \in Pods, NEW w \in Writes, Write(p, w) PROVE TypeOK'
    BY <2>8, Zenon DEF Write
  <2>9. ASSUME NEW p \in Pods, Restart(p) PROVE TypeOK'
    <3>1. NoUpload \in Upload
      BY DEF Upload, NoUpload
    <3>2. db' \in [Pods -> SUBSET Writes] /\ snap' \in [Pods -> {{}} \cup {{c} : c \in SUBSET Writes}]
      BY <2>9, Zenon DEF Restart
    <3>3. up' \in [Pods -> Upload] /\ fence' \in [Pods -> Nat]
      BY <2>9, <3>1 DEF Restart
    <3>4. isLeader' \in [Pods -> BOOLEAN] /\ open' \in [Pods -> BOOLEAN]
      BY <2>9 DEF Restart
    <3>5. crashes' \in 0..MaxCrashes /\ token' = token /\ s3' = s3
      BY <2>9, MetaSyncAssumption DEF Restart
    <3> QED
      BY <3>2, <3>3, <3>4, <3>5, Zenon
  <2>10. CASE UNCHANGED vars
    BY <2>10, ZenonT(30) DEF vars
  <2> QED
    BY <2>1, <2>2, <2>3, <2>4, <2>5, <2>6, <2>7, <2>8, <2>9, <2>10, Zenon
       DEF Next, StartLeading
<1> QED
  BY <1>1, <1>2, PTL DEF Spec

\* A pod elected after another one always has the larger transition count, the
\* fact StepDown and the fencing token rely on.
THEOREM LaterTermsLargerCounts == Spec => []LaterTermLargerCount
<1>1. Init => CountsBehind /\ LaterTermLargerCount
  BY LeadershipAssumption
     DEF Init, LeaseInit, CountsBehind, LaterTermLargerCount, TermIds
<1>2. TypeOK /\ CountsBehind /\ LaterTermLargerCount /\ [Next]_vars
        => CountsBehind' /\ LaterTermLargerCount'
  BY NextIsLeaseStep, CountStep DEF TypeOK
<1> QED
  BY <1>1, <1>2, TypeCorrect, PTL DEF Spec

-----------------------------------------------------------------------------
(* Fencing.                                                                 *)

\* The Lease's count never goes back.
LEMMA TransitionsGrow ==
    ASSUME TypeOK, [Next]_vars
    PROVE  transitions \in Nat /\ transitions' \in Nat /\ transitions <= transitions'
<1>1. transitions \in Nat /\ LeaseStep
  BY NextIsLeaseStep DEF TypeOK, LeaseTypeOK
<1>2. transitions' \in {transitions, transitions + 1}
  BY <1>1, Zenon DEF LeaseStep, Acquire, TransitionsAfter, EndTerm, Advance, KillTerms, leaseVars
<1> QED
  BY <1>1, <1>2

\* Every step keeps all fences within the Lease's count.
LEMMA FenceStep ==
    ASSUME TypeOK, FenceWithinTransitions, [Next]_vars
    PROVE  FenceWithinTransitions'
<1>a. /\ transitions \in Nat /\ transitions' \in Nat /\ transitions <= transitions'
      /\ token \in [TermIds -> Nat] /\ fence \in [Pods -> Nat]
      /\ up \in [Pods -> Upload] /\ s3.fence \in Nat
      /\ \A p \in Pods : up[p].fence \in Nat
  BY TransitionsGrow, Zenon DEF TypeOK, Upload
<1>b. \A t \in TermIds : t <= nterms => terms[t].pod \in Pods
  BY DEF TypeOK, LeaseTypeOK, Term
<1>1. ASSUME UNCHANGED <<token, fence>>, s3'.fence = s3.fence,
             \A p \in Pods : up'[p].fence \in {up[p].fence, 0, fence[p]}
      PROVE  FenceWithinTransitions'
  BY <1>1, <1>a DEF FenceWithinTransitions
<1>2. ASSUME NEW t \in TermIds, ReadToken(t) PROVE FenceWithinTransitions'
  <2>1. \A tok \in FencingToken(t) : tok \in Nat /\ tok <= transitions
    BY <1>a DEF FencingToken
  <2>2. \A u \in TermIds : token'[u] \in Nat /\ token'[u] <= transitions
    BY <1>2, <1>a, <2>1 DEF ReadToken, FenceWithinTransitions
  <2> QED
    BY <1>2, <1>a, <2>2 DEF ReadToken, FenceWithinTransitions
<1>3. ASSUME NEW t \in TermIds, PromoteFence(t) PROVE FenceWithinTransitions'
  BY <1>3, <1>a DEF PromoteFence, FenceWithinTransitions
<1>4. ASSUME NEW p \in Pods, UploadPut(p) PROVE FenceWithinTransitions'
  <2>1. s3'.fence = up[p].fence /\ UNCHANGED <<token, fence>>
    BY <1>4 DEF UploadPut
  <2>2. \A q \in Pods : up'[q].fence \in {up[q].fence, 0}
    BY <1>4, <1>a, SMTT(30) DEF UploadPut, NoUpload, Upload
  <2> QED
    BY <1>a, <2>1, <2>2 DEF FenceWithinTransitions
<1>5. ASSUME NEW p \in Pods, Restart(p) PROVE FenceWithinTransitions'
  <2>1. \A q \in Pods : fence'[q] \in {fence[q], 0} /\ up'[q].fence \in {up[q].fence, 0}
    BY <1>5, <1>a DEF Restart, NoUpload
  <2> QED
    BY <1>5, <1>a, <2>1 DEF Restart, FenceWithinTransitions
<1>6. ASSUME NEW p \in Pods,
             UploadSnapshot(p) \/ UploadHead(p) \/ UploadFails(p) \/ Download(p)
      PROVE  FenceWithinTransitions'
  <2>1. UNCHANGED <<token, fence>> /\ s3' = s3
    BY <1>6 DEF UploadSnapshot, UploadHead, UploadFails, Download
  <2>2. \A q \in Pods : up'[q].fence \in {up[q].fence, 0, fence[q]}
    <3>1. CASE UploadHead(p)
      <4>1. [up[p] EXCEPT !.pc = "put", !.checked = fence[p], !.fresh = TRUE].fence
              = up[p].fence
        BY <1>a, SMTT(30) DEF Upload
      <4> QED
        BY <1>a, <3>1, <4>1 DEF UploadHead, NoUpload
    <3>2. CASE UploadSnapshot(p) \/ UploadFails(p) \/ Download(p)
      BY <1>a, <3>2 DEF UploadSnapshot, UploadFails, Download, NoUpload
    <3> QED
      BY <1>6, <3>1, <3>2
  <2> QED
    BY <1>1, <2>1, <2>2
<1>7. ASSUME UNCHANGED <<token, fence, up, s3>> PROVE FenceWithinTransitions'
  BY <1>1, <1>7
<1> QED
  BY <1>2, <1>3, <1>4, <1>5, <1>6, <1>7
     DEF Next, vars, Elected, Sync, Stop, StartLeading, Write, PromoteFlag, PromoteSwap

\* The fences pods hold, upload and store never exceed the transition count of
\* the Lease (Elector.FencingToken, MetaSync.Promote, upload).
THEOREM FencesWithinTransitions == Spec => []FenceWithinTransitions
<1>1. Init => FenceWithinTransitions
  BY DEF Init, LeaseInit, FenceWithinTransitions, NoUpload
<1>2. TypeOK /\ FenceWithinTransitions /\ [Next]_vars => FenceWithinTransitions'
  BY FenceStep, SMTT(30)
<1> QED
  BY <1>1, <1>2, TypeCorrect, PTL DEF Spec

\* While the object is still the one HEAD answered for, its fence is covered by
\* the fence it was compared with.
HeadCovers ==
    /\ ~s3.exists => s3.fence = 0
    /\ \A p \in Pods : up[p].pc = "put" /\ up[p].fresh => s3.fence <= up[p].checked

\* Every step keeps the HEAD results of fresh uploads valid.
LEMMA HeadCoversStep ==
    ASSUME TypeOK, HeadCovers, [Next]_vars
    PROVE  HeadCovers'
<1>a. /\ up \in [Pods -> Upload] /\ s3.fence \in Nat /\ fence \in [Pods -> Nat]
      /\ s3.exists \in BOOLEAN
  BY DEF TypeOK
<1>1. ASSUME s3' = s3,
             \A p \in Pods : up'[p] = up[p] \/ up'[p].pc # "put"
      PROVE  HeadCovers'
  BY <1>1 DEF HeadCovers
<1>2. ASSUME NEW p \in Pods, UploadHead(p) PROVE HeadCovers'
  <2>1. CASE StoredFenceNewer(p)
    BY <1>1, <1>2, <1>a, <2>1 DEF UploadHead, NoUpload
  <2>2. CASE ~StoredFenceNewer(p)
    <3>1. s3.fence <= fence[p]
      BY <1>a, <2>2 DEF StoredFenceNewer, HeadCovers
    <3>2. [up[p] EXCEPT !.pc = "put", !.checked = fence[p], !.fresh = TRUE].checked
            = fence[p]
      BY <1>a DEF Upload
    <3>3. up'[p].checked = fence[p] /\ \A q \in Pods \ {p} : up'[q] = up[q]
      BY <1>2, <1>a, <2>2, <3>2 DEF UploadHead
    <3> QED
      BY <1>2, <3>1, <3>3 DEF UploadHead, HeadCovers
  <2> QED
    BY <2>1, <2>2
<1>3. ASSUME NEW p \in Pods, UploadPut(p) PROVE HeadCovers'
  <2>1. \A u \in Upload : [u EXCEPT !.fresh = FALSE].fresh = FALSE
    BY DEF Upload
  <2>2. \A q \in Pods : up'[q].fresh = FALSE
    BY <1>3, <1>a, <2>1, SMTT(30) DEF UploadPut, NoUpload
  <2> QED
    BY <1>3, <2>2 DEF UploadPut, HeadCovers
<1>4. ASSUME NEW p \in Pods,
             UploadSnapshot(p) \/ UploadFails(p) \/ Download(p) \/ Restart(p)
      PROVE  HeadCovers'
  BY <1>1, <1>4, <1>a, SMTT(60) DEF UploadSnapshot, UploadFails, Download, Restart, NoUpload
<1>5. ASSUME UNCHANGED <<up, s3>> PROVE HeadCovers'
  BY <1>1, <1>5
<1> QED
  BY <1>2, <1>3, <1>4, <1>5
     DEF Next, vars, Elected, Sync, Stop, StartLeading, Write, ReadToken,
         PromoteFlag, PromoteFence, PromoteSwap

\* HEAD, compare and conditional PUT (upload) let the stored fence go down only
\* when a promotion changed the pod's fence between its two loads.
THEOREM FenceLoweredOnlyByPromotions == Spec => FenceLoweredOnlyByPromotion
<1>1. Init => HeadCovers
  BY SMTT(30) DEF Init, HeadCovers, NoUpload
<1>2. TypeOK /\ HeadCovers /\ [Next]_vars => HeadCovers'
  BY HeadCoversStep, Zenon
<1>3. TypeOK /\ HeadCovers /\ [Next]_vars
        => [s3'.fence < s3.fence =>
              \E p \in Pods : up[p].pc = "put" /\ up[p].fence < up[p].checked]_vars
  <2> SUFFICES ASSUME TypeOK, HeadCovers, [Next]_vars, s3'.fence < s3.fence
               PROVE  \E p \in Pods : up[p].pc = "put" /\ up[p].fence < up[p].checked
    OBVIOUS
  <2>1. s3.fence \in Nat /\ \A p \in Pods : up[p].fence \in Nat /\ up[p].checked \in Nat
    BY DEF TypeOK, Upload
  <2>2. s3' # s3
    BY <2>1, SMTT(30)
  <2>3. PICK p \in Pods : UploadPut(p)
    BY <2>2, Zenon DEF Next, vars, Elected, Sync, Restart, Stop, StartLeading, Write, ReadToken,
       PromoteFlag, PromoteFence, PromoteSwap, UploadSnapshot, UploadHead, UploadFails,
       Download
  <2>4. s3'.fence = up[p].fence /\ s3.fence <= up[p].checked /\ up[p].pc = "put"
    BY <2>3 DEF UploadPut, Precondition, HeadCovers
  <2> QED
    BY <2>1, <2>4, SMTT(30)
<1> QED
  BY <1>1, <1>2, <1>3, TypeCorrect, PTL DEF Spec, FenceLoweredOnlyByPromotion

-----------------------------------------------------------------------------
(* The role labels.                                                         *)

\* The steps of LeaderLabels are steps of the Lease.
LEMMA LabelsNextIsLeaseStep == [LabelsNext]_labelVars => LeaseStep
  BY Zenon DEF LabelsNext, labelVars, LeaseStep, TermPcs, Won, Replace, StopLeading, Relabel,
         LabelSelf, ListPeers, ListFails, PatchPeer, PeersDone, leaseVars

\* A term that has not begun has listed nobody; that makes the list of a new term
\* one without its own pod.
Lists == LabelsTypeOK /\ \A t \in TermIds : terms[t] = NoTerm => listed[t] = {}

\* What steps do to the entries of terms.
LEMMA TermSteps ==
    ASSUME LeaseTypeOK
    PROVE  /\ \A p \in Pods : Acquire(p) =>
                 \E u \in TermIds : /\ terms[u] = NoTerm
                                    /\ terms'[u].pod = p
                                    /\ \A t \in TermIds : t # u => terms'[t] = terms[t]
           /\ \A t \in TermIds : EndTerm(t) =>
                 /\ terms'[t].pod = terms[t].pod
                 /\ \A u \in TermIds : u # t => terms'[u] = terms[u]
           /\ \A t \in TermIds, from, to \in TermPcs : Advance(t, from, to) =>
                 /\ terms'[t].pod = terms[t].pod /\ terms'[t].live = terms[t].live
                 /\ \A u \in TermIds : u # t => terms'[u] = terms[u]
           /\ \A p \in Pods : KillTerms(p) =>
                 \A t \in TermIds : /\ terms'[t].pod = terms[t].pod
                                    /\ terms[t].pod # p => terms'[t] = terms[t]
<1>a. /\ terms \in [TermIds -> Term \cup {NoTerm}] /\ nterms \in 0..MaxTerms
      /\ \A t \in TermIds : t <= nterms <=> terms[t] # NoTerm
      /\ \A t \in TermIds : terms[t] \in Term \/ terms[t] = NoTerm
  BY Zenon DEF LeaseTypeOK
<1>b. \A x \in Term : /\ x.pod \in Pods
                      /\ \A y \in BOOLEAN : /\ [x EXCEPT !.live = y].pod = x.pod
                                            /\ [x EXCEPT !.live = y, !.pc = "done"].pod = x.pod
                      /\ \A y \in TermPcs : /\ [x EXCEPT !.pc = y].pod = x.pod
                                            /\ [x EXCEPT !.pc = y].live = x.live
  BY Zenon DEF Term
<1>c. NoTerm.pc = "done" /\ NoTerm.live = FALSE
  BY DEF NoTerm
<1>2. ASSUME NEW p \in Pods, Acquire(p)
      PROVE  \E u \in TermIds : /\ terms[u] = NoTerm
                                /\ terms'[u].pod = p
                                /\ \A t \in TermIds : t # u => terms'[t] = terms[t]
  <2>1. nterms + 1 \in TermIds /\ ~(nterms + 1 <= nterms)
    BY <1>2, <1>a, LeadershipAssumption DEF Acquire, TermIds
  <2>2. terms' = [terms EXCEPT ![nterms + 1] =
                    [pod |-> p, live |-> TRUE, pc |-> "start", trans |-> transitions']]
    BY <1>2, Zenon DEF Acquire
  <2> QED
    BY <1>a, <2>1, <2>2, Zenon
<1>3. ASSUME NEW t \in TermIds, EndTerm(t)
      PROVE  /\ terms'[t].pod = terms[t].pod
             /\ \A u \in TermIds : u # t => terms'[u] = terms[u]
  <2>1. terms' = [terms EXCEPT ![t].live = FALSE] /\ terms[t].live
    BY <1>3, Zenon DEF EndTerm
  <2>2. terms[t] \in Term
    BY <1>a, <1>c, <2>1, Zenon
  <2> QED
    BY <1>a, <1>b, <2>1, <2>2, Zenon
<1>4. ASSUME NEW t \in TermIds, NEW from \in TermPcs, NEW to \in TermPcs, Advance(t, from, to)
      PROVE  /\ terms'[t].pod = terms[t].pod /\ terms'[t].live = terms[t].live
             /\ \A u \in TermIds : u # t => terms'[u] = terms[u]
  <2>1. terms' = [terms EXCEPT ![t].pc = to]
    BY <1>4, Zenon DEF Advance
  <2>2. CASE terms[t] \in Term
    BY <1>a, <1>b, <2>1, <2>2, Zenon
  <2>3. CASE terms[t] = NoTerm
    BY <1>a, <2>1, <2>3, Zenon DEF NoTerm
  <2> QED
    BY <1>a, <2>2, <2>3, Zenon
<1>5. ASSUME NEW p \in Pods, KillTerms(p), NEW t \in TermIds
      PROVE  /\ terms'[t].pod = terms[t].pod
             /\ terms[t].pod # p => terms'[t] = terms[t]
  <2>1. terms'[t] = IF terms[t].pod = p THEN [terms[t] EXCEPT !.live = FALSE, !.pc = "done"]
                    ELSE terms[t]
    BY <1>5, Zenon DEF KillTerms
  <2>2. CASE terms[t] \in Term
    BY <1>b, <2>1, <2>2, Zenon
  <2>3. CASE terms[t] = NoTerm
    BY <2>1, <2>3, Zenon DEF NoTerm
  <2> QED
    BY <1>a, <2>2, <2>3, Zenon
<1> QED
  BY <1>2, <1>3, <1>4, <1>5, Zenon

\* Terms are not undone.
LEMMA TermsStay ==
    ASSUME LeaseTypeOK, LeaseTypeOK', LeaseStep
    PROVE  \A t \in TermIds : terms'[t] = NoTerm => terms[t] = NoTerm
<1>1. nterms \in 0..MaxTerms /\ nterms' \in 0..MaxTerms
  BY Zenon DEF LeaseTypeOK
<1>2. nterms' = nterms \/ nterms' = nterms + 1
  BY Zenon DEF LeaseStep, Acquire, EndTerm, Advance, KillTerms, leaseVars
<1>3. \A t \in TermIds : t <= nterms => t <= nterms'
  BY <1>1, <1>2 DEF TermIds
<1> QED
  BY <1>3, Zenon DEF LeaseTypeOK

\* What the proofs of both invariants need of one step.
LabelStep ==
    /\ Lists'
    /\ OnlyLiveTermsLabelled => OnlyLiveTermsLabelled'

\* Every step keeps both.
LEMMA LabelsStep ==
    ASSUME Lists, [LabelsNext]_labelVars
    PROVE  LabelStep
<1>a. LeaseTypeOK /\ LeaseStep /\ LeaseTypeOK'
  BY LabelsNextIsLeaseStep, LeaseTypeStep, Zenon DEF Lists, LabelsTypeOK
<1>b. \A t \in TermIds : terms'[t] = NoTerm => terms[t] = NoTerm
  BY <1>a, TermsStay, Zenon
<1>c. /\ labelled \in SUBSET Pods /\ missed \in SUBSET labelled /\ replacements \in 0..MaxReplacements
      /\ listed \in [TermIds -> SUBSET Pods]
      /\ \A t \in TermIds : terms[t].pod \notin listed[t]
      /\ \A t \in TermIds : terms[t] = NoTerm => listed[t] = {}
  BY Zenon DEF Lists, LabelsTypeOK
<1>d. ASSUME /\ labelled' \in SUBSET Pods /\ missed' \in SUBSET labelled'
             /\ replacements' \in 0..MaxReplacements
             /\ listed' \in [TermIds -> SUBSET Pods],
             \A t \in TermIds : terms'[t].pod \notin listed'[t],
             \A t \in TermIds : terms'[t] = NoTerm => listed'[t] = {},
             OnlyLiveTermsLabelled => OnlyLiveTermsLabelled'
      PROVE  LabelStep
  BY <1>a, <1>d, Zenon DEF LabelStep, Lists, LabelsTypeOK
<1>n. ~NoTerm.live /\ NoTerm.pc = "done"
  BY DEF NoTerm
<1>p. \A t \in TermIds : terms[t].pc # "done" \/ terms[t].live => terms[t].pod \in Pods
  BY <1>a, RunningTermHasPod, Zenon
<1>1. ASSUME NEW p \in Pods, Won(p) PROVE LabelStep
  <2>1. Acquire(p) /\ UNCHANGED <<labelled, listed, missed, replacements>>
    BY <1>1, Zenon DEF Won
  <2>2. PICK u \in TermIds : /\ terms[u] = NoTerm
                             /\ terms'[u].pod = p
                             /\ \A t \in TermIds : t # u => terms'[t] = terms[t]
    BY <1>a, <2>1, TermSteps, Zenon
  <2>3. \A t \in TermIds : terms'[t].pod \notin listed'[t]
    BY <1>c, <2>1, <2>2, Zenon
  <2>4. OnlyLiveTermsLabelled => OnlyLiveTermsLabelled'
    <3> SUFFICES ASSUME OnlyLiveTermsLabelled, NEW q \in labelled' \ missed'
                 PROVE  \E t \in TermIds : terms'[t].pod = q /\ terms'[t].live
      BY Zenon DEF OnlyLiveTermsLabelled
    <3>1. PICK t \in TermIds : terms[t].pod = q /\ terms[t].live
      BY <2>1, Zenon DEF OnlyLiveTermsLabelled
    <3> QED
      BY <1>n, <2>2, <3>1, Zenon
  <2> QED
    BY <1>b, <1>c, <1>d, <2>1, <2>3, <2>4, Zenon
<1>2. ASSUME NEW p \in Pods, Replace(p) PROVE LabelStep
  <2>1. /\ KillTerms(p) /\ replacements < MaxReplacements /\ replacements' = replacements + 1
        /\ labelled' = labelled \ {p} /\ missed' = missed \ {p}
        /\ listed' = [t \in TermIds |-> IF terms[t].pod = p THEN {} ELSE listed[t]]
    BY <1>2, Zenon DEF Replace
  <2>2. \A t \in TermIds : /\ terms'[t].pod = terms[t].pod
                           /\ terms[t].pod # p => terms'[t] = terms[t]
    BY <1>a, <2>1, TermSteps, Zenon
  <2>3. replacements' \in 0..MaxReplacements
    BY <1>c, <2>1, LabelsAssumption
  <2>4. labelled' \in SUBSET Pods /\ missed' \in SUBSET labelled'
    BY <1>c, <2>1, Zenon
  <2>5. listed' \in [TermIds -> SUBSET Pods] /\ \A t \in TermIds : listed'[t] \subseteq listed[t]
    BY <1>c, <2>1, Zenon
  <2>6. OnlyLiveTermsLabelled => OnlyLiveTermsLabelled'
    <3> SUFFICES ASSUME OnlyLiveTermsLabelled, NEW q \in labelled' \ missed'
                 PROVE  \E t \in TermIds : terms'[t].pod = q /\ terms'[t].live
      BY Zenon DEF OnlyLiveTermsLabelled
    <3>1. q \in labelled \ missed /\ q # p
      BY <2>1, Zenon
    <3>2. PICK t \in TermIds : terms[t].pod = q /\ terms[t].live
      BY <3>1, Zenon DEF OnlyLiveTermsLabelled
    <3> QED
      BY <2>2, <3>1, <3>2, Zenon
  <2>7. \A t \in TermIds : terms'[t].pod \notin listed'[t]
    BY <1>c, <2>2, <2>5, Zenon
  <2>8. \A t \in TermIds : terms'[t] = NoTerm => listed'[t] = {}
    BY <1>b, <1>c, <2>5, Zenon
  <2> QED
    BY <1>d, <2>3, <2>4, <2>5, <2>6, <2>7, <2>8, Zenon
<1>3. ASSUME NEW t \in TermIds, StopLeading(t) PROVE LabelStep
  <2>1. /\ EndTerm(t) /\ UNCHANGED <<listed, replacements>>
        /\ labelled' \subseteq labelled
        /\ missed' = labelled' \cap (missed \cup {terms[t].pod})
    BY <1>3, Zenon DEF StopLeading, Patched
  <2>2. /\ terms'[t].pod = terms[t].pod
        /\ \A u \in TermIds : u # t => terms'[u] = terms[u]
    BY <1>a, <2>1, TermSteps, Zenon
  <2>3. OnlyLiveTermsLabelled => OnlyLiveTermsLabelled'
    <3> SUFFICES ASSUME OnlyLiveTermsLabelled, NEW p \in labelled' \ missed'
                 PROVE  \E u \in TermIds : terms'[u].pod = p /\ terms'[u].live
      BY Zenon DEF OnlyLiveTermsLabelled
    <3>1. p \in labelled \ missed /\ p # terms[t].pod
      BY <2>1, Zenon
    <3>2. PICK u \in TermIds : terms[u].pod = p /\ terms[u].live
      BY <3>1, Zenon DEF OnlyLiveTermsLabelled
    <3> QED
      BY <2>2, <3>1, <3>2, Zenon
  <2>4. labelled' \in SUBSET Pods /\ missed' \in SUBSET labelled'
    BY <1>c, <2>1, Zenon
  <2>5. \A u \in TermIds : terms'[u].pod \notin listed'[u]
    BY <1>c, <2>1, <2>2, Zenon
  <2> QED
    BY <1>b, <1>c, <1>d, <2>1, <2>3, <2>4, <2>5, Zenon
<1>4. ASSUME NEW t \in TermIds, NEW from \in TermPcs \ {"done"}, NEW to \in TermPcs,
             Advance(t, from, to), UNCHANGED <<missed, replacements>>,
             \/ UNCHANGED <<labelled, listed>>
             \/ LabelSelf(t) \/ ListPeers(t)
      PROVE  LabelStep
  <2>1. /\ terms'[t].pod = terms[t].pod /\ terms'[t].live = terms[t].live
        /\ \A u \in TermIds : u # t => terms'[u] = terms[u]
    BY <1>a, <1>4, TermSteps, Zenon
  <2>2. terms[t].pod \in Pods /\ terms[t] # NoTerm
    BY <1>n, <1>p, <1>4, Zenon DEF Advance
  <2>3. \A p : (\E u \in TermIds : terms[u].pod = p /\ terms[u].live)
               => \E u \in TermIds : terms'[u].pod = p /\ terms'[u].live
    BY <2>1, Zenon
  <2>4. CASE UNCHANGED <<labelled, listed>>
    <3>1. OnlyLiveTermsLabelled => OnlyLiveTermsLabelled'
      BY <1>4, <2>3, <2>4, Zenon DEF OnlyLiveTermsLabelled
    <3>2. \A u \in TermIds : terms'[u].pod \notin listed'[u]
      BY <1>c, <2>1, <2>4, Zenon
    <3> QED
      BY <1>b, <1>c, <1>d, <1>4, <2>4, <3>1, <3>2, Zenon
  <2>5. CASE LabelSelf(t)
    <3>1. /\ listed' = listed
          /\ \/ labelled' = labelled
             \/ labelled' = labelled \cup {terms[t].pod} /\ terms[t].live
      BY <2>5, Zenon DEF LabelSelf, Patched
    <3>2. labelled' \in SUBSET Pods /\ missed' \in SUBSET labelled'
      BY <1>c, <1>4, <2>2, <3>1, Zenon
    <3>3. OnlyLiveTermsLabelled => OnlyLiveTermsLabelled'
      BY <1>4, <2>1, <2>3, <3>1, Zenon DEF OnlyLiveTermsLabelled
    <3>4. \A u \in TermIds : terms'[u].pod \notin listed'[u]
      BY <1>c, <2>1, <3>1, Zenon
    <3> QED
      BY <1>b, <1>c, <1>d, <1>4, <3>1, <3>2, <3>3, <3>4, Zenon
  <2>6. CASE ListPeers(t)
    <3>1. /\ labelled' = labelled
          /\ listed' = [listed EXCEPT ![t] = labelled \ {terms[t].pod}]
      BY <2>6, Zenon DEF ListPeers, Peers
    <3>2. /\ listed' \in [TermIds -> SUBSET Pods]
          /\ terms[t].pod \notin listed'[t]
          /\ \A u \in TermIds : u # t => listed'[u] = listed[u]
      BY <1>c, <3>1, Zenon
    <3>3. OnlyLiveTermsLabelled => OnlyLiveTermsLabelled'
      BY <1>4, <2>3, <3>1, Zenon DEF OnlyLiveTermsLabelled
    <3>4. \A u \in TermIds : terms'[u].pod \notin listed'[u]
      BY <1>c, <2>1, <3>2, Zenon
    <3>5. \A u \in TermIds : terms'[u] = NoTerm => listed'[u] = {}
      BY <1>b, <1>c, <2>2, <3>2, Zenon
    <3> QED
      BY <1>c, <1>d, <1>4, <3>1, <3>2, <3>3, <3>4, <3>5, Zenon
  <2> QED
    BY <1>4, <2>4, <2>5, <2>6, Zenon
<1>5. ASSUME NEW t \in TermIds, NEW q \in Pods, PatchPeer(t, q) PROVE LabelStep
  <2>1. /\ terms' = terms /\ replacements' = replacements
        /\ labelled' \subseteq labelled /\ missed' = labelled' \cap missed
        /\ listed' = [listed EXCEPT ![t] = @ \ {q}]
    BY <1>5, Zenon DEF PatchPeer, Patched
  <2>2. listed' \in [TermIds -> SUBSET Pods] /\ \A u \in TermIds : listed'[u] \subseteq listed[u]
    BY <1>c, <2>1, Zenon
  <2>3. OnlyLiveTermsLabelled => OnlyLiveTermsLabelled'
    BY <2>1, Zenon DEF OnlyLiveTermsLabelled
  <2>4. labelled' \in SUBSET Pods /\ missed' \in SUBSET labelled'
    BY <1>c, <2>1, Zenon
  <2>5. \A u \in TermIds : terms'[u].pod \notin listed'[u]
    BY <1>c, <2>1, <2>2, Zenon
  <2>6. \A u \in TermIds : terms'[u] = NoTerm => listed'[u] = {}
    BY <1>b, <1>c, <2>2, Zenon
  <2> QED
    BY <1>c, <1>d, <2>1, <2>2, <2>3, <2>4, <2>5, <2>6, Zenon
<1>6. ASSUME NEW t \in TermIds, LabelSelf(t) \/ ListPeers(t) \/ ListFails(t) \/ PeersDone(t)
      PROVE  LabelStep
  BY <1>4, <1>6, Zenon DEF LabelSelf, ListPeers, ListFails, PeersDone, TermPcs
<1>7. CASE UNCHANGED labelVars
  <2>1. terms' = terms /\ UNCHANGED <<labelled, listed, missed, replacements>>
    BY <1>7, Zenon DEF labelVars
  <2>2. OnlyLiveTermsLabelled => OnlyLiveTermsLabelled'
    BY <2>1, Zenon DEF OnlyLiveTermsLabelled
  <2> QED
    BY <1>c, <1>d, <2>1, <2>2, Zenon
<1> QED
  BY <1>1, <1>2, <1>3, <1>5, <1>6, <1>7, Zenon DEF LabelsNext, Relabel

\* The initial state.
LEMMA LabelsInitially == LabelsInit => Lists /\ OnlyLiveTermsLabelled
<1> SUFFICES ASSUME LabelsInit PROVE Lists /\ OnlyLiveTermsLabelled
  OBVIOUS
<1>1. LeaseTypeOK
  BY LeadershipAssumption DEF LabelsInit, LeaseInit, LeaseTypeOK, TermIds
<1>2. /\ labelled \in SUBSET Pods /\ missed \in SUBSET labelled
      /\ listed \in [TermIds -> SUBSET Pods] /\ \A t \in TermIds : listed[t] = {}
  BY Zenon DEF LabelsInit
<1>3. replacements \in 0..MaxReplacements
  BY LabelsAssumption DEF LabelsInit
<1> QED
  BY <1>1, <1>2, <1>3, Zenon DEF LabelsInit, Lists, LabelsTypeOK, OnlyLiveTermsLabelled

\* Types, of the label bookkeeping and of every term's list of peers, which never
\* holds the pod that will patch it (DemotePeers skips its own pod).
THEOREM LabelsTypeCorrect == LabelsSpec => []LabelsTypeOK
<1>1. Lists => LabelsTypeOK
  BY Zenon DEF Lists
<1>2. Lists /\ [LabelsNext]_labelVars => Lists'
  BY LabelsStep, Zenon DEF LabelStep
<1> QED
  BY LabelsInitially, <1>1, <1>2, PTL DEF LabelsSpec

\* A labelled pod that could remove its own label is in a term it has not ended,
\* whatever startLeading, stopLeading and the API server's answers interleave to.
THEOREM LabelsFollowTerms == LabelsSpec => []OnlyLiveTermsLabelled
<1>1. Lists /\ [LabelsNext]_labelVars => Lists' /\ (OnlyLiveTermsLabelled => OnlyLiveTermsLabelled')
  BY LabelsStep, Zenon DEF LabelStep
<1> QED
  BY LabelsInitially, <1>1, PTL DEF LabelsSpec
=============================================================================
