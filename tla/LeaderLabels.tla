---------------------------- MODULE LeaderLabels ----------------------------
(***************************************************************************)
(* Label routing: with replication or the s3 backend every pod is Ready and *)
(* the Service selects the pods labelled forklift.io/role=leader.           *)
(* startLeading labels its pod once it may serve and strips the label from  *)
(* every other pod; stopLeading labels its pod standby.                     *)
(***************************************************************************)
EXTENDS Leadership

CONSTANTS
    MaxReplacements, \* bound on pod replacements
    ApiFails         \* whether a patch may fail while its context is live

ASSUME LabelsAssumption == MaxReplacements \in Nat /\ ApiFails \in BOOLEAN

VARIABLES
    labelled,     \* pods labelled leader
    listed,       \* per term: the peers DemotePeers found labelled, not yet patched
    missed,       \* history: labelled pods whose own standby patch failed
    replacements

labelVars == <<holder, transitions, nterms, terms, labelled, listed, missed, replacements>>

LabelsTypeOK ==
    /\ LeaseTypeOK
    /\ labelled \in SUBSET Pods
    /\ listed \in [TermIds -> SUBSET Pods]
    /\ \A t \in TermIds : terms[t].pod \notin listed[t]
    /\ missed \in SUBSET labelled
    /\ replacements \in 0..MaxReplacements

LabelsInit ==
    /\ LeaseInit
    /\ labelled = {}
    /\ listed = [t \in TermIds |-> {}]
    /\ missed = {}
    /\ replacements = 0

\* A patch that may be lost; one under a cancelled context always is.  Errors
\* are only logged.
Patched(live, new) ==
    (IF live THEN {new} ELSE {}) \cup (IF live /\ ~ApiFails THEN {} ELSE {labelled})

Won(p) == Acquire(p) /\ UNCHANGED <<labelled, listed, missed, replacements>>

\* Mutant: stopLeading leaves the label alone, as it does without label routing.
StopKeepsLabel(t) == EndTerm(t) /\ UNCHANGED <<labelled, listed, missed, replacements>>

\* The term ends; stopLeading labels the pod standby under a context of its own.
StopLeading(t) ==
    /\ EndTerm(t)
    /\ labelled' \in Patched(TRUE, labelled \ {terms[t].pod})
    /\ missed' = labelled' \cap (missed \cup {terms[t].pod})
    /\ UNCHANGED <<listed, replacements>>

\* SetPodRole(leadCtx, leader), after the promotion.
LabelSelf(t) ==
    /\ Advance(t, "start", "label")
    /\ labelled' \in Patched(terms[t].live, labelled \cup {terms[t].pod})
    /\ UNCHANGED <<listed, missed, replacements>>

\* Mutant: the pod's own entry in the list is not skipped.
WithSelf(t) == labelled

\* The pods in DemotePeers' list that it will patch.
Peers(t) == labelled \ {terms[t].pod}

\* DemotePeers lists the pods labelled leader; a failed list ends it.
ListPeers(t) ==
    /\ Advance(t, "label", "peers")
    /\ listed' = [listed EXCEPT ![t] = Peers(t)]
    /\ terms[t].live
    /\ UNCHANGED <<labelled, missed, replacements>>
ListFails(t) ==
    /\ Advance(t, "label", "done")
    /\ ApiFails \/ ~terms[t].live
    /\ UNCHANGED <<labelled, listed, missed, replacements>>

\* DemotePeers patches a listed pod to standby and goes on whatever the answer.
PatchPeer(t, q) ==
    /\ terms[t].pc = "peers"
    /\ q \in listed[t]
    /\ listed' = [listed EXCEPT ![t] = @ \ {q}]
    /\ labelled' \in Patched(terms[t].live, labelled \ {q})
    /\ missed' = labelled' \cap missed
    /\ UNCHANGED <<leaseVars, terms, replacements>>

\* DemotePeers returns.
PeersDone(t) ==
    /\ Advance(t, "peers", "done")
    /\ listed[t] = {}
    /\ UNCHANGED <<labelled, listed, missed, replacements>>

\* The pod is replaced: the template's label is standby.
Replace(p) ==
    /\ replacements < MaxReplacements
    /\ replacements' = replacements + 1
    /\ KillTerms(p)
    /\ labelled' = labelled \ {p}
    /\ listed' = [t \in TermIds |-> IF terms[t].pod = p THEN {} ELSE listed[t]]
    /\ missed' = missed \ {p}

Relabel(t) ==
    \/ LabelSelf(t) \/ ListPeers(t) \/ ListFails(t)
    \/ (\E q \in Pods : PatchPeer(t, q)) \/ PeersDone(t)

LabelsNext ==
    \/ \E p \in Pods : Won(p) \/ Replace(p)
    \/ \E t \in TermIds : StopLeading(t) \/ Relabel(t)

LabelsSpec == LabelsInit /\ [][LabelsNext]_labelVars

-----------------------------------------------------------------------------
(* Properties.                                                              *)

\* Traffic goes to a pod that has stopped leading only if the pod could not
\* remove its own label and no later leader has stripped it: every other
\* labelled pod is in a term it has not ended, however late startLeading runs.
OnlyLiveTermsLabelled ==
    \A p \in labelled \ missed : \E t \in TermIds : terms[t].pod = p /\ terms[t].live

\* Every startLeading has returned and only the latest term is live.
Quiet ==
    /\ nterms > 0
    /\ \A t \in TermIds : terms[t].pc = "done" /\ (terms[t].live <=> t = nterms)

\* stopLeading: "moving the forklift.io/role=leader label is what redirects
\* traffic to the new leader".  Once things are quiet the leader has the label.
QuietLeaderLabelled == Quiet => terms[nterms].pod \in labelled
=============================================================================
