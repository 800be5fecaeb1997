----------------------------- MODULE Leadership -----------------------------
(***************************************************************************)
(* The Kubernetes Lease that pods contend for (client-go leaderelection,    *)
(* external) as Elector.Run drives it.  Each acquisition is a term with its *)
(* own context and its own startLeading goroutine.  A pod that lost the     *)
(* Lease without noticing (a pause, a partition) stays in a live term until *)
(* EndTerm, and its startLeading may still be running after that.           *)
(*                                                                          *)
(* The modules that extend this one add what startLeading and stopLeading   *)
(* do: MetaSync and Replicator the databases, LeaderLabels the routing.      *)
(***************************************************************************)
EXTENDS Integers, FiniteSets

CONSTANTS
    Pods,
    None,
    MaxTerms      \* bound on Lease acquisitions

ASSUME LeadershipAssumption == None \notin Pods /\ MaxTerms \in Nat

VARIABLES
    holder,       \* Lease: HolderIdentity, None when absent or released
    transitions,  \* Lease: LeaseTransitions
    nterms,       \* Lease acquisitions so far
    terms         \* per acquisition: its pod and its startLeading goroutine

leaseVars == <<holder, transitions, nterms>>

TermIds == 1..MaxTerms
NoTerm == [pod |-> None, live |-> FALSE, pc |-> "done", trans |-> 0]

\* live: the term's context is not cancelled; pc: where startLeading is; trans:
\* the transition count the Lease got with this acquisition.
Term == [pod : Pods, live : BOOLEAN, trans : Nat,
         pc : {"start", "flag", "fence", "swap", "label", "peers", "done"}]

LeaseTypeOK ==
    /\ holder \in Pods \cup {None}
    /\ transitions \in Nat
    /\ nterms \in 0..MaxTerms
    /\ terms \in [TermIds -> Term \cup {NoTerm}]
    /\ \A t \in TermIds : t <= nterms <=> terms[t] # NoTerm

LeaseInit ==
    /\ holder = None
    /\ transitions = 0
    /\ nterms = 0
    /\ terms = [t \in TermIds |-> NoTerm]

\* Only a change of holder counts; creating the Lease does not.
TransitionsAfter(p) ==
    IF nterms = 0 \/ holder = p THEN transitions ELSE transitions + 1

\* Mutant: taking a released Lease is not counted.
AcquireUncounted(p) ==
    /\ nterms < MaxTerms
    /\ \A t \in TermIds : terms[t].pod = p => ~terms[t].live
    /\ transitions' = IF holder \in {None, p} THEN transitions ELSE transitions + 1
    /\ holder' = p
    /\ nterms' = nterms + 1
    /\ terms' = [terms EXCEPT ![nterms + 1] =
                    [pod |-> p, live |-> TRUE, pc |-> "start", trans |-> transitions']]

\* leaderelection takes a Lease that is absent, released or expired.
Acquire(p) ==
    /\ nterms < MaxTerms
    /\ \A t \in TermIds : terms[t].pod = p => ~terms[t].live
    /\ transitions' = TransitionsAfter(p)
    /\ holder' = p
    /\ nterms' = nterms + 1
    /\ terms' = [terms EXCEPT ![nterms + 1] =
                    [pod |-> p, live |-> TRUE, pc |-> "start", trans |-> transitions']]

\* The term ends (renewal failed, StepDown): its context is cancelled, and the
\* Lease is released if this pod still holds it and the release goes through
\* (ReleaseOnCancel).
EndTerm(t) ==
    /\ terms[t].live
    /\ terms' = [terms EXCEPT ![t].live = FALSE]
    /\ \/ holder' = holder
       \/ holder = terms[t].pod /\ holder' = None
    /\ UNCHANGED <<transitions, nterms>>

\* startLeading of term t moves on.
Advance(t, from, to) ==
    /\ terms[t].pc = from
    /\ terms' = [terms EXCEPT ![t].pc = to]
    /\ UNCHANGED leaseVars

\* The process of pod p dies; the Lease stays until it expires.
KillTerms(p) ==
    /\ terms' = [t \in TermIds |-> IF terms[t].pod = p
                                   THEN [terms[t] EXCEPT !.live = FALSE, !.pc = "done"]
                                   ELSE terms[t]]
    /\ UNCHANGED leaseVars

\* StepDown: "The vacated Lease records a transition, so the new leader's fencing
\* token strictly exceeds this one".  Two terms of different pods never share a
\* transition count, and the later one has the larger; in between the Lease may
\* have been released, taken back or left to expire.
LaterTermLargerCount ==
    \A t, u \in TermIds :
        t < u /\ u <= nterms /\ terms[t].pod # terms[u].pod =>
            terms[t].trans < terms[u].trans
=============================================================================
