------------------------------ MODULE ScanQueue ------------------------------
(***************************************************************************)
(* The background scans behind the vulnerability and the license gate: who  *)
(* enqueues a coordinate, the marks that deduplicate, the bounded queue, the *)
(* worker pool of a leadership term, the backfill of what was never scanned  *)
(* and the rescanner of what is stale.                                      *)
(*                                                                          *)
(* vulnscan.go and licensescan.go are two copies of one machine; source says *)
(* which of the two a behaviour follows.  A coordinate is a package with a   *)
(* version, or a package alone (the approval gate asks for those).           *)
(***************************************************************************)
EXTENDS Integers, FiniteSets, Sequences, Functions

CONSTANTS
    Clients,                \* request goroutines
    Coords, Versioned,      \* coordinates; those that carry a version
    Stored,                 \* artifacts there are at first, by id: a sequence of coordinates
    Pool,                   \* workers of one term
    QueueCap, Batch,        \* 1024 and reapBatch
    MaxTerms, MaxWork       \* bounds: terms; events from outside (requests, faults, time)

ASSUME ConstantsAssumption ==
    /\ Versioned \subseteq Coords /\ Stored \in Seq(Versioned)
    /\ Cardinality(Versioned) \in Nat
    /\ QueueCap \in Nat \ {0} /\ Batch \in Nat \ {0} /\ MaxTerms \in Nat \ {0} /\ MaxWork \in Nat

Terms == 1..MaxTerms
\* The goroutines that enqueue.  The loops of a term that ended finish their page;
\* they and the next term's loops are one process here.
Procs == Clients \union {"backfill", "rescan"}

VARIABLES
    source,       \* "vuln" or "license", fixed
    truth,        \* what the advisory or license source knows: coordinate -> verdict
    artifacts,    \* table artifacts: coordinates of the rows with a version, by id
    verdict,      \* table vuln_scans or license_scans: coordinate -> verdict, "none"
    rows, stale,  \* its coordinates by scanned_at; how many of them are past the TTL
    marks,        \* reqMarks: coordinates with a live mark
    queue,        \* scanQueue or resolveQueue
    term, leading,
    worker,       \* <<term, member of the pool>> -> what it is at
    todo, held,   \* per process: coordinates to enqueue; the one found unmarked, if any
    sweep,        \* the backfill's progress
    work,         \* events from outside so far
    excused       \* history: coordinates that a race scheduled twice

table == <<verdict, rows, stale>>
vars == <<source, truth, artifacts, table, marks, queue, term, leading, worker, todo, held,
          sweep, work, excused>>

Verdicts == {"good", "bad"}
Off == [pc |-> "off", coord |-> {}, answer |-> "none"]
NoSweep == [pc |-> "off", known |-> {}, offset |-> 0]

TypeOK ==
    /\ source \in {"vuln", "license"} /\ truth \in [Coords -> Verdicts]
    /\ artifacts \in Seq(Versioned) /\ verdict \in [Coords -> Verdicts \union {"none"}]
    /\ rows \in Seq(Coords) /\ IsInjective(rows) /\ stale \in 0..Len(rows)
    /\ Range(rows) = {c \in Coords : verdict[c] # "none"}
    /\ marks \subseteq Coords /\ queue \in Seq(Coords) /\ Len(queue) <= QueueCap
    /\ term \in Terms /\ leading \in BOOLEAN
    /\ \A p \in Procs : todo[p] \in Seq(Coords) /\ \A c, d \in held[p] : c = d
    /\ source = "license" => Range(queue) \subseteq Versioned

\* Scanning may be new to this installation, or its results may all have gone
\* stale, some of them overtaken by what the source has learnt since.
Init ==
    /\ source \in {"vuln", "license"} /\ artifacts = Stored
    /\ \E t \in Verdicts : truth = [c \in Coords |-> t]
    /\ \/ rows = <<>> /\ verdict = [c \in Coords |-> "none"]
       \/ /\ rows \in Bijection(1..Cardinality(Versioned), Versioned)
          /\ \E f \in [Versioned -> Verdicts] :
                /\ \A c \in Versioned : f[c] \in {"good", truth[c]}
                /\ verdict = [c \in Coords |-> IF c \in Versioned THEN f[c] ELSE "none"]
    /\ stale = Len(rows)
    /\ marks = {} /\ queue = <<>> /\ term = 1 /\ leading = FALSE
    /\ worker = [w \in Terms \X Pool |-> Off]
    /\ todo = [p \in Procs |-> <<>>] /\ held = [p \in Procs |-> {}]
    /\ sweep = NoSweep
    /\ work = 0 /\ excused = {}

\* Sequence s without its element at i.
Without(s, i) == SubSeq(s, 1, i - 1) \o SubSeq(s, i + 1, Len(s))

External == work < MaxWork /\ work' = work + 1

\* The context of term t was cancelled.
Cancelled(t) == t # term \/ ~leading

\* Coordinate c is on its way to the source, in the queue or in a worker's hands.
Queued(c) == \E i \in DOMAIN queue : queue[i] = c
InHand(c) == \E w \in Terms \X Pool : c \in worker[w].coord
OnWay(c) == Queued(c) \/ InHand(c)

\* It is so at most once.
Once(c) ==
    /\ \A i, j \in DOMAIN queue : queue[i] = c /\ queue[j] = c => i = j
    /\ \A v, w \in Terms \X Pool : c \in worker[v].coord /\ c \in worker[w].coord => v = w
    /\ ~(Queued(c) /\ InHand(c))

-----------------------------------------------------------------------------
(* Enqueueing.                                                              *)

\* enqueueScan takes any package, enqueueResolve only one with a version.
EnqueueScan(c) == TRUE
EnqueueResolve(c) == c \in Versioned
Accepts(c) == IF source = "vuln" THEN EnqueueScan(c) ELSE EnqueueResolve(c)

\* reqMarks.has: process p goes on with coordinate c if it is unmarked.
HasMark(p, c) ==
    IF Accepts(c) /\ c \notin marks
    THEN /\ held' = [held EXCEPT ![p] = {c}]
         /\ excused' = IF \E q \in Procs : c \in held[q] THEN excused \union {c} ELSE excused
    ELSE UNCHANGED <<held, excused>>

\* A request: vulnGate or licenseGate finds no result (approvalGate asks for the
\* package alone).
Request(k) ==
    /\ External /\ held[k] = {}
    /\ \E c \in Coords : verdict[c] = "none" /\ HasMark(k, c)
    /\ UNCHANGED <<source, truth, artifacts, table, marks, queue, term, leading, worker,
                   todo, sweep>>

\* An artifact is stored; scanStored or resolveStored follows.
Store(k) ==
    /\ External /\ held[k] = {}
    /\ \E c \in Versioned : artifacts' = Append(artifacts, c) /\ HasMark(k, c)
    /\ UNCHANGED <<source, truth, table, marks, queue, term, leading, worker, todo, sweep>>

\* The backfill's or the rescanner's next coordinate; the backfill leaves out those its
\* sweep knows as scanned.
CheckMark(p) ==
    /\ todo[p] # <<>> /\ held[p] = {}
    /\ todo' = [todo EXCEPT ![p] = Tail(@)]
    /\ IF p = "backfill" /\ Head(todo[p]) \in sweep.known THEN UNCHANGED <<held, excused>>
       ELSE HasMark(p, Head(todo[p]))
    /\ UNCHANGED <<source, truth, artifacts, table, marks, queue, term, leading, worker,
                   sweep, work>>

\* Mutant: the channel has no bound.
OfferAlways(c) == Append(queue, c)

\* The non-blocking send: a full queue drops the job.
Offer(c) == IF Len(queue) < QueueCap THEN Append(queue, c) ELSE queue

\* Mutant: the mark is forgotten.
SetMarkNever(c) == marks

SetMark(c) == marks \union {c}

\* reqMarks.set, and the send.
Send(p) ==
    /\ \E c \in held[p] : marks' = SetMark(c) /\ queue' = Offer(c)
    /\ held' = [held EXCEPT ![p] = {}]
    /\ UNCHANGED <<source, truth, artifacts, table, term, leading, worker, todo, sweep,
                   work, excused>>

\* A mark reaches pendingMarkTTL, its job still under way or not.
MarkExpires(c) ==
    /\ c \in marks /\ marks' = marks \ {c}
    /\ excused' = IF OnWay(c) THEN excused \union {c} ELSE excused
    /\ UNCHANGED <<source, truth, artifacts, table, queue, term, leading, worker, todo, held,
                   sweep, work>>

-----------------------------------------------------------------------------
(* The workers of a term.                                                   *)

\* RunVulnWorker, RunLicenseWorker: the select may take a job although its
\* context is done.
TakeJob(w) ==
    /\ worker[w].pc = "idle" /\ queue # <<>>
    /\ worker' = [worker EXCEPT ![w] = [pc |-> "query", coord |-> {Head(queue)}, answer |-> "none"]]
    /\ queue' = Tail(queue)
    /\ UNCHANGED <<source, truth, artifacts, table, marks, term, leading, todo, held, sweep,
                   work, excused>>

Stop(w) ==
    /\ worker[w].pc = "idle" /\ Cancelled(w[1])
    /\ worker' = [worker EXCEPT ![w] = Off]
    /\ UNCHANGED <<source, truth, artifacts, table, marks, queue, term, leading, todo, held,
                   sweep, work, excused>>

\* Scanner.Query, Resolver.Resolve: the source's answer of this moment.
Query(w) ==
    /\ worker[w].pc = "query" /\ ~Cancelled(w[1])
    /\ \E c \in worker[w].coord :
          worker' = [worker EXCEPT ![w] = [@ EXCEPT !.pc = "store", !.answer = truth[c]]]
    /\ UNCHANGED <<source, truth, artifacts, table, marks, queue, term, leading, todo, held,
                   sweep, work, excused>>

\* Mutant: the conflict clause keeps scanned_at.
UpsertKeepsTime(c) ==
    IF c \in Range(rows) THEN <<rows, stale>> ELSE <<Append(rows, c), stale>>

\* UpsertVulnScan, UpsertLicenseScan: the row moves to the end of the time order.
Upsert(c) ==
    IF c \in Range(rows)
    THEN LET i == CHOOSE j \in DOMAIN rows : rows[j] = c
         IN  <<Append(Without(rows, i), c), IF i <= stale THEN stale - 1 ELSE stale>>
    ELSE <<Append(rows, c), stale>>

\* runScan, runResolve: store the answer.
StoreResult(w) ==
    /\ worker[w].pc = "store" /\ ~Cancelled(w[1])
    /\ \E c \in worker[w].coord :
          /\ verdict' = [verdict EXCEPT ![c] = worker[w].answer]
          /\ rows' = Upsert(c)[1] /\ stale' = Upsert(c)[2]
    /\ worker' = [worker EXCEPT ![w] = [Off EXCEPT !.pc = "idle"]]
    /\ UNCHANGED <<source, truth, artifacts, marks, queue, term, leading, todo, held, sweep,
                   work, excused>>

\* Mutant: an error counts as a clean answer.
FailAsClean(w) ==
    /\ worker[w].pc \in {"query", "store"}
    /\ External
    /\ \E c \in worker[w].coord :
          /\ verdict' = [verdict EXCEPT ![c] = "good"]
          /\ rows' = Upsert(c)[1] /\ stale' = Upsert(c)[2]
    /\ worker' = [worker EXCEPT ![w] = [Off EXCEPT !.pc = "idle"]]
    /\ UNCHANGED <<source, truth, artifacts, marks, queue, term, leading, todo, held, sweep,
                   excused>>

\* The query or the statement fails: the job is given up, its mark stays.  It does
\* so for certain once the context is cancelled.
Fail(w) ==
    /\ worker[w].pc \in {"query", "store"}
    /\ \/ Cancelled(w[1]) /\ UNCHANGED work
       \/ ~Cancelled(w[1]) /\ External
    /\ worker' = [worker EXCEPT ![w] = [Off EXCEPT !.pc = "idle"]]
    /\ UNCHANGED <<source, truth, artifacts, table, marks, queue, term, leading, todo, held,
                   sweep, excused>>

-----------------------------------------------------------------------------
(* The backfill and the rescanner of a term.                                *)

\* backfillOnce, licenseBackfillOnce: at once and on every tick, ScannedKeys or
\* ResolvedLicenseKeys.
SweepStart ==
    /\ sweep.pc = "idle" /\ leading /\ todo["backfill"] = <<>> /\ held["backfill"] = {}
    /\ sweep' = [pc |-> "paging", known |-> Range(rows), offset |-> 0]
    /\ UNCHANGED <<source, truth, artifacts, table, marks, queue, term, leading, worker, todo,
                   held, work, excused>>

\* Mutant: the sweep runs once per term.
AfterSweepOnce == "off"

\* RunVulnBackfill, RunLicenseBackfill: the loop waits for its ticker.
AfterSweep == "idle"

\* ListScanTargets by offset.
SweepPage ==
    LET at == sweep.offset
        targets == SubSeq(artifacts, at + 1, IF at + Batch < Len(artifacts) THEN at + Batch ELSE Len(artifacts))
    IN  /\ sweep.pc = "paging" /\ todo["backfill"] = <<>> /\ held["backfill"] = {}
        /\ todo' = [todo EXCEPT !["backfill"] = targets]
        /\ sweep' = [sweep EXCEPT !.pc = IF Len(targets) < Batch THEN AfterSweep ELSE @, !.offset = @ + Batch]
        /\ UNCHANGED <<source, truth, artifacts, table, marks, queue, term, leading, worker, held,
                       work, excused>>

\* Listing the page fails: the sweep is given up until the next tick.
SweepFails ==
    /\ External /\ sweep.pc = "paging" /\ todo["backfill"] = <<>> /\ held["backfill"] = {}
    /\ sweep' = [sweep EXCEPT !.pc = AfterSweep]
    /\ UNCHANGED <<source, truth, artifacts, table, marks, queue, term, leading, worker, todo,
                   held, excused>>

\* RunVulnRescanner, RunLicenseRescanner: ListStale..., oldest first.
RescanTick ==
    /\ leading /\ stale > 0 /\ todo["rescan"] = <<>> /\ held["rescan"] = {}
    /\ todo' = [todo EXCEPT !["rescan"] = SubSeq(rows, 1, IF stale < Batch THEN stale ELSE Batch)]
    /\ UNCHANGED <<source, truth, artifacts, table, marks, queue, term, leading, worker, held,
                   sweep, work, excused>>

-----------------------------------------------------------------------------
(* Leadership, restarts, and the world outside.                             *)

\* startLeading starts the pool and the loops.
StartLeading ==
    /\ ~leading /\ leading' = TRUE
    /\ worker' = [w \in DOMAIN worker |-> IF w[1] = term THEN [Off EXCEPT !.pc = "idle"] ELSE worker[w]]
    /\ sweep' = [sweep EXCEPT !.pc = "idle"]
    /\ UNCHANGED <<source, truth, artifacts, table, marks, queue, term, todo, held, work, excused>>

\* The term's context is cancelled, so no further page is listed; the queue and the
\* marks stay, and the loops go on with the page in hand.
StopLeading ==
    /\ External /\ leading /\ term < MaxTerms
    /\ leading' = FALSE /\ term' = term + 1 /\ sweep' = [sweep EXCEPT !.pc = "off"]
    /\ UNCHANGED <<source, truth, artifacts, table, marks, queue, worker, todo, held,
                   excused>>

\* The process restarts; the queue and the marks are gone.
Restart ==
    /\ External /\ term < MaxTerms /\ leading' = FALSE /\ term' = term + 1
    /\ marks' = {} /\ queue' = <<>> /\ worker' = [w \in DOMAIN worker |-> Off]
    /\ todo' = [p \in Procs |-> <<>>] /\ held' = [p \in Procs |-> {}]
    /\ sweep' = NoSweep
    /\ UNCHANGED <<source, truth, artifacts, table, excused>>

\* An artifact is deleted: later rows move up a page.
DeleteArtifact ==
    /\ External
    /\ \E i \in DOMAIN artifacts : artifacts' = Without(artifacts, i)
    /\ UNCHANGED <<source, truth, table, marks, queue, term, leading, worker, todo, held, sweep,
                   excused>>

\* The source learns of a finding.
Disclose(c) ==
    /\ External
    /\ truth[c] = "good" /\ truth' = [truth EXCEPT ![c] = "bad"]
    /\ UNCHANGED <<source, artifacts, table, marks, queue, term, leading, worker, todo, held,
                   sweep, excused>>

\* The oldest fresh row passes the TTL.
Age ==
    /\ External
    /\ stale < Len(rows) /\ stale' = stale + 1
    /\ UNCHANGED <<source, truth, artifacts, verdict, rows, marks, queue, term, leading, worker,
                   todo, held, sweep, excused>>

Enqueue(p) == CheckMark(p) \/ Send(p)
Work(w) == TakeJob(w) \/ Query(w) \/ StoreResult(w) \/ Fail(w) \/ Stop(w)
Sweep == SweepStart \/ SweepPage

Next ==
    \/ \E k \in Clients : Request(k) \/ Store(k)
    \/ \E p \in Procs : Enqueue(p)
    \/ \E w \in DOMAIN worker : Work(w)
    \/ Sweep \/ SweepFails \/ RescanTick
    \/ \E c \in Coords : MarkExpires(c) \/ Disclose(c)
    \/ StartLeading \/ StopLeading \/ Restart \/ DeleteArtifact \/ Age

Spec == Init /\ [][Next]_vars

\* Goroutines run on, tickers tick, marks expire, some term goes on for good.  Go
\* chooses at random among the ready cases of a select, so a worker whose context
\* stays done does not take jobs for ever: strong fairness of Stop.
Fairness ==
    /\ \A p \in Procs : WF_vars(Enqueue(p))
    /\ \A w \in Terms \X Pool : WF_vars(Work(w)) /\ SF_vars(Stop(w))
    /\ WF_vars(Sweep) /\ WF_vars(RescanTick)
    /\ \A c \in Coords : WF_vars(MarkExpires(c))
    /\ WF_vars(StartLeading)

FairSpec == Spec /\ Fairness

-----------------------------------------------------------------------------
(* Properties.                                                              *)

\* enqueueScan deduplicates (vulnscan.go:104-106): a coordinate is scheduled or
\* being scanned twice only if its mark expired before its scan ended, or two
\* callers were between has and set at once.
DuplicateOnlyByRace == \A c \in Coords : ~Once(c) => c \in excused

\* A stored finding is replaced by an older answer only where a race scheduled the
\* coordinate twice: neither a failed query nor a lost term clears it (runScan).
FindingLostOnlyByRace ==
    [][\A c \in Coords : verdict[c] = "bad" /\ verdict'[c] # "bad" => c \in excused]_vars

\* Scans are repeated, and findings overwritten, only by those two races; the queue
\* stays within its capacity and each result has one row (enqueueScan, runScan).
RepeatedOnlyByRace == [](TypeOK /\ DuplicateOnlyByRace) /\ FindingLostOnlyByRace

\* backfillOnce: a stored artifact is scanned in the end, whatever was dropped by a
\* full queue, lost with a term or a restart, or skipped because rows moved up.
StoredIsScanned ==
    \A c \in Versioned : c \in Range(artifacts) ~> verdict[c] # "none" \/ c \notin Range(artifacts)

\* RunVulnRescanner: a stale result is refreshed in the end.
StaleIsRefreshed == \A c \in Coords : c \in Range(SubSeq(rows, 1, stale)) ~>
                                          c \notin Range(SubSeq(rows, 1, stale))
=============================================================================
