------------------------------ MODULE Lifecycle ------------------------------
(***************************************************************************)
(* The life of a process: it opens and migrates the database, seeds the     *)
(* default repositories, serves, takes and loses leadership, records audit  *)
(* events through a bounded channel, and shuts down, in the order of run()  *)
(* and of its deferred calls.  Self is followed from start to exit; Peers   *)
(* start on the same database (shared volume) and only migrate and seed.    *)
(*                                                                          *)
(* Bootstrap and RBAC, the steps between migration and seeding, are module  *)
(* Access; the promotion inside startLeading is MetaSync and Replicator.    *)
(* A signal before the server runs fails the start like a crash.  At most   *)
(* one startLeading and one reaper run at a time.                           *)
(***************************************************************************)
EXTENDS Integers, Sequences, FiniteSetsExt

CONSTANTS
    Self, Peers,
    Ships,          \* per replica: the number of migrations in its image
    Seeds,          \* DefaultRepositories, in order
    Members,        \* per default repository: the members of a group
    Handlers,
    BufferSize,
    Modes,          \* deployments: "single", "shared" (volume), "labels"
    MaxWork         \* bound: requests, faults, signals, leadership changes

Replicas == {Self} \union Peers
Reaper == "reaper"
Actors == Handlers \union {Reaper}
Events == 1..MaxWork

ASSUME ConstantsAssumption ==
    /\ Self \notin Peers /\ Reaper \notin Handlers
    /\ BufferSize \in Nat \ {0} /\ MaxWork \in Nat
    /\ \A i \in Replicas : Ships[i] \in Nat \ {0}
    /\ Modes \subseteq {"single", "shared", "labels"}
    /\ Seeds \in Seq(Range(Seeds))
    \* "Groups are listed last so their members exist when they are created."
    /\ \A k \in DOMAIN Seeds : Members[Seeds[k]] \subseteq {Seeds[j] : j \in 1..(k - 1)}

VARIABLES
    mode,
    pc,             \* per replica: where run() is
    known,          \* per replica: the migrations it found applied
    todo,           \* per replica: defaults still to seed
    schema,         \* schema_migrations
    repos,          \* repositories, of the default ones
    cancelled,      \* Self: the signal context
    term,           \* Self: leads, from OnStartedLeading to OnStoppedLeading
    starting,       \* Self: startLeading before SetReady: "no", "live", "stale"
    ready,          \* Self: Server.ready
    act,            \* Self: per actor, what it is doing
    buffer, closed, \* Self: Recorder.ch
    writer,         \* Self: the event Recorder.run is inserting, 0 if none
    id, lastId,     \* audit_logs: per event, the id of its row, 0 if none; AUTOINCREMENT
    n,              \* events stamped so far; an event is the number of its stamp
    fate,           \* history: what became of each event
    overlaps,       \* history: <<d, e>>: d was stamped and not sent when e was stamped
    work,
    excused         \* history: causes, see the properties

bootVars == <<pc, known, todo, schema, repos>>
leadVars == <<term, starting, ready>>
auditVars == <<act, buffer, closed, writer, id, lastId, n, fate, overlaps>>
vars == <<mode, bootVars, cancelled, leadVars, auditVars, work, excused>>

\* What an actor does: no goroutine, waiting, serving; otherwise the event it holds.
Off == -2
Rest == -1
Busy == 0

Pcs == {"off", "migrate", "seed", "create", "up", "draining", "closing", "flushed"}
Fates == {"none", "stamped", "buffered", "writing", "written", "pruned", "dropped", "failed",
          "refused", "unsent", "lost"}

External == work < MaxWork /\ work' = work + 1

TypeOK ==
    /\ mode \in Modes
    /\ pc \in [Replicas -> Pcs] /\ known \in [Replicas -> SUBSET Nat]
    /\ todo \in [Replicas -> Seq(Range(Seeds))]
    /\ schema \subseteq Nat \ {0} /\ repos \subseteq Range(Seeds)
    /\ {cancelled, term, ready, closed} \subseteq BOOLEAN /\ starting \in {"no", "live", "stale"}
    /\ act \in [Actors -> {Off, Rest, Busy} \union Events]
    /\ buffer \in Seq(Events) /\ Len(buffer) <= BufferSize
    /\ writer \in {0} \union Events /\ n \in 0..MaxWork
    /\ id \in [Events -> Nat] /\ lastId \in Nat
    /\ fate \in [Events -> Fates]
    \* the events on their way are where their fate says
    /\ \A e \in Events :
          /\ fate[e] = "stamped" <=> \E a \in Actors : act[a] = e
          /\ fate[e] = "buffered" <=> e \in Range(buffer)
          /\ fate[e] = "writing" <=> writer = e
          /\ fate[e] = "written" <=> id[e] # 0

\* A new database, or one an earlier version left.
Init ==
    /\ mode \in Modes
    /\ pc = [i \in Replicas |-> "off"] /\ known = [i \in Replicas |-> {}]
    /\ todo = [i \in Replicas |-> <<>>]
    /\ \E k \in 0..1 : schema = 1..k
    /\ repos = {}
    /\ cancelled = FALSE /\ term = FALSE /\ starting = "no" /\ ready = FALSE
    /\ act = [a \in Actors |-> Off] /\ buffer = <<>> /\ closed = FALSE /\ writer = 0
    /\ id = [e \in Events |-> 0] /\ lastId = 0 /\ n = 0
    /\ fate = [e \in Events |-> "none"] /\ overlaps = {} /\ work = 0 /\ excused = {}

-----------------------------------------------------------------------------
(* Start.                                                                   *)

Goto(i, to) == pc' = [pc EXCEPT ![i] = to]

\* Peers have databases of their own unless the volume is shared.
Starts(i) == i = Self \/ mode = "shared"

\* Mutant: every start applies every migration.
FoundBlind == {}

\* SELECT version FROM schema_migrations
Found == schema

\* openAndMigrate, migrate: what is applied is read once, outside any transaction.
ReadSchema(i) ==
    /\ pc[i] = "off" /\ Starts(i)
    /\ known' = [known EXCEPT ![i] = Found] /\ Goto(i, "migrate")
    /\ UNCHANGED <<mode, todo, schema, repos, cancelled, leadVars, auditVars, work, excused>>

\* Mutant: the files are taken as the directory lists them.
NextMigrationUnsorted(missing) == Max(missing)

\* The versions in order.
NextMigration(missing) == Min(missing)

\* One transaction per migration; one that another replica applied since fails the start.
ApplyMigration(i) ==
    /\ pc[i] = "migrate"
    /\ LET missing == 1..Ships[i] \ known[i]
       IN  IF missing = {}
           THEN Goto(i, "seed") /\ todo' = [todo EXCEPT ![i] = Seeds] /\ UNCHANGED <<known, schema>>
           ELSE /\ UNCHANGED todo
                /\ LET v == NextMigration(missing)
                   IN  IF v \in schema THEN Goto(i, "off") /\ UNCHANGED <<known, schema>>
                       ELSE /\ schema' = schema \union {v} /\ UNCHANGED pc
                            /\ known' = [known EXCEPT ![i] = @ \union {v}]
    /\ UNCHANGED <<mode, repos, cancelled, leadVars, auditVars, work, excused>>

\* SeedDefaults: look the next default up.
SeedGet(i) ==
    /\ pc[i] = "seed" /\ todo[i] # <<>>
    /\ IF Head(todo[i]) \in repos THEN todo' = [todo EXCEPT ![i] = Tail(@)] /\ UNCHANGED pc
       ELSE Goto(i, "create") /\ UNCHANGED todo
    /\ UNCHANGED <<mode, known, schema, repos, cancelled, leadVars, auditVars, work, excused>>

\* Mutant: a lost race is taken for a finished seeding.
SeededSinceAll(i) == <<>>

\* A UNIQUE conflict skips the one repository.
SeededSince(i) == Tail(todo[i])

SeedCreate(i) ==
    /\ pc[i] = "create"
    /\ repos' = repos \union {Head(todo[i])}
    /\ todo' = [todo EXCEPT ![i] = IF Head(@) \in repos THEN SeededSince(i) ELSE Tail(@)]
    /\ Goto(i, "seed")
    /\ UNCHANGED <<mode, known, schema, cancelled, leadVars, auditVars, work, excused>>

\* Where labels route, and without HA, the server is ready from the start.
ReadyAtStart == mode # "shared"

\* NewRecorder: an empty channel and a writer.
NewRecorder == buffer' = <<>> /\ closed' = FALSE /\ writer' = 0

\* The rest of run(): a single instance leads at once; the server listens.
Serve(i) ==
    /\ pc[i] = "seed" /\ todo[i] = <<>> /\ Goto(i, "up")
    /\ IF i = Self
       THEN /\ cancelled' = FALSE /\ term' = (mode = "single") /\ starting' = "no"
            /\ ready' = ReadyAtStart
            /\ act' = [a \in Actors |-> IF a \in Handlers \/ mode = "single" THEN Rest ELSE Off]
            /\ NewRecorder
       ELSE UNCHANGED <<cancelled, leadVars, act, buffer, closed, writer>>
    /\ UNCHANGED <<mode, known, todo, schema, repos, id, lastId, n, fate, overlaps, work, excused>>

Boot(i) == ReadSchema(i) \/ ApplyMigration(i) \/ SeedGet(i) \/ SeedCreate(i) \/ Serve(i)

\* An administrator deletes a default repository.
DeleteRepository ==
    /\ \E i \in Replicas : pc[i] = "up"
    /\ External /\ \E r \in repos : repos' = repos \ {r}
    /\ excused' = excused \union {"deleted"}
    /\ UNCHANGED <<mode, pc, known, todo, schema, cancelled, leadVars, auditVars>>

-----------------------------------------------------------------------------
(* Leadership and readiness of Self.                                        *)

Running == pc[Self] \in {"up", "draining", "closing", "flushed"}
Leaves == <<mode, bootVars, cancelled, auditVars>>

\* OnStartedLeading starts startLeading in a goroutine.
StartLeading ==
    /\ Running /\ mode # "single" /\ ~term /\ starting = "no" /\ ~cancelled /\ External
    /\ term' = TRUE /\ starting' = "live" /\ UNCHANGED ready
    /\ UNCHANGED <<Leaves, excused>>

\* Past the promotion: SetReady(true), and the loops start; under a cancelled context
\* they end at once.
BecomeReady ==
    /\ Running /\ starting # "no"
    /\ starting' = "no" /\ ready' = TRUE /\ UNCHANGED term
    /\ act' = IF starting = "live" /\ act[Reaper] = Off THEN [act EXCEPT ![Reaper] = Rest] ELSE act
    /\ excused' = IF starting = "stale" THEN excused \union {"stopped first"} ELSE excused
    /\ UNCHANGED <<mode, bootVars, cancelled, buffer, closed, writer, id, lastId, n, fate,
                   overlaps, work>>

\* Mutant: readiness is left to the next term.
ReadyAfterStopKept == ready

\* stopLeading: readiness gates the leader unless labels route.
ReadyAfterStop == ready /\ mode # "shared"

\* OnStoppedLeading, after a lost Lease, StepDown, or the signal.
StopLeading ==
    /\ Running /\ mode # "single" /\ term
    /\ IF cancelled THEN UNCHANGED work ELSE External
    /\ term' = FALSE /\ ready' = ReadyAfterStop
    /\ starting' = IF starting = "live" THEN "stale" ELSE starting
    /\ UNCHANGED <<Leaves, excused>>

-----------------------------------------------------------------------------
(* Audit events.                                                            *)

Moved(e, where) == fate' = [fate EXCEPT ![e] = where]

\* A request arrives; audited calls the handler, and Record afterwards.
Request(h) ==
    /\ pc[Self] = "up" /\ act[h] = Rest /\ External
    /\ act' = [act EXCEPT ![h] = Busy]
    /\ UNCHANGED <<mode, bootVars, cancelled, leadVars, buffer, closed, writer, id, lastId, n, fate,
                   overlaps, excused>>

\* reapOnce deletes an idle artifact under its leader's context.
ReapArtifact ==
    /\ Running /\ act[Reaper] = Rest /\ term /\ ~cancelled /\ External
    /\ act' = [act EXCEPT ![Reaper] = Busy]
    /\ UNCHANGED <<mode, bootVars, cancelled, leadVars, buffer, closed, writer, id, lastId, n, fate,
                   overlaps, excused>>

\* RunIdleReaper sees its context done.
ReaperEnds ==
    /\ Running /\ act[Reaper] = Rest /\ (~term \/ cancelled)
    /\ act' = [act EXCEPT ![Reaper] = Off]
    /\ UNCHANGED <<mode, bootVars, cancelled, leadVars, buffer, closed, writer, id, lastId, n, fate,
                   overlaps, work, excused>>

\* Record stamps the event ...
Stamp(a) ==
    /\ Running /\ act[a] = Busy
    /\ n' = n + 1 /\ act' = [act EXCEPT ![a] = n + 1] /\ Moved(n + 1, "stamped")
    /\ overlaps' = overlaps \union {<<act[b], n + 1>> : b \in {c \in Actors : act[c] > 0}}
    /\ UNCHANGED <<mode, bootVars, cancelled, leadVars, buffer, closed, writer, id, lastId, work,
                   excused>>

\* The process ends: what is in memory goes.
Vanish(f) ==
    [e \in Events |-> IF f[e] \in {"buffered", "writing"} THEN "lost"
                     ELSE IF f[e] = "stamped" THEN "unsent" ELSE f[e]]

Exit(f) ==
    /\ Goto(Self, "off") /\ fate' = Vanish(f)
    /\ act' = [a \in Actors |-> Off] /\ buffer' = <<>> /\ closed' = FALSE /\ writer' = 0
    /\ cancelled' = FALSE /\ term' = FALSE /\ starting' = "no" /\ ready' = FALSE
    /\ UNCHANGED <<mode, known, todo, schema, repos, id, lastId, n, overlaps>>

\* Mutant: a sender waits for a free place.
RoomAlways == TRUE

\* A send that would block is given up.
Room == Len(buffer) < BufferSize

\* ... and sends it without blocking.  On a closed channel the send panics: recoverer
\* turns a handler's panic into a 500, the reaper's ends the process.
Send(a) ==
    /\ Running /\ act[a] > 0
    /\ UNCHANGED work
    /\ IF closed /\ a = Reaper
       THEN excused' = excused \union {"reaper panic"} /\ Exit([fate EXCEPT ![act[a]] = "unsent"])
       ELSE /\ act' = [act EXCEPT ![a] = Rest]
            /\ buffer' = IF ~closed /\ Room THEN Append(buffer, act[a]) ELSE buffer
            /\ Moved(act[a], IF closed THEN "refused" ELSE IF Room THEN "buffered" ELSE "dropped")
            /\ UNCHANGED <<mode, bootVars, cancelled, leadVars, closed, writer, id, lastId, n,
                           overlaps, excused>>

\* Mutant: the newest first.
TakeEventNewest ==
    /\ Running /\ writer = 0 /\ buffer # <<>>
    /\ writer' = buffer[Len(buffer)] /\ buffer' = SubSeq(buffer, 1, Len(buffer) - 1)
    /\ Moved(buffer[Len(buffer)], "writing")
    /\ UNCHANGED <<mode, bootVars, cancelled, leadVars, act, closed, id, lastId, n, overlaps,
                   work, excused>>

\* Recorder.run takes an event ...
TakeEvent ==
    /\ Running /\ writer = 0 /\ buffer # <<>>
    /\ writer' = Head(buffer) /\ buffer' = Tail(buffer) /\ Moved(Head(buffer), "writing")
    /\ UNCHANGED <<mode, bootVars, cancelled, leadVars, act, closed, id, lastId, n, overlaps,
                   work, excused>>

\* ... and inserts it.
InsertAuditLog ==
    /\ Running /\ writer # 0
    /\ lastId' = lastId + 1 /\ id' = [id EXCEPT ![writer] = lastId + 1]
    /\ Moved(writer, "written") /\ writer' = 0
    /\ UNCHANGED <<mode, bootVars, cancelled, leadVars, act, buffer, closed, n, overlaps, work,
                   excused>>

\* A failed insert, or one past its five seconds, is only logged.
InsertFails ==
    /\ Running /\ writer # 0 /\ External
    /\ Moved(writer, "failed") /\ writer' = 0
    /\ UNCHANGED <<mode, bootVars, cancelled, leadVars, act, buffer, closed, id, lastId, n,
                   overlaps, excused>>

\* pruneOnce: the entries stamped before the cutoff.
PruneAuditLogs ==
    /\ Running /\ term /\ ~cancelled /\ (\E e \in Events : id[e] # 0) /\ External
    /\ \E cutoff \in 2..n + 1 :
          /\ id' = [e \in Events |-> IF e < cutoff THEN 0 ELSE id[e]]
          /\ fate' = [e \in Events |-> IF id[e] # 0 /\ e < cutoff THEN "pruned" ELSE fate[e]]
    /\ UNCHANGED <<mode, bootVars, cancelled, leadVars, act, buffer, closed, writer, lastId, n,
                   overlaps, excused>>

-----------------------------------------------------------------------------
(* Shutdown.                                                                *)

Signal ==
    /\ pc[Self] = "up" /\ ~cancelled /\ External /\ cancelled' = TRUE
    /\ UNCHANGED <<mode, bootVars, leadVars, auditVars, excused>>

\* Server.Run: Shutdown closes the listeners ...
Shutdown ==
    /\ pc[Self] = "up" /\ cancelled /\ Goto(Self, "draining")
    /\ UNCHANGED <<mode, known, todo, schema, repos, cancelled, leadVars, auditVars, work, excused>>

\* run() returns, recorder.Close closes the channel.
Close(causes) ==
    /\ Goto(Self, "closing") /\ closed' = TRUE /\ excused' = excused \union causes
    /\ UNCHANGED <<mode, known, todo, schema, repos, cancelled, leadVars, act, buffer, writer,
                   id, lastId, n, fate, overlaps>>

\* Mutant: only the listeners are waited for.
IdleListeners == TRUE

\* No connection is active.
Idle == \A h \in Handlers : act[h] = Rest

\* ... and waits for the connections ...
Drained == pc[Self] = "draining" /\ Idle /\ Close({}) /\ UNCHANGED work

\* Mutant: Shutdown gets a context without a deadline.
DrainForever == pc[Self] = "draining" /\ Idle /\ Close({"late"}) /\ UNCHANGED work

\* ... no longer than ShutdownTimeout.
DrainTimeout == pc[Self] = "draining" /\ Close({"late"}) /\ UNCHANGED work

\* A listener fails: Server.Run returns at once.
ListenerFails == pc[Self] = "up" /\ External /\ Close({"late"})

\* Mutant: the writer is told to stop, not waited for.
WriterDoneEarly == TRUE

WriterDone == buffer = <<>> /\ writer = 0

\* Close returns once the writer has emptied the channel.
Flushed ==
    /\ pc[Self] = "closing" /\ WriterDone /\ Goto(Self, "flushed")
    /\ UNCHANGED <<mode, known, todo, schema, repos, cancelled, leadVars, auditVars, work, excused>>

\* store.Close, the end of main.
CloseStore == pc[Self] = "flushed" /\ Exit(fate) /\ UNCHANGED <<work, excused>>

\* The process is killed; a peer's start is.
Crash ==
    /\ External
    /\ \/ pc[Self] # "off" /\ excused' = excused \union {"crash"} /\ Exit(fate)
       \/ \E i \in Peers : pc[i] # "off" /\ Goto(i, "off")
             /\ UNCHANGED <<mode, known, todo, schema, repos, cancelled, leadVars, auditVars,
                            excused>>

Stop == Shutdown \/ Drained \/ DrainTimeout \/ Flushed \/ CloseStore
Write == TakeEvent \/ InsertAuditLog

Next ==
    \/ \E i \in Replicas : Boot(i)
    \/ DeleteRepository \/ StartLeading \/ BecomeReady \/ StopLeading
    \/ \E h \in Handlers : Request(h)
    \/ \E a \in Actors : Stamp(a) \/ Send(a)
    \/ ReapArtifact \/ ReaperEnds \/ Write \/ InsertFails \/ PruneAuditLogs
    \/ Signal \/ Stop \/ ListenerFails \/ Crash

\* A process runs on and is restarted; the writer's inserts and the drain have
\* timeouts.  Nothing is assumed of handlers, the reaper and elections.
Fairness == (\A i \in Replicas : WF_vars(Boot(i))) /\ WF_vars(Stop) /\ WF_vars(Write)

Spec == Init /\ [][Next]_vars /\ Fairness

-----------------------------------------------------------------------------
(* Properties.                                                              *)

\* migrate: whatever replicas of whatever versions start at once, crash and start again,
\* the migrations applied are the first ones.
SchemaIsPrefix == \A v \in schema : 1..v \subseteq schema

\* SeedDefaults: a replica that has started has seen every default repository, and a
\* group has its members, unless someone deleted one.
SeedsAreThere ==
    \/ "deleted" \in excused
    \/ /\ \A i \in Replicas : pc[i] = "up" => repos = Range(Seeds)
       /\ \A r \in repos : Members[r] \subseteq repos

\* "Closed on shutdown so buffered events flush before the store closes": an event in
\* the channel is lost only when the process dies, be it by the reaper's late Record.
BufferedIsFlushed ==
    (\E e \in Events : fate[e] = "lost") => excused \cap {"crash", "reaper panic"} # {}

\* Server.Run drains before the channel closes: a request's event finds the channel
\* closed only past the drain timeout or after a listener failed.
RefusedOnlyLate == (\E e \in Events : fate[e] = "refused") => "late" \in excused

\* ListAuditLogs, "newest first", orders by id: two entries are listed against their
\* stamps only if one was stamped while the other was between its stamp and its send.
ListedByTime ==
    \A d, e \in Events : 0 < id[e] /\ id[e] < id[d] /\ d < e => <<d, e>> \in overlaps

\* A replica that has started finds the schema and the defaults complete, whoever
\* else started, crashed and started again beside it (migrate, SeedDefaults).
StartedIsComplete == SchemaIsPrefix /\ SeedsAreThere

\* Every event is in one place, reaches the table unless a named cause intervenes, and
\* is listed in the order of its stamp (Recorder, Server.Run).
EventsAccounted == TypeOK /\ BufferedIsFlushed /\ RefusedOnlyLate /\ ListedByTime

\* handleReadyz, "only the elected leader is ready": on a shared volume readiness
\* outlives the term only if stopLeading overtook startLeading.
ReadyOnlyLeading == mode = "shared" /\ ready => term \/ "stopped first" \in excused

\* Server.Run and the deferred calls: after the signal the process ends, whatever
\* handlers and reaper do.
SignalExits == cancelled ~> pc[Self] = "off"

\* migrate and SeedDefaults: a start that loses a race fails, and yet every replica
\* gets up again and again.
EveryReplicaStarts == \A i \in Replicas : []<>(pc[i] = "up" \/ ~Starts(i))
=============================================================================
