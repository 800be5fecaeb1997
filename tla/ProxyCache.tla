----------------------------- MODULE ProxyCache -----------------------------
(***************************************************************************)
(* The pull-through cache: Engine.serve with its single flight, negative    *)
(* cache, upstream cooldown, freshness rule, age policy, size cap, and the  *)
(* idle reaper that runs beside it.                                         *)
(*                                                                          *)
(* Every client is one request goroutine.  A step is one transaction of the *)
(* database, one critical section of an in-memory table, or one exchange    *)
(* with the upstream; requests, the reaper, uploads, configuration changes  *)
(* and the clock interleave between steps.  Blobs are ArtifactStore's.      *)
(***************************************************************************)
EXTENDS Integers, FiniteSets, FiniteSetsExt

CONSTANTS
    Clients, Paths,
    Metadata,          \* paths of kind kindMetadata; the others are artifacts
    Dated,             \* paths whose upstream sends a release time
    Configs,           \* configurations an administrator switches between
    MetadataTTL, ArtifactTTL, NegativeTTL, IdleTTL,
    BodySize,          \* of every body; a configuration caps their sum
    EvictBatch,        \* LIMIT of one EvictLRU (16 in maybeEvict)
    EvictRounds,       \* rounds of maybeEvict (64)
    RetryAfters,       \* Retry-After values of a throttling upstream
    DefaultCooldown, MaxCooldown,
    MaxClock, MaxUpdates, MaxRequests, MaxReleases   \* bounds

\* A negative negative_ttl acts as zero: negCache.set stores nothing for either.
ASSUME ConstantsAssumption ==
    /\ Paths # {} /\ MaxClock \in Nat \ {0}
    /\ {MaxUpdates, MaxRequests, EvictRounds, NegativeTTL} \subseteq Nat
    /\ {MetadataTTL, ArtifactTTL, IdleTTL} \subseteq Int
    /\ {DefaultCooldown, MaxCooldown} \subseteq Nat /\ 0 < DefaultCooldown
    /\ DefaultCooldown <= MaxCooldown /\ RetryAfters \subseteq Int
    /\ \A k \in Configs : {k.minAge, k.maxAge} \subseteq Int

VARIABLES
    now,
    hosted,            \* paths of hosted repositories (repositories.type, fixed)
    cfg,               \* the proxied repository's configuration
    updates, requests, \* configuration changes and requests so far
    upstream,          \* path -> release times so far, the body is the last; {} is 404
    arts,              \* table artifacts: path -> row, {} is none
    neg, cool,         \* the two negCaches: path -> expiry, 0 is no entry
    calls,             \* flight.calls: path -> the client that runs the call
    req,               \* per client: its request
    shield,            \* history, per client: the least expiry of its path's cooldown
                       \* since its request began
    reap               \* paths reapOnce listed and has not deleted yet

\* What a request does not change.
env == <<now, hosted, cfg, updates, requests, upstream, reap>>
vars == <<env, arts, neg, cool, calls, req, shield>>

Proxied == Paths \ hosted

\* "under" is history: the configuration of the request that stored the row.
Row == [body : 0..MaxClock, cachedAt : 0..MaxClock, accessed : 0..MaxClock,
        under : Configs]
Pcs == {"idle", "lookup", "touch", "neg", "cool", "fly", "wait", "recheck", "get",
        "store", "evict", "finish", "respond", "stream", "done"}
\* fetchKind, and the answers written to the client.
Outcomes == {"none", "stored", "notFound", "ageBlocked", "retry", "error",
             "ok", "cacheReadFailed"}
\* History: since, when the request, or the call it joined, began.
Request == [pc : Pcs, path : Paths, cfg : Configs, since : 0..MaxClock, out : Outcomes,
            row : SUBSET Row, victims : SUBSET Paths, round : 0..EvictRounds]
Start(pc, p) == [pc |-> pc, path |-> p, cfg |-> cfg, since |-> now,
                 out |-> "none", row |-> {}, victims |-> {}, round |-> 0]

TypeOK ==
    /\ now \in 1..MaxClock /\ hosted \in SUBSET Paths
    /\ cfg \in Configs /\ updates \in 0..MaxUpdates /\ requests \in 0..MaxRequests
    /\ upstream \in [Paths -> SUBSET (0..MaxClock)]
    /\ arts \in [Paths -> SUBSET Row]
    /\ \A p \in Paths : arts[p] = {} \/ \E row \in arts[p] : arts[p] = {row}
    /\ neg \in [Paths -> 0..(MaxClock + NegativeTTL)]
    /\ cool \in [Paths -> 0..(MaxClock + MaxCooldown)]
    /\ calls \in [Paths -> SUBSET Clients]
    /\ req \in [Clients -> Request]
    /\ shield \in [Clients -> 0..(MaxClock + MaxCooldown)]
    /\ reap \in SUBSET Paths

Init ==
    /\ now = 1 /\ hosted \in SUBSET Paths
    /\ cfg \in Configs /\ updates = 0 /\ requests = 0
    /\ upstream \in {f \in [Paths -> {{}, {1}}] : \A p \in hosted : f[p] = {}}
    /\ arts = [p \in Paths |-> {}]
    /\ neg = [p \in Paths |-> 0] /\ cool = [p \in Paths |-> 0]
    /\ calls = [p \in Paths |-> {}]
    /\ req = [c \in Clients |-> Start("idle", CHOOSE p \in Paths : TRUE)]
    /\ shield = [c \in Clients |-> 0]
    /\ reap = {}

-----------------------------------------------------------------------------
(* Pure parts of the engine.                                                *)

\* evaluateAge blocks: the policy is on, the release time known, the release
\* newer than min_age or older than max_age, and the action not "warn".
AgeBlocks(c, published) ==
    /\ c.ageEnabled /\ ~c.warn
    /\ \E t \in published : \/ c.minAge > 0 /\ now - t < c.minAge
                            \/ c.maxAge > 0 /\ now - t > c.maxAge

\* What the upstream has at path p: the last release, if any.
Body(p) == {t \in upstream[p] : \A u \in upstream[p] : u <= t}

\* The release time a response of path p carries (extractPublished).
Published(p, t) == IF p \in Dated THEN {t} ELSE {}

\* Mutant: metadata without a TTL, or past it, is served like an artifact.
FreshAlways(row, c, p) == c.cache

\* Engine.fresh.
Fresh(row, c, p) ==
    LET ttl == IF p \in Metadata THEN MetadataTTL ELSE ArtifactTTL
    IN c.cache /\ IF ttl <= 0 THEN p \notin Metadata ELSE now - row.cachedAt < ttl

\* Mutant: the upper clamp is missing.
ParseRetryAfterUncapped(h) == IF h < DefaultCooldown THEN DefaultCooldown ELSE h

\* parseRetryAfter: the header clamped to [DefaultCooldown, MaxCooldown].
ParseRetryAfter(h) ==
    IF h < DefaultCooldown THEN DefaultCooldown
    ELSE IF h > MaxCooldown THEN MaxCooldown ELSE h

\* negCache.has: an entry counts up to and including its expiry.
Has(p) == neg[p] # 0 /\ ~(now > neg[p])

\* negCache.remaining: an entry counts strictly before its expiry.
Remaining(p) == cool[p] # 0 /\ cool[p] - now > 0

\* negCache.set: a TTL that is not positive stores nothing.
Set(table, p, ttl) == IF ttl <= 0 THEN table ELSE [table EXCEPT ![p] = now + ttl]

Go(c, pc) == req' = [req EXCEPT ![c].pc = pc]
Reply(c, out, row) ==
    req' = [req EXCEPT ![c] = [@ EXCEPT !.pc = "done", !.out = out, !.row = row,
                                        !.round = 0]]
Answer(c, out) == Reply(c, out, {})
Serve(c, row) == Reply(c, "ok", {row})

\* evalAge, of a fetched body; ageGate, which also answers.
EvalAge(c, t) == AgeBlocks(req[c].cfg, Published(req[c].path, t))
AgeGate(c, t) ==
    /\ AgeBlocks(req[c].cfg, Published(req[c].path, t))
    /\ Answer(c, "ageBlocked")
Yield(c, out) == req' = [req EXCEPT ![c] = [@ EXCEPT !.pc = "finish", !.out = out]]

\* A throttled answer: the path rests for as long as parseRetryAfter says.
Throttle(p, h) ==
    /\ cool' = Set(cool, p, ParseRetryAfter(h))
    /\ shield' = [c \in Clients |-> IF req[c].path = p THEN Min({shield[c], cool'[p]})
                                    ELSE shield[c]]

-----------------------------------------------------------------------------
(* Engine.serve.                                                            *)

\* A handler resolved the repository and its configuration and calls serve.
Begin(c, p) ==
    /\ req[c].pc \in {"idle", "done"}
    /\ requests < MaxRequests
    /\ requests' = requests + 1
    /\ req' = [req EXCEPT ![c] = Start("lookup", p)]
    /\ shield' = [shield EXCEPT ![c] = cool[p]]
    /\ UNCHANGED <<now, hosted, cfg, updates, upstream, arts, neg, cool, calls, reap>>

\* A stored row, authoritative (hosted) or fresh: the age policy.  A hosted row
\* has no release time, so nothing blocks it.
Hit(c) ==
    LET p == req[c].path
    IN /\ req[c].pc = "lookup"
       /\ \E row \in arts[p] :
            /\ p \in hosted \/ Fresh(row, req[c].cfg, p)
            /\ \/ p \in Proxied /\ AgeGate(c, row.body)
               \/ /\ p \in hosted \/ ~EvalAge(c, row.body)
                  /\ req' = [req EXCEPT ![c] = [@ EXCEPT !.pc = "touch", !.row = {row}]]
       /\ UNCHANGED <<env, arts, neg, cool, calls, shield>>

\* Touch whatever row is there now, then serveArtifact with the row in hand.
Touch(c) ==
    LET p == req[c].path
    IN /\ req[c].pc = "touch"
       /\ arts' = [arts EXCEPT ![p] = {[row EXCEPT !.accessed = now] : row \in @}]
       /\ Reply(c, "ok", req[c].row)
       /\ UNCHANGED <<env, neg, cool, calls, shield>>

\* Nothing stored, or stale: 404 for a hosted path, else the proxy path.
Miss(c) ==
    LET p == req[c].path
    IN /\ req[c].pc = "lookup"
       /\ IF p \in hosted THEN arts[p] = {} /\ Answer(c, "notFound")
          ELSE /\ \A row \in arts[p] : ~Fresh(row, req[c].cfg, p)
               /\ Go(c, "neg")
       /\ UNCHANGED <<env, arts, neg, cool, calls, shield>>

\* GetArtifact fails for another reason than a missing row.
MetadataError(c) ==
    /\ req[c].pc = "lookup"
    /\ Answer(c, "error")
    /\ UNCHANGED <<env, arts, neg, cool, calls, shield>>

\* Mutant: a hit extends the entry.
NegCheckSliding(c) ==
    LET p == req[c].path
    IN /\ req[c].pc = "neg"
       /\ neg' = [neg EXCEPT ![p] = IF Has(p) THEN now + NegativeTTL ELSE 0]
       /\ IF Has(p) THEN Answer(c, "notFound") ELSE Go(c, "cool")
       /\ UNCHANGED <<env, arts, cool, calls, shield>>

\* A negative entry answers; an expired one is dropped.
NegCheck(c) ==
    LET p == req[c].path
    IN /\ req[c].pc = "neg"
       /\ neg' = IF Has(p) THEN neg ELSE [neg EXCEPT ![p] = 0]
       /\ IF Has(p) THEN Answer(c, "notFound") ELSE Go(c, "cool")
       /\ UNCHANGED <<env, arts, cool, calls, shield>>

\* Mutant: the cooldown is consulted only by pass-through repositories.
CoolCheckPassthrough(c) ==
    /\ req[c].pc = "cool"
    /\ Go(c, IF req[c].cfg.cache THEN "fly" ELSE "stream")
    /\ UNCHANGED <<env, arts, neg, cool, calls, shield>>

\* A cooldown answers; otherwise a repository without a cache streams and the
\* others join the flight.
CoolCheck(c) ==
    LET p == req[c].path
    IN /\ req[c].pc = "cool"
       /\ cool' = IF Remaining(p) THEN cool ELSE [cool EXCEPT ![p] = 0]
       /\ IF Remaining(p) THEN Answer(c, "retry")
          ELSE Go(c, IF req[c].cfg.cache THEN "fly" ELSE "stream")
       /\ UNCHANGED <<env, arts, neg, calls, shield>>

-----------------------------------------------------------------------------
(* flight.do and fetchAndStore.                                             *)

\* Mutant: the running call is not looked up.
JoinAlone(c) ==
    /\ req[c].pc = "fly"
    /\ calls' = [calls EXCEPT ![req[c].path] = {c}]
    /\ Go(c, "recheck")
    /\ UNCHANGED <<env, arts, neg, cool, shield>>

\* flight.do: wait for the running call of this key or run it.
Join(c) ==
    LET p == req[c].path
    IN /\ req[c].pc = "fly"
       /\ IF calls[p] # {}
          THEN /\ \E d \in calls[p] :
                     req' = [req EXCEPT ![c] =
                                 [@ EXCEPT !.pc = "wait",
                                           !.since = Min({req[c].since, req[d].since})]]
               /\ UNCHANGED calls
          ELSE calls' = [calls EXCEPT ![p] = {c}] /\ Go(c, "recheck")
       /\ UNCHANGED <<env, arts, neg, cool, shield>>

\* The row may have been stored between serve's lookup and this call.
Recheck(c) ==
    LET p == req[c].path
    IN /\ req[c].pc = "recheck"
       /\ IF \E row \in arts[p] : Fresh(row, req[c].cfg, p)
          THEN Yield(c, "stored") ELSE Go(c, "get")
       /\ UNCHANGED <<env, arts, neg, cool, calls, shield>>

\* upstreamGet answers 404: a negative entry.
GetNotFound(c) ==
    /\ req[c].pc = "get" /\ upstream[req[c].path] = {}
    /\ neg' = Set(neg, req[c].path, NegativeTTL)
    /\ Yield(c, "notFound")
    /\ UNCHANGED <<env, arts, cool, calls, shield>>

\* upstreamGet answers 429 or 503: a cooldown.
GetThrottled(c, h) ==
    /\ req[c].pc = "get"
    /\ Throttle(req[c].path, h)
    /\ Yield(c, "retry")
    /\ UNCHANGED <<env, arts, neg, calls>>

\* No answer within the client's timeout, or another status.
GetFails(c) ==
    /\ req[c].pc = "get"
    /\ Yield(c, "error")
    /\ UNCHANGED <<env, arts, neg, cool, calls, shield>>

\* Mutant: the age policy is left to the cache-hit path.
GetBodyUngated(c) ==
    /\ req[c].pc = "get"
    /\ \E t \in Body(req[c].path) :
          req' = [req EXCEPT ![c] =
                     [@ EXCEPT !.pc = "store",
                               !.row = {[body |-> t, cachedAt |-> now, accessed |-> now,
                                         under |-> req[c].cfg]}]]
    /\ UNCHANGED <<env, arts, neg, cool, calls, shield>>

\* A 2xx answer: the age policy, then the body in hand.
GetBody(c) ==
    /\ req[c].pc = "get"
    /\ \E t \in Body(req[c].path) :
          IF EvalAge(c, t)
          THEN Yield(c, "ageBlocked")
          ELSE req' = [req EXCEPT ![c] =
                  [@ EXCEPT !.pc = "store",
                            !.row = {[body |-> t, cachedAt |-> now, accessed |-> now,
                                      under |-> req[c].cfg]}]]
    /\ UNCHANGED <<env, arts, neg, cool, calls, shield>>

\* storeArtifact: the row carries the time of the store, not of the answer.
StoreArtifact(c) ==
    /\ req[c].pc = "store"
    /\ \E row \in req[c].row :
          arts' = [arts EXCEPT ![req[c].path] =
                      {[row EXCEPT !.cachedAt = now, !.accessed = now]}]
    /\ req' = [req EXCEPT ![c] = [@ EXCEPT !.pc = "evict", !.row = {}]]
    /\ UNCHANGED <<env, neg, cool, calls, shield>>

StoreFails(c) ==
    /\ req[c].pc = "store"
    /\ req' = [req EXCEPT ![c] =
                 [@ EXCEPT !.pc = "finish", !.out = "error", !.row = {}]]
    /\ UNCHANGED <<env, arts, neg, cool, calls, shield>>

Stored == {p \in Proxied : arts[p] # {}}
RepoSize == BodySize * Cardinality(Stored)

Accessed(p) == (CHOOSE row \in arts[p] : TRUE).accessed

\* A set EvictLRU may select: the least recently accessed rows, up to the limit.
LRU(S) ==
    /\ Cardinality(S) = Min({Cardinality(Stored), EvictBatch})
    /\ \A p \in S, q \in Stored \ S : Accessed(p) <= Accessed(q)

\* maybeEvict: while over the cap, and for EvictRounds at most, list a batch ...
EvictList(c) ==
    /\ req[c].pc = "evict" /\ req[c].victims = {}
    /\ IF /\ 0 < req[c].cfg.maxSize /\ req[c].cfg.maxSize < RepoSize
          /\ req[c].round < EvictRounds
       THEN \E S \in SUBSET Stored :
              /\ LRU(S)
              /\ req' = [req EXCEPT ![c] = [@ EXCEPT !.victims = S,
                                               !.round = req[c].round + 1]]
       ELSE Yield(c, "stored")
    /\ UNCHANGED <<env, arts, neg, cool, calls, shield>>

\* ... and delete it by path, one transaction each.
EvictDelete(c, p) ==
    /\ req[c].pc = "evict" /\ p \in req[c].victims
    /\ arts' = [arts EXCEPT ![p] = {}]
    /\ req' = [req EXCEPT ![c].victims = @ \ {p}]
    /\ UNCHANGED <<env, neg, cool, calls, shield>>

\* Mutant: the call leaves the table before its waiters are released, and they
\* are forgotten.
FinishAlone(c) ==
    /\ req[c].pc = "finish"
    /\ calls' = [calls EXCEPT ![req[c].path] = {}]
    /\ Go(c, "respond")
    /\ UNCHANGED <<env, arts, neg, cool, shield>>

\* The call ends: its key is free and every waiter has the shared outcome.
Finish(c) ==
    LET p == req[c].path
        waiting == {d \in Clients : req[d].pc = "wait" /\ req[d].path = p}
    IN /\ req[c].pc = "finish"
       /\ calls' = [calls EXCEPT ![p] = {}]
       /\ req' = [d \in Clients |->
                    IF d \in waiting \cup {c}
                    THEN [req[d] EXCEPT !.pc = "respond", !.out = req[c].out]
                    ELSE req[d]]
       /\ UNCHANGED <<env, arts, neg, cool, shield>>

\* fetchAndServe renders the outcome; a stored body is read back from the store.
Respond(c) ==
    LET p == req[c].path
    IN /\ req[c].pc = "respond"
       /\ IF req[c].out # "stored" THEN Answer(c, req[c].out)
          ELSE IF arts[p] = {} THEN Answer(c, "cacheReadFailed")
          ELSE \E row \in arts[p] : Serve(c, row)
       /\ UNCHANGED <<env, arts, neg, cool, calls, shield>>

\* fetchPassthrough: every request has an exchange of its own, nothing is stored
\* and a 404 leaves no negative entry.
Passthrough(c) ==
    LET p == req[c].path
    IN /\ req[c].pc = "stream"
       /\ \/ upstream[p] = {} /\ Answer(c, "notFound") /\ UNCHANGED <<cool, shield>>
          \/ /\ \E h \in RetryAfters : Throttle(p, h)
             /\ Answer(c, "retry")
          \/ Answer(c, "error") /\ UNCHANGED <<cool, shield>>
          \/ /\ \E t \in Body(p) :
                   \/ AgeGate(c, t)
                   \/ /\ ~EvalAge(c, t)
                      /\ Serve(c, [body |-> t, cachedAt |-> now, accessed |-> now,
                                   under |-> req[c].cfg])
             /\ UNCHANGED <<cool, shield>>
       /\ UNCHANGED <<env, arts, neg, calls>>

-----------------------------------------------------------------------------
(* The rest of the process and its surroundings.                            *)

\* Engine.put on a hosted repository.
Upload(p) ==
    /\ p \in hosted
    /\ arts' = [arts EXCEPT ![p] = {[body |-> now, cachedAt |-> now,
                                     accessed |-> now, under |-> cfg]}]
    /\ neg' = [neg EXCEPT ![p] = 0]
    /\ UNCHANGED <<env, cool, calls, req, shield>>

\* reapOnce lists what was last served before the cutoff ...
ReapList ==
    /\ reap = {} /\ IdleTTL > 0
    /\ reap' = {p \in Paths : \E row \in arts[p] : row.accessed < now - IdleTTL}
    /\ UNCHANGED <<now, hosted, cfg, updates, requests, upstream, arts, neg, cool,
                   calls, req, shield>>

\* ... and deletes it by path, without looking at the row again.
ReapDelete(p) ==
    /\ p \in reap
    /\ arts' = [arts EXCEPT ![p] = {}]
    /\ reap' = reap \ {p}
    /\ UNCHANGED <<now, hosted, cfg, updates, requests, upstream, neg, cool, calls,
                   req, shield>>

\* UpdateRepositoryConfig.
UpdateConfig(c) ==
    /\ updates < MaxUpdates /\ c # cfg
    /\ cfg' = c /\ updates' = updates + 1
    /\ UNCHANGED <<now, hosted, requests, upstream, arts, neg, cool, calls, req, reap,
                   shield>>

\* The upstream publishes a new body.
Publish(p) ==
    /\ p \in Proxied /\ Cardinality(upstream[p]) < MaxReleases
    /\ upstream' = [upstream EXCEPT ![p] = @ \cup {now}]
    /\ UNCHANGED <<now, hosted, cfg, updates, requests, arts, neg, cool, calls, req,
                   reap, shield>>

Tick ==
    /\ now < MaxClock
    /\ now' = now + 1
    /\ UNCHANGED <<hosted, cfg, updates, requests, upstream, arts, neg, cool, calls,
                   req, reap, shield>>

Step(c) ==
    \/ Hit(c) \/ Touch(c) \/ Miss(c) \/ MetadataError(c) \/ NegCheck(c) \/ CoolCheck(c)
    \/ Join(c) \/ Recheck(c) \/ GetNotFound(c) \/ GetFails(c) \/ GetBody(c)
    \/ \E h \in RetryAfters : GetThrottled(c, h)
    \/ StoreArtifact(c) \/ StoreFails(c) \/ EvictList(c)
    \/ \E p \in Paths : EvictDelete(c, p)
    \/ Finish(c) \/ Respond(c) \/ Passthrough(c)

Next ==
    \/ \E c \in Clients : Step(c) \/ \E p \in Paths : Begin(c, p)
    \/ \E p \in Paths : Upload(p) \/ ReapDelete(p) \/ Publish(p)
    \/ ReapList \/ Tick
    \/ \E c \in Configs : UpdateConfig(c)

Spec == Init /\ [][Next]_vars

-----------------------------------------------------------------------------
(* Properties.                                                              *)

\* flight: concurrent requests for one path have at most one upstream exchange
\* between them, from the moment one of them may send it until its body is
\* stored and the cache trimmed (pass-through requests are not coalesced).
OneFetchPerPath ==
    \A c, d \in Clients :
        /\ req[c].pc \in {"recheck", "get", "store", "evict", "finish"}
        /\ req[d].pc \in {"recheck", "get", "store", "evict", "finish"}
        /\ req[c].path = req[d].path
        => c = d

Served(c) == req[c].pc = "done" /\ req[c].out = "ok" /\ req[c].path \in Proxied

\* Age policy: a release still in its min_age cooldown is served only to a
\* request that shared a body stored under another configuration (fetchStored
\* is rendered without ageGate).
CooldownReleaseServedOnlyIfShared ==
    \A c \in Clients :
        Served(c) /\ req[c].path \in Dated /\ req[c].cfg.ageEnabled /\ ~req[c].cfg.warn
        => \A row \in req[c].row : \/ now - row.body >= req[c].cfg.minAge
                                   \/ row.under # req[c].cfg

\* Freshness: what is served was cached less than its TTL before the request, or
\* the call it was coalesced behind, began.
ServedIsFresh ==
    \A c \in Clients :
        Served(c) /\ req[c].path \in Metadata /\ MetadataTTL > 0
        => \A row \in req[c].row : row.cachedAt > req[c].since - MetadataTTL

\* Negative cache: a 404 is answered for a published path only within
\* negative_ttl of its first publication.
NotFoundIsRecent ==
    \A c \in Clients :
        req[c].pc = "done" /\ req[c].out = "notFound" /\ req[c].path \in Proxied
        => \A t \in upstream[req[c].path] : req[c].since <= t + NegativeTTL

\* Cooldown: a request that began while its path cooled down asks the upstream
\* nothing before that cooldown, as later answers may have shortened it, ends.
CooldownShields ==
    [][\A c \in Clients :
          /\ req[c].pc \notin {"get", "stream"}
          /\ req'[c].pc \in {"get", "stream"}
          => shield[c] <= now]_vars

\* flight: no waiter is left behind; while one waits, the call it waits for runs
\* and will hand it an outcome, and no other call holds the key.
WaiterHasACall ==
    \A c \in Clients :
        req[c].pc = "wait"
        => \E d \in calls[req[c].path] :
              /\ req[d].path = req[c].path
              /\ req[d].pc \in {"recheck", "get", "store", "evict", "finish"}

\* Coalescing: one exchange per path, and nobody waits for a call that is over (flight).
FlightSound == TypeOK /\ OneFetchPerPath /\ WaiterHasACall

\* What is answered was right within the time the configuration allows: fresh, past its
\* cooldown, or not found (Engine.serve).
AnswersAreCurrent == ServedIsFresh /\ CooldownReleaseServedOnlyIfShared /\ NotFoundIsRecent

\* engine.go:177 says of fetchStored "artifact is now cached; serve it from the
\* store": a request whose fetch was stored is not answered "cache read failed".
StoredIsReadable == \A c \in Clients : req[c].out # "cacheReadFailed"

\* reaper.go:18 says the reaper "deletes artifacts that have gone unserved past
\* their repository's retention idle_ttl": what it deletes is past it.
ReapedWereIdle ==
    [][\A p \in reap \ reap' : \A row \in arts[p] : row.accessed < now - IdleTTL]_vars
=============================================================================
