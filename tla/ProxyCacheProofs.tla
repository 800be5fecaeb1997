-------------------------- MODULE ProxyCacheProofs --------------------------
(***************************************************************************)
(* Proofs about the pull-through cache, for any clients, paths,             *)
(* configurations, TTLs and bounds.                                         *)
(***************************************************************************)
EXTENDS ProxyCache, TLAPS

-----------------------------------------------------------------------------
(* What a step makes of one request.                                        *)

\* Request q is r moved on: same path and configuration.
Becomes(q, r, pc, since, out, row) ==
    /\ q \in Request /\ q.path = r.path /\ q.cfg = r.cfg
    /\ q.pc = pc /\ q.since = since /\ q.out = out /\ q.row = row

\* Client c's request moves on and nobody else's does.
Moved(c, pc, since, out, row) ==
    /\ req' \in [Clients -> Request]
    /\ \A d \in Clients : d # c => req'[d] = req[d]
    /\ Becomes(req'[c], req[c], pc, since, out, row)

\* The ways the steps write a request.
At(r, pc) == [r EXCEPT !.pc = pc]
Replied(r, out, row) == [r EXCEPT !.pc = "done", !.out = out, !.row = row, !.round = 0]
Yielded(r, out) == [r EXCEPT !.pc = "finish", !.out = out]
Holding(r, pc, row) == [r EXCEPT !.pc = pc, !.row = row]
Waiting(r, t) == [r EXCEPT !.pc = "wait", !.since = t]
Failed(r) == [r EXCEPT !.pc = "finish", !.out = "error", !.row = {}]
Listed(r, S, n) == [r EXCEPT !.victims = S, !.round = n]
Spared(r, S) == [r EXCEPT !.victims = S]
Told(r, out) == [r EXCEPT !.pc = "respond", !.out = out]

\* A request written so is the same request moved on.
LEMMA RequestWrites ==
    ASSUME NEW r \in Request
    PROVE  /\ \A pc \in Pcs : Becomes(At(r, pc), r, pc, r.since, r.out, r.row)
           /\ \A out \in Outcomes, row \in SUBSET Row :
                 Becomes(Replied(r, out, row), r, "done", r.since, out, row)
           /\ \A out \in Outcomes :
                 /\ Becomes(Yielded(r, out), r, "finish", r.since, out, r.row)
                 /\ Becomes(Told(r, out), r, "respond", r.since, out, r.row)
           /\ \A pc \in Pcs, row \in SUBSET Row :
                 Becomes(Holding(r, pc, row), r, pc, r.since, r.out, row)
           /\ \A t \in 0..MaxClock : Becomes(Waiting(r, t), r, "wait", t, r.out, r.row)
           /\ Becomes(Failed(r), r, "finish", r.since, "error", {})
           /\ \A S \in SUBSET Paths, n \in 0..EvictRounds :
                 Becomes(Listed(r, S, n), r, r.pc, r.since, r.out, r.row)
           /\ \A S \in SUBSET Paths :
                 Becomes(Spared(r, S), r, r.pc, r.since, r.out, r.row)
<1>1. "done" \in Pcs /\ "finish" \in Pcs /\ "wait" \in Pcs /\ "respond" \in Pcs
  BY DEF Pcs
<1>2. "error" \in Outcomes /\ {} \in SUBSET Row /\ 0 \in 0..EvictRounds
  BY ConstantsAssumption DEF Outcomes
<1> QED
  BY <1>1, <1>2, ZenonT(60) DEF Request, Becomes, At, Replied, Yielded, Holding, Waiting, Failed,
     Listed, Spared, Told

\* The least of two integers.
LEMMA MinOfTwo ==
    ASSUME NEW a \in Int, NEW b \in Int
    PROVE  Min({a, b}) \in {a, b} /\ Min({a, b}) <= a /\ Min({a, b}) <= b
<1>1. PICK x \in {a, b} : \A y \in {a, b} : x <= y
  OBVIOUS
<1>2. Min({a, b}) \in {a, b} /\ \A y \in {a, b} : Min({a, b}) <= y
  BY <1>1, Zenon DEF Min
<1> QED
  BY <1>2, Zenon

\* Go, Reply and Yield move the request of their client.
LEMMA Moves ==
    ASSUME req \in [Clients -> Request], NEW c \in Clients
    PROVE  /\ \A pc \in Pcs :
                 Go(c, pc) => Moved(c, pc, req[c].since, req[c].out, req[c].row)
           /\ \A out \in Outcomes, row \in SUBSET Row :
                 Reply(c, out, row) => Moved(c, "done", req[c].since, out, row)
           /\ \A out \in Outcomes :
                 Answer(c, out) => Moved(c, "done", req[c].since, out, {})
           /\ \A row \in Row :
                 Serve(c, row) => Moved(c, "done", req[c].since, "ok", {row})
           /\ \A out \in Outcomes :
                 Yield(c, out) => Moved(c, "finish", req[c].since, out, req[c].row)
<1> DEFINE r == req[c]
<1>1. r \in Request
  OBVIOUS
<1>2. \A pc \in Pcs : Go(c, pc) => req' = [req EXCEPT ![c] = At(r, pc)]
  BY Zenon DEF Go, At
<1>3. \A out, row : Reply(c, out, row) => req' = [req EXCEPT ![c] = Replied(r, out, row)]
  BY Zenon DEF Reply, Replied
<1>4. \A out : Yield(c, out) => req' = [req EXCEPT ![c] = Yielded(r, out)]
  BY Zenon DEF Yield, Yielded
<1>5. ASSUME NEW q \in Request, NEW pc, NEW since, NEW out, NEW row,
             Becomes(q, r, pc, since, out, row), req' = [req EXCEPT ![c] = q]
      PROVE  Moved(c, pc, since, out, row)
  BY <1>5, Zenon DEF Moved
<1>6. \A pc \in Pcs : Becomes(At(r, pc), r, pc, r.since, r.out, r.row)
  BY <1>1, RequestWrites, Zenon
<1>7. /\ \A q, pc, since, out, row : Becomes(q, r, pc, since, out, row) => q \in Request
      /\ "ok" \in Outcomes /\ {} \in SUBSET Row /\ \A row \in Row : {row} \in SUBSET Row
  BY DEF Becomes, Outcomes
<1>8. \A pc \in Pcs : Go(c, pc) => Moved(c, pc, r.since, r.out, r.row)
  BY <1>2, <1>5, <1>6, <1>7, Zenon
<1>9. ASSUME NEW out \in Outcomes, NEW row \in SUBSET Row, Reply(c, out, row)
      PROVE  Moved(c, "done", r.since, out, row)
  <2>1. req' = [req EXCEPT ![c] = Replied(r, out, row)]
    BY <1>3, <1>9, Zenon
  <2>2. Becomes(Replied(r, out, row), r, "done", r.since, out, row)
    BY <1>1, RequestWrites, Zenon
  <2> QED
    BY <1>5, <1>7, <2>1, <2>2, Zenon
<1>10. ASSUME NEW out \in Outcomes, Yield(c, out)
       PROVE  Moved(c, "finish", r.since, out, r.row)
  <2>1. req' = [req EXCEPT ![c] = Yielded(r, out)]
    BY <1>4, <1>10, Zenon
  <2>2. Becomes(Yielded(r, out), r, "finish", r.since, out, r.row)
    BY <1>1, RequestWrites, Zenon
  <2> QED
    BY <1>5, <1>7, <2>1, <2>2, Zenon
<1> QED
  BY <1>7, <1>8, <1>9, <1>10, Zenon DEF Answer, Serve

-----------------------------------------------------------------------------
(* Every step in terms of Moved.                                            *)

\* A fetched body's row.
Fetched(c, t) == [body |-> t, cachedAt |-> now, accessed |-> now, under |-> req[c].cfg]

\* What each step makes of the request of its client.
HitMoves(c) ==
    Hit(c) => \E row \in arts[req[c].path] :
                 /\ req[c].path \in hosted \/ Fresh(row, req[c].cfg, req[c].path)
                 /\ \/ Moved(c, "done", req[c].since, "ageBlocked", {})
                    \/ /\ req[c].path \in hosted \/ ~EvalAge(c, row.body)
                       /\ Moved(c, "touch", req[c].since, req[c].out, {row})
TouchMoves(c) == Touch(c) => Moved(c, "done", req[c].since, "ok", req[c].row)
MissMoves(c) ==
    Miss(c) => \/ /\ req[c].path \in hosted
                  /\ Moved(c, "done", req[c].since, "notFound", {})
               \/ Moved(c, "neg", req[c].since, req[c].out, req[c].row)
ErrorMoves(c) == MetadataError(c) => Moved(c, "done", req[c].since, "error", {})
NegMoves(c) ==
    NegCheck(c) => IF Has(req[c].path) THEN Moved(c, "done", req[c].since, "notFound", {})
                   ELSE Moved(c, "cool", req[c].since, req[c].out, req[c].row)
CoolMoves(c) ==
    CoolCheck(c) => IF Remaining(req[c].path) THEN Moved(c, "done", req[c].since, "retry", {})
                    ELSE \E pc \in {"fly", "stream"} :
                            Moved(c, pc, req[c].since, req[c].out, req[c].row)
JoinMoves(c) ==
    Join(c) => IF calls[req[c].path] # {}
               THEN \E d \in calls[req[c].path] :
                       Moved(c, "wait", Min({req[c].since, req[d].since}), req[c].out,
                             req[c].row)
               ELSE Moved(c, "recheck", req[c].since, req[c].out, req[c].row)
RecheckMoves(c) ==
    Recheck(c) => IF \E row \in arts[req[c].path] : Fresh(row, req[c].cfg, req[c].path)
                  THEN Moved(c, "finish", req[c].since, "stored", req[c].row)
                  ELSE Moved(c, "get", req[c].since, req[c].out, req[c].row)
GetMoves(c) ==
    /\ GetNotFound(c) => Moved(c, "finish", req[c].since, "notFound", req[c].row)
    /\ \A h \in RetryAfters :
          GetThrottled(c, h) => Moved(c, "finish", req[c].since, "retry", req[c].row)
    /\ GetFails(c) => Moved(c, "finish", req[c].since, "error", req[c].row)
BodyMoves(c) ==
    GetBody(c) => \E t \in Body(req[c].path) :
                     \/ Moved(c, "finish", req[c].since, "ageBlocked", req[c].row)
                     \/ /\ ~EvalAge(c, t)
                        /\ Moved(c, "store", req[c].since, req[c].out, {Fetched(c, t)})
StoreMoves(c) ==
    /\ StoreArtifact(c) => Moved(c, "evict", req[c].since, req[c].out, {})
    /\ StoreFails(c) => Moved(c, "finish", req[c].since, "error", {})
EvictMoves(c) ==
    /\ EvictList(c) => \/ Moved(c, "evict", req[c].since, req[c].out, req[c].row)
                       \/ Moved(c, "finish", req[c].since, "stored", req[c].row)
    /\ \A q \in Paths :
          EvictDelete(c, q) => Moved(c, "evict", req[c].since, req[c].out, req[c].row)
RespondMoves(c) ==
    Respond(c) => IF req[c].out # "stored" THEN Moved(c, "done", req[c].since, req[c].out, {})
                  ELSE \/ Moved(c, "done", req[c].since, "cacheReadFailed", {})
                       \/ \E row \in arts[req[c].path] :
                             Moved(c, "done", req[c].since, "ok", {row})
StreamMoves(c) ==
    Passthrough(c) =>
        \/ upstream[req[c].path] = {} /\ Moved(c, "done", req[c].since, "notFound", {})
        \/ \E out \in {"retry", "error", "ageBlocked"} :
              Moved(c, "done", req[c].since, out, {})
        \/ \E t \in Body(req[c].path) :
              ~EvalAge(c, t) /\ Moved(c, "done", req[c].since, "ok", {Fetched(c, t)})

\* Each step of a request moves it so.
LEMMA RequestSteps ==
    ASSUME TypeOK, NEW c \in Clients
    PROVE  /\ HitMoves(c) /\ TouchMoves(c) /\ MissMoves(c) /\ ErrorMoves(c) /\ NegMoves(c)
           /\ CoolMoves(c) /\ JoinMoves(c) /\ RecheckMoves(c) /\ GetMoves(c) /\ BodyMoves(c)
           /\ StoreMoves(c) /\ EvictMoves(c) /\ RespondMoves(c) /\ StreamMoves(c)
<1> DEFINE r == req[c]
           p == req[c].path
<1>a. /\ req \in [Clients -> Request] /\ arts \in [Paths -> SUBSET Row]
      /\ calls \in [Paths -> SUBSET Clients] /\ now \in 1..MaxClock
      /\ upstream \in [Paths -> SUBSET (0..MaxClock)]
  BY Zenon DEF TypeOK
<1>b. \A d \in Clients : /\ req[d] \in Request /\ req[d].path \in Paths
                         /\ req[d].cfg \in Configs /\ req[d].since \in 0..MaxClock
                         /\ req[d].out \in Outcomes /\ req[d].row \in SUBSET Row
                         /\ req[d].victims \in SUBSET Paths /\ req[d].round \in 0..EvictRounds
  BY <1>a, Zenon DEF Request
<1>c. /\ \A x \in {"touch", "neg", "cool", "fly", "stream", "wait", "recheck", "get", "store",
                  "evict"} : x \in Pcs
      /\ \A x \in {"stored", "notFound", "ageBlocked", "retry", "error", "ok",
                  "cacheReadFailed"} : x \in Outcomes
  BY DEF Pcs, Outcomes
<1>d. ASSUME NEW q, NEW pc, NEW since, NEW out, NEW row,
             Becomes(q, r, pc, since, out, row), req' = [req EXCEPT ![c] = q]
      PROVE  Moved(c, pc, since, out, row)
  BY <1>a, <1>d, Zenon DEF Moved, Becomes
<1>e. /\ \A x \in {"touch", "neg", "cool", "fly", "stream", "recheck", "get"} :
            Go(c, x) => Moved(c, x, r.since, r.out, r.row)
      /\ \A out \in Outcomes : /\ Answer(c, out) => Moved(c, "done", r.since, out, {})
                               /\ Yield(c, out) => Moved(c, "finish", r.since, out, r.row)
      /\ \A row \in Row : Serve(c, row) => Moved(c, "done", r.since, "ok", {row})
  BY <1>a, <1>c, Moves, Zenon
<1>1. HitMoves(c)
  <2> SUFFICES ASSUME Hit(c) PROVE \E row \in arts[p] :
        /\ p \in hosted \/ Fresh(row, r.cfg, p)
        /\ \/ Moved(c, "done", r.since, "ageBlocked", {})
           \/ /\ p \in hosted \/ ~EvalAge(c, row.body)
              /\ Moved(c, "touch", r.since, r.out, {row})
    BY Zenon DEF HitMoves
  <2>1. PICK row \in arts[p] :
          /\ p \in hosted \/ Fresh(row, r.cfg, p)
          /\ \/ Answer(c, "ageBlocked")
             \/ /\ p \in hosted \/ ~EvalAge(c, row.body)
                /\ req' = [req EXCEPT ![c] = Holding(r, "touch", {row})]
    BY Zenon DEF Hit, AgeGate, Holding
  <2>2. {row} \in SUBSET Row /\ "touch" \in Pcs /\ "ageBlocked" \in Outcomes
    BY <1>a, <1>b, <1>c, Zenon
  <2>3. Becomes(Holding(r, "touch", {row}), r, "touch", r.since, r.out, {row})
    BY <1>b, <2>2, RequestWrites, Zenon
  <2> QED
    BY <1>d, <1>e, <2>1, <2>2, <2>3, Zenon
<1>2. TouchMoves(c)
  BY <1>a, <1>b, <1>c, Moves, Zenon DEF Touch, TouchMoves
<1>3. MissMoves(c) /\ ErrorMoves(c)
  BY <1>c, <1>e, Zenon DEF Miss, MissMoves, MetadataError, ErrorMoves
<1>4. NegMoves(c)
  BY <1>c, <1>e, Zenon DEF NegCheck, NegMoves
<1>5. CoolMoves(c)
  BY <1>c, <1>e, Zenon DEF CoolCheck, CoolMoves
<1>6. JoinMoves(c)
  <2>1. CASE calls[p] = {}
    BY <1>c, <1>e, <2>1, Zenon DEF Join, JoinMoves
  <2>2. CASE calls[p] # {}
    <3> SUFFICES ASSUME Join(c)
                 PROVE  \E d \in calls[p] :
                           Moved(c, "wait", Min({r.since, req[d].since}), r.out, r.row)
      BY <2>2, Zenon DEF JoinMoves
    <3>1. PICK d \in calls[p] :
            req' = [req EXCEPT ![c] = Waiting(r, Min({r.since, req[d].since}))]
      BY <2>2, Zenon DEF Join, Waiting
    <3>2. d \in Clients
      BY <1>a, <1>b, Zenon
    <3>3. Min({r.since, req[d].since}) \in {r.since, req[d].since}
      <4>1. r.since \in Int /\ req[d].since \in Int
        BY <1>b, <3>2, ConstantsAssumption
      <4> QED
        BY <4>1, MinOfTwo, Zenon
    <3>4. Min({r.since, req[d].since}) \in 0..MaxClock
      BY <1>b, <3>2, <3>3, Zenon
    <3>5. Becomes(Waiting(r, Min({r.since, req[d].since})), r, "wait",
                  Min({r.since, req[d].since}), r.out, r.row)
      BY <1>b, <3>4, RequestWrites, Zenon
    <3> QED
      BY <1>d, <3>1, <3>5, Zenon
  <2> QED
    BY <2>1, <2>2, Zenon
<1>7. RecheckMoves(c)
  BY <1>c, <1>e, Zenon DEF Recheck, RecheckMoves
<1>8. GetMoves(c)
  BY <1>c, <1>e, Zenon DEF GetNotFound, GetThrottled, GetFails, GetMoves
<1>9. \A t \in Body(p) : t \in 0..MaxClock /\ Fetched(c, t) \in Row
  <2>1. \A t \in Body(p) : t \in 0..MaxClock
    BY <1>a, <1>b, Zenon DEF Body
  <2>2. now \in 0..MaxClock
    BY <1>a, ConstantsAssumption
  <2> QED
    BY <1>b, <2>1, <2>2, Zenon DEF Fetched, Row
<1>10. BodyMoves(c)
  <2> SUFFICES ASSUME GetBody(c)
               PROVE  \E t \in Body(p) :
                        \/ Moved(c, "finish", r.since, "ageBlocked", r.row)
                        \/ /\ ~EvalAge(c, t)
                           /\ Moved(c, "store", r.since, r.out, {Fetched(c, t)})
    BY Zenon DEF BodyMoves
  <2>1. PICK t \in Body(p) :
          IF EvalAge(c, t) THEN Yield(c, "ageBlocked")
          ELSE req' = [req EXCEPT ![c] = Holding(r, "store", {Fetched(c, t)})]
    BY Zenon DEF GetBody, Holding, Fetched
  <2>2. {Fetched(c, t)} \in SUBSET Row /\ "store" \in Pcs /\ "ageBlocked" \in Outcomes
    BY <1>c, <1>9, Zenon
  <2>3. Becomes(Holding(r, "store", {Fetched(c, t)}), r, "store", r.since, r.out,
                {Fetched(c, t)})
    BY <1>b, <2>2, RequestWrites, Zenon
  <2> QED
    BY <1>d, <1>e, <2>1, <2>2, <2>3, Zenon
<1>11. StoreMoves(c)
  <2>1. /\ StoreArtifact(c) => req' = [req EXCEPT ![c] = Holding(r, "evict", {})]
        /\ StoreFails(c) => req' = [req EXCEPT ![c] = Failed(r)]
    BY Zenon DEF StoreArtifact, Holding, StoreFails, Failed
  <2>2. "evict" \in Pcs /\ {} \in SUBSET Row
    BY <1>c, Zenon
  <2>3. /\ Becomes(Holding(r, "evict", {}), r, "evict", r.since, r.out, {})
        /\ Becomes(Failed(r), r, "finish", r.since, "error", {})
    BY <1>b, <2>2, RequestWrites, Zenon
  <2> QED
    BY <1>d, <2>1, <2>3, Zenon DEF StoreMoves
<1>12. EvictMoves(c)
  <2>1. ASSUME EvictList(c), ~Yield(c, "stored")
        PROVE  Moved(c, "evict", r.since, r.out, r.row)
    <3>1. /\ r.pc = "evict" /\ r.round < EvictRounds
          /\ \E S \in SUBSET Stored : req' = [req EXCEPT ![c] = Listed(r, S, r.round + 1)]
      BY <2>1, Zenon DEF EvictList, Listed
    <3>2. PICK S \in SUBSET Stored : req' = [req EXCEPT ![c] = Listed(r, S, r.round + 1)]
      BY <3>1, Zenon
    <3>3. S \in SUBSET Paths
      BY Zenon DEF Stored, Proxied
    <3>4. r.round + 1 \in 0..EvictRounds
      BY <1>b, <3>1, ConstantsAssumption
    <3>5. Becomes(Listed(r, S, r.round + 1), r, r.pc, r.since, r.out, r.row)
      BY <1>b, <3>3, <3>4, RequestWrites, Zenon
    <3> QED
      BY <1>d, <3>1, <3>2, <3>5, Zenon
  <2>2. ASSUME NEW q \in Paths, EvictDelete(c, q)
        PROVE  Moved(c, "evict", r.since, r.out, r.row)
    <3>1. r.pc = "evict" /\ req' = [req EXCEPT ![c] = Spared(r, r.victims \ {q})]
      BY <2>2, Zenon DEF EvictDelete, Spared
    <3>2. r.victims \ {q} \in SUBSET Paths
      BY <1>b, Zenon
    <3>3. Becomes(Spared(r, r.victims \ {q}), r, r.pc, r.since, r.out, r.row)
      BY <1>b, <3>2, RequestWrites, Zenon
    <3> QED
      BY <1>d, <3>1, <3>3, Zenon
  <2> QED
    BY <1>c, <1>e, <2>1, <2>2, Zenon DEF EvictMoves
<1>13. RespondMoves(c)
  <2>1. \A row \in arts[p] : row \in Row
    BY <1>a, <1>b, Zenon
  <2> QED
    BY <1>b, <1>c, <1>e, <2>1, Zenon DEF Respond, RespondMoves
<1>14. StreamMoves(c)
  <2>1. Passthrough(c) =>
          \/ upstream[p] = {} /\ Answer(c, "notFound")
          \/ Answer(c, "retry") \/ Answer(c, "error") \/ Answer(c, "ageBlocked")
          \/ \E t \in Body(p) : ~EvalAge(c, t) /\ Serve(c, Fetched(c, t))
    BY Zenon DEF Passthrough, AgeGate, Fetched
  <2> QED
    BY <1>c, <1>e, <1>9, <2>1, Zenon DEF StreamMoves
<1> QED
  BY <1>1, <1>2, <1>3, <1>4, <1>5, <1>6, <1>7, <1>8, <1>10, <1>11, <1>12, <1>13, <1>14, Zenon

-----------------------------------------------------------------------------
(* What a step makes of each table.                                         *)

\* Which steps write which table.
LEMMA Frames ==
    ASSUME [Next]_vars
    PROVE  /\ \/ neg' = neg
              \/ \E c \in Clients : NegCheck(c) \/ GetNotFound(c)
              \/ \E p \in Paths : Upload(p)
           /\ \/ arts' = arts
              \/ \E c \in Clients : \/ Touch(c) \/ StoreArtifact(c)
                                    \/ \E p \in Paths : EvictDelete(c, p)
              \/ \E p \in Paths : Upload(p) \/ ReapDelete(p)
           /\ \/ UNCHANGED <<cool, shield>>
              \/ \E c \in Clients : \/ CoolCheck(c) \/ Passthrough(c)
                                    \/ \E h \in RetryAfters : GetThrottled(c, h)
                                    \/ \E p \in Paths : Begin(c, p)
           /\ UNCHANGED calls \/ \E c \in Clients : Join(c) \/ Finish(c)
           /\ hosted' = hosted /\ (now' = now \/ Tick)
           /\ upstream' = upstream \/ \E p \in Paths : Publish(p)
           /\ reap' = reap \/ ReapList \/ \E p \in Paths : ReapDelete(p)
           /\ UNCHANGED <<cfg, updates>> \/ \E c \in Configs : UpdateConfig(c)
           /\ requests' = requests \/ \E c \in Clients, p \in Paths : Begin(c, p)
<1>1. \A c \in Clients : Step(c) => UNCHANGED env
  BY ZenonT(60) DEF env, Step, Hit, Touch, Miss, MetadataError, NegCheck, CoolCheck, Join,
     Recheck, GetNotFound, GetFails, GetBody, GetThrottled, StoreArtifact, StoreFails,
     EvictList, EvictDelete, Finish, Respond, Passthrough
<1>2. \A c \in Clients : Step(c) => neg' = neg \/ NegCheck(c) \/ GetNotFound(c)
  BY ZenonT(60) DEF Step, Hit, Touch, Miss, MetadataError, CoolCheck, Join, Recheck, GetFails,
     GetBody, GetThrottled, StoreArtifact, StoreFails, EvictList, EvictDelete, Finish,
     Respond, Passthrough
<1>3. \A c \in Clients : Step(c) => \/ arts' = arts \/ Touch(c) \/ StoreArtifact(c)
                                 \/ \E p \in Paths : EvictDelete(c, p)
  BY ZenonT(60) DEF Step, Hit, Miss, MetadataError, NegCheck, CoolCheck, Join, Recheck,
     GetNotFound, GetFails, GetBody, GetThrottled, StoreFails, EvictList, Finish, Respond,
     Passthrough
<1>4. \A c \in Clients : Step(c) => \/ UNCHANGED <<cool, shield>> \/ CoolCheck(c) \/ Passthrough(c)
                                 \/ \E h \in RetryAfters : GetThrottled(c, h)
  BY ZenonT(60) DEF Step, Hit, Touch, Miss, MetadataError, NegCheck, Join, Recheck,
     GetNotFound, GetFails, GetBody, StoreArtifact, StoreFails, EvictList, EvictDelete,
     Finish, Respond
<1>5. \A c \in Clients : Step(c) => UNCHANGED calls \/ Join(c) \/ Finish(c)
  BY ZenonT(60) DEF Step, Hit, Touch, Miss, MetadataError, NegCheck, CoolCheck, Recheck,
     GetNotFound, GetFails, GetBody, GetThrottled, StoreArtifact, StoreFails, EvictList,
     EvictDelete, Respond, Passthrough
<1>6. \A c \in Clients, p \in Paths : Begin(c, p) =>
        UNCHANGED <<now, hosted, cfg, updates, upstream, arts, neg, calls, reap>>
  BY Zenon DEF Begin
<1>7. \A p \in Paths :
        /\ Upload(p) => UNCHANGED <<env, cool, shield, calls>>
        /\ ReapDelete(p) => UNCHANGED <<now, hosted, cfg, updates, requests, upstream, neg, cool,
                                      shield, calls>>
        /\ Publish(p) => UNCHANGED <<now, hosted, cfg, updates, requests, arts, neg, cool, shield,
                                   calls, reap>>
  BY Zenon DEF Upload, ReapDelete, Publish
<1>8. /\ ReapList => UNCHANGED <<now, hosted, cfg, updates, requests, upstream, arts, neg, cool,
                                shield, calls>>
      /\ Tick => UNCHANGED <<hosted, cfg, updates, requests, upstream, arts, neg, cool, shield,
                            calls, reap>>
      /\ \A c \in Configs : UpdateConfig(c) =>
            UNCHANGED <<now, hosted, requests, upstream, arts, neg, cool, shield, calls, reap>>
      /\ UNCHANGED vars => UNCHANGED <<env, arts, neg, cool, shield, calls>>
  BY Zenon DEF ReapList, Tick, UpdateConfig, vars
<1> QED
  BY <1>1, <1>2, <1>3, <1>4, <1>5, <1>6, <1>7, <1>8, Zenon DEF Next, env

\* The clock, the upstream and what requests do not change.
LEMMA EnvSteps ==
    ASSUME TypeOK, [Next]_vars
    PROVE  /\ now' \in 1..MaxClock /\ (now' = now \/ now' = now + 1) /\ hosted' = hosted
           /\ upstream' \in [Paths -> SUBSET (0..MaxClock)]
           /\ \A p \in Paths : \/ upstream'[p] = upstream[p]
                               \/ upstream'[p] = upstream[p] \cup {now}
           /\ cfg' \in Configs /\ updates' \in 0..MaxUpdates /\ requests' \in 0..MaxRequests
           /\ reap' \in SUBSET Paths
<1>a. /\ now \in 1..MaxClock /\ upstream \in [Paths -> SUBSET (0..MaxClock)]
      /\ cfg \in Configs /\ updates \in 0..MaxUpdates /\ requests \in 0..MaxRequests
      /\ reap \in SUBSET Paths
  BY Zenon DEF TypeOK
<1>1. now' \in 1..MaxClock /\ (now' = now \/ now' = now + 1) /\ hosted' = hosted
  <2>1. Tick => now' = now + 1 /\ now + 1 \in 1..MaxClock
    BY <1>a, ConstantsAssumption DEF Tick
  <2> QED
    BY <1>a, <2>1, Frames, Zenon
<1>2. /\ upstream' \in [Paths -> SUBSET (0..MaxClock)]
      /\ \A p \in Paths : \/ upstream'[p] = upstream[p]
                          \/ upstream'[p] = upstream[p] \cup {now}
  <2>1. now \in 0..MaxClock
    BY <1>a, ConstantsAssumption
  <2>2. ASSUME NEW p \in Paths, Publish(p)
        PROVE  /\ upstream' \in [Paths -> SUBSET (0..MaxClock)]
               /\ \A q \in Paths : \/ upstream'[q] = upstream[q]
                                   \/ upstream'[q] = upstream[q] \cup {now}
    <3>1. upstream' = [upstream EXCEPT ![p] = upstream[p] \cup {now}]
      BY <2>2, Zenon DEF Publish
    <3>2. upstream[p] \cup {now} \in SUBSET (0..MaxClock)
      BY <1>a, <2>1, Zenon
    <3> QED
      BY <1>a, <3>1, <3>2, Zenon
  <2> QED
    BY <1>a, <2>2, Frames, Zenon
<1>3. cfg' \in Configs /\ updates' \in 0..MaxUpdates /\ requests' \in 0..MaxRequests
  <2>1. \A c \in Configs : UpdateConfig(c) => cfg' \in Configs /\ updates' \in 0..MaxUpdates
    BY <1>a, ConstantsAssumption DEF UpdateConfig
  <2>2. \A c \in Clients, p \in Paths : Begin(c, p) => requests' \in 0..MaxRequests
    BY <1>a, ConstantsAssumption DEF Begin
  <2> QED
    BY <1>a, <2>1, <2>2, Frames, Zenon
<1>4. reap' \in SUBSET Paths
  BY <1>a, Frames, Zenon DEF ReapList, ReapDelete
<1> QED
  BY <1>1, <1>2, <1>3, <1>4, Zenon

\* What happens to the row of path p: nothing, it goes, Touch rewrites its access
\* time, a fetch stores the body in its hands, or an upload replaces it.
RowMoves(p) ==
    \/ arts'[p] = arts[p]
    \/ arts'[p] = {}
    \/ \E row \in arts[p], x \in Row :
          /\ arts'[p] = {x}
          /\ x.body = row.body /\ x.cachedAt = row.cachedAt /\ x.under = row.under
    \/ \E c \in Clients, x \in Row :
          /\ arts'[p] = {x} /\ req[c].pc = "store" /\ req[c].path = p
          /\ x.cachedAt = now
          /\ \E row \in req[c].row : x.body = row.body /\ x.under = row.under
    \/ p \in hosted /\ \E x \in Row : arts'[p] = {x}

\* Every step moves rows so.
LEMMA RowSteps ==
    ASSUME TypeOK, [Next]_vars
    PROVE  arts' \in [Paths -> SUBSET Row] /\ \A p \in Paths : RowMoves(p)
<1>a. /\ req \in [Clients -> Request] /\ arts \in [Paths -> SUBSET Row] /\ cfg \in Configs
      /\ \A p \in Paths : arts[p] = {} \/ \E row \in arts[p] : arts[p] = {row}
  BY Zenon DEF TypeOK
<1>b. \A c \in Clients : req[c].path \in Paths /\ req[c].row \in SUBSET Row
  BY <1>a, Zenon DEF Request
<1>c. now \in 0..MaxClock
  <2>1. now \in 1..MaxClock
    BY Zenon DEF TypeOK
  <2> QED
    BY <2>1, ConstantsAssumption
<1>d. ASSUME NEW p \in Paths, NEW S \in SUBSET Row, arts' = [arts EXCEPT ![p] = S],
             arts'[p] = S => RowMoves(p)
      PROVE  arts' \in [Paths -> SUBSET Row] /\ \A q \in Paths : RowMoves(q)
  <2>1. arts' \in [Paths -> SUBSET Row] /\ arts'[p] = S
    BY <1>a, <1>d, Zenon
  <2>2. \A q \in Paths : q # p => arts'[q] = arts[q]
    BY <1>a, <1>d, Zenon
  <2>3. RowMoves(p)
    BY <1>d, <2>1, Zenon
  <2>4. \A q \in Paths : q # p => RowMoves(q)
    BY <2>2, Zenon DEF RowMoves
  <2> QED
    BY <2>1, <2>3, <2>4, Zenon
<1>1. ASSUME NEW c \in Clients, Touch(c)
      PROVE  arts' \in [Paths -> SUBSET Row] /\ \A p \in Paths : RowMoves(p)
  <2> DEFINE p == req[c].path
             T(row) == [row EXCEPT !.accessed = now]
             S == {T(row) : row \in arts[p]}
  <2>1. arts' = [arts EXCEPT ![p] = S]
    BY <1>1, Zenon DEF Touch
  <2>2. \A row \in Row : /\ T(row) \in Row /\ T(row).body = row.body
                         /\ T(row).cachedAt = row.cachedAt /\ T(row).under = row.under
    BY <1>c, Zenon DEF Row
  <2> HIDE DEF T
  <2>3. CASE arts[p] = {}
    <3>1. S = {}
      BY <2>3
    <3> QED
      BY <1>b, <1>d, <2>1, <3>1, Zenon DEF RowMoves
  <2>4. ASSUME NEW row \in Row, arts[p] = {row}
        PROVE  arts' \in [Paths -> SUBSET Row] /\ \A q \in Paths : RowMoves(q)
    <3>1. S = {T(row)}
      BY <2>4
    <3>2. {T(row)} \in SUBSET Row /\ row \in arts[p]
      BY <2>2, <2>4, Zenon
    <3>3. arts'[p] = {T(row)} => RowMoves(p)
      BY <2>2, <3>2, Zenon DEF RowMoves
    <3> QED
      BY <1>b, <1>d, <2>1, <3>1, <3>2, <3>3, Zenon
  <2> QED
    BY <1>a, <1>b, <2>3, <2>4, Zenon
<1>2. ASSUME NEW c \in Clients, StoreArtifact(c)
      PROVE  arts' \in [Paths -> SUBSET Row] /\ \A p \in Paths : RowMoves(p)
  <2> DEFINE p == req[c].path
             T(row) == [row EXCEPT !.cachedAt = now, !.accessed = now]
  <2>1. PICK row \in req[c].row : arts' = [arts EXCEPT ![p] = {T(row)}]
    BY <1>2, Zenon DEF StoreArtifact
  <2>2. row \in Row
    BY <1>b, Zenon
  <2>3. /\ T(row) \in Row /\ T(row).body = row.body
        /\ T(row).cachedAt = now /\ T(row).under = row.under
    BY <1>c, <2>2, Zenon DEF Row
  <2> HIDE DEF T
  <2>4. {T(row)} \in SUBSET Row /\ req[c].pc = "store"
    BY <1>2, <2>3, Zenon DEF StoreArtifact
  <2>5. arts'[p] = {T(row)} => RowMoves(p)
    BY <2>3, <2>4, Zenon DEF RowMoves
  <2> QED
    BY <1>b, <1>d, <2>1, <2>4, <2>5, Zenon
<1>3. ASSUME NEW p \in Paths, arts' = [arts EXCEPT ![p] = {}]
      PROVE  arts' \in [Paths -> SUBSET Row] /\ \A q \in Paths : RowMoves(q)
  BY <1>3, <1>d, Zenon DEF RowMoves
<1>4. ASSUME NEW p \in Paths, Upload(p)
      PROVE  arts' \in [Paths -> SUBSET Row] /\ \A q \in Paths : RowMoves(q)
  <2> DEFINE x == [body |-> now, cachedAt |-> now, accessed |-> now, under |-> cfg]
  <2>1. p \in hosted /\ arts' = [arts EXCEPT ![p] = {x}]
    BY <1>4, Zenon DEF Upload
  <2>2. x \in Row
    BY <1>a, <1>c, Zenon DEF Row
  <2> HIDE DEF x
  <2>3. arts'[p] = {x} => RowMoves(p)
    BY <2>1, <2>2, Zenon DEF RowMoves
  <2> QED
    BY <1>d, <2>1, <2>2, <2>3, Zenon
<1>5. ASSUME arts' = arts
      PROVE  arts' \in [Paths -> SUBSET Row] /\ \A q \in Paths : RowMoves(q)
  BY <1>5, <1>a, Zenon DEF RowMoves
<1>6. /\ \A c \in Clients, p \in Paths : EvictDelete(c, p) => arts' = [arts EXCEPT ![p] = {}]
      /\ \A p \in Paths : ReapDelete(p) => arts' = [arts EXCEPT ![p] = {}]
  BY Zenon DEF EvictDelete, ReapDelete
<1> QED
  BY <1>1, <1>2, <1>3, <1>4, <1>5, <1>6, Frames, Zenon

\* A negative entry is dropped, or made when the upstream has nothing.
LEMMA NegSteps ==
    ASSUME TypeOK, [Next]_vars
    PROVE  /\ neg' \in [Paths -> 0..(MaxClock + NegativeTTL)]
           /\ \A p \in Paths : \/ neg'[p] = neg[p] \/ neg'[p] = 0
                               \/ upstream'[p] = {} /\ neg'[p] = now + NegativeTTL
<1>a. /\ req \in [Clients -> Request] /\ neg \in [Paths -> 0..(MaxClock + NegativeTTL)]
      /\ now \in 1..MaxClock
  BY Zenon DEF TypeOK
<1>b. \A c \in Clients : req[c].path \in Paths
  BY <1>a, Zenon DEF Request
<1>c. 0 \in 0..(MaxClock + NegativeTTL) /\ now + NegativeTTL \in 0..(MaxClock + NegativeTTL)
  BY <1>a, ConstantsAssumption
<1>1. ASSUME NEW p \in Paths, neg' = [neg EXCEPT ![p] = 0]
      PROVE  /\ neg' \in [Paths -> 0..(MaxClock + NegativeTTL)]
             /\ \A q \in Paths : neg'[q] = neg[q] \/ neg'[q] = 0
  BY <1>1, <1>a, <1>c, Zenon
<1>2. ASSUME NEW c \in Clients, NegCheck(c)
      PROVE  neg' = neg \/ neg' = [neg EXCEPT ![req[c].path] = 0]
  BY <1>2, Zenon DEF NegCheck
<1>3. ASSUME NEW p \in Paths, Upload(p) PROVE neg' = [neg EXCEPT ![p] = 0]
  BY <1>3, Zenon DEF Upload
<1>4. ASSUME NEW c \in Clients, GetNotFound(c)
      PROVE  /\ neg' \in [Paths -> 0..(MaxClock + NegativeTTL)]
             /\ \A p \in Paths : \/ neg'[p] = neg[p]
                                 \/ upstream'[p] = {} /\ neg'[p] = now + NegativeTTL
  <2>1. /\ upstream[req[c].path] = {} /\ upstream' = upstream
        /\ \/ neg' = neg
           \/ neg' = [neg EXCEPT ![req[c].path] = now + NegativeTTL]
    BY <1>4, Zenon DEF GetNotFound, Set, env
  <2> QED
    BY <1>a, <1>b, <1>c, <2>1, Zenon
<1> QED
  BY <1>a, <1>b, <1>1, <1>2, <1>3, <1>4, Frames, Zenon

\* parseRetryAfter answers within its clamp.
LEMMA RetryAfterClamped ==
    ASSUME NEW h \in RetryAfters
    PROVE  ParseRetryAfter(h) \in DefaultCooldown..MaxCooldown
  BY ConstantsAssumption DEF ParseRetryAfter

\* A throttled answer opens a cooldown of its path that ends later; the request's
\* least expiry goes down with it, never up.
LEMMA ThrottleSteps ==
    ASSUME TypeOK, NEW p \in Paths, NEW h \in RetryAfters, Throttle(p, h)
    PROVE  /\ cool' \in [Paths -> 0..(MaxClock + MaxCooldown)]
           /\ shield' \in [Clients -> 0..(MaxClock + MaxCooldown)]
           /\ cool'[p] > now /\ \A q \in Paths : q # p => cool'[q] = cool[q]
           /\ \A c \in Clients : /\ shield'[c] <= shield[c]
                                 /\ req[c].path = p => shield'[c] <= cool'[p]
<1>a. /\ cool \in [Paths -> 0..(MaxClock + MaxCooldown)] /\ now \in 1..MaxClock
      /\ shield \in [Clients -> 0..(MaxClock + MaxCooldown)]
  BY Zenon DEF TypeOK
<1> DEFINE t == now + ParseRetryAfter(h)
<1>1. /\ ParseRetryAfter(h) > 0 /\ t \in 0..(MaxClock + MaxCooldown) /\ t > now
      /\ ~(ParseRetryAfter(h) <= 0)
  BY <1>a, RetryAfterClamped, ConstantsAssumption
<1>2. cool' = [cool EXCEPT ![p] = t]
  BY <1>1, Zenon DEF Throttle, Set
<1> HIDE DEF t
<1>3. /\ cool' \in [Paths -> 0..(MaxClock + MaxCooldown)] /\ cool'[p] = t
      /\ \A q \in Paths : q # p => cool'[q] = cool[q]
  BY <1>a, <1>1, <1>2, Zenon
<1>4. ASSUME NEW c \in Clients
      PROVE  LET m == Min({shield[c], t}) IN
             m \in 0..(MaxClock + MaxCooldown) /\ m <= shield[c] /\ m <= t
  <2>1. shield[c] \in 0..(MaxClock + MaxCooldown)
    BY <1>a, Zenon
  <2>2. shield[c] \in Int /\ t \in Int
    BY <1>1, <2>1, ConstantsAssumption
  <2>3. /\ Min({shield[c], t}) \in {shield[c], t} /\ Min({shield[c], t}) <= shield[c]
        /\ Min({shield[c], t}) <= t
    BY <2>2, MinOfTwo, Zenon
  <2> QED
    BY <1>1, <2>1, <2>3, Zenon
<1>5. shield' = [c \in Clients |-> IF req[c].path = p THEN Min({shield[c], t}) ELSE shield[c]]
  BY <1>3, Zenon DEF Throttle
<1>6. \A c \in Clients : shield[c] <= shield[c]
  BY <1>a, ConstantsAssumption
<1>7. \A c \in Clients :
        shield'[c] = IF req[c].path = p THEN Min({shield[c], t}) ELSE shield[c]
  BY <1>5, Zenon
<1>8. shield' \in [Clients -> 0..(MaxClock + MaxCooldown)]
  BY <1>a, <1>4, <1>5, Zenon
<1> QED
  BY <1>1, <1>3, <1>4, <1>6, <1>7, <1>8, Zenon

\* Cooldowns are dropped once over, or opened; a request's least expiry goes down
\* unless the request begins.
LEMMA CoolSteps ==
    ASSUME TypeOK, [Next]_vars
    PROVE  /\ cool' \in [Paths -> 0..(MaxClock + MaxCooldown)]
           /\ shield' \in [Clients -> 0..(MaxClock + MaxCooldown)]
           /\ \A p \in Paths : \/ cool'[p] = cool[p]
                               \/ cool'[p] = 0 /\ cool[p] <= now
                               \/ \A c \in Clients : req[c].path = p => shield'[c] <= cool'[p]
           /\ \A c \in Clients : \/ shield'[c] <= shield[c]
                                 \/ \E p \in Paths : Begin(c, p)
<1>a. /\ cool \in [Paths -> 0..(MaxClock + MaxCooldown)] /\ now \in 1..MaxClock
      /\ shield \in [Clients -> 0..(MaxClock + MaxCooldown)] /\ req \in [Clients -> Request]
  BY Zenon DEF TypeOK
<1>b. \A c \in Clients : req[c].path \in Paths
  BY <1>a, Zenon DEF Request
<1>c. /\ 0 \in 0..(MaxClock + MaxCooldown) /\ \A c \in Clients : shield[c] <= shield[c]
      /\ \A p \in Paths : cool[p] \in Nat /\ (cool[p] = 0 => cool[p] <= now)
  BY <1>a, ConstantsAssumption
<1> DEFINE Goal ==
      /\ cool' \in [Paths -> 0..(MaxClock + MaxCooldown)]
      /\ shield' \in [Clients -> 0..(MaxClock + MaxCooldown)]
      /\ \A p \in Paths : \/ cool'[p] = cool[p]
                          \/ cool'[p] = 0 /\ cool[p] <= now
                          \/ \A c \in Clients : req[c].path = p => shield'[c] <= cool'[p]
      /\ \A c \in Clients : \/ shield'[c] <= shield[c]
                            \/ \E p \in Paths : Begin(c, p)
<1>1. ASSUME NEW p \in Paths, NEW h \in RetryAfters, Throttle(p, h) PROVE Goal
  BY <1>1, ThrottleSteps, Zenon
<1>2. ASSUME UNCHANGED <<cool, shield>> PROVE Goal
  BY <1>2, <1>a, <1>c, Zenon
<1>3. ASSUME NEW c \in Clients, CoolCheck(c) PROVE Goal
  <2>1. /\ shield' = shield
        /\ \/ cool' = cool
           \/ cool' = [cool EXCEPT ![req[c].path] = 0] /\ ~Remaining(req[c].path)
    BY <1>3, Zenon DEF CoolCheck
  <2>2. ~Remaining(req[c].path) => cool[req[c].path] <= now
    BY <1>a, <1>b, <1>c, ConstantsAssumption DEF Remaining
  <2> QED
    BY <1>a, <1>b, <1>c, <2>1, <2>2, Zenon
<1>4. ASSUME NEW c \in Clients, NEW p \in Paths, Begin(c, p) PROVE Goal
  <2>1. cool' = cool /\ shield' = [shield EXCEPT ![c] = cool[p]]
    BY <1>4, Zenon DEF Begin
  <2> QED
    BY <1>4, <1>a, <1>c, <2>1, Zenon
<1>5. ASSUME NEW c \in Clients, Passthrough(c) PROVE Goal
  <2>1. UNCHANGED <<cool, shield>> \/ \E h \in RetryAfters : Throttle(req[c].path, h)
    BY <1>5, Zenon DEF Passthrough
  <2> QED
    BY <1>b, <1>1, <1>2, <2>1, Zenon
<1>6. ASSUME NEW c \in Clients, NEW h \in RetryAfters, GetThrottled(c, h) PROVE Goal
  <2>1. Throttle(req[c].path, h)
    BY <1>6, Zenon DEF GetThrottled
  <2> QED
    BY <1>b, <1>1, <2>1, Zenon
<1> HIDE DEF Goal
<1>7. Goal
  BY <1>2, <1>3, <1>4, <1>5, <1>6, Frames, Zenon
<1> QED
  BY <1>7, Zenon DEF Goal

\* The call of client c ends: it and its waiters have its outcome.
LEMMA FinishMoves ==
    ASSUME TypeOK, NEW c \in Clients, Finish(c)
    PROVE  /\ req' \in [Clients -> Request]
           /\ \A d \in Clients :
                IF d = c \/ (req[d].pc = "wait" /\ req[d].path = req[c].path)
                THEN Becomes(req'[d], req[d], "respond", req[d].since, req[c].out, req[d].row)
                ELSE req'[d] = req[d]
<1>a. req \in [Clients -> Request] /\ \A d \in Clients : req[d].out \in Outcomes
  BY Zenon DEF TypeOK, Request
<1> DEFINE waiting == {d \in Clients : req[d].pc = "wait" /\ req[d].path = req[c].path}
<1>1. req' = [d \in Clients |-> IF d \in waiting \cup {c} THEN Told(req[d], req[c].out)
                                ELSE req[d]]
  BY Zenon DEF Finish, Told
<1>2. \A d \in Clients :
        Becomes(Told(req[d], req[c].out), req[d], "respond", req[d].since, req[c].out,
                req[d].row)
  BY <1>a, RequestWrites, Zenon
<1>3. \A d \in Clients : Told(req[d], req[c].out) \in Request
  BY <1>2, Zenon DEF Becomes
<1>4. req' \in [Clients -> Request]
  BY <1>a, <1>1, <1>3, Zenon
<1>5. \A d \in Clients :
        req'[d] = IF d = c \/ (req[d].pc = "wait" /\ req[d].path = req[c].path)
                  THEN Told(req[d], req[c].out) ELSE req[d]
  BY <1>1, Zenon
<1> QED
  BY <1>2, <1>4, <1>5, Zenon

\* A request begins.
LEMMA BeginMoves ==
    ASSUME TypeOK, NEW c \in Clients, NEW p \in Paths, Begin(c, p)
    PROVE  /\ req' \in [Clients -> Request]
           /\ \A d \in Clients : d # c => req'[d] = req[d]
           /\ req'[c].pc = "lookup" /\ req'[c].path = p /\ req'[c].since = now
           /\ req'[c].out = "none" /\ req'[c].row = {} /\ req[c].pc \in {"idle", "done"}
<1>a. req \in [Clients -> Request] /\ cfg \in Configs /\ now \in 1..MaxClock
  BY Zenon DEF TypeOK
<1>b. now \in 0..MaxClock /\ 0 \in 0..EvictRounds /\ "lookup" \in Pcs /\ "none" \in Outcomes
  BY <1>a, ConstantsAssumption DEF Pcs, Outcomes
<1>1. /\ Start("lookup", p) \in Request
      /\ Start("lookup", p).pc = "lookup" /\ Start("lookup", p).path = p
      /\ Start("lookup", p).since = now
      /\ Start("lookup", p).out = "none" /\ Start("lookup", p).row = {}
  BY <1>a, <1>b, Zenon DEF Start, Request
<1>2. req' = [req EXCEPT ![c] = Start("lookup", p)] /\ req[c].pc \in {"idle", "done"}
  BY Zenon DEF Begin
<1> QED
  BY <1>a, <1>1, <1>2, Zenon

-----------------------------------------------------------------------------
(* flight.                                                                  *)

\* Where a request runs the call of its path, and where it has nothing to do with
\* a call; the rest wait.
Calling == {"recheck", "get", "store", "evict", "finish"}
Outside == {"idle", "lookup", "touch", "neg", "cool", "fly", "respond", "stream", "done"}

\* The three do not overlap.
LEMMA Places ==
    /\ \A x \in Outside : x \notin Calling /\ x # "wait"
    /\ \A x \in Calling : x # "wait"
    /\ "recheck" \in Calling /\ "finish" \in Calling
    /\ "fly" \in Outside /\ "respond" \in Outside
    /\ "lookup" \in Outside /\ "idle" \in Outside /\ "done" \in Outside
  BY DEF Outside, Calling

\* Client c's request moves within S, and no call begins or ends.
Within(c, S) ==
    /\ req[c].pc \in S /\ calls' = calls
    /\ \E pc \in S, out \in Outcomes, row \in SUBSET Row :
          Moved(c, pc, req[c].since, out, row)

\* A step other than Join and Finish neither begins nor ends a call.
LEMMA StepKinds ==
    ASSUME TypeOK, NEW c \in Clients, Step(c)
    PROVE  Within(c, Outside) \/ Within(c, Calling) \/ Join(c) \/ Finish(c)
<1>a. req \in [Clients -> Request]
  BY Zenon DEF TypeOK
<1>b. \A pc, since, out, row :
        Moved(c, pc, since, out, row) => out \in Outcomes /\ row \in SUBSET Row
  BY Zenon DEF Moved, Becomes, Request
<1>1. ASSUME req[c].pc \in Outside, calls' = calls,
             \E pc \in Outside : \E out, row : Moved(c, pc, req[c].since, out, row)
      PROVE  Within(c, Outside)
  BY <1>1, <1>b, Zenon DEF Within
<1>2. ASSUME req[c].pc \in Calling, calls' = calls,
             \E pc \in Calling : \E out, row : Moved(c, pc, req[c].since, out, row)
      PROVE  Within(c, Calling)
  BY <1>2, <1>b, Zenon DEF Within
<1>3. /\ \A x \in {"lookup", "touch", "neg", "cool", "fly", "respond", "stream", "done"} :
            x \in Outside
      /\ \A x \in {"recheck", "get", "store", "evict", "finish"} : x \in Calling
  BY DEF Outside, Calling
<1>4. ASSUME Hit(c) PROVE Within(c, Outside)
  <2>1. req[c].pc = "lookup" /\ calls' = calls
    BY <1>4, Zenon DEF Hit
  <2> QED
    BY <1>1, <1>3, <1>4, <2>1, RequestSteps, Zenon DEF HitMoves
<1>5. ASSUME Touch(c) \/ Miss(c) \/ MetadataError(c) PROVE Within(c, Outside)
  <2>1. req[c].pc \in {"lookup", "touch"} /\ calls' = calls
    BY <1>5, Zenon DEF Touch, Miss, MetadataError
  <2> QED
    BY <1>1, <1>3, <1>5, <2>1, RequestSteps, Zenon DEF TouchMoves, MissMoves, ErrorMoves
<1>6. ASSUME NegCheck(c) \/ CoolCheck(c) PROVE Within(c, Outside)
  <2>1. req[c].pc \in {"neg", "cool"} /\ calls' = calls
    BY <1>6, Zenon DEF NegCheck, CoolCheck
  <2> QED
    BY <1>1, <1>3, <1>6, <2>1, RequestSteps, Zenon DEF NegMoves, CoolMoves
<1>7. ASSUME Recheck(c) PROVE Within(c, Calling)
  <2>1. req[c].pc = "recheck" /\ calls' = calls
    BY <1>7, Zenon DEF Recheck
  <2> QED
    BY <1>2, <1>3, <1>7, <2>1, RequestSteps, Zenon DEF RecheckMoves
<1>8. ASSUME \/ GetNotFound(c) \/ GetFails(c) \/ GetBody(c)
             \/ \E h \in RetryAfters : GetThrottled(c, h)
      PROVE  Within(c, Calling)
  <2>1. req[c].pc = "get" /\ calls' = calls
    BY <1>8, Zenon DEF GetNotFound, GetFails, GetBody, GetThrottled
  <2> QED
    BY <1>2, <1>3, <1>8, <2>1, RequestSteps, Zenon DEF GetMoves, BodyMoves
<1>9. ASSUME StoreArtifact(c) \/ StoreFails(c) PROVE Within(c, Calling)
  <2>1. req[c].pc = "store" /\ calls' = calls
    BY <1>9, Zenon DEF StoreArtifact, StoreFails
  <2> QED
    BY <1>2, <1>3, <1>9, <2>1, RequestSteps, Zenon DEF StoreMoves
<1>10. ASSUME EvictList(c) \/ \E p \in Paths : EvictDelete(c, p) PROVE Within(c, Calling)
  <2>1. req[c].pc = "evict" /\ calls' = calls
    BY <1>10, Zenon DEF EvictList, EvictDelete
  <2> QED
    BY <1>2, <1>3, <1>10, <2>1, RequestSteps, Zenon DEF EvictMoves
<1>11. ASSUME Respond(c) \/ Passthrough(c) PROVE Within(c, Outside)
  <2>1. req[c].pc \in {"respond", "stream"} /\ calls' = calls
    BY <1>11, Zenon DEF Respond, Passthrough
  <2> QED
    BY <1>1, <1>3, <1>11, <2>1, RequestSteps, Zenon DEF RespondMoves, StreamMoves
<1> QED
  BY <1>4, <1>5, <1>6, <1>7, <1>8, <1>9, <1>10, <1>11, Zenon DEF Step

\* A step is one of a request, or leaves the requests alone.
LEMMA NextKinds ==
    ASSUME [Next]_vars
    PROVE  \/ UNCHANGED <<req, calls>>
           \/ \E c \in Clients : Step(c) \/ \E p \in Paths : Begin(c, p)
  BY Zenon DEF Next, vars, Upload, ReapDelete, Publish, ReapList, Tick, UpdateConfig

\* The table of calls holds exactly the requests that run one, at most one of a path,
\* and a request that waits began, or counts as having begun, before its call.
Flight ==
    /\ \A p \in Paths, c \in Clients :
          c \in calls[p] <=> req[c].path = p /\ req[c].pc \in Calling
    /\ \A p \in Paths : \A c, d \in calls[p] : c = d
    /\ \A c \in Clients :
          req[c].pc = "wait" => \E d \in calls[req[c].path] : req[c].since <= req[d].since

\* Join finds the running call, or becomes it.
LEMMA JoinCalls ==
    ASSUME TypeOK, NEW c \in Clients, Join(c)
    PROVE  /\ req[c].pc = "fly"
           /\ calls' = IF calls[req[c].path] # {} THEN calls
                       ELSE [calls EXCEPT ![req[c].path] = {c}]
  BY Zenon DEF Join

\* Types are kept.
LEMMA TypeStep ==
    ASSUME TypeOK, [Next]_vars
    PROVE  TypeOK'
<1>a. /\ req \in [Clients -> Request] /\ calls \in [Paths -> SUBSET Clients]
      /\ hosted \in SUBSET Paths /\ now \in 1..MaxClock
  BY Zenon DEF TypeOK
<1>b. \A c \in Clients : req[c].path \in Paths
  BY <1>a, Zenon DEF Request
<1>1. req' \in [Clients -> Request]
  <2>1. ASSUME NEW c \in Clients, Join(c) PROVE req' \in [Clients -> Request]
    BY <2>1, RequestSteps, Zenon DEF JoinMoves, Moved
  <2>2. ASSUME NEW c \in Clients, NEW S, Within(c, S) PROVE req' \in [Clients -> Request]
    BY <2>2, Zenon DEF Within, Moved
  <2>3. ASSUME NEW c \in Clients, Finish(c) PROVE req' \in [Clients -> Request]
    BY <2>3, FinishMoves, Zenon
  <2>4. ASSUME NEW c \in Clients, Step(c) PROVE req' \in [Clients -> Request]
    BY <2>1, <2>2, <2>3, <2>4, StepKinds, Zenon
  <2>5. ASSUME NEW c \in Clients, NEW p \in Paths, Begin(c, p) PROVE req' \in [Clients -> Request]
    BY <2>5, BeginMoves, Zenon
  <2> QED
    BY <1>a, <2>4, <2>5, NextKinds, Zenon
<1>2. calls' \in [Paths -> SUBSET Clients]
  <2>1. ASSUME NEW c \in Clients, Finish(c) PROVE calls' = [calls EXCEPT ![req[c].path] = {}]
    BY <2>1, Zenon DEF Finish
  <2>2. ASSUME NEW c \in Clients, Join(c)
        PROVE  calls' = calls \/ calls' = [calls EXCEPT ![req[c].path] = {c}]
    BY <2>2, JoinCalls, Zenon
  <2>3. UNCHANGED calls \/ \E c \in Clients : Join(c) \/ Finish(c)
    BY Frames, Zenon
  <2>4. ASSUME NEW p \in Paths, NEW S \in SUBSET Clients, calls' = [calls EXCEPT ![p] = S]
        PROVE  calls' \in [Paths -> SUBSET Clients]
    BY <1>a, <2>4, Zenon
  <2>5. \A c \in Clients : {c} \in SUBSET Clients /\ {} \in SUBSET Clients
    BY Zenon
  <2> QED
    BY <1>a, <1>b, <2>1, <2>2, <2>3, <2>4, <2>5, Zenon
<1>3. /\ arts' \in [Paths -> SUBSET Row]
      /\ \A p \in Paths : arts'[p] = {} \/ \E row \in arts'[p] : arts'[p] = {row}
  <2>1. \A p \in Paths : arts[p] = {} \/ \E row \in arts[p] : arts[p] = {row}
    BY Zenon DEF TypeOK
  <2> QED
    BY <2>1, RowSteps, Zenon DEF RowMoves
<1>4. /\ now' \in 1..MaxClock /\ hosted' \in SUBSET Paths
      /\ upstream' \in [Paths -> SUBSET (0..MaxClock)]
      /\ cfg' \in Configs /\ updates' \in 0..MaxUpdates /\ requests' \in 0..MaxRequests
      /\ reap' \in SUBSET Paths
  BY <1>a, EnvSteps, Zenon
<1>5. neg' \in [Paths -> 0..(MaxClock + NegativeTTL)]
  BY NegSteps, Zenon
<1>6. /\ cool' \in [Paths -> 0..(MaxClock + MaxCooldown)]
      /\ shield' \in [Clients -> 0..(MaxClock + MaxCooldown)]
  BY CoolSteps, Zenon
<1> QED
  BY <1>1, <1>2, <1>3, <1>4, <1>5, <1>6, Zenon DEF TypeOK

\* The table of calls is kept.
LEMMA FlightStep ==
    ASSUME TypeOK, Flight, [Next]_vars
    PROVE  Flight'
<1>a. /\ req \in [Clients -> Request] /\ calls \in [Paths -> SUBSET Clients]
      /\ \A c \in Clients : req[c].path \in Paths /\ req[c].since \in 0..MaxClock
  BY Zenon DEF TypeOK, Request
<1>b. \A p \in Paths, c \in Clients :
        c \in calls[p] <=> req[c].path = p /\ req[c].pc \in Calling
  BY Zenon DEF Flight
<1>u. \A p \in Paths : \A c, d \in calls[p] : c = d
  BY Zenon DEF Flight
<1>w. \A c \in Clients :
        req[c].pc = "wait" => \E d \in calls[req[c].path] : req[c].since <= req[d].since
  BY Zenon DEF Flight
<1>c. ASSUME NEW c \in Clients, NEW pc, NEW since, NEW out, NEW row,
             Moved(c, pc, since, out, row)
      PROVE  /\ \A d \in Clients : d # c => req'[d] = req[d]
             /\ req'[c].path = req[c].path /\ req'[c].pc = pc /\ req'[c].since = since
  BY <1>c, Zenon DEF Moved, Becomes
<1>1. ASSUME UNCHANGED <<req, calls>> PROVE Flight'
  BY <1>1, <1>b, <1>u, <1>w, Zenon DEF Flight
<1>2. ASSUME NEW c \in Clients, calls' = calls, req[c].pc \in Outside,
             \A d \in Clients : d # c => req'[d] = req[d],
             req'[c].pc \in Outside
      PROVE  Flight'
  <2>1. \A p \in Paths : c \notin calls[p]
    BY <1>2, <1>b, Places, Zenon
  <2>2. \A p \in Paths, d \in Clients :
          d \in calls'[p] <=> req'[d].path = p /\ req'[d].pc \in Calling
    BY <1>2, <1>b, <2>1, Places, Zenon
  <2>3. \A p \in Paths : \A d \in calls'[p] : req'[d] = req[d] /\ d \in Clients
    BY <1>2, <1>a, <2>1, Zenon
  <2>4. ASSUME NEW d \in Clients, req'[d].pc = "wait"
        PROVE  \E e \in calls'[req'[d].path] : req'[d].since <= req'[e].since
    <3>1. req'[d] = req[d]
      BY <1>2, <2>4, Places, Zenon
    <3> QED
      BY <1>2, <1>a, <1>w, <2>3, <2>4, <3>1, Zenon
  <2>5. \A p \in Paths : \A d, e \in calls'[p] : d = e
    BY <1>2, <1>u, Zenon
  <2> QED
    BY <2>2, <2>4, <2>5, Zenon DEF Flight
<1>3. ASSUME NEW c \in Clients, Within(c, Calling) PROVE Flight'
  <2>1. /\ calls' = calls /\ req[c].pc \in Calling /\ req'[c].pc \in Calling
        /\ \A d \in Clients : d # c => req'[d] = req[d]
        /\ req'[c].path = req[c].path /\ req'[c].since = req[c].since
    <3>1. PICK pc \in Calling, out \in Outcomes, row \in SUBSET Row :
            Moved(c, pc, req[c].since, out, row)
      BY <1>3, Zenon DEF Within
    <3>2. calls' = calls /\ req[c].pc \in Calling
      BY <1>3, Zenon DEF Within
    <3>3. /\ \A d \in Clients : d # c => req'[d] = req[d]
          /\ req'[c].path = req[c].path /\ req'[c].pc = pc /\ req'[c].since = req[c].since
      BY <1>c, <3>1, Zenon
    <3> QED
      BY <3>2, <3>3, Zenon
  <2>2. \A d \in Clients : /\ req'[d].path = req[d].path /\ req'[d].since = req[d].since
                           /\ req'[d].pc \in Calling <=> req[d].pc \in Calling
                           /\ req'[d].pc = "wait" <=> req[d].pc = "wait"
    BY <2>1, Places, Zenon
  <2>3. \A d \in Clients : calls'[req'[d].path] \in SUBSET Clients
    BY <1>a, <2>1, <2>2, Zenon
  <2>4. ASSUME NEW d \in Clients, req'[d].pc = "wait"
        PROVE  \E e \in calls'[req'[d].path] : req'[d].since <= req'[e].since
    BY <1>w, <2>1, <2>2, <2>3, <2>4, ZenonT(60)
  <2>5. \A p \in Paths : \A d, e \in calls'[p] : d = e
    BY <1>u, <2>1, Zenon
  <2>6. \A p \in Paths, d \in Clients :
          d \in calls'[p] <=> req'[d].path = p /\ req'[d].pc \in Calling
    BY <1>b, <2>1, <2>2
  <2> QED
    BY <2>4, <2>5, <2>6, Zenon DEF Flight
<1>4. ASSUME NEW c \in Clients, Join(c) PROVE Flight'
  <2> DEFINE p == req[c].path
  <2>0. req[c].pc = "fly" /\ p \in Paths /\ \A q \in Paths : c \notin calls[q]
    <3>1. req[c].pc = "fly" /\ p \in Paths
      BY <1>4, <1>a, JoinCalls, Zenon
    <3>2. req[c].pc \notin Calling
      BY <3>1, Places
    <3> QED
      BY <1>b, <3>1, <3>2, Zenon
  <2>1. CASE calls[p] = {}
    <3>1. /\ calls' = [calls EXCEPT ![p] = {c}]
          /\ Moved(c, "recheck", req[c].since, req[c].out, req[c].row)
      BY <1>4, <2>1, JoinCalls, RequestSteps, Zenon DEF JoinMoves
    <3>2. /\ \A d \in Clients : d # c => req'[d] = req[d]
          /\ req'[c].path = p /\ req'[c].pc = "recheck" /\ "recheck" \in Calling
      BY <1>c, <3>1, Zenon DEF Calling
    <3>3. calls'[p] = {c} /\ \A q \in Paths : q # p => calls'[q] = calls[q]
      BY <1>a, <2>0, <3>1, Zenon
    <3>4. \A q \in Paths, d \in Clients :
            d \in calls'[q] <=> req'[d].path = q /\ req'[d].pc \in Calling
      BY <1>b, <2>0, <2>1, <3>2, <3>3
    <3>5. \A q \in Paths : \A d, e \in calls'[q] : d = e
      BY <1>u, <3>3
    <3>6. ASSUME NEW d \in Clients, req'[d].pc = "wait"
          PROVE  \E e \in calls'[req'[d].path] : req'[d].since <= req'[e].since
      <4>1. req'[d] = req[d] /\ req[d].path # p /\ req[d].path \in Paths
        <5>1. d # c
          BY <3>2, <3>6
        <5> QED
          BY <1>a, <1>w, <2>1, <3>2, <3>6, <5>1, Zenon
      <4>2. PICK e \in calls[req[d].path] : req[d].since <= req[e].since
        BY <1>w, <3>6, <4>1, Zenon
      <4>3. e # c /\ e \in Clients
        BY <1>a, <2>0, <4>1, Zenon
      <4> QED
        BY <3>2, <3>3, <4>1, <4>2, <4>3, Zenon
    <3> QED
      BY <3>4, <3>5, <3>6, Zenon DEF Flight
  <2>2. CASE calls[p] # {}
    <3>1. calls' = calls
      BY <1>4, <2>2, JoinCalls, Zenon
    <3>2. PICK d0 \in calls[p] :
            Moved(c, "wait", Min({req[c].since, req[d0].since}), req[c].out, req[c].row)
      BY <1>4, <2>2, RequestSteps, Zenon DEF JoinMoves
    <3>3. d0 \in Clients /\ d0 # c
      BY <1>a, <2>0, Zenon
    <3>4. Min({req[c].since, req[d0].since}) <= req[d0].since
      <4>1. req[c].since \in Int /\ req[d0].since \in Int
        BY <1>a, <3>3, ConstantsAssumption
      <4> QED
        BY <4>1, MinOfTwo, Zenon
    <3>5. /\ \A d \in Clients : d # c => req'[d] = req[d]
          /\ req'[c].path = p /\ req'[c].pc = "wait" /\ req'[c].since <= req[d0].since
      <4>1. /\ \A d \in Clients : d # c => req'[d] = req[d]
            /\ req'[c].path = req[c].path /\ req'[c].pc = "wait"
            /\ req'[c].since = Min({req[c].since, req[d0].since})
        BY <3>2, Zenon DEF Moved, Becomes
      <4> QED
        BY <3>4, <4>1, Zenon
    <3>6. \A q \in Paths, d \in Clients :
            d \in calls'[q] <=> req'[d].path = q /\ req'[d].pc \in Calling
      BY <1>b, <2>0, <3>1, <3>5, Places
    <3>7. ASSUME NEW d \in Clients, req'[d].pc = "wait"
          PROVE  \E e \in calls'[req'[d].path] : req'[d].since <= req'[e].since
      <4>1. CASE d = c
        BY <3>1, <3>2, <3>3, <3>5, <4>1, Zenon
      <4>2. CASE d # c
        <5>1. req'[d] = req[d] /\ req[d].path \in Paths
          BY <1>a, <3>5, <4>2, Zenon
        <5>2. PICK e \in calls[req[d].path] : req[d].since <= req[e].since
          BY <1>w, <3>7, <5>1, Zenon
        <5>3. e # c /\ e \in Clients
          BY <1>a, <2>0, <5>1, Zenon
        <5> QED
          BY <3>1, <3>5, <5>1, <5>2, <5>3, Zenon
      <4> QED
        BY <4>1, <4>2, Zenon
    <3> QED
      BY <1>u, <3>1, <3>6, <3>7, Zenon DEF Flight
  <2> QED
    BY <2>1, <2>2, Zenon
<1>5. ASSUME NEW c \in Clients, Finish(c) PROVE Flight'
  <2> DEFINE p == req[c].path
             Released(d) == d = c \/ (req[d].pc = "wait" /\ req[d].path = p)
  <2>1. calls' = [calls EXCEPT ![p] = {}] /\ req[c].pc = "finish"
    BY <1>5, Zenon DEF Finish
  <2>2. \A d \in Clients :
          /\ Released(d) => req'[d].pc = "respond" /\ req'[d].path = p
          /\ ~Released(d) => req'[d] = req[d]
    BY <1>5, FinishMoves, Zenon DEF Becomes
  <2>3. p \in Paths /\ calls'[p] = {} /\ \A q \in Paths : q # p => calls'[q] = calls[q]
    BY <1>a, <2>1, Zenon
  <2>4. \A d \in calls[p] : d = c
    <3>1. c \in calls[p]
      BY <1>b, <2>1, <2>3, Zenon DEF Calling
    <3> QED
      BY <1>u, <2>3, <3>1, Zenon
  <2>5. \A q \in Paths, d \in Clients :
          d \in calls'[q] <=> req'[d].path = q /\ req'[d].pc \in Calling
    <3> SUFFICES ASSUME NEW q \in Paths, NEW d \in Clients
                 PROVE  d \in calls'[q] <=> req'[d].path = q /\ req'[d].pc \in Calling
      BY Zenon
    <3>1. CASE Released(d)
      <4>1. req'[d].pc \notin Calling /\ req'[d].path = p
        BY <2>2, <3>1, Places
      <4>2. d \notin calls[q] \/ q = p
        BY <1>b, <3>1, Places
      <4> QED
        BY <2>3, <4>1, <4>2, Zenon
    <3>2. CASE ~Released(d)
      <4>1. req'[d] = req[d] /\ d # c
        BY <2>2, <3>2, Zenon
      <4>2. d \notin calls[p]
        BY <2>4, <4>1, Zenon
      <4> QED
        BY <1>b, <2>3, <4>1, <4>2
    <3> QED
      BY <3>1, <3>2, Zenon
  <2>6. \A q \in Paths : \A d, e \in calls'[q] : d = e
    BY <1>u, <2>3
  <2>7. ASSUME NEW d \in Clients, req'[d].pc = "wait"
        PROVE  \E e \in calls'[req'[d].path] : req'[d].since <= req'[e].since
    <3>1. ~Released(d) /\ req'[d] = req[d]
      BY <2>2, <2>7, Places, Zenon
    <3>2. req[d].path # p /\ req[d].path \in Paths
      BY <1>a, <2>7, <3>1, Zenon
    <3>3. PICK e \in calls[req[d].path] : req[d].since <= req[e].since
      BY <1>w, <2>7, <3>1, Zenon
    <3>4. e \in Clients /\ req[e].path # p /\ req[e].pc \in Calling
      BY <1>a, <1>b, <3>2, <3>3, Zenon
    <3>5. ~Released(e)
      BY <3>4, Places, Zenon
    <3> QED
      BY <2>2, <2>3, <3>1, <3>2, <3>3, <3>4, <3>5, ZenonT(60)
  <2> QED
    BY <2>5, <2>6, <2>7, Zenon DEF Flight
<1>6. ASSUME NEW c \in Clients, Within(c, Outside) PROVE Flight'
  <2>1. PICK pc \in Outside, out \in Outcomes, row \in SUBSET Row :
          Moved(c, pc, req[c].since, out, row)
    BY <1>6, Zenon DEF Within
  <2>2. calls' = calls /\ req[c].pc \in Outside
    BY <1>6, Zenon DEF Within
  <2>3. (\A d \in Clients : d # c => req'[d] = req[d]) /\ req'[c].pc = pc
    BY <1>c, <2>1, Zenon
  <2> QED
    BY <1>2, <2>2, <2>3, Zenon
<1>7. ASSUME NEW c \in Clients, NEW p \in Paths, Begin(c, p) PROVE Flight'
  <2>1. calls' = calls /\ req[c].pc \in Outside /\ req'[c].pc \in Outside
    <3>1. req[c].pc \in {"idle", "done"} /\ req'[c].pc = "lookup"
      BY <1>7, BeginMoves, Zenon
    <3> QED
      BY <1>7, <3>1, Places, Zenon DEF Begin
  <2> QED
    BY <1>2, <1>7, <2>1, BeginMoves, Zenon
<1>8. ASSUME NEW c \in Clients, Step(c) PROVE Flight'
  BY <1>3, <1>4, <1>5, <1>6, <1>8, StepKinds, Zenon
<1> QED
  BY <1>1, <1>7, <1>8, NextKinds, Zenon

-----------------------------------------------------------------------------
(* What the tables and the requests in progress know.                       *)

\* A row that passed, at time n, the min_age of the configuration that stored it.
Aged(x, n) ==
    /\ x.body <= n
    /\ x.under.ageEnabled /\ ~x.under.warn => n - x.body >= x.under.minAge

\* A row cached less than a metadata TTL before time t.
FreshSince(x, t) == x.cachedAt > t - MetadataTTL

\* Requests that will be answered from the store, or with 404.
HasStored(r) == r.pc = "evict" \/ (r.out = "stored" /\ r.pc \in {"finish", "respond"})
HasNone(r) == r.out = "notFound" /\ r.pc \in {"finish", "respond", "done"}

\* A request of a proxied path, at time n, with the rows A stored and the releases U
\* published under its path: what it holds, what it will be answered from and what it
\* was told are as recent as the configuration allows.
Current(r, n, A, U) ==
    /\ r.path \in Dated => \A x \in r.row : Aged(x, n)
    /\ r.path \in Metadata /\ MetadataTTL > 0 =>
          /\ \A x \in r.row : FreshSince(x, r.since)
          /\ HasStored(r) => \A x \in A : FreshSince(x, r.since)
    /\ HasNone(r) => \A t \in U : r.since <= t + NegativeTTL

\* The upstream publishes in the present, a negative entry ends in time, stored rows
\* passed their min_age, and every request is current.
Answers ==
    /\ \A p \in Paths : /\ \A t \in upstream[p] : t <= now
                        /\ neg[p] <= now + NegativeTTL
    /\ \A p \in Proxied : /\ \A t \in upstream[p] : neg[p] <= t + NegativeTTL
                          /\ p \in Dated => \A x \in arts[p] : Aged(x, now)
    /\ \A c \in Clients : req[c].since <= now
    /\ \A c \in Clients : req[c].path \in Proxied =>
          Current(req[c], now, arts[req[c].path], upstream[req[c].path])

\* A request that has not asked the upstream waits out the cooldown it began in.
Shielded ==
    \A c \in Clients :
        /\ req[c].pc \in {"lookup", "neg", "cool"} =>
              shield[c] <= now \/ shield[c] <= cool[req[c].path]
        /\ req[c].pc \in {"fly", "recheck"} => shield[c] <= now

\* Time passes and rows age; earlier starts are easier to be fresh for.
LEMMA Ages ==
    /\ \A x \in Row, m, n \in Nat : Aged(x, m) /\ m <= n => Aged(x, n)
    /\ \A x, y \in Row, n \in Nat :
          x.body = y.body /\ x.under = y.under /\ Aged(y, n) => Aged(x, n)
    /\ \A x \in Row, s, t \in Nat : FreshSince(x, t) /\ s <= t => FreshSince(x, s)
    /\ \A x, y \in Row, t \in Nat : x.cachedAt = y.cachedAt /\ FreshSince(y, t) => FreshSince(x, t)
    /\ \A x \in Row, s, t \in Nat :
          MetadataTTL > 0 /\ x.cachedAt = t /\ s <= t => FreshSince(x, s)
<1>a. \A x \in Row : /\ x.body \in Nat /\ x.cachedAt \in Nat /\ x.under \in Configs
                     /\ x.under.minAge \in Int
  <2>1. \A x \in Row : x.body \in 0..MaxClock /\ x.cachedAt \in 0..MaxClock /\ x.under \in Configs
    BY Zenon DEF Row
  <2> QED
    BY <2>1, ConstantsAssumption
<1>b. MetadataTTL \in Int
  BY ConstantsAssumption
<1>1. \A x \in Row, m, n \in Nat : Aged(x, m) /\ m <= n => Aged(x, n)
  <2> SUFFICES ASSUME NEW x \in Row, NEW m \in Nat, NEW n \in Nat, Aged(x, m), m <= n
               PROVE  Aged(x, n)
    BY Zenon
  <2>1. x.body \in Nat /\ x.under.minAge \in Int
    BY <1>a, Zenon
  <2>2. x.body <= m => x.body <= n
    BY <2>1
  <2>3. m - x.body >= x.under.minAge => n - x.body >= x.under.minAge
    BY <2>1
  <2> QED
    BY <2>2, <2>3, Zenon DEF Aged
<1>2. \A x, y \in Row, n \in Nat :
        x.body = y.body /\ x.under = y.under /\ Aged(y, n) => Aged(x, n)
  BY Zenon DEF Aged
<1>3. \A x \in Row, s, t \in Nat : FreshSince(x, t) /\ s <= t => FreshSince(x, s)
  BY <1>a, <1>b DEF FreshSince
<1>4. \A x, y \in Row, t \in Nat : x.cachedAt = y.cachedAt /\ FreshSince(y, t) => FreshSince(x, t)
  BY Zenon DEF FreshSince
<1>5. \A x \in Row, s, t \in Nat :
        MetadataTTL > 0 /\ x.cachedAt = t /\ s <= t => FreshSince(x, s)
  BY <1>a, <1>b DEF FreshSince
<1> QED
  BY <1>1, <1>2, <1>3, <1>4, <1>5, Zenon

\* The tables stay so.
LEMMA TablesStep ==
    ASSUME TypeOK, Answers, [Next]_vars
    PROVE  /\ \A p \in Paths : /\ \A t \in upstream'[p] : t <= now'
                               /\ neg'[p] <= now' + NegativeTTL
           /\ \A p \in Proxied : /\ \A t \in upstream'[p] : neg'[p] <= t + NegativeTTL
                                 /\ p \in Dated => \A x \in arts'[p] : Aged(x, now')
           /\ Proxied' = Proxied
<1>a. /\ now \in Nat /\ now' \in Nat /\ now <= now' /\ NegativeTTL \in Nat
      /\ \A p \in Paths : upstream[p] \in SUBSET Nat /\ neg[p] \in Nat
  <2>1. /\ now \in 1..MaxClock /\ upstream \in [Paths -> SUBSET (0..MaxClock)]
        /\ neg \in [Paths -> 0..(MaxClock + NegativeTTL)]
    BY Zenon DEF TypeOK
  <2>2. now' \in 1..MaxClock /\ (now' = now \/ now' = now + 1)
    BY EnvSteps, Zenon
  <2>3. now \in Nat /\ now' \in Nat /\ now <= now' /\ NegativeTTL \in Nat
    BY <2>1, <2>2, ConstantsAssumption
  <2>4. \A p \in Paths : upstream[p] \in SUBSET Nat /\ neg[p] \in Nat
    BY <2>1, ConstantsAssumption
  <2> QED
    BY <2>3, <2>4
<1>b. \A p \in Paths : upstream'[p] = upstream[p] \/ upstream'[p] = upstream[p] \cup {now}
  BY EnvSteps, Zenon
<1>c. \A p \in Paths : \/ neg'[p] = neg[p] \/ neg'[p] = 0
                       \/ upstream'[p] = {} /\ neg'[p] = now + NegativeTTL
  BY NegSteps, Zenon
<1>d. \A p \in Paths : /\ \A t \in upstream[p] : t <= now
                       /\ neg[p] <= now + NegativeTTL
  BY Zenon DEF Answers
<1>e. Proxied' = Proxied /\ Proxied \subseteq Paths
  BY EnvSteps, Zenon DEF Proxied
<1>1. ASSUME NEW p \in Paths
      PROVE  (\A t \in upstream'[p] : t <= now') /\ neg'[p] <= now' + NegativeTTL
  <2>1. ASSUME NEW t \in upstream'[p] PROVE t <= now'
    BY <1>a, <1>b, <1>d, <2>1
  <2>2. neg'[p] <= now' + NegativeTTL
    BY <1>a, <1>c, <1>d
  <2> QED
    BY <2>1, <2>2
<1>2. ASSUME NEW p \in Proxied, NEW t \in upstream'[p] PROVE neg'[p] <= t + NegativeTTL
  <2>1. \A u \in upstream[p] : neg[p] <= u + NegativeTTL
    BY Zenon DEF Answers
  <2>2. p \in Paths /\ t \in Nat
    BY <1>a, <1>b, <1>e
  <2>3. CASE t \in upstream[p]
    BY <1>a, <1>c, <1>2, <2>1, <2>2, <2>3
  <2>4. CASE t = now
    BY <1>a, <1>c, <1>d, <1>2, <2>2, <2>4
  <2> QED
    BY <1>b, <1>2, <2>2, <2>3, <2>4
<1>3. ASSUME NEW p \in Proxied, p \in Dated, NEW x \in arts'[p] PROVE Aged(x, now')
  <2>1. p \in Paths /\ p \notin hosted
    BY Zenon DEF Proxied
  <2>2. /\ arts \in [Paths -> SUBSET Row] /\ \A c \in Clients : req[c].row \in SUBSET Row
    BY Zenon DEF TypeOK, Request
  <2>3. arts' \in [Paths -> SUBSET Row] /\ RowMoves(p)
    BY <2>1, RowSteps, Zenon
  <2>4. \A y \in arts[p] : Aged(y, now)
    BY <1>3, Zenon DEF Answers
  <2>5. \A c \in Clients : req[c].path = p => \A y \in req[c].row : Aged(y, now)
    BY <1>3, Zenon DEF Answers, Current
  <2>6. \/ x \in arts[p]
        \/ \E y \in arts[p] : x.body = y.body /\ x.under = y.under
        \/ \E c \in Clients : /\ req[c].path = p
                              /\ \E y \in req[c].row : x.body = y.body /\ x.under = y.under
    BY <1>3, <2>1, <2>3, Zenon DEF RowMoves
  <2>7. x \in Row /\ \A y \in arts[p] : y \in Row
    BY <1>3, <2>1, <2>2, <2>3, Zenon
  <2>8. Aged(x, now)
    BY <1>a, <2>2, <2>4, <2>5, <2>6, <2>7, Ages, Zenon
  <2> QED
    BY <1>a, <2>7, <2>8, Ages, Zenon
<1> QED
  BY <1>1, <1>2, <1>3, <1>e, Zenon

\* A request that does not move stays current.
LEMMA CurrentKept ==
    ASSUME TypeOK, Answers, [Next]_vars, NEW r \in Request, r.path \in Proxied, r.since <= now,
           Current(r, now, arts[r.path], upstream[r.path])
    PROVE  Current(r, now', arts'[r.path], upstream'[r.path])
<1> DEFINE p == r.path
<1>a. /\ p \in Paths /\ p \notin hosted /\ r.row \in SUBSET Row
      /\ r.since \in 0..MaxClock /\ now \in 1..MaxClock /\ now' \in 1..MaxClock
      /\ (now' = now \/ now' = now + 1)
      /\ upstream \in [Paths -> SUBSET (0..MaxClock)] /\ arts \in [Paths -> SUBSET Row]
  BY EnvSteps, Zenon DEF TypeOK, Request, Proxied
<1>b. /\ now \in Nat /\ now' \in Nat /\ now <= now' /\ r.since \in Nat /\ NegativeTTL \in Nat
      /\ upstream[p] \in SUBSET Nat
  BY <1>a, ConstantsAssumption
<1>1. p \in Dated => \A x \in r.row : Aged(x, now')
  BY <1>a, <1>b, Ages, Zenon DEF Current
<1>2. ASSUME p \in Metadata, MetadataTTL > 0
      PROVE  /\ \A x \in r.row : FreshSince(x, r.since)
             /\ HasStored(r) => \A x \in arts'[p] : FreshSince(x, r.since)
  <2>1. \A x \in r.row : FreshSince(x, r.since)
    BY <1>2, Zenon DEF Current
  <2>2. ASSUME HasStored(r), NEW x \in arts'[p] PROVE FreshSince(x, r.since)
    <3>1. \A y \in arts[p] : FreshSince(y, r.since) /\ y \in Row
      BY <1>a, <1>2, <2>2, Zenon DEF Current
    <3>2. x \in Row /\ RowMoves(p)
      BY <1>a, <2>2, RowSteps, Zenon
    <3>3. x \in arts[p] \/ x.cachedAt = now \/ \E y \in arts[p] : x.cachedAt = y.cachedAt
      BY <1>a, <2>2, <3>2, Zenon DEF RowMoves
    <3> QED
      BY <1>b, <1>2, <3>1, <3>2, <3>3, Ages, Zenon
  <2> QED
    BY <2>1, <2>2, Zenon
<1>3. ASSUME HasNone(r), NEW t \in upstream'[p] PROVE r.since <= t + NegativeTTL
  <2>1. t \in upstream[p] \/ t = now
    BY <1>a, <1>3, EnvSteps, Zenon
  <2>2. t \in upstream[p] => r.since <= t + NegativeTTL
    BY <1>3, Zenon DEF Current
  <2>3. r.since <= now + NegativeTTL
    BY <1>b
  <2> QED
    BY <2>1, <2>2, <2>3, Zenon
<1> QED
  BY <1>1, <1>2, <1>3, Zenon DEF Current

\* The age policy of a fetched body.
LEMMA FetchedIsAged ==
    ASSUME TypeOK, Answers, NEW c \in Clients, NEW t \in Body(req[c].path), ~EvalAge(c, t)
    PROVE  /\ Fetched(c, t) \in Row /\ Fetched(c, t).cachedAt = now
           /\ req[c].path \in Dated => Aged(Fetched(c, t), now)
<1> DEFINE k == req[c].cfg
<1>a. /\ req[c].path \in Paths /\ k \in Configs /\ now \in 1..MaxClock
      /\ upstream \in [Paths -> SUBSET (0..MaxClock)]
  BY Zenon DEF TypeOK, Request
<1>b. t \in upstream[req[c].path]
  BY Zenon DEF Body
<1>c. t \in 0..MaxClock /\ t <= now
  BY <1>a, <1>b, Zenon DEF Answers
<1>d. k.minAge \in Int /\ t \in Int /\ now \in Int /\ now \in 0..MaxClock
  BY <1>a, <1>c, ConstantsAssumption
<1>1. /\ Fetched(c, t) \in Row /\ Fetched(c, t).cachedAt = now
      /\ Fetched(c, t).body = t /\ Fetched(c, t).under = k
  BY <1>a, <1>c, <1>d, Zenon DEF Fetched, Row
<1>2. ASSUME req[c].path \in Dated, k.ageEnabled, ~k.warn PROVE now - t >= k.minAge
  <2>1. ~(k.minAge > 0 /\ now - t < k.minAge)
    BY <1>2, Zenon DEF EvalAge, AgeBlocks, Published
  <2> QED
    BY <1>c, <1>d, <2>1
<1> QED
  BY <1>1, <1>2, <1>c, Zenon DEF Aged

\* The rows a request of path p holds are aged at time n and fresh for its start s.
Holds(p, s, row, n) ==
    /\ p \in Dated => \A x \in row : Aged(x, n)
    /\ p \in Metadata /\ MetadataTTL > 0 => \A x \in row : FreshSince(x, s)

\* Client c's request, of a proxied path, is current after the step.
StaysCurrent(c) ==
    /\ req'[c].since <= now
    /\ req[c].path \in Proxied =>
          Current(req'[c], now, arts'[req[c].path], upstream[req[c].path])

\* The ways a request stays current: it moves on with rows that hold, towards an answer
\* from the store while the store is fresh, or towards 404 while that is recent.
LEMMA CurrentMoved ==
    ASSUME TypeOK, Answers, NEW c \in Clients
    PROVE  /\ \A s \in Nat, row \in SUBSET Row :
                 \A pc \in {"touch", "neg", "cool", "fly", "stream", "recheck", "get", "store",
                            "wait"} :
                    \A out \in Outcomes :
                       /\ Moved(c, pc, s, out, row) /\ s <= now
                       /\ req[c].path \in Proxied => Holds(req[c].path, s, row, now)
                       => StaysCurrent(c)
           /\ \A row \in SUBSET Row :
                 \A out \in {"none", "ok", "ageBlocked", "retry", "error", "cacheReadFailed"},
                    pc \in {"finish", "done"} :
                       /\ Moved(c, pc, req[c].since, out, row)
                       /\ req[c].path \in Proxied => Holds(req[c].path, req[c].since, row, now)
                       => StaysCurrent(c)
           /\ \A pc \in {"evict", "finish"} :
                 \A row \in SUBSET Row : \A out \in Outcomes :
                       /\ Moved(c, pc, req[c].since, out, row)
                       /\ pc = "finish" => out = "stored"
                       /\ req[c].path \in Proxied =>
                             /\ Holds(req[c].path, req[c].since, row, now)
                             /\ req[c].path \in Metadata /\ MetadataTTL > 0 =>
                                   \A x \in arts'[req[c].path] : FreshSince(x, req[c].since)
                       => StaysCurrent(c)
           /\ \A pc \in {"finish", "done"} :
                 \A row \in SUBSET Row :
                       /\ Moved(c, pc, req[c].since, "notFound", row)
                       /\ req[c].path \in Proxied =>
                             /\ Holds(req[c].path, req[c].since, row, now)
                             /\ \A t \in upstream[req[c].path] : req[c].since <= t + NegativeTTL
                       => StaysCurrent(c)
<1> DEFINE p == req[c].path
           r == req[c]
<1>a. r.since <= now
  BY Zenon DEF Answers
<1>1. ASSUME NEW s, NEW row, NEW pc, NEW out, Moved(c, pc, s, out, row), s <= now,
             p \in Proxied => Holds(p, s, row, now),
             pc = "evict" \/ (out = "stored" /\ pc \in {"finish", "respond"}) =>
                (p \in Proxied /\ p \in Metadata /\ MetadataTTL > 0 =>
                    \A x \in arts'[p] : FreshSince(x, s)),
             out = "notFound" /\ pc \in {"finish", "respond", "done"} =>
                (p \in Proxied => \A t \in upstream[p] : s <= t + NegativeTTL)
      PROVE  StaysCurrent(c)
  <2>1. /\ req'[c].path = p /\ req'[c].pc = pc /\ req'[c].since = s
        /\ req'[c].out = out /\ req'[c].row = row
    BY <1>1, Zenon DEF Moved, Becomes
  <2>2. req'[c].since <= now
    BY <1>1, <2>1, Zenon
  <2>3. ASSUME p \in Proxied PROVE Current(req'[c], now, arts'[p], upstream[p])
    <3>1. p \in Dated => \A x \in req'[c].row : Aged(x, now)
      BY <1>1, <2>1, <2>3, Zenon DEF Holds
    <3>2. p \in Metadata /\ MetadataTTL > 0 => \A x \in req'[c].row : FreshSince(x, req'[c].since)
      BY <1>1, <2>1, <2>3, Zenon DEF Holds
    <3>3. p \in Metadata /\ MetadataTTL > 0 /\ HasStored(req'[c]) =>
             \A x \in arts'[p] : FreshSince(x, req'[c].since)
      BY <1>1, <2>1, <2>3, Zenon DEF HasStored
    <3>4. HasNone(req'[c]) => \A t \in upstream[p] : req'[c].since <= t + NegativeTTL
      BY <1>1, <2>1, <2>3, Zenon DEF HasNone
    <3> QED
      BY <2>1, <3>1, <3>2, <3>3, <3>4, Zenon DEF Current
  <2> QED
    BY <2>2, <2>3, Zenon DEF StaysCurrent
<1>2. \A pc \in {"touch", "neg", "cool", "fly", "stream", "recheck", "get", "store", "wait"} :
         pc # "evict" /\ pc \notin {"finish", "respond", "done"}
  BY Zenon
<1>3. \A out \in {"none", "ok", "ageBlocked", "retry", "error", "cacheReadFailed"} :
         out # "stored" /\ out # "notFound"
  BY Zenon
<1>4. \A pc \in {"finish", "done"} : pc # "evict"
  BY Zenon
<1>5. ASSUME NEW s \in Nat, NEW row \in SUBSET Row,
             NEW pc \in {"touch", "neg", "cool", "fly", "stream", "recheck", "get", "store",
                         "wait"},
             NEW out \in Outcomes, Moved(c, pc, s, out, row), s <= now,
             p \in Proxied => Holds(p, s, row, now)
      PROVE  StaysCurrent(c)
  <2>1. ~(pc = "evict" \/ (out = "stored" /\ pc \in {"finish", "respond"}))
        /\ ~(out = "notFound" /\ pc \in {"finish", "respond", "done"})
    BY <1>2, Zenon
  <2> QED
    BY <1>1, <1>5, <2>1, Zenon
<1>6. ASSUME NEW row \in SUBSET Row,
             NEW out \in {"none", "ok", "ageBlocked", "retry", "error", "cacheReadFailed"},
             NEW pc \in {"finish", "done"}, Moved(c, pc, r.since, out, row),
             p \in Proxied => Holds(p, r.since, row, now)
      PROVE  StaysCurrent(c)
  <2>1. ~(pc = "evict" \/ (out = "stored" /\ pc \in {"finish", "respond"}))
        /\ ~(out = "notFound" /\ pc \in {"finish", "respond", "done"})
    BY <1>3, <1>4, Zenon
  <2> QED
    BY <1>1, <1>6, <1>a, <2>1, Zenon
<1>7. ASSUME NEW row \in SUBSET Row, NEW out \in Outcomes,
             NEW pc \in {"evict", "finish"}, Moved(c, pc, r.since, out, row),
             pc = "finish" => out = "stored",
             p \in Proxied =>
                /\ Holds(p, r.since, row, now)
                /\ p \in Metadata /\ MetadataTTL > 0 =>
                      \A x \in arts'[p] : FreshSince(x, r.since)
      PROVE  StaysCurrent(c)
  <2>1. ~(out = "notFound" /\ pc \in {"finish", "respond", "done"})
    BY <1>7
  <2> QED
    BY <1>1, <1>7, <1>a, <2>1, Zenon
<1>8. ASSUME NEW row \in SUBSET Row,
             NEW pc \in {"finish", "done"}, Moved(c, pc, r.since, "notFound", row),
             p \in Proxied =>
                /\ Holds(p, r.since, row, now)
                /\ \A t \in upstream[p] : r.since <= t + NegativeTTL
      PROVE  StaysCurrent(c)
  <2>1. ~(pc = "evict" \/ ("notFound" = "stored" /\ pc \in {"finish", "respond"}))
    BY <1>4
  <2> QED
    BY <1>1, <1>8, <1>a, <2>1, Zenon
<1> QED
  BY <1>5, <1>6, <1>7, <1>8, Zenon

\* Rows that hold: none, the ones in hand, a fresh stored one and a fetched one.
LEMMA RowsHold ==
    ASSUME TypeOK, Answers, NEW c \in Clients, req[c].path \in Proxied
    PROVE  /\ \A s : Holds(req[c].path, s, {}, now)
           /\ \A s \in Nat : s <= req[c].since => Holds(req[c].path, s, req[c].row, now)
           /\ \A x \in arts[req[c].path] :
                 (req[c].path \in Metadata /\ MetadataTTL > 0 => FreshSince(x, req[c].since))
                 => Holds(req[c].path, req[c].since, {x}, now)
           /\ \A t \in Body(req[c].path) :
                 ~EvalAge(c, t) => Holds(req[c].path, req[c].since, {Fetched(c, t)}, now)
           /\ \A x \in arts[req[c].path] :
                 /\ Fresh(x, req[c].cfg, req[c].path)
                 /\ req[c].path \in Metadata /\ MetadataTTL > 0
                 => FreshSince(x, req[c].since)
<1> DEFINE p == req[c].path
           r == req[c]
<1>a. /\ p \in Paths /\ r.since \in 0..MaxClock /\ now \in 1..MaxClock /\ r.row \in SUBSET Row
      /\ arts \in [Paths -> SUBSET Row]
  BY Zenon DEF TypeOK, Request
<1>b. now \in Nat /\ r.since \in Nat /\ MetadataTTL \in Int
  BY <1>a, ConstantsAssumption
<1>c. r.since <= now /\ Current(r, now, arts[p], upstream[p])
  BY Zenon DEF Answers
<1>d. p \in Dated => \A x \in arts[p] : Aged(x, now)
  BY Zenon DEF Answers
<1>1. \A s : Holds(p, s, {}, now)
  BY Zenon DEF Holds
<1>2. ASSUME NEW s \in Nat, s <= r.since PROVE Holds(p, s, r.row, now)
  <2>1. p \in Metadata /\ MetadataTTL > 0 => \A x \in r.row : FreshSince(x, s)
    BY <1>a, <1>b, <1>c, <1>2, Ages, Zenon DEF Current
  <2> QED
    BY <1>c, <2>1, Zenon DEF Current, Holds
<1>3. \A x \in arts[p] : (p \in Metadata /\ MetadataTTL > 0 => FreshSince(x, r.since))
                         => Holds(p, r.since, {x}, now)
  BY <1>d, Zenon DEF Holds
<1>4. ASSUME NEW t \in Body(p), ~EvalAge(c, t) PROVE Holds(p, r.since, {Fetched(c, t)}, now)
  <2>1. /\ Fetched(c, t) \in Row /\ Fetched(c, t).cachedAt = now
        /\ p \in Dated => Aged(Fetched(c, t), now)
    BY <1>4, FetchedIsAged, Zenon
  <2>2. MetadataTTL > 0 => FreshSince(Fetched(c, t), r.since)
    BY <1>b, <1>c, <2>1, Ages, Zenon
  <2> QED
    BY <2>1, <2>2, Zenon DEF Holds
<1>5. ASSUME NEW x \in arts[p], Fresh(x, r.cfg, p), p \in Metadata, MetadataTTL > 0
      PROVE  FreshSince(x, r.since)
  <2>1. x \in Row
    BY <1>a, Zenon
  <2>2. x.cachedAt \in 0..MaxClock
    BY <2>1, Zenon DEF Row
  <2>3. now - x.cachedAt < MetadataTTL
    BY <1>b, <1>5 DEF Fresh
  <2> QED
    BY <1>b, <1>c, <2>2, <2>3 DEF FreshSince
<1> QED
  BY <1>1, <1>2, <1>3, <1>4, <1>5, Zenon

\* serve, before the flight, keeps its request current.
LEMMA LookupCurrent ==
    ASSUME TypeOK, Answers, NEW c \in Clients
    PROVE  /\ Hit(c) => StaysCurrent(c)
           /\ Touch(c) => StaysCurrent(c)
           /\ Miss(c) => StaysCurrent(c)
           /\ MetadataError(c) => StaysCurrent(c)
           /\ NegCheck(c) => StaysCurrent(c)
           /\ CoolCheck(c) => StaysCurrent(c)
<1> DEFINE p == req[c].path
           r == req[c]
<1>a. /\ p \in Paths /\ r.since \in 0..MaxClock /\ now \in 1..MaxClock /\ r.row \in SUBSET Row
      /\ arts \in [Paths -> SUBSET Row] /\ r.out \in Outcomes
      /\ {} \in SUBSET Row /\ \A x \in Row : {x} \in SUBSET Row
  BY Zenon DEF TypeOK, Request
<1>b. now \in Nat /\ r.since \in Nat /\ r.since <= r.since
  BY <1>a, ConstantsAssumption
<1>c. r.since <= now
  BY Zenon DEF Answers
<1>d. p \in Proxied => p \notin hosted
  BY Zenon DEF Proxied
<1>e. p \in Proxied => Holds(p, r.since, {}, now) /\ Holds(p, r.since, r.row, now)
  BY <1>b, RowsHold, Zenon
<1>f. \A out \in {"ok", "ageBlocked", "retry", "error"} :
         Moved(c, "done", r.since, out, {}) => StaysCurrent(c)
  BY <1>a, <1>e, CurrentMoved, Zenon
<1>g. \A pc \in {"touch", "neg", "cool", "fly", "stream", "recheck", "get", "store", "wait"} :
         Moved(c, pc, r.since, r.out, r.row) => StaysCurrent(c)
  BY <1>a, <1>b, <1>c, <1>e, CurrentMoved, ZenonT(60)
<1>1. ASSUME Hit(c) PROVE StaysCurrent(c)
  <2>1. PICK row \in arts[p] :
          /\ p \in hosted \/ Fresh(row, r.cfg, p)
          /\ \/ Moved(c, "done", r.since, "ageBlocked", {})
             \/ Moved(c, "touch", r.since, r.out, {row})
    BY <1>1, RequestSteps, Zenon DEF HitMoves
  <2>2. p \in Proxied => Holds(p, r.since, {row}, now)
    BY <1>d, <2>1, RowsHold, Zenon
  <2>3. {row} \in SUBSET Row
    BY <1>a, Zenon
  <2>4. Moved(c, "touch", r.since, r.out, {row}) => StaysCurrent(c)
    BY <1>a, <1>b, <1>c, <2>2, <2>3, CurrentMoved, Zenon
  <2> QED
    BY <1>f, <2>1, <2>4, Zenon
<1>2. ASSUME Touch(c) PROVE StaysCurrent(c)
  BY <1>2, <1>a, <1>e, RequestSteps, CurrentMoved, Zenon DEF TouchMoves
<1>3. ASSUME Miss(c) PROVE StaysCurrent(c)
  <2>1. p \in hosted /\ Moved(c, "done", r.since, "notFound", {}) => StaysCurrent(c)
    BY <1>a, <1>d, CurrentMoved, Zenon
  <2> QED
    BY <1>3, <1>g, <2>1, RequestSteps, Zenon DEF MissMoves
<1>4. MetadataError(c) => StaysCurrent(c)
  BY <1>f, RequestSteps, Zenon DEF ErrorMoves
<1>5. ASSUME NegCheck(c) PROVE StaysCurrent(c)
  <2>1. ASSUME p \in Proxied, Has(p), NEW t \in upstream[p] PROVE r.since <= t + NegativeTTL
    <3>1. neg[p] <= t + NegativeTTL
      BY <2>1, Zenon DEF Answers
    <3>2. ~(now > neg[p])
      BY <2>1, Zenon DEF Has
    <3>3. /\ neg \in [Paths -> 0..(MaxClock + NegativeTTL)]
          /\ upstream \in [Paths -> SUBSET (0..MaxClock)]
      BY Zenon DEF TypeOK
    <3>4. neg[p] \in 0..(MaxClock + NegativeTTL) /\ t \in 0..MaxClock
      BY <1>a, <2>1, <3>3, Zenon
    <3> QED
      BY <1>b, <1>c, <3>1, <3>2, <3>4, ConstantsAssumption
  <2>2. Has(p) /\ Moved(c, "done", r.since, "notFound", {}) => StaysCurrent(c)
    BY <1>a, <1>e, <2>1, CurrentMoved, Zenon
  <2> QED
    BY <1>5, <1>g, <2>2, RequestSteps, Zenon DEF NegMoves
<1>6. CoolCheck(c) => StaysCurrent(c)
  BY <1>f, <1>g, RequestSteps, Zenon DEF CoolMoves
<1> QED
  BY <1>1, <1>2, <1>3, <1>4, <1>5, <1>6, Zenon

\* flight.do, fetchAndStore, fetchAndServe and fetchPassthrough keep their request current.
LEMMA FetchCurrent ==
    ASSUME TypeOK, Answers, NEW c \in Clients
    PROVE  /\ Join(c) => StaysCurrent(c)
           /\ Recheck(c) => StaysCurrent(c)
           /\ GetNotFound(c) => StaysCurrent(c)
           /\ \A h \in RetryAfters : GetThrottled(c, h) => StaysCurrent(c)
           /\ GetFails(c) => StaysCurrent(c)
           /\ GetBody(c) => StaysCurrent(c)
           /\ StoreArtifact(c) => StaysCurrent(c)
           /\ StoreFails(c) => StaysCurrent(c)
           /\ EvictList(c) => StaysCurrent(c)
           /\ \A q \in Paths : EvictDelete(c, q) => StaysCurrent(c)
           /\ Respond(c) => StaysCurrent(c)
           /\ Passthrough(c) => StaysCurrent(c)
<1> DEFINE p == req[c].path
           r == req[c]
           Due == p \in Proxied /\ p \in Metadata /\ MetadataTTL > 0
<1>a. /\ p \in Paths /\ r.since \in 0..MaxClock /\ now \in 1..MaxClock /\ r.row \in SUBSET Row
      /\ arts \in [Paths -> SUBSET Row] /\ r.out \in Outcomes
      /\ {} \in SUBSET Row /\ \A x \in Row : {x} \in SUBSET Row
  BY Zenon DEF TypeOK, Request
<1>b. now \in Nat /\ r.since \in Nat /\ r.since <= r.since /\ 0..MaxClock \subseteq Nat
  BY <1>a, ConstantsAssumption
<1>c. r.since <= now
  BY Zenon DEF Answers
<1>d. p \in Proxied => Current(r, now, arts[p], upstream[p])
  BY Zenon DEF Answers
<1>e. p \in Proxied => Holds(p, r.since, {}, now) /\ Holds(p, r.since, r.row, now)
  BY <1>b, RowsHold, Zenon
<1>f. \A out \in {"ok", "ageBlocked", "retry", "error", "cacheReadFailed"} :
         \A pc \in {"finish", "done"} :
            /\ Moved(c, pc, r.since, out, {}) => StaysCurrent(c)
            /\ Moved(c, pc, r.since, out, r.row) => StaysCurrent(c)
  BY <1>a, <1>e, CurrentMoved, ZenonT(60)
<1>g. \A pc \in {"touch", "neg", "cool", "fly", "stream", "recheck", "get", "store", "wait"} :
         Moved(c, pc, r.since, r.out, r.row) => StaysCurrent(c)
  BY <1>a, <1>b, <1>c, <1>e, CurrentMoved, ZenonT(60)
<1>h. ASSUME Due => \A x \in arts'[p] : FreshSince(x, r.since)
      PROVE  /\ Moved(c, "finish", r.since, "stored", r.row) => StaysCurrent(c)
             /\ Moved(c, "evict", r.since, r.out, r.row) => StaysCurrent(c)
             /\ Moved(c, "evict", r.since, r.out, {}) => StaysCurrent(c)
  <2>1. "stored" \in Outcomes
    BY Zenon DEF Outcomes
  <2> QED
    BY <1>a, <1>e, <1>h, <2>1, CurrentMoved, Zenon
<1>i. r.pc = "evict" => (Due => \A x \in arts[p] : FreshSince(x, r.since))
  BY <1>d, Zenon DEF Current, HasStored
<1>1. ASSUME Join(c) PROVE StaysCurrent(c)
  <2>1. CASE calls[p] # {}
    <3>1. PICK d \in calls[p] : Moved(c, "wait", Min({r.since, req[d].since}), r.out, r.row)
      BY <1>1, <2>1, RequestSteps, Zenon DEF JoinMoves
    <3>2. calls \in [Paths -> SUBSET Clients]
      BY Zenon DEF TypeOK
    <3>3. d \in Clients
      BY <1>a, <3>2, Zenon
    <3>4. req[d].since \in 0..MaxClock
      BY <3>3, Zenon DEF TypeOK, Request
    <3> DEFINE s == Min({r.since, req[d].since})
    <3>5. s \in Nat /\ s <= r.since
      <4>1. r.since \in Int /\ req[d].since \in Int
        BY <1>b, <3>4
      <4>2. s \in {r.since, req[d].since} /\ s <= r.since
        BY <4>1, MinOfTwo, Zenon
      <4> QED
        BY <1>b, <3>4, <4>2
    <3>6. s <= now
      BY <1>b, <1>c, <3>5
    <3>7. p \in Proxied => Holds(p, s, r.row, now)
      BY <3>5, RowsHold, Zenon
    <3> QED
      BY <1>a, <3>1, <3>5, <3>6, <3>7, CurrentMoved, Zenon
  <2>2. CASE calls[p] = {}
    BY <1>1, <1>g, <2>2, RequestSteps, Zenon DEF JoinMoves
  <2> QED
    BY <2>1, <2>2, Zenon
<1>2. ASSUME Recheck(c) PROVE StaysCurrent(c)
  <2>1. CASE \E row \in arts[p] : Fresh(row, r.cfg, p)
    <3>1. PICK row \in arts[p] : Fresh(row, r.cfg, p)
      BY <2>1, Zenon
    <3>2. arts[p] = {row} /\ arts'[p] = arts[p]
      <4>1. arts[p] = {} \/ \E x \in arts[p] : arts[p] = {x}
        BY <1>a, Zenon DEF TypeOK
      <4>2. arts' = arts
        BY <1>2, Zenon DEF Recheck
      <4> QED
        BY <3>1, <4>1, <4>2
    <3>3. Due => FreshSince(row, r.since)
      BY <3>1, RowsHold, Zenon
    <3>4. Due => \A x \in arts'[p] : FreshSince(x, r.since)
      BY <3>2, <3>3, Zenon
    <3> QED
      BY <1>2, <1>h, <2>1, <3>4, RequestSteps, Zenon DEF RecheckMoves
  <2>2. CASE ~ \E row \in arts[p] : Fresh(row, r.cfg, p)
    BY <1>2, <1>g, <2>2, RequestSteps, Zenon DEF RecheckMoves
  <2> QED
    BY <2>1, <2>2, Zenon
<1>3. ASSUME GetNotFound(c) PROVE StaysCurrent(c)
  <2>1. upstream[p] = {} /\ Moved(c, "finish", r.since, "notFound", r.row)
    BY <1>3, RequestSteps, Zenon DEF GetMoves, GetNotFound
  <2> QED
    BY <1>a, <1>e, <2>1, CurrentMoved, Zenon
<1>4. \A h \in RetryAfters : GetThrottled(c, h) => StaysCurrent(c)
  BY <1>f, RequestSteps, Zenon DEF GetMoves
<1>5. GetFails(c) => StaysCurrent(c)
  BY <1>f, RequestSteps, Zenon DEF GetMoves
<1>6. ASSUME GetBody(c) PROVE StaysCurrent(c)
  <2>1. PICK t \in Body(p) :
          \/ Moved(c, "finish", r.since, "ageBlocked", r.row)
          \/ /\ ~EvalAge(c, t)
             /\ Moved(c, "store", r.since, r.out, {Fetched(c, t)})
    BY <1>6, RequestSteps, Zenon DEF BodyMoves
  <2>2. ASSUME ~EvalAge(c, t), Moved(c, "store", r.since, r.out, {Fetched(c, t)})
        PROVE  StaysCurrent(c)
    <3>1. {Fetched(c, t)} \in SUBSET Row
      BY <1>a, <2>2, FetchedIsAged, Zenon
    <3>2. p \in Proxied => Holds(p, r.since, {Fetched(c, t)}, now)
      BY <2>2, RowsHold, Zenon
    <3> QED
      BY <1>a, <1>b, <1>c, <2>2, <3>1, <3>2, CurrentMoved, Zenon
  <2> QED
    BY <1>f, <2>1, <2>2, Zenon
<1>7. ASSUME StoreArtifact(c) PROVE StaysCurrent(c)
  <2>1. PICK row \in r.row :
          arts' = [arts EXCEPT ![p] = {[row EXCEPT !.cachedAt = now, !.accessed = now]}]
    BY <1>7, Zenon DEF StoreArtifact
  <2> DEFINE x == [row EXCEPT !.cachedAt = now, !.accessed = now]
  <2>2. row \in Row /\ arts'[p] = {x}
    BY <1>a, <2>1, Zenon
  <2>3. now \in 0..MaxClock
    BY <1>a, <1>b, ConstantsAssumption
  <2>4. x \in Row /\ x.cachedAt = now
    BY <2>2, <2>3, Zenon DEF Row
  <2>5. Due => FreshSince(x, r.since)
    BY <1>b, <1>c, <2>4, Ages, Zenon
  <2>6. Due => \A y \in arts'[p] : FreshSince(y, r.since)
    BY <2>2, <2>5, Zenon
  <2> QED
    BY <1>7, <1>h, <2>6, RequestSteps, Zenon DEF StoreMoves
<1>8. StoreFails(c) => StaysCurrent(c)
  BY <1>f, RequestSteps, Zenon DEF StoreMoves
<1>9. ASSUME EvictList(c) PROVE StaysCurrent(c)
  <2>1. r.pc = "evict" /\ arts' = arts
    BY <1>9, Zenon DEF EvictList
  <2>2. Due => \A x \in arts'[p] : FreshSince(x, r.since)
    BY <1>i, <2>1, Zenon
  <2> QED
    BY <1>9, <1>h, <2>2, RequestSteps, Zenon DEF EvictMoves
<1>10. ASSUME NEW q \in Paths, EvictDelete(c, q) PROVE StaysCurrent(c)
  <2>1. r.pc = "evict" /\ arts' = [arts EXCEPT ![q] = {}]
    BY <1>10, Zenon DEF EvictDelete
  <2>2. \A x \in arts'[p] : x \in arts[p]
    BY <1>a, <2>1
  <2>3. Due => \A x \in arts'[p] : FreshSince(x, r.since)
    BY <1>i, <2>1, <2>2, Zenon
  <2> QED
    BY <1>10, <1>h, <2>3, RequestSteps, Zenon DEF EvictMoves
<1>11. ASSUME Respond(c) PROVE StaysCurrent(c)
  <2>1. r.pc = "respond"
    BY <1>11, Zenon DEF Respond
  <2>2. ASSUME r.out # "stored" PROVE StaysCurrent(c)
    <3>1. Moved(c, "done", r.since, r.out, {})
      BY <1>11, <2>2, RequestSteps, Zenon DEF RespondMoves
    <3>2. CASE r.out = "notFound"
      <4>1. p \in Proxied => \A t \in upstream[p] : r.since <= t + NegativeTTL
        BY <1>d, <2>1, <3>2, Zenon DEF Current, HasNone
      <4> QED
        BY <1>a, <1>e, <3>1, <3>2, <4>1, CurrentMoved, Zenon
    <3>3. CASE r.out # "notFound"
      <4>1. r.out \in {"none", "ok", "ageBlocked", "retry", "error", "cacheReadFailed"}
        BY <1>a, <2>2, <3>3, Zenon DEF Outcomes
      <4> QED
        BY <1>a, <1>e, <3>1, <4>1, CurrentMoved, Zenon
    <3> QED
      BY <3>2, <3>3, Zenon
  <2>3. ASSUME r.out = "stored" PROVE StaysCurrent(c)
    <3>1. \/ Moved(c, "done", r.since, "cacheReadFailed", {})
          \/ \E row \in arts[p] : Moved(c, "done", r.since, "ok", {row})
      BY <1>11, <2>3, RequestSteps, Zenon DEF RespondMoves
    <3>2. Due => \A x \in arts[p] : FreshSince(x, r.since)
      BY <1>d, <2>1, <2>3, Zenon DEF Current, HasStored
    <3>3. ASSUME NEW row \in arts[p], Moved(c, "done", r.since, "ok", {row}) PROVE StaysCurrent(c)
      <4>1. p \in Proxied => Holds(p, r.since, {row}, now)
        BY <3>2, RowsHold, Zenon
      <4>2. {row} \in SUBSET Row
        BY <1>a, Zenon
      <4> QED
        BY <3>3, <4>1, <4>2, CurrentMoved, Zenon
    <3> QED
      BY <1>f, <3>1, <3>3, Zenon
  <2> QED
    BY <2>2, <2>3, Zenon
<1>12. ASSUME Passthrough(c) PROVE StaysCurrent(c)
  <2>1. \/ upstream[p] = {} /\ Moved(c, "done", r.since, "notFound", {})
        \/ \E out \in {"retry", "error", "ageBlocked"} : Moved(c, "done", r.since, out, {})
        \/ \E t \in Body(p) : ~EvalAge(c, t) /\ Moved(c, "done", r.since, "ok", {Fetched(c, t)})
    BY <1>12, RequestSteps, Zenon DEF StreamMoves
  <2>2. upstream[p] = {} /\ Moved(c, "done", r.since, "notFound", {}) => StaysCurrent(c)
    BY <1>a, <1>e, CurrentMoved, Zenon
  <2>3. ASSUME NEW t \in Body(p), ~EvalAge(c, t), Moved(c, "done", r.since, "ok", {Fetched(c, t)})
        PROVE  StaysCurrent(c)
    <3>1. {Fetched(c, t)} \in SUBSET Row
      BY <1>a, <2>3, FetchedIsAged, Zenon
    <3>2. p \in Proxied => Holds(p, r.since, {Fetched(c, t)}, now)
      BY <2>3, RowsHold, Zenon
    <3> QED
      BY <2>3, <3>1, <3>2, CurrentMoved, Zenon
  <2> QED
    BY <1>f, <2>1, <2>2, <2>3, Zenon
<1> QED
  BY <1>1, <1>2, <1>3, <1>4, <1>5, <1>6, <1>7, <1>8, <1>9, <1>10, <1>11, <1>12, Zenon

\* A step of a request changes nothing around it, nor another request, Finish's
\* waiters aside.
LEMMA StepFrame ==
    ASSUME TypeOK, NEW c \in Clients, Step(c)
    PROVE  /\ UNCHANGED env
           /\ Finish(c) \/ \A d \in Clients : d # c => req'[d] = req[d]
<1>1. UNCHANGED env
  BY Zenon DEF Step, Hit, Touch, Miss, MetadataError, NegCheck, CoolCheck, Join, Recheck,
     GetNotFound, GetFails, GetBody, GetThrottled, StoreArtifact, StoreFails, EvictList,
     EvictDelete, Finish, Respond, Passthrough
<1>2. ASSUME NEW pc, NEW since, NEW out, NEW row, Moved(c, pc, since, out, row)
      PROVE  \A d \in Clients : d # c => req'[d] = req[d]
  BY <1>2, Zenon DEF Moved
<1>3. Join(c) => \E pc, since, out, row : Moved(c, pc, since, out, row)
  BY RequestSteps, Zenon DEF JoinMoves
<1>4. \A S : Within(c, S) => \E pc, since, out, row : Moved(c, pc, since, out, row)
  BY Zenon DEF Within
<1> QED
  BY <1>1, <1>2, <1>3, <1>4, StepKinds, Zenon

\* The call's outcome is current for every request it was shared with.
LEMMA FinishCurrent ==
    ASSUME TypeOK, Flight, Answers, NEW c \in Clients, Finish(c), NEW d \in Clients
    PROVE  /\ req'[d].since <= now
           /\ req[d].path \in Proxied => Current(req'[d], now, arts[req[d].path],
                                                upstream[req[d].path])
           /\ req'[d].path = req[d].path
<1> DEFINE p == req[c].path
<1>a. /\ req[c].pc = "finish" /\ p \in Paths /\ req[c].since \in 0..MaxClock
      /\ req[d].since \in 0..MaxClock /\ arts \in [Paths -> SUBSET Row]
      /\ upstream \in [Paths -> SUBSET (0..MaxClock)]
  BY Zenon DEF Finish, TypeOK, Request
<1>b. /\ req[d].since <= now
      /\ req[d].path \in Proxied => Current(req[d], now, arts[req[d].path], upstream[req[d].path])
      /\ p \in Proxied => Current(req[c], now, arts[p], upstream[p])
  BY Zenon DEF Answers
<1>1. CASE ~(d = c \/ (req[d].pc = "wait" /\ req[d].path = p))
  BY <1>1, <1>b, FinishMoves, Zenon
<1>2. CASE d = c \/ (req[d].pc = "wait" /\ req[d].path = p)
  <2>1. Becomes(req'[d], req[d], "respond", req[d].since, req[c].out, req[d].row)
    BY <1>2, FinishMoves, Zenon
  <2>2. /\ req'[d].path = p /\ req[d].path = p /\ req'[d].since = req[d].since
        /\ req'[d].out = req[c].out /\ req'[d].row = req[d].row /\ req'[d].pc = "respond"
    BY <1>2, <2>1, Zenon DEF Becomes
  <2>3. c \in calls[p]
    BY <1>a, Places DEF Flight
  <2>4. req[d].since <= req[c].since
    <3>1. CASE d = c
      BY <1>a, <3>1, ConstantsAssumption
    <3>2. CASE req[d].pc = "wait" /\ req[d].path = p
      <4>1. PICK e \in calls[p] : req[d].since <= req[e].since
        BY <3>2, Zenon DEF Flight
      <4>2. \A x, y \in calls[p] : x = y
        BY <1>a, Zenon DEF Flight
      <4> QED
        BY <2>3, <4>1, <4>2, Zenon
    <3> QED
      BY <1>2, <3>1, <3>2, Zenon
  <2>5. req[d].since \in Nat /\ req[c].since \in Nat /\ NegativeTTL \in Nat
    BY <1>a, ConstantsAssumption
  <2>6. ASSUME p \in Proxied PROVE Current(req'[d], now, arts[p], upstream[p])
    <3>1. ASSUME p \in Metadata, MetadataTTL > 0, HasStored(req'[d])
          PROVE  \A x \in arts[p] : FreshSince(x, req'[d].since)
      <4>1. req'[d].out = "stored"
        BY <2>2, <3>1, Zenon DEF HasStored
      <4>2. HasStored(req[c])
        BY <1>a, <2>2, <4>1, Zenon DEF HasStored
      <4>3. \A x \in arts[p] : FreshSince(x, req[c].since) /\ x \in Row
        BY <1>a, <1>b, <2>6, <3>1, <4>2, Zenon DEF Current
      <4> QED
        BY <2>2, <2>4, <2>5, <4>3, Ages, Zenon
    <3>2. ASSUME HasNone(req'[d]), NEW t \in upstream[p] PROVE req'[d].since <= t + NegativeTTL
      <4>1. HasNone(req[c])
        BY <1>a, <2>2, <3>2, Zenon DEF HasNone
      <4>2. req[c].since <= t + NegativeTTL
        BY <1>b, <2>6, <3>2, <4>1, Zenon DEF Current
      <4>3. t \in 0..MaxClock
        BY <1>a, <3>2, Zenon
      <4> QED
        BY <2>2, <2>4, <2>5, <4>2, <4>3
    <3>3. Current(req[d], now, arts[p], upstream[p])
      BY <1>b, <2>2, <2>6, Zenon
    <3>4. /\ p \in Dated => \A x \in req'[d].row : Aged(x, now)
          /\ p \in Metadata /\ MetadataTTL > 0 =>
                \A x \in req'[d].row : FreshSince(x, req'[d].since)
      BY <2>2, <3>3, Zenon DEF Current
    <3> QED
      BY <2>2, <3>1, <3>2, <3>4, Zenon DEF Current
  <2> QED
    BY <1>b, <2>2, <2>6, Zenon
<1> QED
  BY <1>1, <1>2, Zenon

\* A step of a request keeps its own request current.
LEMMA StepCurrent ==
    ASSUME TypeOK, Answers, NEW c \in Clients, Step(c)
    PROVE  Finish(c) \/ StaysCurrent(c)
BY LookupCurrent, FetchCurrent, Zenon DEF Step

\* Everything known of the answers is kept.
LEMMA AnswersStep ==
    ASSUME TypeOK, Flight, Answers, [Next]_vars
    PROVE  Answers'
<1> DEFINE Good(d) == /\ req'[d].since <= now'
                      /\ req'[d].path \in Proxied =>
                            Current(req'[d], now', arts'[req'[d].path], upstream'[req'[d].path])
<1>a. /\ now \in Nat /\ now' \in Nat /\ now <= now'
      /\ \A d \in Clients : req[d] \in Request /\ req[d].since \in Nat /\ req[d].path \in Paths
  <2>1. now \in 1..MaxClock /\ now' \in 1..MaxClock /\ (now' = now \/ now' = now + 1)
    BY EnvSteps, Zenon DEF TypeOK
  <2>2. \A d \in Clients : /\ req[d] \in Request /\ req[d].since \in 0..MaxClock
                           /\ req[d].path \in Paths
    BY Zenon DEF TypeOK, Request
  <2> QED
    BY <2>1, <2>2, ConstantsAssumption
<1>b. \A d \in Clients :
         /\ req[d].since <= now
         /\ req[d].path \in Proxied =>
               Current(req[d], now, arts[req[d].path], upstream[req[d].path])
  BY Zenon DEF Answers
<1>1. ASSUME NEW d \in Clients, req'[d] = req[d] PROVE Good(d)
  <2>1. req'[d].since <= now'
    BY <1>1, <1>a, <1>b
  <2>2. req[d].path \in Proxied =>
           Current(req[d], now', arts'[req[d].path], upstream'[req[d].path])
    BY <1>a, <1>b, CurrentKept, Zenon
  <2> QED
    BY <1>1, <2>1, <2>2, Zenon
<1>2. ASSUME NEW c \in Clients, Step(c) PROVE \A d \in Clients : Good(d)
  <2>1. now' = now /\ upstream' = upstream
    BY <1>2, StepFrame, Zenon DEF env
  <2>2. CASE Finish(c)
    <3>1. arts' = arts
      BY <2>2, Zenon DEF Finish
    <3> QED
      BY <2>1, <2>2, <3>1, FinishCurrent, Zenon
  <2>3. CASE ~Finish(c)
    <3>1. StaysCurrent(c) /\ req'[c].path = req[c].path
      <4>1. \A pc, since, out, row : Moved(c, pc, since, out, row) => req'[c].path = req[c].path
        BY Zenon DEF Moved, Becomes
      <4>2. Join(c) => \E pc, since, out, row : Moved(c, pc, since, out, row)
        BY RequestSteps, Zenon DEF JoinMoves
      <4>3. \A S : Within(c, S) => \E pc, since, out, row : Moved(c, pc, since, out, row)
        BY Zenon DEF Within
      <4> QED
        BY <1>2, <2>3, <4>1, <4>2, <4>3, StepCurrent, StepKinds, Zenon
    <3>2. Good(c)
      BY <2>1, <3>1, Zenon DEF StaysCurrent
    <3>3. \A d \in Clients : d # c => req'[d] = req[d]
      BY <1>2, <2>3, StepFrame, Zenon
    <3> QED
      BY <1>1, <3>2, <3>3, Zenon
  <2> QED
    BY <2>2, <2>3, Zenon
<1>3. ASSUME NEW c \in Clients, NEW p \in Paths, Begin(c, p) PROVE \A d \in Clients : Good(d)
  <2>1. /\ \A d \in Clients : d # c => req'[d] = req[d]
        /\ req'[c].pc = "lookup" /\ req'[c].since = now /\ req'[c].row = {}
    BY <1>3, BeginMoves, Zenon
  <2>2. ~HasStored(req'[c]) /\ ~HasNone(req'[c])
    BY <2>1, Zenon DEF HasStored, HasNone
  <2>3. Good(c)
    BY <1>a, <2>1, <2>2, Zenon DEF Current
  <2> QED
    BY <1>1, <2>1, <2>3, Zenon
<1>4. \A d \in Clients : Good(d)
  BY <1>1, <1>2, <1>3, NextKinds, Zenon
<1> QED
  BY <1>4, TablesStep, Zenon DEF Answers

-----------------------------------------------------------------------------
(* The cooldown.                                                            *)

\* From where a step of client c can bring its request to a place.
Enters(c) ==
    /\ req'[c].pc \in {"lookup", "neg", "cool"} => req[c].pc \in {"lookup", "neg"}
    /\ req'[c].pc \in {"fly", "stream"} => req[c].pc = "cool" /\ ~Remaining(req[c].path)
    /\ req'[c].pc = "recheck" => req[c].pc = "fly"
    /\ req'[c].pc = "get" => req[c].pc = "recheck"

\* The way to the upstream leads past the cooldown.
LEMMA StepEnters ==
    ASSUME TypeOK, NEW c \in Clients, Step(c)
    PROVE  Enters(c) /\ req'[c].path = req[c].path
<1> DEFINE r == req[c]
<1>a. \A pc, since, out, row :
         Moved(c, pc, since, out, row) => req'[c].pc = pc /\ req'[c].path = req[c].path
  BY Zenon DEF Moved, Becomes
<1>b. \A pc \in {"done", "touch", "wait", "store", "evict", "finish", "respond"} :
         req'[c].pc = pc => Enters(c)
  BY DEF Enters
<1>c. ASSUME NEW pc \in {"done", "touch", "wait", "store", "evict", "finish", "respond"},
             NEW since, NEW out, NEW row, Moved(c, pc, since, out, row)
      PROVE  Enters(c) /\ req'[c].path = req[c].path
  BY <1>a, <1>b, <1>c, Zenon
<1>1. Hit(c) \/ Touch(c) \/ MetadataError(c) => Enters(c) /\ req'[c].path = req[c].path
  BY <1>c, RequestSteps, Zenon DEF HitMoves, TouchMoves, ErrorMoves
<1>2. ASSUME Miss(c) PROVE Enters(c) /\ req'[c].path = req[c].path
  <2>1. r.pc = "lookup"
    BY <1>2, Zenon DEF Miss
  <2>2. \/ Moved(c, "done", r.since, "notFound", {})
        \/ Moved(c, "neg", r.since, r.out, r.row)
    BY <1>2, RequestSteps, Zenon DEF MissMoves
  <2>3. req'[c].pc = "neg" => Enters(c)
    BY <2>1 DEF Enters
  <2> QED
    BY <1>a, <1>c, <2>2, <2>3, Zenon
<1>3. ASSUME NegCheck(c) PROVE Enters(c) /\ req'[c].path = req[c].path
  <2>1. r.pc = "neg"
    BY <1>3, Zenon DEF NegCheck
  <2>2. \/ Moved(c, "done", r.since, "notFound", {})
        \/ Moved(c, "cool", r.since, r.out, r.row)
    BY <1>3, RequestSteps, Zenon DEF NegMoves
  <2>3. req'[c].pc = "cool" => Enters(c)
    BY <2>1 DEF Enters
  <2> QED
    BY <1>a, <1>c, <2>2, <2>3, Zenon
<1>4. ASSUME CoolCheck(c) PROVE Enters(c) /\ req'[c].path = req[c].path
  <2>1. r.pc = "cool"
    BY <1>4, Zenon DEF CoolCheck
  <2>2. \/ Moved(c, "done", r.since, "retry", {})
        \/ /\ ~Remaining(r.path)
           /\ \E pc \in {"fly", "stream"} : Moved(c, pc, r.since, r.out, r.row)
    BY <1>4, RequestSteps, Zenon DEF CoolMoves
  <2>3. ~Remaining(r.path) /\ req'[c].pc \in {"fly", "stream"} => Enters(c)
    BY <2>1 DEF Enters
  <2> QED
    BY <1>a, <1>c, <2>2, <2>3, Zenon
<1>5. ASSUME Join(c) PROVE Enters(c) /\ req'[c].path = req[c].path
  <2>1. r.pc = "fly"
    BY <1>5, Zenon DEF Join
  <2>2. \E since, out, row : \/ Moved(c, "wait", since, out, row)
                             \/ Moved(c, "recheck", since, out, row)
    BY <1>5, RequestSteps, Zenon DEF JoinMoves
  <2>3. req'[c].pc = "recheck" => Enters(c)
    BY <2>1 DEF Enters
  <2> QED
    BY <1>a, <1>c, <2>2, <2>3, Zenon
<1>6. ASSUME Recheck(c) PROVE Enters(c) /\ req'[c].path = req[c].path
  <2>1. r.pc = "recheck"
    BY <1>6, Zenon DEF Recheck
  <2>2. \/ Moved(c, "finish", r.since, "stored", r.row)
        \/ Moved(c, "get", r.since, r.out, r.row)
    BY <1>6, RequestSteps, Zenon DEF RecheckMoves
  <2>3. req'[c].pc = "get" => Enters(c)
    BY <2>1 DEF Enters
  <2> QED
    BY <1>a, <1>c, <2>2, <2>3, Zenon
<1>7. GetNotFound(c) \/ GetFails(c) \/ (\E h \in RetryAfters : GetThrottled(c, h))
      => Enters(c) /\ req'[c].path = req[c].path
  BY <1>c, RequestSteps, Zenon DEF GetMoves
<1>8. GetBody(c) => Enters(c) /\ req'[c].path = req[c].path
  BY <1>c, RequestSteps, Zenon DEF BodyMoves
<1>9. StoreArtifact(c) \/ StoreFails(c) => Enters(c) /\ req'[c].path = req[c].path
  BY <1>c, RequestSteps, Zenon DEF StoreMoves
<1>10. EvictList(c) \/ (\E p \in Paths : EvictDelete(c, p))
       => Enters(c) /\ req'[c].path = req[c].path
  BY <1>c, RequestSteps, Zenon DEF EvictMoves
<1>11. Respond(c) => Enters(c) /\ req'[c].path = req[c].path
  BY <1>c, RequestSteps, Zenon DEF RespondMoves
<1>12. Passthrough(c) => Enters(c) /\ req'[c].path = req[c].path
  BY <1>c, RequestSteps, Zenon DEF StreamMoves
<1>13. Finish(c) => Enters(c) /\ req'[c].path = req[c].path
  BY <1>b, FinishMoves, Zenon DEF Becomes
<1> QED
  BY <1>1, <1>2, <1>3, <1>4, <1>5, <1>6, <1>7, <1>8, <1>9, <1>10, <1>11, <1>12, <1>13, Zenon
     DEF Step

\* Where another client's step can bring a request: nowhere, or out of waiting.
LEMMA OthersEnter ==
    ASSUME TypeOK, NEW c \in Clients, NEW d \in Clients, c # d,
           Step(c) \/ \E p \in Paths : Begin(c, p)
    PROVE  req'[d] = req[d] \/ req'[d].pc = "respond"
<1>1. Finish(c) => req'[d] = req[d] \/ req'[d].pc = "respond"
  BY FinishMoves, Zenon DEF Becomes
<1> QED
  BY <1>1, StepFrame, BeginMoves, Zenon

\* A request that may ask the upstream began in no cooldown, or outlived it.
LEMMA ShieldStep ==
    ASSUME TypeOK, Shielded, [Next]_vars
    PROVE  Shielded'
<1>a. /\ now \in Nat /\ now' \in Nat /\ now <= now'
      /\ \A p \in Paths : cool[p] \in Nat /\ cool'[p] \in Nat
      /\ \A d \in Clients : shield[d] \in Nat /\ shield'[d] \in Nat /\ req[d].path \in Paths
  <2>1. now \in 1..MaxClock /\ now' \in 1..MaxClock /\ (now' = now \/ now' = now + 1)
    BY EnvSteps, Zenon DEF TypeOK
  <2>2. /\ cool \in [Paths -> 0..(MaxClock + MaxCooldown)]
        /\ shield \in [Clients -> 0..(MaxClock + MaxCooldown)]
        /\ \A d \in Clients : req[d].path \in Paths
    BY Zenon DEF TypeOK, Request
  <2>3. /\ cool' \in [Paths -> 0..(MaxClock + MaxCooldown)]
        /\ shield' \in [Clients -> 0..(MaxClock + MaxCooldown)]
    BY CoolSteps, Zenon
  <2>4. 0..(MaxClock + MaxCooldown) \subseteq Nat
    BY ConstantsAssumption
  <2>5. now \in Nat /\ now' \in Nat /\ now <= now'
    BY <2>1, ConstantsAssumption
  <2> QED
    BY <2>2, <2>3, <2>4, <2>5
<1>b. ASSUME NEW d \in Clients
      PROVE  /\ req[d].pc \in {"lookup", "neg", "cool"} =>
                   shield[d] <= now \/ shield[d] <= cool[req[d].path]
             /\ req[d].pc \in {"fly", "recheck"} => shield[d] <= now
  BY Zenon DEF Shielded
<1> DEFINE Before(d) == shield'[d] <= now' \/ shield'[d] <= cool'[req[d].path]
           Past(d) == shield'[d] <= now'
<1>1. ASSUME NEW d \in Clients, shield'[d] <= shield[d],
             shield[d] <= now \/ shield[d] <= cool[req[d].path]
      PROVE  Before(d)
  <2>1. \/ cool'[req[d].path] = cool[req[d].path]
        \/ cool'[req[d].path] = 0 /\ cool[req[d].path] <= now
        \/ shield'[d] <= cool'[req[d].path]
    BY <1>a, CoolSteps, Zenon
  <2> QED
    BY <1>a, <1>1, <2>1
<1>2. ASSUME NEW d \in Clients, shield'[d] <= shield[d], shield[d] <= now PROVE Past(d)
  BY <1>a, <1>2
<1>3. ASSUME NEW d \in Clients, shield'[d] <= shield[d], req'[d] = req[d]
      PROVE  /\ req'[d].pc \in {"lookup", "neg", "cool"} =>
                   shield'[d] <= now' \/ shield'[d] <= cool'[req'[d].path]
             /\ req'[d].pc \in {"fly", "recheck"} => shield'[d] <= now'
  BY <1>1, <1>2, <1>3, <1>b, Zenon
<1> DEFINE Good(d) == /\ req'[d].pc \in {"lookup", "neg", "cool"} =>
                            shield'[d] <= now' \/ shield'[d] <= cool'[req'[d].path]
                      /\ req'[d].pc \in {"fly", "recheck"} => shield'[d] <= now'
<1>4. ASSUME NEW d \in Clients, shield'[d] <= shield[d], Step(d) PROVE Good(d)
  <2>1. Enters(d) /\ req'[d].path = req[d].path
    BY <1>4, StepEnters, Zenon
  <2>2. req'[d].pc \in {"lookup", "neg", "cool"} => Before(d)
    BY <1>1, <1>4, <1>b, <2>1, Zenon DEF Enters
  <2>3. ASSUME req'[d].pc = "fly" PROVE Past(d)
    <3>1. req[d].pc = "cool" /\ ~Remaining(req[d].path)
      BY <2>1, <2>3, Zenon DEF Enters
    <3>2. shield[d] <= now \/ shield[d] <= cool[req[d].path]
      BY <1>b, <3>1, Zenon
    <3>3. cool[req[d].path] <= now
      BY <1>a, <3>1 DEF Remaining
    <3>4. shield[d] <= now
      BY <1>a, <3>2, <3>3
    <3> QED
      BY <1>2, <1>4, <3>4, Zenon
  <2>4. req'[d].pc = "recheck" => Past(d)
    BY <1>2, <1>4, <1>b, <2>1, Zenon DEF Enters
  <2> QED
    BY <2>1, <2>2, <2>3, <2>4, Zenon
<1>5. ASSUME NEW d \in Clients, NEW p \in Paths, Begin(d, p) PROVE Good(d)
  <2>1. req'[d].pc = "lookup" /\ req'[d].path = p
    BY <1>5, BeginMoves, Zenon
  <2>2. shield'[d] = cool[p] /\ cool' = cool
    BY <1>5, Zenon DEF Begin, TypeOK
  <2>3. shield'[d] <= cool'[p]
    BY <1>a, <2>2
  <2> QED
    BY <2>1, <2>3
<1>6. ASSUME NEW d \in Clients PROVE Good(d)
  <2>1. CASE \E p \in Paths : Begin(d, p)
    BY <1>5, <2>1, Zenon
  <2>2. CASE ~ \E p \in Paths : Begin(d, p)
    <3>1. shield'[d] <= shield[d]
      BY <2>2, CoolSteps, Zenon
    <3>2. Step(d) \/ req'[d] = req[d] \/ req'[d].pc = "respond"
      BY <2>2, NextKinds, OthersEnter, Zenon
    <3>3. req'[d].pc = "respond" => Good(d)
      OBVIOUS
    <3> QED
      BY <1>3, <1>4, <3>1, <3>2, <3>3, Zenon
  <2> QED
    BY <2>1, <2>2, Zenon
<1> QED
  BY <1>6, Zenon DEF Shielded

\* What asks the upstream after this step is past the cooldown it began in.
LEMMA ShieldHolds ==
    ASSUME TypeOK, Shielded, [Next]_vars, NEW c \in Clients,
           req[c].pc \notin {"get", "stream"}, req'[c].pc \in {"get", "stream"}
    PROVE  shield[c] <= now
<1>1. Step(c)
  <2>1. \A p \in Paths : ~Begin(c, p)
    BY BeginMoves
  <2>2. req'[c] # req[c] /\ req'[c].pc # "respond"
    OBVIOUS
  <2> QED
    BY <2>1, <2>2, NextKinds, OthersEnter, Zenon
<1>2. \/ req[c].pc = "recheck"
      \/ req[c].pc = "cool" /\ ~Remaining(req[c].path)
  BY <1>1, StepEnters, Zenon DEF Enters
<1>3. CASE req[c].pc = "recheck"
  BY <1>3, Zenon DEF Shielded
<1>4. CASE req[c].pc = "cool" /\ ~Remaining(req[c].path)
  <2>1. shield[c] <= now \/ shield[c] <= cool[req[c].path]
    BY <1>4, Zenon DEF Shielded
  <2>2. /\ now \in 1..MaxClock /\ cool[req[c].path] \in 0..(MaxClock + MaxCooldown)
        /\ shield[c] \in 0..(MaxClock + MaxCooldown)
    <3>1. /\ now \in 1..MaxClock /\ cool \in [Paths -> 0..(MaxClock + MaxCooldown)]
          /\ shield \in [Clients -> 0..(MaxClock + MaxCooldown)] /\ req[c].path \in Paths
      BY Zenon DEF TypeOK, Request
    <3> QED
      BY <3>1, Zenon
  <2>3. cool[req[c].path] <= now
    BY <1>4, <2>2, ConstantsAssumption DEF Remaining
  <2> QED
    BY <2>1, <2>2, <2>3, ConstantsAssumption
<1> QED
  BY <1>2, <1>3, <1>4, Zenon

-----------------------------------------------------------------------------
(* The theorems.                                                            *)

\* The first state: nothing stored, nobody waiting.
LEMMA InitHolds ==
    ASSUME Init
    PROVE  TypeOK /\ Flight /\ Answers /\ Shielded
<1> DEFINE p0 == CHOOSE p \in Paths : TRUE
           r0 == Start("idle", p0)
<1>a. p0 \in Paths
  BY ConstantsAssumption, Zenon
<1>b. /\ MaxClock \in Nat /\ NegativeTTL \in Nat /\ MaxCooldown \in Nat /\ EvictRounds \in Nat
      /\ MaxUpdates \in Nat /\ MaxRequests \in Nat /\ 0 \in 0..MaxClock /\ 1 \in 0..MaxClock
      /\ 1 \in 1..MaxClock /\ 0 \in 0..EvictRounds /\ 0 \in 0..MaxUpdates /\ 0 \in 0..MaxRequests
      /\ 0 \in 0..(MaxClock + NegativeTTL) /\ 0 \in 0..(MaxClock + MaxCooldown)
  BY ConstantsAssumption
<1>c. now = 1 /\ cfg \in Configs
  BY Zenon DEF Init
<1>d. /\ r0 \in Request /\ r0.pc = "idle" /\ r0.row = {} /\ r0.since = 1
  <2>1. "idle" \in Pcs /\ "none" \in Outcomes
    BY Zenon DEF Pcs, Outcomes
  <2> QED
    BY <1>a, <1>b, <1>c, <2>1, Zenon DEF Start, Request
<1>e. \A c \in Clients : req[c] = r0
  BY Zenon DEF Init
<1>f. \A p \in Paths : arts[p] = {} /\ calls[p] = {} /\ neg[p] = 0 /\ cool[p] = 0
  BY Zenon DEF Init
<1>g. \A p \in Paths : upstream[p] \in {{}, {1}}
  BY Zenon DEF Init
<1>1. TypeOK
  <2>1. \A p \in Paths : arts[p] = {}
    BY <1>f, Zenon
  <2>2. upstream \in [Paths -> SUBSET (0..MaxClock)]
    <3>1. {{}, {1}} \subseteq SUBSET (0..MaxClock)
      BY <1>b
    <3>2. upstream \in [Paths -> {{}, {1}}]
      BY Zenon DEF Init
    <3> QED
      BY <3>1, <3>2
  <2>3. /\ arts \in [Paths -> SUBSET Row] /\ calls \in [Paths -> SUBSET Clients]
        /\ neg \in [Paths -> 0..(MaxClock + NegativeTTL)]
        /\ cool \in [Paths -> 0..(MaxClock + MaxCooldown)]
        /\ shield \in [Clients -> 0..(MaxClock + MaxCooldown)]
    BY <1>b, Zenon DEF Init
  <2>4. req \in [Clients -> Request]
    BY <1>d, Zenon DEF Init
  <2>5. /\ now \in 1..MaxClock /\ hosted \in SUBSET Paths /\ cfg \in Configs
        /\ updates \in 0..MaxUpdates /\ requests \in 0..MaxRequests /\ reap \in SUBSET Paths
    BY <1>b, Zenon DEF Init
  <2> QED
    BY <1>f, <2>1, <2>2, <2>3, <2>4, <2>5, Zenon DEF TypeOK
<1>2. Flight
  <2>1. "idle" \notin Calling /\ "idle" # "wait"
    BY Places, Zenon
  <2> QED
    BY <1>d, <1>e, <1>f, <2>1, Zenon DEF Flight
<1>3. Answers
  <2>1. ~HasStored(r0) /\ ~HasNone(r0)
    BY <1>d, Zenon DEF HasStored, HasNone
  <2>2. \A A, U : Current(r0, now, A, U)
    BY <1>d, <2>1, Zenon DEF Current
  <2>3. \A p \in Paths : /\ \A t \in upstream[p] : t <= now /\ neg[p] <= t + NegativeTTL
                         /\ neg[p] <= now + NegativeTTL
    BY <1>b, <1>c, <1>f, <1>g
  <2>4. \A c \in Clients : req[c].since <= now
    BY <1>c, <1>d, <1>e
  <2>5. Proxied \subseteq Paths
    BY Zenon DEF Proxied
  <2> QED
    BY <1>e, <1>f, <2>2, <2>3, <2>4, <2>5, Zenon DEF Answers
<1>4. Shielded
  BY <1>d, <1>e, Zenon DEF Shielded
<1> QED
  BY <1>1, <1>2, <1>3, <1>4, Zenon

\* Everything known holds in every reachable state of the pull-through cache.
THEOREM CacheInvariant == Spec => [](TypeOK /\ Flight /\ Answers /\ Shielded)
<1>1. Init => TypeOK /\ Flight /\ Answers /\ Shielded
  BY InitHolds
<1>2. TypeOK /\ Flight /\ Answers /\ Shielded /\ [Next]_vars
      => (TypeOK /\ Flight /\ Answers /\ Shielded)'
  BY TypeStep, FlightStep, AnswersStep, ShieldStep, Zenon
<1> QED
  BY <1>1, <1>2, PTL DEF Spec

\* flight: whatever the clients, requests for one path have at most one exchange
\* with the upstream between them, and nobody waits for a call that is over.
THEOREM FlightIsSound == Spec => []FlightSound
<1>1. ASSUME TypeOK, Flight PROVE FlightSound
  <2>1. TypeOK /\ \A c \in Clients : req[c].path \in Paths
    BY <1>1, Zenon DEF TypeOK, Request
  <2>2. \A c \in Clients : req[c].pc \in Calling <=> c \in calls[req[c].path]
    BY <1>1, <2>1 DEF Flight
  <2>3. OneFetchPerPath
    BY <1>1, <2>1, <2>2 DEF OneFetchPerPath, Flight, Calling
  <2>4. WaiterHasACall
    <3>1. \A c \in Clients : \A d \in calls[req[c].path] :
             d \in Clients => req[d].path = req[c].path /\ req[d].pc \in Calling
      BY <1>1, <2>1 DEF Flight
    <3>2. calls \in [Paths -> SUBSET Clients]
      BY <2>1, Zenon DEF TypeOK
    <3>3. \A c \in Clients : \A d \in calls[req[c].path] : d \in Clients
      BY <2>1, <3>2
    <3>4. \A c \in Clients : req[c].pc = "wait" => \E d \in calls[req[c].path] : TRUE
      BY <1>1, Zenon DEF Flight
    <3> QED
      BY <3>1, <3>3, <3>4, Zenon DEF WaiterHasACall, Calling
  <2> QED
    BY <2>1, <2>3, <2>4, Zenon DEF FlightSound
<1> QED
  BY <1>1, CacheInvariant, PTL

\* Engine.serve: what is answered was fresh, past its cooldown, or not found within the
\* time the configuration allows, whatever the clients, the TTLs and the age policy.
THEOREM AnswersCurrent == Spec => []AnswersAreCurrent
<1>1. ASSUME TypeOK, Answers PROVE AnswersAreCurrent
  <2>a. ASSUME NEW c \in Clients, req[c].path \in Proxied
        PROVE  Current(req[c], now, arts[req[c].path], upstream[req[c].path])
    BY <1>1, <2>a, Zenon DEF Answers
  <2>1. ServedIsFresh
    BY <2>a, Zenon DEF ServedIsFresh, Served, Current, FreshSince
  <2>2. CooldownReleaseServedOnlyIfShared
    <3> SUFFICES ASSUME NEW c \in Clients, Served(c), req[c].path \in Dated,
                        req[c].cfg.ageEnabled, ~req[c].cfg.warn, NEW row \in req[c].row,
                        row.under = req[c].cfg
                 PROVE  now - row.body >= req[c].cfg.minAge
      BY Zenon DEF CooldownReleaseServedOnlyIfShared
    <3>1. Aged(row, now)
      BY <2>a, Zenon DEF Served, Current
    <3> QED
      BY <3>1, Zenon DEF Aged
  <2>3. NotFoundIsRecent
    BY <2>a, Zenon DEF NotFoundIsRecent, Current, HasNone
  <2> QED
    BY <2>1, <2>2, <2>3, Zenon DEF AnswersAreCurrent
<1> QED
  BY <1>1, CacheInvariant, PTL

\* Engine.serve: no request that began while its path cooled down asks the upstream
\* before that cooldown, as later answers may have shortened it, ends.
THEOREM CooldownsShield == Spec => CooldownShields
<1>1. ASSUME TypeOK, Shielded, [Next]_vars
      PROVE  [\A c \in Clients : /\ req[c].pc \notin {"get", "stream"}
                                 /\ req'[c].pc \in {"get", "stream"}
                                 => shield[c] <= now]_vars
  BY <1>1, ShieldHolds, Zenon
<1> QED
  BY <1>1, CacheInvariant, PTL DEF Spec, CooldownShields
=============================================================================
