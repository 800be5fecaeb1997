-------------------------- MODULE ScanAndRulesProofs --------------------------
(***************************************************************************)
(* Proofs about ScanQueue, for every set of coordinates, pool, page size,   *)
(* queue capacity and number of terms, and about Rules, for every set of    *)
(* tasks: any patterns, names, roles, scopes and versions.                  *)
(***************************************************************************)
EXTENDS ScanQueue, Rules, SequenceTheorems, TLAPS

-----------------------------------------------------------------------------
(* The scan queue: the invariants.                                          *)

\* A worker's state: only one at work has a coordinate, and one that is to store an answer
\* has got it.
Slot == [pc : {"off", "idle", "query", "store"}, coord : SUBSET Coords, answer : Verdicts \union {"none"}]
SlotOK(s) ==
    /\ s.pc \in {"off", "idle"} => s.coord = {}
    /\ s.pc = "store" => s.answer \in Verdicts
    /\ \A c, d \in s.coord : c = d

\* The results, oldest first, one for each coordinate that has a verdict.
ResultsOK ==
    /\ verdict \in [Coords -> Verdicts \union {"none"}]
    /\ rows \in Seq(Coords) /\ IsInjective(rows) /\ stale \in 0..Len(rows)
    /\ Range(rows) = {c \in Coords : verdict[c] # "none"}

\* Everybody's work in progress.
ProgressOK ==
    /\ worker \in [Terms \X Pool -> Slot] /\ \A w \in Terms \X Pool : SlotOK(worker[w])
    /\ held \in [Procs -> SUBSET Coords] /\ todo \in [Procs -> Seq(Coords)]
    /\ \A p \in Procs : \A c, d \in held[p] : c = d

\* The backfill's place.
Progress == [pc : {"off", "idle", "paging"}, known : SUBSET Coords, offset : Nat]

\* Job channel and the rest; enqueueResolve lets only versions pass.
QueueOK ==
    /\ source \in {"vuln", "license"} /\ truth \in [Coords -> Verdicts]
    /\ artifacts \in Seq(Versioned) /\ marks \subseteq Coords
    /\ queue \in Seq(Coords) /\ Len(queue) <= QueueCap
    /\ term \in Terms /\ leading \in BOOLEAN /\ sweep \in Progress
    /\ source = "license" =>
          /\ \A i \in DOMAIN queue : queue[i] \in Versioned
          /\ \A p \in Procs : held[p] \subseteq Versioned

\* reqMarks: what is on its way is marked and there once, and somebody who found c unmarked
\* is alone with it, unless a race is on record.
Deduplicated ==
    \A c \in Coords \ excused :
        /\ Once(c) /\ (OnWay(c) => c \in marks)
        /\ \A p \in Procs : c \in held[p] => c \notin marks
        /\ \A p, q \in Procs : c \in held[p] /\ c \in held[q] => p = q

\* Stored and pending findings are the source's, and an answer that would clear a stored
\* finding is in the hands of a worker only after a race.
FindingsKnown ==
    /\ \A c \in Coords : verdict[c] = "bad" => truth[c] = "bad"
    /\ \A w \in Terms \X Pool : \A c \in worker[w].coord : worker[w].pc = "store" =>
          /\ worker[w].answer = "bad" => truth[c] = "bad"
          /\ worker[w].answer = "good" /\ verdict[c] = "bad" => c \in excused

\* The inductive invariant.
ScanInv == ResultsOK /\ ProgressOK /\ QueueOK /\ Deduplicated /\ FindingsKnown

-----------------------------------------------------------------------------
(* Sequences and counting.                                                  *)

\* Without leaves the other elements.
LEMMA Removed ==
    ASSUME NEW S, NEW s \in Seq(S), NEW i \in DOMAIN s
    PROVE  /\ Without(s, i) \in Seq(S) /\ Len(Without(s, i)) = Len(s) - 1
           /\ \A j \in 1..(Len(s) - 1) : Without(s, i)[j] = IF j < i THEN s[j] ELSE s[j + 1]
<1>0. Len(s) \in Nat /\ i \in 1..Len(s) /\ i \in Nat
  OBVIOUS
<1>1. PICK a, b : a = SubSeq(s, 1, i - 1) /\ b = SubSeq(s, i + 1, Len(s))
  BY Zenon
<1>2. a \in Seq(S) /\ Len(a) = i - 1
  BY <1>0, <1>1, SMTT(30)
<1>3. b \in Seq(S) /\ Len(b) = Len(s) - i
  BY <1>0, <1>1, SMTT(30)
<1>4. /\ \A j \in 1..(i - 1) : a[j] = s[j]
      /\ \A j \in 1..(Len(s) - i) : b[j] = s[i + j]
  BY <1>0, <1>1, SMTT(30)
<1>5. /\ a \o b \in Seq(S) /\ Len(a \o b) = Len(a) + Len(b)
      /\ \A j \in 1..Len(a) + Len(b) : (a \o b)[j] = IF j <= Len(a) THEN a[j] ELSE b[j - Len(a)]
  BY <1>2, <1>3, ConcatProperties, Zenon
<1>6. ASSUME NEW j \in 1..(Len(s) - 1) PROVE (a \o b)[j] = IF j < i THEN s[j] ELSE s[j + 1]
  <2>1. j \in 1..Len(a) + Len(b)
    BY <1>0, <1>2, <1>3, SMTT(30)
  <2>2. CASE j < i
    <3>1. j <= Len(a) /\ j \in 1..(i - 1)
      BY <1>0, <1>2, <2>2
    <3> QED
      BY <1>4, <1>5, <2>1, <2>2, <3>1
  <2>3. CASE ~(j < i)
    <3>1. PICK k : k = j - Len(a)
      BY Zenon
    <3>2. k \in 1..(Len(s) - i) /\ i + k = j + 1 /\ ~(j <= Len(a))
      BY <1>0, <1>2, <2>3, <3>1, SMTT(30)
    <3> QED
      BY <1>4, <1>5, <2>1, <2>3, <3>1, <3>2, SMTT(30)
  <2> QED
    BY <2>2, <2>3, Zenon
<1>7. Without(s, i) = a \o b
  BY <1>1, Zenon DEF Without
<1>8. (i - 1) + (Len(s) - i) = Len(s) - 1
  BY <1>0
<1> QED
  BY <1>2, <1>3, <1>5, <1>6, <1>7, <1>8, Zenon

\* UpsertVulnScan, UpsertLicenseScan: the row is the newest, there is one for each
\* coordinate, and the stale ones are still the first.
LEMMA Upserted ==
    ASSUME NEW c \in Coords, ResultsOK
    PROVE  /\ Upsert(c)[1] \in Seq(Coords) /\ IsInjective(Upsert(c)[1])
           /\ Range(Upsert(c)[1]) = Range(rows) \union {c}
           /\ Upsert(c)[2] \in 0..Len(Upsert(c)[1])
<1>0. /\ rows \in Seq(Coords) /\ stale \in 0..Len(rows)
      /\ \A i, j \in DOMAIN rows : rows[i] = rows[j] => i = j
  BY DEF ResultsOK, IsInjective
<1>1. CASE c \notin Range(rows)
  <2>1. Upsert(c)[1] = Append(rows, c) /\ Upsert(c)[2] = stale
    BY <1>1 DEF Upsert
  <2>2. \A i \in DOMAIN rows : rows[i] # c
    BY <1>1 DEF Range
  <2>3. /\ Append(rows, c) \in Seq(Coords) /\ Len(Append(rows, c)) = Len(rows) + 1
        /\ DOMAIN Append(rows, c) = 1..(Len(rows) + 1) /\ DOMAIN rows = 1..Len(rows)
        /\ \A i \in DOMAIN rows : Append(rows, c)[i] = rows[i] /\ Append(rows, c)[Len(rows) + 1] = c
    BY <1>0
  <2>4. IsInjective(Append(rows, c))
    BY <1>0, <2>2, <2>3 DEF IsInjective
  <2>5. Range(Append(rows, c)) = Range(rows) \union {c}
    BY <1>0, <2>3 DEF Range
  <2> QED
    BY <1>0, <2>1, <2>3, <2>4, <2>5
<1>2. CASE c \in Range(rows)
  <2>1. PICK k : k = CHOOSE j \in DOMAIN rows : rows[j] = c
    BY Zenon
  <2>2. k \in DOMAIN rows /\ rows[k] = c
    BY <1>2, <2>1 DEF Range
  <2>3. PICK s : s = Without(rows, k)
    BY Zenon
  <2>4. Upsert(c)[1] = Append(s, c) /\ Upsert(c)[2] = (IF k <= stale THEN stale - 1 ELSE stale)
    BY <1>2, <2>1, <2>3, SMTT(30) DEF Upsert
  <2>5. /\ s \in Seq(Coords) /\ Len(s) = Len(rows) - 1
        /\ \A j \in 1..(Len(rows) - 1) : s[j] = IF j < k THEN rows[j] ELSE rows[j + 1]
    BY <1>0, <2>2, <2>3, Removed, SMTT(30)
  <2>6. PICK t : t = Append(s, c)
    BY Zenon
  <2>7. /\ t \in Seq(Coords) /\ Len(t) = Len(rows) /\ DOMAIN t = 1..Len(rows)
        /\ \A j \in 1..(Len(rows) - 1) : t[j] = s[j]
        /\ t[Len(rows)] = c
    BY <1>0, <2>2, <2>5, <2>6
  <2>8. ASSUME NEW j \in 1..Len(rows)
        PROVE  \E i \in 1..Len(rows) : /\ t[j] = rows[i]
                                       /\ i = IF j = Len(rows) THEN k ELSE IF j < k THEN j ELSE j + 1
    <3>1. CASE j = Len(rows)
      BY <1>0, <2>2, <2>7, <3>1
    <3>2. CASE j # Len(rows)
      <4>1. j \in 1..(Len(rows) - 1) /\ j + 1 \in 1..Len(rows)
        BY <1>0, <3>2
      <4>2. t[j] = IF j < k THEN rows[j] ELSE rows[j + 1]
        BY <2>5, <2>7, <4>1, SMTT(30)
      <4> QED
        BY <3>2, <4>1, <4>2
    <3> QED
      BY <3>1, <3>2
  <2>9. IsInjective(t)
    <3>1. SUFFICES ASSUME NEW j \in 1..Len(rows), NEW l \in 1..Len(rows), t[j] = t[l] PROVE j = l
      BY <2>7 DEF IsInjective
    <3>2. PICK i \in 1..Len(rows) : /\ t[j] = rows[i]
                                    /\ i = IF j = Len(rows) THEN k ELSE IF j < k THEN j ELSE j + 1
      BY <2>8
    <3>3. PICK m \in 1..Len(rows) : /\ t[l] = rows[m]
                                    /\ m = IF l = Len(rows) THEN k ELSE IF l < k THEN l ELSE l + 1
      BY <2>8
    <3>4. i = m
      <4>1. rows[i] = rows[m] /\ i \in DOMAIN rows /\ m \in DOMAIN rows
        <5>1. DOMAIN rows = 1..Len(rows)
          BY <1>0
        <5> QED
          BY <3>1, <3>2, <3>3, <5>1, Zenon
      <4> QED
        BY <1>0, <4>1, Zenon
    <3> QED
      BY <1>0, <2>2, <3>2, <3>3, <3>4, SMTT(30)
  <2>10. Range(t) = Range(rows)
    <3>0. DOMAIN rows = 1..Len(rows)
      BY <1>0
    <3>1. Range(t) \subseteq Range(rows)
      <4>1. \A j \in 1..Len(rows) : \E i \in 1..Len(rows) : t[j] = rows[i]
        BY <2>8, Zenon
      <4>2. DOMAIN t = 1..Len(rows)
        BY <2>7, Zenon
      <4> QED
        BY <3>0, <4>1, <4>2, Zenon DEF Range
    <3>2. ASSUME NEW j \in 1..Len(rows) PROVE \E i \in 1..Len(rows) : t[i] = rows[j]
      <4>1. CASE j < k
        <5>1. j \in 1..(Len(rows) - 1)
          BY <1>0, <2>2, <4>1
        <5> QED
          BY <2>5, <2>7, <4>1, <5>1
      <4>2. CASE j = k
        <5>1. Len(rows) \in 1..Len(rows)
          BY <1>0
        <5> QED
          BY <2>2, <2>7, <4>2, <5>1, SMTT(30)
      <4>3. CASE j > k
        <5>1. PICK i : i = j - 1
          BY Zenon
        <5>2. i \in 1..(Len(rows) - 1) /\ ~(i < k) /\ i + 1 = j /\ i \in 1..Len(rows)
          BY <1>0, <2>2, <4>3, <5>1, SMTT(30)
        <5>3. t[i] = rows[j]
          BY <2>5, <2>7, <5>2
        <5> QED
          BY <5>2, <5>3
      <4> QED
        BY <1>0, <2>2, <4>1, <4>2, <4>3
    <3>3. Range(rows) \subseteq Range(t)
      BY <2>7, <3>0, <3>2, ZenonT(40) DEF Range
    <3> QED
      BY <3>1, <3>3
  <2>11. Upsert(c)[2] \in 0..Len(t)
    BY <1>0, <2>2, <2>4, <2>7
  <2> QED
    BY <1>2, <2>4, <2>6, <2>7, <2>9, <2>10, <2>11, SMTT(30)
<1> QED
  BY <1>1, <1>2

\* Every step keeps one row for each result: only the upsert and the TTL touch the table.
LEMMA NextResults ==
    ASSUME ScanInv, Next
    PROVE  ResultsOK'
<1>0. ResultsOK
  BY Zenon DEF ScanInv
<1>1. ASSUME UNCHANGED table PROVE ResultsOK'
  BY <1>0, <1>1, Zenon DEF ResultsOK, table
<1>2. ASSUME NEW w \in DOMAIN worker, StoreResult(w) PROVE ResultsOK'
  <2>1. PICK c \in worker[w].coord : /\ verdict' = [verdict EXCEPT ![c] = worker[w].answer]
                                     /\ rows' = Upsert(c)[1] /\ stale' = Upsert(c)[2]
    BY <1>2, Zenon DEF StoreResult
  <2>2. c \in Coords /\ worker[w].answer \in Verdicts
    <3>1. worker[w] \in Slot /\ SlotOK(worker[w]) /\ worker[w].pc = "store"
      BY <1>2, Zenon DEF ScanInv, ProgressOK, StoreResult
    <3> QED
      BY <2>1, <3>1, Zenon DEF Slot, SlotOK
  <2>3. /\ rows' \in Seq(Coords) /\ IsInjective(rows') /\ stale' \in 0..Len(rows')
        /\ Range(rows') = Range(rows) \union {c}
    BY <1>0, <2>1, <2>2, Upserted, Zenon
  <2>4. verdict \in [Coords -> Verdicts \union {"none"}] /\ Range(rows) = {d \in Coords : verdict[d] # "none"}
    BY <1>0, Zenon DEF ResultsOK
  <2>5. verdict' \in [Coords -> Verdicts \union {"none"}] /\ verdict'[c] # "none"
        /\ \A d \in Coords : d # c => verdict'[d] = verdict[d]
    <3>1. worker[w].answer # "none" /\ verdict'[c] = worker[w].answer
      BY <2>1, <2>2, <2>4 DEF Verdicts
    <3> QED
      BY <2>1, <2>2, <2>4, <3>1, Zenon
  <2>6. Range(rows)' = {d \in Coords : verdict'[d] # "none"}
    <3>1. Range(rows)' = Range(rows')
      BY Zenon DEF Range
    <3> QED
      BY <2>2, <2>3, <2>4, <2>5, <3>1, Zenon
  <2>7. IsInjective(rows)'
    BY <2>3, Zenon DEF IsInjective
  <2> QED
    BY <2>3, <2>5, <2>6, <2>7, Zenon DEF ResultsOK
<1>3. ASSUME Age PROVE ResultsOK'
  <2>1. UNCHANGED <<verdict, rows>> /\ stale < Len(rows) /\ stale' = stale + 1
    BY <1>3, Zenon DEF Age
  <2>2. rows \in Seq(Coords) /\ stale \in 0..Len(rows)
    BY <1>0, Zenon DEF ResultsOK
  <2>3. stale' \in 0..Len(rows)
    BY <2>1, <2>2
  <2> QED
    BY <1>0, <2>1, <2>3, Zenon DEF ResultsOK
<1>4. ASSUME NEW k \in Clients, Request(k) \/ Store(k) PROVE UNCHANGED table
  BY <1>4, Zenon DEF Request, Store
<1>5. ASSUME NEW p \in Procs, Enqueue(p) PROVE UNCHANGED table
  BY <1>5, Zenon DEF Enqueue, CheckMark, Send
<1>6. ASSUME NEW w \in DOMAIN worker, Work(w), ~StoreResult(w) PROVE UNCHANGED table
  BY <1>6, Zenon DEF Work, TakeJob, Query, Fail, Stop
<1>7. ASSUME Sweep \/ SweepFails \/ RescanTick PROVE UNCHANGED table
  BY <1>7, Zenon DEF Sweep, SweepStart, SweepPage, SweepFails, RescanTick
<1>8. ASSUME NEW c \in Coords, MarkExpires(c) \/ Disclose(c) PROVE UNCHANGED table
  BY <1>8, Zenon DEF MarkExpires, Disclose
<1>9. ASSUME StartLeading \/ StopLeading \/ Restart \/ DeleteArtifact PROVE UNCHANGED table
  BY <1>9, Zenon DEF StartLeading, StopLeading, Restart, DeleteArtifact
<1> QED
  BY <1>1, <1>2, <1>3, <1>4, <1>5, <1>6, <1>7, <1>8, <1>9, Zenon DEF Next

-----------------------------------------------------------------------------
(* Workers and enqueuers.                                                   *)

\* What a process may hold.
HeldOK ==
    /\ held \in [Procs -> SUBSET Coords] /\ \A p \in Procs : \A c, d \in held[p] : c = d
    /\ source = "license" => \A p \in Procs : held[p] \subseteq Versioned
WorkersOK == worker \in [Terms \X Pool -> Slot] /\ \A w \in Terms \X Pool : SlotOK(worker[w])
TodoOK == todo \in [Procs -> Seq(Coords)]

\* reqMarks.has: who found a coordinate unmarked holds it, and nothing else changes.
LEMMA HasMarkHolds ==
    ASSUME HeldOK, NEW p \in Procs, NEW c \in Coords, HasMark(p, c), source' = source,
           source \in {"vuln", "license"}
    PROVE  HeldOK'
<1>1. CASE held' = held
  BY <1>1, Zenon DEF HeldOK
<1>2. CASE Accepts(c) /\ held' = [held EXCEPT ![p] = {c}]
  <2>1. source = "license" => c \in Versioned
    BY <1>2 DEF Accepts, EnqueueResolve
  <2> QED
    BY <1>2, <2>1, ZenonT(60) DEF HeldOK
<1> QED
  BY <1>1, <1>2, Zenon DEF HasMark

\* A worker that goes on with a slot as it may be.
LEMMA WorkerMoves ==
    ASSUME WorkersOK, NEW w \in Terms \X Pool, NEW x \in Slot, SlotOK(x), worker' = [worker EXCEPT ![w] = x]
    PROVE  WorkersOK'
BY Zenon DEF WorkersOK

\* The slots that starting, resigning and the steps of a worker set are slots (worker).
LEMMA Slots ==
    /\ Off \in Slot /\ SlotOK(Off) /\ [Off EXCEPT !.pc = "idle"] \in Slot
    /\ SlotOK([Off EXCEPT !.pc = "idle"]) /\ Off.coord = {} /\ [Off EXCEPT !.pc = "idle"].coord = {}
    /\ Off.pc = "off" /\ [Off EXCEPT !.pc = "idle"].pc = "idle"
BY DEF Slot, SlotOK, Off, Verdicts

\* Every step of a worker keeps workers as they may be (RunVulnWorker, runScan).
LEMMA WorkSteps ==
    ASSUME WorkersOK, QueueOK, NEW w \in Terms \X Pool, Work(w)
    PROVE  WorkersOK'
<1>1. worker[w] \in Slot /\ SlotOK(worker[w])
  BY Zenon DEF WorkersOK
<1>2. CASE TakeJob(w)
  <2>1. PICK c : c = Head(queue)
    BY Zenon
  <2>2. queue \in Seq(Coords) /\ queue # <<>>
    BY <1>2, Zenon DEF QueueOK, TakeJob
  <2>3. c \in Coords
    BY <2>1, <2>2, HeadTailProperties, Zenon
  <2>4. PICK x : x = [pc |-> "query", coord |-> {c}, answer |-> "none"]
    BY Zenon
  <2>5. x \in Slot /\ SlotOK(x)
    BY <2>3, <2>4 DEF Slot, SlotOK
  <2>6. worker' = [worker EXCEPT ![w] = x]
    BY <1>2, <2>1, <2>4, Zenon DEF TakeJob
  <2> QED
    BY <2>5, <2>6, WorkerMoves, Zenon
<1>3. CASE Query(w)
  <2>1. PICK c \in worker[w].coord :
           worker' = [worker EXCEPT ![w] = [@ EXCEPT !.pc = "store", !.answer = truth[c]]]
    BY <1>3, Zenon DEF Query
  <2>2. PICK x : x = [worker[w] EXCEPT !.pc = "store", !.answer = truth[c]]
    BY Zenon
  <2>3. truth[c] \in Verdicts
    BY <1>1, Zenon DEF Slot, QueueOK
  <2>4. x \in Slot /\ SlotOK(x)
    BY <1>1, <2>2, <2>3, Zenon DEF Slot, SlotOK
  <2>5. worker' = [worker EXCEPT ![w] = x]
    BY <2>1, <2>2, Zenon DEF WorkersOK
  <2> QED
    BY <2>4, <2>5, WorkerMoves, Zenon
<1>4. CASE StoreResult(w) \/ Fail(w)
  <2>1. worker' = [worker EXCEPT ![w] = [Off EXCEPT !.pc = "idle"]]
    BY <1>4, Zenon DEF StoreResult, Fail
  <2> QED
    BY <2>1, Slots, WorkerMoves, Zenon
<1>5. CASE Stop(w)
  <2>1. worker' = [worker EXCEPT ![w] = Off]
    BY <1>5, Zenon DEF Stop
  <2> QED
    BY <2>1, Slots, WorkerMoves, Zenon
<1> QED
  BY <1>2, <1>3, <1>4, <1>5, Zenon DEF Work

\* Every step keeps everybody's work in progress as it must be, and enqueueResolve's
\* callers hold only versions.
LEMMA NextProgress ==
    ASSUME ScanInv, Next
    PROVE  ProgressOK' /\ HeldOK'
<1>0. HeldOK /\ WorkersOK /\ TodoOK /\ QueueOK /\ ResultsOK /\ source \in {"vuln", "license"}
  BY Zenon DEF ScanInv, ProgressOK, QueueOK, HeldOK, WorkersOK, TodoOK
<1>1. SUFFICES HeldOK' /\ WorkersOK' /\ TodoOK'
  BY <1>1, Zenon DEF ProgressOK, HeldOK, WorkersOK, TodoOK
<1>2. /\ worker' = worker => WorkersOK'
      /\ held' = held /\ source' = source => HeldOK'
      /\ todo' = todo => TodoOK'
  BY <1>0, Zenon DEF HeldOK, WorkersOK, TodoOK
<1>3. ASSUME NEW k \in Clients, Request(k) \/ Store(k) PROVE HeldOK' /\ WorkersOK' /\ TodoOK'
  <2>1. PICK c \in Coords : HasMark(k, c)
    BY <1>3, ConstantsAssumption, Zenon DEF Request, Store
  <2>2. worker' = worker /\ todo' = todo /\ source' = source /\ k \in Procs
    BY <1>3, Zenon DEF Request, Store, Procs
  <2> QED
    BY <1>0, <1>2, <2>1, <2>2, HasMarkHolds, Zenon
<1>4. ASSUME NEW p \in Procs, CheckMark(p) PROVE HeldOK' /\ WorkersOK' /\ TodoOK'
  <2>1. PICK s, c : s = todo[p] /\ c = Head(s)
    OBVIOUS
  <2>2. s \in Seq(Coords) /\ s # <<>>
    BY <1>0, <1>4, <2>1, Zenon DEF CheckMark, TodoOK
  <2>3. c \in Coords /\ Tail(s) \in Seq(Coords)
    BY <2>1, <2>2, HeadTailProperties, Zenon
  <2>4. /\ worker' = worker /\ source' = source /\ todo' = [todo EXCEPT ![p] = Tail(s)]
        /\ held' = held \/ HasMark(p, c)
    BY <1>4, <2>1, Zenon DEF CheckMark
  <2>5. TodoOK'
    BY <1>0, <2>3, <2>4, Zenon DEF TodoOK
  <2>6. HeldOK'
    BY <1>0, <1>2, <2>3, <2>4, HasMarkHolds, Zenon
  <2> QED
    BY <1>2, <2>4, <2>5, <2>6, Zenon
<1>5. ASSUME NEW p \in Procs, Send(p) PROVE HeldOK' /\ WorkersOK' /\ TodoOK'
  <2>1. worker' = worker /\ source' = source /\ todo' = todo /\ held' = [held EXCEPT ![p] = {}]
    BY <1>5, Zenon DEF Send
  <2>2. HeldOK'
    BY <1>0, <2>1, ZenonT(40) DEF HeldOK
  <2> QED
    BY <1>2, <2>1, <2>2, Zenon
<1>6. ASSUME NEW w \in DOMAIN worker, Work(w) PROVE HeldOK' /\ WorkersOK' /\ TodoOK'
  <2>1. w \in Terms \X Pool
    BY <1>0, <1>6, Zenon DEF WorkersOK
  <2>2. held' = held /\ todo' = todo /\ source' = source
    BY <1>6, Zenon DEF Work, TakeJob, Query, StoreResult, Fail, Stop
  <2> QED
    BY <1>0, <1>2, <1>6, <2>1, <2>2, WorkSteps, Zenon
<1>7. ASSUME SweepPage \/ RescanTick PROVE HeldOK' /\ WorkersOK' /\ TodoOK'
  <2>1. worker' = worker /\ held' = held /\ source' = source
    BY <1>7, Zenon DEF SweepPage, RescanTick
  <2>2. /\ artifacts \in Seq(Coords) /\ rows \in Seq(Coords)
    <3>1. artifacts \in Seq(Versioned) /\ Versioned \subseteq Coords
      BY <1>0, ConstantsAssumption, Zenon DEF QueueOK
    <3>2. artifacts \in Seq(Coords)
      BY <3>1
    <3> QED
      BY <1>0, <3>2, Zenon DEF ResultsOK
  <2>3. ASSUME NEW s \in Seq(Coords), NEW m \in Nat, NEW n \in Nat, n <= Len(s)
        PROVE  SubSeq(s, m + 1, n) \in Seq(Coords)
    BY <2>3
  <2>4. \E p \in Procs, s \in Seq(Coords) : todo' = [todo EXCEPT ![p] = s]
    <3>1. CASE RescanTick
      <4>1. PICK n : n = IF stale < Batch THEN stale ELSE Batch
        BY Zenon
      <4>2. stale \in 0..Len(rows) /\ Batch \in Nat
        BY <1>0, ConstantsAssumption DEF ResultsOK
      <4>3. n \in Nat /\ n <= Len(rows)
        BY <2>2, <4>1, <4>2
      <4>4. SubSeq(rows, 0 + 1, n) \in Seq(Coords)
        BY <2>2, <2>3, <4>3
      <4>5. SubSeq(rows, 1, n) \in Seq(Coords)
        BY <4>4
      <4>6. todo' = [todo EXCEPT !["rescan"] = SubSeq(rows, 1, n)] /\ "rescan" \in Procs
        BY <3>1, <4>1, Zenon DEF RescanTick, Procs
      <4> QED
        BY <4>5, <4>6, Zenon
    <3>2. CASE SweepPage
      <4>1. PICK at, n : /\ at = sweep.offset
                         /\ n = IF at + Batch < Len(artifacts) THEN at + Batch ELSE Len(artifacts)
        OBVIOUS
      <4>2. todo' = [todo EXCEPT !["backfill"] = SubSeq(artifacts, at + 1, n)] /\ "backfill" \in Procs
        BY <3>2, <4>1, Zenon DEF SweepPage, Procs
      <4>3. at \in Nat
        BY <1>0, <4>1, Zenon DEF QueueOK, Progress
      <4>4. n \in Nat /\ n <= Len(artifacts)
        BY <2>2, <4>1, <4>3, ConstantsAssumption, SMTT(30)
      <4>5. SubSeq(artifacts, at + 1, n) \in Seq(Coords)
        BY <2>2, <2>3, <4>3, <4>4
      <4> QED
        BY <4>2, <4>5, Zenon
    <3> QED
      BY <1>7, <3>1, <3>2, Zenon
  <2>5. TodoOK'
    BY <1>0, <2>4, Zenon DEF TodoOK
  <2> QED
    BY <1>2, <2>1, <2>5, Zenon
<1>8. ASSUME \/ SweepStart \/ SweepFails \/ StopLeading \/ DeleteArtifact \/ Age
             \/ \E c \in Coords : MarkExpires(c) \/ Disclose(c)
      PROVE  HeldOK' /\ WorkersOK' /\ TodoOK'
  <2>1. worker' = worker /\ held' = held /\ source' = source /\ todo' = todo
    BY <1>8, Zenon DEF SweepStart, SweepFails, StopLeading, DeleteArtifact, Age, MarkExpires, Disclose
  <2> QED
    BY <1>2, <2>1, Zenon
<1>9. ASSUME StartLeading PROVE HeldOK' /\ WorkersOK' /\ TodoOK'
  <2>1. held' = held /\ source' = source /\ todo' = todo
    BY <1>9, Zenon DEF StartLeading
  <2>2. PICK idle : idle = [Off EXCEPT !.pc = "idle"] /\ idle \in Slot /\ SlotOK(idle)
    BY Slots, Zenon
  <2>3. worker' = [w \in Terms \X Pool |-> IF w[1] = term THEN idle ELSE worker[w]]
    BY <1>0, <1>9, <2>2, Zenon DEF StartLeading, WorkersOK
  <2>4. WorkersOK'
    BY <1>0, <2>2, <2>3, Zenon DEF WorkersOK
  <2> QED
    BY <1>2, <2>1, <2>4, Zenon
<1>10. ASSUME Restart PROVE HeldOK' /\ WorkersOK' /\ TodoOK'
  <2>1. /\ source' = source /\ worker' = [w \in Terms \X Pool |-> Off]
        /\ todo' = [p \in Procs |-> <<>>] /\ held' = [p \in Procs |-> {}]
    BY <1>0, <1>10, Zenon DEF Restart, WorkersOK
  <2>2. WorkersOK'
    BY <2>1, Slots, Zenon DEF WorkersOK
  <2>3. <<>> \in Seq(Coords)
    OBVIOUS
  <2>4. TodoOK' /\ HeldOK'
    BY <2>1, <2>3, Zenon DEF TodoOK, HeldOK
  <2> QED
    BY <2>2, <2>4, Zenon
<1> QED
  BY <1>3, <1>4, <1>5, <1>6, <1>7, <1>8, <1>9, <1>10, Zenon DEF Next, Enqueue, Sweep

\* The job channel, without the license part.
ChannelOK == queue \in Seq(Coords) /\ Len(queue) <= QueueCap
Versions == source = "license" => \A i \in DOMAIN queue : queue[i] \in Versioned
WorldOK ==
    /\ source \in {"vuln", "license"} /\ truth \in [Coords -> Verdicts]
    /\ artifacts \in Seq(Versioned) /\ marks \subseteq Coords
    /\ term \in Terms /\ leading \in BOOLEAN /\ sweep \in Progress

\* The non-blocking send appends one job if there is room.
LEMMA Offered ==
    ASSUME ChannelOK, NEW c \in Coords, queue' = Offer(c)
    PROVE  /\ ChannelOK'
           /\ queue' # queue => /\ Len(queue') = Len(queue) + 1 /\ queue'[Len(queue) + 1] = c
                                /\ \A i \in DOMAIN queue : queue'[i] = queue[i]
                                /\ DOMAIN queue' = DOMAIN queue \union {Len(queue) + 1}
                                /\ Len(queue) + 1 \notin DOMAIN queue
<1>1. CASE queue' = queue
  BY <1>1 DEF ChannelOK
<1>2. CASE Len(queue) < QueueCap /\ queue' = Append(queue, c)
  BY <1>2, ConstantsAssumption DEF ChannelOK
<1> QED
  BY <1>1, <1>2, Zenon DEF Offer

\* The receive takes the first job.
LEMMA Taken ==
    ASSUME ChannelOK, queue # <<>>, queue' = Tail(queue)
    PROVE  /\ ChannelOK' /\ Head(queue) = queue[1] /\ 1 \in DOMAIN queue
           /\ \A i \in DOMAIN queue' : /\ i + 1 \in DOMAIN queue /\ queue'[i] = queue[i + 1]
                                       /\ i + 1 # 1
           /\ \A i, j \in DOMAIN queue' : i + 1 = j + 1 => i = j
BY ConstantsAssumption, SMTT(30) DEF ChannelOK

\* Every step keeps the channel within its capacity, enqueueResolve's versions in it, and
\* the rest well-typed.
LEMMA NextQueue ==
    ASSUME ScanInv, Next
    PROVE  QueueOK'
<1>0. /\ ChannelOK /\ Versions /\ WorldOK /\ HeldOK /\ ProgressOK /\ ResultsOK
      /\ QueueOK /\ HeldOK'
  BY NextProgress, Zenon DEF ScanInv, QueueOK, ChannelOK, Versions, WorldOK, HeldOK, ProgressOK
<1>1. SUFFICES ChannelOK' /\ Versions' /\ WorldOK'
  BY <1>0, <1>1, Zenon DEF QueueOK, ChannelOK, Versions, WorldOK, HeldOK
<1>2. ASSUME queue' = queue /\ source' = source PROVE ChannelOK' /\ Versions'
  BY <1>0, <1>2, Zenon DEF ChannelOK, Versions
<1>3. ASSUME UNCHANGED <<source, truth, term, leading>>, marks' \subseteq Coords,
             artifacts' \in Seq(Versioned), sweep' \in Progress
      PROVE  WorldOK'
  BY <1>0, <1>3, Zenon DEF WorldOK
<1>4. /\ artifacts \in Seq(Versioned) /\ marks \subseteq Coords /\ sweep \in Progress
      /\ source \in {"vuln", "license"}
  BY <1>0, Zenon DEF WorldOK
<1>5. ASSUME NEW k \in Clients, Request(k) PROVE ChannelOK' /\ Versions' /\ WorldOK'
  <2>1. UNCHANGED <<source, truth, term, leading, marks, artifacts, sweep, queue>>
    BY <1>5, Zenon DEF Request
  <2> QED
    BY <1>2, <1>3, <1>4, <2>1, Zenon
<1>6. ASSUME NEW k \in Clients, Store(k) PROVE ChannelOK' /\ Versions' /\ WorldOK'
  <2>1. PICK c \in Versioned : artifacts' = Append(artifacts, c)
    BY <1>6, Zenon DEF Store
  <2>2. artifacts' \in Seq(Versioned)
    BY <1>4, <2>1, AppendProperties, Zenon
  <2>3. UNCHANGED <<source, truth, term, leading, marks, sweep, queue>>
    BY <1>6, Zenon DEF Store
  <2> QED
    BY <1>2, <1>3, <1>4, <2>2, <2>3, Zenon
<1>7. ASSUME NEW p \in Procs, CheckMark(p) PROVE ChannelOK' /\ Versions' /\ WorldOK'
  <2>1. UNCHANGED <<source, truth, term, leading, marks, artifacts, sweep, queue>>
    BY <1>7, Zenon DEF CheckMark
  <2> QED
    BY <1>2, <1>3, <1>4, <2>1, Zenon
<1>8. ASSUME NEW p \in Procs, Send(p) PROVE ChannelOK' /\ Versions' /\ WorldOK'
  <2>1. PICK c \in held[p] : marks' = SetMark(c) /\ queue' = Offer(c)
    BY <1>8, Zenon DEF Send
  <2>2. c \in Coords /\ (source = "license" => c \in Versioned)
    BY <1>0, <2>1, Zenon DEF HeldOK
  <2>3. UNCHANGED <<source, truth, term, leading, artifacts, sweep>> /\ marks' \subseteq Coords
    BY <1>4, <1>8, <2>1, <2>2, Zenon DEF Send, SetMark
  <2>4. ChannelOK'
    BY <1>0, <2>1, <2>2, Offered, Zenon
  <2>5. Versions'
    <3>1. CASE queue' = queue
      BY <1>2, <2>3, <3>1, Zenon
    <3>2. CASE queue' # queue
      <4>1. /\ queue'[Len(queue) + 1] = c /\ \A i \in DOMAIN queue : queue'[i] = queue[i]
            /\ DOMAIN queue' = DOMAIN queue \union {Len(queue) + 1}
        BY <1>0, <2>1, <2>2, <3>2, Offered, Zenon
      <4> QED
        BY <1>0, <2>2, <2>3, <4>1, Zenon DEF Versions
    <3> QED
      BY <3>1, <3>2, Zenon
  <2> QED
    BY <1>3, <1>4, <2>3, <2>4, <2>5, Zenon
<1>9. ASSUME NEW w \in DOMAIN worker, TakeJob(w) PROVE ChannelOK' /\ Versions' /\ WorldOK'
  <2>1. /\ queue # <<>> /\ queue' = Tail(queue)
        /\ UNCHANGED <<source, truth, term, leading, marks, artifacts, sweep>>
    BY <1>9, Zenon DEF TakeJob
  <2>2. ChannelOK' /\ \A i \in DOMAIN queue' : i + 1 \in DOMAIN queue /\ queue'[i] = queue[i + 1]
    BY <1>0, <2>1, Taken, Zenon
  <2> QED
    BY <1>0, <1>3, <1>4, <2>1, <2>2, Zenon DEF Versions
<1>10. ASSUME NEW w \in DOMAIN worker, Query(w) \/ StoreResult(w) \/ Fail(w) \/ Stop(w)
       PROVE  ChannelOK' /\ Versions' /\ WorldOK'
  <2>1. UNCHANGED <<source, truth, term, leading, marks, artifacts, sweep, queue>>
    BY <1>10, Zenon DEF Query, StoreResult, Fail, Stop
  <2> QED
    BY <1>2, <1>3, <1>4, <2>1, Zenon
<1>11. ASSUME \/ SweepStart \/ SweepPage \/ SweepFails \/ RescanTick \/ Age
       PROVE  ChannelOK' /\ Versions' /\ WorldOK'
  <2>1. UNCHANGED <<source, truth, term, leading, marks, artifacts, queue>>
    BY <1>11, Zenon DEF SweepStart, SweepPage, SweepFails, RescanTick, Age
  <2>2. sweep' \in Progress
    <3>1. sweep.pc \in {"off", "idle", "paging"} /\ sweep.known \subseteq Coords /\ sweep.offset \in Nat
      BY <1>4, Zenon DEF Progress
    <3>2. ASSUME NEW pc \in {"off", "idle", "paging"} PROVE [sweep EXCEPT !.pc = pc] \in Progress
      BY <1>4, <3>2, Zenon DEF Progress
    <3>3. CASE SweepStart
      <4>1. Range(rows) \subseteq Coords
        BY <1>0, Zenon DEF ResultsOK
      <4>2. sweep' = [pc |-> "paging", known |-> Range(rows), offset |-> 0] /\ 0 \in Nat
        BY <3>3, Zenon DEF SweepStart
      <4> QED
        BY <4>1, <4>2, Zenon DEF Progress
    <3>4. CASE SweepPage
      <4>1. PICK pc \in {"off", "idle", "paging"} :
               sweep' = [sweep EXCEPT !.pc = pc, !.offset = sweep.offset + Batch]
        BY <1>4, <3>1, <3>4, Zenon DEF SweepPage, AfterSweep
      <4>2. sweep.offset + Batch \in Nat
        BY <3>1, ConstantsAssumption
      <4> QED
        BY <1>4, <3>1, <4>1, <4>2, Zenon DEF Progress
    <3>5. CASE SweepFails
      BY <3>2, <3>5, Zenon DEF SweepFails, AfterSweep
    <3>6. CASE RescanTick \/ Age
      BY <1>4, <3>6, Zenon DEF RescanTick, Age
    <3> QED
      BY <1>11, <3>3, <3>4, <3>5, <3>6, Zenon
  <2> QED
    BY <1>2, <1>3, <1>4, <2>1, <2>2, Zenon
<1>12. ASSUME NEW c \in Coords, MarkExpires(c) PROVE ChannelOK' /\ Versions' /\ WorldOK'
  <2>1. UNCHANGED <<source, truth, term, leading, artifacts, sweep, queue>> /\ marks' = marks \ {c}
    BY <1>12, Zenon DEF MarkExpires
  <2> QED
    BY <1>2, <1>3, <1>4, <2>1, Zenon
<1>13. ASSUME NEW c \in Coords, Disclose(c) PROVE ChannelOK' /\ Versions' /\ WorldOK'
  <2>1. /\ UNCHANGED <<source, term, leading, marks, artifacts, sweep, queue>>
        /\ truth' = [truth EXCEPT ![c] = "bad"]
    BY <1>13, Zenon DEF Disclose
  <2>2. WorldOK'
    BY <1>0, <2>1, Zenon DEF WorldOK, Verdicts
  <2> QED
    BY <1>2, <2>1, <2>2, Zenon
<1>14. ASSUME NEW pc \in {"off", "idle", "paging"}, sweep' = [sweep EXCEPT !.pc = pc]
       PROVE  sweep' \in Progress
  BY <1>4, <1>14, Zenon DEF Progress
<1>15. ASSUME StartLeading PROVE ChannelOK' /\ Versions' /\ WorldOK'
  <2>1. UNCHANGED <<source, truth, term, marks, artifacts, queue>> /\ leading' = TRUE /\ sweep' \in Progress
    BY <1>14, <1>15, Zenon DEF StartLeading
  <2> QED
    BY <1>0, <1>2, <2>1, Zenon DEF WorldOK
<1>16. ASSUME term < MaxTerms, term' = term + 1 PROVE term' \in Terms
  <2>1. term \in 1..MaxTerms /\ MaxTerms \in Nat
    BY <1>0, ConstantsAssumption, Zenon DEF WorldOK, Terms
  <2> QED
    BY <1>16, <2>1 DEF Terms
<1>17. ASSUME StopLeading PROVE ChannelOK' /\ Versions' /\ WorldOK'
  <2>1. /\ UNCHANGED <<source, truth, marks, artifacts, queue>> /\ leading' = FALSE /\ sweep' \in Progress
        /\ term' \in Terms
    BY <1>14, <1>16, <1>17, Zenon DEF StopLeading
  <2> QED
    BY <1>0, <1>2, <2>1, Zenon DEF WorldOK
<1>18. ASSUME Restart PROVE ChannelOK' /\ Versions' /\ WorldOK'
  <2>1. /\ UNCHANGED <<source, truth, artifacts>> /\ leading' = FALSE /\ sweep' = NoSweep
        /\ term' \in Terms /\ marks' = {} /\ queue' = <<>>
    BY <1>16, <1>18, Zenon DEF Restart
  <2>2. NoSweep \in Progress
    BY DEF Progress, NoSweep
  <2>3. ChannelOK' /\ DOMAIN queue' = {}
    BY <2>1, ConstantsAssumption DEF ChannelOK
  <2> QED
    BY <1>0, <2>1, <2>2, <2>3, Zenon DEF WorldOK, Versions
<1>19. ASSUME DeleteArtifact PROVE ChannelOK' /\ Versions' /\ WorldOK'
  <2>1. UNCHANGED <<source, truth, term, leading, marks, sweep, queue>>
    BY <1>19, Zenon DEF DeleteArtifact
  <2>2. PICK i \in DOMAIN artifacts : artifacts' = Without(artifacts, i)
    BY <1>19, Zenon DEF DeleteArtifact
  <2>3. artifacts' \in Seq(Versioned)
    BY <1>4, <2>2, Removed, Zenon
  <2> QED
    BY <1>2, <1>3, <1>4, <2>1, <2>3, Zenon
<1> QED
  BY <1>5, <1>6, <1>7, <1>8, <1>9, <1>10, <1>11, <1>12, <1>13, <1>15, <1>17, <1>18, <1>19, Zenon
     DEF Next, Enqueue, Sweep, Work

-----------------------------------------------------------------------------
(* Deduplication.                                                           *)

\* Deduplicated, for one coordinate.
Alone(c) ==
    /\ Once(c) /\ (OnWay(c) => c \in marks)
    /\ \A p \in Procs : c \in held[p] => c \notin marks
    /\ \A p, q \in Procs : c \in held[p] /\ c \in held[q] => p = q

\* A step that leaves the channel and the marks alone and gives nobody anything to do.
LEMMA NothingNew ==
    ASSUME NEW c, Alone(c), UNCHANGED <<queue, marks>>, \A p \in Procs : held'[p] \subseteq held[p],
           \A w \in Terms \X Pool : worker'[w].coord \subseteq worker[w].coord
    PROVE  Alone(c)'
<1>1. UNCHANGED queue /\ UNCHANGED marks
  BY Zenon
<1>2. (InHand(c)' => InHand(c)) /\ (Queued(c)' <=> Queued(c))
  BY <1>1, Zenon DEF InHand, Queued
<1>3. Once(c)'
  BY <1>1, <1>2, Zenon DEF Once, Alone
<1> QED
  BY <1>1, <1>2, <1>3, Zenon DEF Alone, OnWay

\* reqMarks.has: who finds c unmarked is alone with it, or the race is on record.
LEMMA HasMarkAlone ==
    ASSUME HeldOK, NEW p \in Procs, NEW d \in Coords, HasMark(p, d), held[p] = {},
           UNCHANGED <<marks, queue, worker>>, NEW c \in Coords, c \notin excused', Alone(c)
    PROVE  Alone(c)' /\ c \notin excused
<1>1. CASE UNCHANGED <<held, excused>>
  <2>1. UNCHANGED <<marks, queue, worker, held>> /\ excused' = excused
    BY <1>1, Zenon
  <2> QED
    BY <2>1, Zenon DEF Alone, Once, OnWay, Queued, InHand
<1>2. CASE /\ d \notin marks /\ held' = [held EXCEPT ![p] = {d}]
           /\ excused' = IF \E q \in Procs : d \in held[q] THEN excused \union {d} ELSE excused
  <2>1. c \notin excused /\ (c = d => \A q \in Procs : d \notin held[q])
    BY <1>2, Zenon
  <2>2. marks' = marks /\ queue' = queue /\ worker' = worker
    BY Zenon
  <2>3. Once(c)' /\ (OnWay(c)' <=> OnWay(c))
    BY <2>2, Zenon DEF Alone, Once, OnWay, Queued, InHand
  <2>4. \A q \in Procs : c \in held'[q] <=> c \in held[q] \/ (q = p /\ c = d)
    BY <1>2, Zenon DEF HeldOK
  <2> QED
    BY <1>2, <2>1, <2>2, <2>3, <2>4, Zenon DEF Alone
<1> QED
  BY <1>1, <1>2, Zenon DEF HasMark

\* enqueueScan: the one who found c unmarked marks it, and sends it if there is room.
LEMMA SendAlone ==
    ASSUME ScanInv, NEW p \in Procs, Send(p), NEW c \in Coords \ excused
    PROVE  Alone(c)'
<1>0. HeldOK /\ ChannelOK /\ Alone(c)
  BY Zenon DEF ScanInv, ProgressOK, QueueOK, HeldOK, ChannelOK, Deduplicated, Alone
<1>1. PICK d \in held[p] : marks' = SetMark(d) /\ queue' = Offer(d)
  BY Zenon DEF Send
<1>2. /\ d \in Coords /\ worker' = worker /\ held' = [held EXCEPT ![p] = {}]
      /\ \A e \in held[p] : e = d
  BY <1>0, <1>1, Zenon DEF Send, HeldOK
<1>3. \A q \in Procs : c \in held'[q] <=> c \in held[q] /\ q # p
  <2>1. held'[p] = {} /\ \A q \in Procs : q # p => held'[q] = held[q]
    BY <1>0, <1>2, ZenonT(60) DEF HeldOK
  <2> QED
    BY <2>1, ZenonT(60)
<1>4. (InHand(c)' <=> InHand(c)) /\ marks' = marks \union {d}
  BY <1>1, <1>2, Zenon DEF InHand, SetMark
<1>5. CASE queue' = queue
  <2>1. Queued(c)' <=> Queued(c)
    BY <1>5, Zenon DEF Queued
  <2>2. Once(c)'
    BY <1>0, <1>2, <1>4, <1>5, <2>1, Zenon DEF Alone, Once
  <2> QED
    BY <1>0, <1>1, <1>2, <1>3, <1>4, <2>1, <2>2, Zenon DEF Alone, OnWay
<1>6. CASE queue' # queue
  <2>1. PICK n : /\ queue'[n] = d /\ \A i \in DOMAIN queue : queue'[i] = queue[i]
                 /\ DOMAIN queue' = DOMAIN queue \union {n} /\ n \notin DOMAIN queue
    BY <1>0, <1>1, <1>2, <1>6, Offered, Zenon
  <2>2. Queued(c)' <=> Queued(c) \/ c = d
    BY <2>1, Zenon DEF Queued
  <2>3. CASE c = d
    <3>1. ~OnWay(c) /\ \A q \in Procs : c \in held[q] => q = p
      BY <1>0, <1>1, <2>3, Zenon DEF Alone
    <3>2. Once(c)'
      BY <1>2, <1>4, <2>1, <2>3, <3>1, Zenon DEF Once, OnWay, Queued, InHand
    <3>3. \A q \in Procs : c \notin held'[q]
      BY <1>3, <3>1, Zenon
    <3> QED
      BY <1>4, <2>3, <3>2, <3>3, Zenon DEF Alone
  <2>4. CASE c # d
    <3>1. Once(c)'
      BY <1>0, <1>2, <1>4, <2>1, <2>2, <2>4, Zenon DEF Alone, Once
    <3> QED
      BY <1>0, <1>3, <1>4, <2>2, <2>4, <3>1, Zenon DEF Alone, OnWay
  <2> QED
    BY <2>3, <2>4, Zenon
<1> QED
  BY <1>5, <1>6, Zenon

\* RunVulnWorker: a job taken is in one worker's hands and no longer in the channel.
LEMMA TakeAlone ==
    ASSUME ScanInv, NEW w \in Terms \X Pool, TakeJob(w), NEW c \in Coords \ excused
    PROVE  Alone(c)'
<1>0. WorkersOK /\ ChannelOK /\ Alone(c)
  BY Zenon DEF ScanInv, ProgressOK, QueueOK, WorkersOK, ChannelOK, Deduplicated, Alone
<1>1. PICK d : d = Head(queue)
  BY Zenon
<1>2. /\ UNCHANGED <<marks, held>> /\ queue # <<>> /\ queue' = Tail(queue) /\ worker[w].pc = "idle"
      /\ worker' = [worker EXCEPT ![w] = [pc |-> "query", coord |-> {d}, answer |-> "none"]]
  BY <1>1, Zenon DEF TakeJob
<1>3. /\ d = queue[1] /\ 1 \in DOMAIN queue
      /\ \A i \in DOMAIN queue' : i + 1 \in DOMAIN queue /\ queue'[i] = queue[i + 1] /\ i + 1 # 1
      /\ \A i, j \in DOMAIN queue' : i + 1 = j + 1 => i = j
  BY <1>0, <1>1, <1>2, Taken, Zenon
<1>4. worker[w].coord = {} /\ \A v \in Terms \X Pool : c \in worker'[v].coord <=>
                                c \in worker[v].coord \/ (v = w /\ c = d)
  <2>1. worker[w].coord = {}
    BY <1>0, <1>2, Zenon DEF WorkersOK, SlotOK
  <2>2. worker'[w].coord = {d}
    BY <1>0, <1>2, Zenon DEF WorkersOK
  <2>3. \A v \in Terms \X Pool : v # w => worker'[v] = worker[v]
    BY <1>0, <1>2, Zenon DEF WorkersOK
  <2> QED
    BY <2>1, <2>2, <2>3, Zenon
<1>5. Queued(c)' => Queued(c)
  BY <1>3, Zenon DEF Queued
<1>6. InHand(c)' <=> InHand(c) \/ c = d
  BY <1>4, Zenon DEF InHand
<1>7. CASE c = d
  <2>1. Queued(c) /\ \A i \in DOMAIN queue : queue[i] = c => i = 1
    BY <1>0, <1>3, <1>7, Zenon DEF Queued, Alone, Once
  <2>2. ~InHand(c) /\ c \in marks
    BY <1>0, <2>1, Zenon DEF Alone, Once, OnWay
  <2>3. ~Queued(c)' /\ \A i \in DOMAIN queue' : queue'[i] # c
    BY <1>3, <2>1, Zenon DEF Queued
  <2>4. \A u, v \in Terms \X Pool : c \in worker'[u].coord /\ c \in worker'[v].coord => u = v
    BY <1>4, <2>2, Zenon DEF InHand
  <2>5. Once(c)'
    BY <2>3, <2>4, Zenon DEF Once
  <2> QED
    BY <1>0, <1>2, <2>2, <2>5, Zenon DEF Alone
<1>8. CASE c # d
  <2>1. \A i, j \in DOMAIN queue' : queue'[i] = c /\ queue'[j] = c => i = j
    BY <1>0, <1>3, ZenonT(40) DEF Alone, Once
  <2>2. Once(c)'
    BY <1>0, <1>4, <1>5, <1>6, <1>8, <2>1, Zenon DEF Alone, Once
  <2> QED
    BY <1>0, <1>2, <1>5, <1>6, <1>8, <2>2, Zenon DEF Alone, OnWay
<1> QED
  BY <1>7, <1>8, Zenon

\* Every step keeps what is on its way marked and there once, or records the race.
LEMMA NextAlone ==
    ASSUME ScanInv, Next
    PROVE  Deduplicated' /\ excused \subseteq excused'
<1>0. HeldOK /\ WorkersOK /\ TodoOK /\ DOMAIN worker = Terms \X Pool /\ QueueOK /\ ProgressOK
  BY Zenon DEF ScanInv, ProgressOK, QueueOK, HeldOK, WorkersOK, TodoOK
<1>1. \A c \in Coords \ excused : Alone(c)
  BY Zenon DEF ScanInv, Deduplicated, Alone
<1>2. ASSUME \A c \in Coords \ excused' : Alone(c)' PROVE Deduplicated'
  BY <1>2, Zenon DEF Deduplicated, Alone
<1>3. ASSUME UNCHANGED <<queue, marks, excused>>, \A p \in Procs : held'[p] \subseteq held[p],
             \A w \in Terms \X Pool : worker'[w].coord \subseteq worker[w].coord
      PROVE  Deduplicated' /\ excused \subseteq excused'
  <2>1. excused' = excused /\ UNCHANGED <<queue, marks>>
    BY <1>3, Zenon
  <2> QED
    BY <1>1, <1>2, <1>3, <2>1, NothingNew, Zenon
<1>4. ASSUME NEW p \in Procs, NEW d \in Coords, HasMark(p, d), held[p] = {},
             UNCHANGED <<marks, queue, worker>>
      PROVE  Deduplicated' /\ excused \subseteq excused'
  <2>1. excused \subseteq excused'
    BY <1>4, Zenon DEF HasMark
  <2> QED
    BY <1>0, <1>1, <1>2, <1>4, <2>1, HasMarkAlone, Zenon
<1>5. ASSUME NEW k \in Clients, Request(k) \/ Store(k) PROVE Deduplicated' /\ excused \subseteq excused'
  <2>1. PICK d \in Coords : HasMark(k, d)
    BY <1>5, ConstantsAssumption, Zenon DEF Request, Store
  <2>2. held[k] = {} /\ UNCHANGED <<marks, queue, worker>> /\ k \in Procs
    BY <1>5, Zenon DEF Request, Store, Procs
  <2> QED
    BY <1>4, <2>1, <2>2, Zenon
<1>6. ASSUME NEW p \in Procs, CheckMark(p) PROVE Deduplicated' /\ excused \subseteq excused'
  <2>1. PICK s, d : s = todo[p] /\ d = Head(s)
    OBVIOUS
  <2>2. s \in Seq(Coords) /\ s # <<>>
    BY <1>0, <1>6, <2>1, Zenon DEF CheckMark, TodoOK
  <2>3. d \in Coords
    BY <2>1, <2>2, HeadTailProperties, Zenon
  <2>4. held[p] = {} /\ UNCHANGED <<marks, queue, worker>> /\ (UNCHANGED <<held, excused>> \/ HasMark(p, d))
    BY <1>6, <2>1, Zenon DEF CheckMark
  <2> QED
    BY <1>3, <1>4, <2>3, <2>4, Zenon
<1>7. ASSUME NEW p \in Procs, Send(p) PROVE Deduplicated' /\ excused \subseteq excused'
  <2>1. excused' = excused
    BY <1>7, Zenon DEF Send
  <2> QED
    BY <1>2, <1>7, <2>1, SendAlone, Zenon
<1>8. ASSUME NEW w \in DOMAIN worker, TakeJob(w) PROVE Deduplicated' /\ excused \subseteq excused'
  <2>1. excused' = excused
    BY <1>8, Zenon DEF TakeJob
  <2> QED
    BY <1>0, <1>2, <1>8, <2>1, TakeAlone, Zenon
<1>9. ASSUME NEW w \in DOMAIN worker, Query(w) \/ StoreResult(w) \/ Fail(w) \/ Stop(w)
      PROVE  Deduplicated' /\ excused \subseteq excused'
  <2>1. UNCHANGED <<queue, marks, excused>> /\ held' = held
    BY <1>9, Zenon DEF Query, StoreResult, Fail, Stop
  <2>2. worker[w] \in Slot /\ w \in Terms \X Pool
    BY <1>0, <1>9, Zenon DEF WorkersOK
  <2>3. \E x : worker' = [worker EXCEPT ![w] = x] /\ x.coord \subseteq worker[w].coord
    <3>1. CASE Query(w)
      <4>1. PICK c \in worker[w].coord :
               worker' = [worker EXCEPT ![w] = [@ EXCEPT !.pc = "store", !.answer = truth[c]]]
        BY <3>1, Zenon DEF Query
      <4>2. PICK x : x = [worker[w] EXCEPT !.pc = "store", !.answer = truth[c]]
        BY Zenon
      <4>3. x.coord = worker[w].coord
        BY <2>2, <4>2, Zenon DEF Slot
      <4>4. worker' = [worker EXCEPT ![w] = x]
        BY <2>2, <4>1, <4>2, Zenon
      <4> QED
        BY <4>3, <4>4, Zenon
    <3>2. CASE StoreResult(w) \/ Fail(w)
      BY <3>2, Slots, Zenon DEF StoreResult, Fail
    <3>3. CASE Stop(w)
      BY <3>3, Slots, Zenon DEF Stop
    <3> QED
      BY <1>9, <3>1, <3>2, <3>3, Zenon
  <2>4. \A v \in Terms \X Pool : worker'[v].coord \subseteq worker[v].coord
    BY <1>0, <2>2, <2>3, Zenon DEF WorkersOK
  <2> QED
    BY <1>3, <2>1, <2>4, Zenon
<1>10. ASSUME \/ Sweep \/ SweepFails \/ RescanTick \/ StopLeading \/ DeleteArtifact \/ Age
              \/ \E c \in Coords : Disclose(c)
       PROVE  Deduplicated' /\ excused \subseteq excused'
  <2>1. UNCHANGED <<queue, marks, excused>> /\ held' = held /\ worker' = worker
    BY <1>10, Zenon DEF Sweep, SweepStart, SweepPage, SweepFails, RescanTick, StopLeading,
       DeleteArtifact, Age, Disclose
  <2> QED
    BY <1>3, <2>1, Zenon
<1>11. ASSUME StartLeading PROVE Deduplicated' /\ excused \subseteq excused'
  <2>1. UNCHANGED <<queue, marks, excused>> /\ held' = held
    BY <1>11, Zenon DEF StartLeading
  <2>2. PICK idle : idle = [Off EXCEPT !.pc = "idle"] /\ idle.coord = {}
    BY Slots, Zenon
  <2>3. worker' = [w \in Terms \X Pool |-> IF w[1] = term THEN idle ELSE worker[w]]
    BY <1>0, <1>11, <2>2, Zenon DEF StartLeading
  <2>4. \A v \in Terms \X Pool : worker'[v].coord \subseteq worker[v].coord
    BY <2>2, <2>3, Zenon
  <2> QED
    BY <1>3, <2>1, <2>4, Zenon
<1>12. ASSUME Restart PROVE Deduplicated' /\ excused \subseteq excused'
  <2>1. /\ queue' = <<>> /\ marks' = {} /\ excused' = excused /\ worker' = [w \in Terms \X Pool |-> Off]
        /\ held' = [p \in Procs |-> {}]
    BY <1>0, <1>12, Zenon DEF Restart
  <2>2. DOMAIN queue' = {}
    BY <2>1
  <2>3. \A w \in Terms \X Pool : worker'[w].coord = {}
    BY <2>1, Slots, Zenon
  <2>4. ASSUME NEW c PROVE Alone(c)'
    <3>1. ~Queued(c)' /\ ~InHand(c)'
      BY <2>2, <2>3, Zenon DEF Queued, InHand
    <3>2. Once(c)'
      BY <2>2, <2>3, <3>1, Zenon DEF Once
    <3> QED
      BY <2>1, <3>1, <3>2, Zenon DEF Alone, OnWay
  <2> QED
    BY <1>2, <2>1, <2>4, Zenon
<1>13. ASSUME NEW d \in Coords, MarkExpires(d) PROVE Deduplicated' /\ excused \subseteq excused'
  <2>1. /\ UNCHANGED <<queue, worker, held>> /\ marks' = marks \ {d}
        /\ excused' = IF OnWay(d) THEN excused \union {d} ELSE excused
    BY <1>13, Zenon DEF MarkExpires
  <2>3. ASSUME NEW c \in Coords \ excused' PROVE Alone(c)'
    <3>1. Alone(c) /\ (c = d => ~OnWay(c))
      BY <1>1, <2>1, <2>3, Zenon
    <3>2. queue' = queue /\ worker' = worker /\ held' = held
      BY <2>1, Zenon
    <3>3. (OnWay(c)' <=> OnWay(c)) /\ Once(c)'
      BY <3>1, <3>2, Zenon DEF OnWay, Queued, InHand, Alone, Once
    <3>4. c \in marks' => c \in marks
      BY <2>1, Zenon
    <3>5. OnWay(c)' => c \in marks'
      BY <2>1, <3>1, <3>3, Zenon DEF Alone
    <3> QED
      BY <3>1, <3>2, <3>3, <3>4, <3>5, Zenon DEF Alone
  <2>4. excused \subseteq excused'
    BY <2>1, Zenon
  <2> QED
    BY <1>2, <2>3, <2>4, Zenon
<1> QED
  BY <1>5, <1>6, <1>7, <1>8, <1>9, <1>10, <1>11, <1>12, <1>13, ZenonT(40) DEF Next, Enqueue, Work

-----------------------------------------------------------------------------
(* The findings.                                                            *)

\* A step that stores nothing and gives no worker an answer.
LEMMA NoAnswer ==
    ASSUME FindingsKnown, verdict' = verdict, excused \subseteq excused',
           \A c \in Coords : truth[c] = "bad" => truth'[c] = "bad",
           WorkersOK,
           \A v \in Terms \X Pool : worker'[v] = worker[v] \/ worker'[v].pc # "store"
    PROVE  FindingsKnown'
<1>1. \A c \in Coords : verdict'[c] = "bad" => truth'[c] = "bad"
  BY Zenon DEF FindingsKnown
<1>2. ASSUME NEW v \in Terms \X Pool, NEW c \in worker'[v].coord, worker'[v].pc = "store"
      PROVE  /\ worker'[v].answer = "bad" => truth'[c] = "bad"
             /\ worker'[v].answer = "good" /\ verdict'[c] = "bad" => c \in excused'
  <2>1. worker'[v] = worker[v] /\ worker[v] \in Slot
    BY <1>2, Zenon DEF WorkersOK
  <2>2. c \in Coords
    BY <1>2, <2>1, Zenon DEF Slot
  <2> QED
    BY <1>2, <2>1, <2>2, Zenon DEF FindingsKnown
<1> QED
  BY <1>1, <1>2, Zenon DEF FindingsKnown

\* runScan, runResolve: what is stored is the source's answer, and it clears a finding, or
\* leaves somebody with an answer that would, only after a race.
LEMMA StoreKnown ==
    ASSUME ScanInv, NEW w \in Terms \X Pool, StoreResult(w)
    PROVE  /\ FindingsKnown'
           /\ \A c \in Coords : verdict[c] = "bad" /\ verdict'[c] # "bad" => c \in excused
<1>0. /\ WorkersOK /\ DOMAIN verdict = Coords /\ FindingsKnown /\ \A c \in Coords \ excused : Once(c)
      /\ worker[w] \in Slot /\ SlotOK(worker[w])
  BY Zenon DEF ScanInv, ProgressOK, WorkersOK, ResultsOK, Deduplicated
<1>1. PICK d \in worker[w].coord : verdict' = [verdict EXCEPT ![d] = worker[w].answer]
  BY Zenon DEF StoreResult
<1>2. worker[w].pc = "store" /\ truth' = truth /\ excused' = excused
  BY Zenon DEF StoreResult
<1>3. d \in Coords /\ worker[w].answer \in Verdicts
  BY <1>0, <1>1, <1>2, Zenon DEF Slot, SlotOK
<1>4. verdict'[d] = worker[w].answer /\ \A c \in Coords : c # d => verdict'[c] = verdict[c]
  BY <1>0, <1>1, <1>3, Zenon
<1>5. PICK x : x = [Off EXCEPT !.pc = "idle"] /\ x.pc = "idle"
  BY Slots, Zenon
<1>6. worker' = [worker EXCEPT ![w] = x]
  BY <1>5, Zenon DEF StoreResult
<1>7. \A c \in Coords : verdict'[c] = "bad" => truth'[c] = "bad"
  BY <1>0, <1>1, <1>2, <1>3, <1>4, ZenonT(40) DEF FindingsKnown
<1>8. ASSUME NEW v \in Terms \X Pool, NEW c \in worker'[v].coord, worker'[v].pc = "store"
      PROVE  /\ worker'[v].answer = "bad" => truth'[c] = "bad"
             /\ worker'[v].answer = "good" /\ verdict'[c] = "bad" => c \in excused'
  <2>1. v # w
    BY <1>0, <1>5, <1>6, <1>8, Zenon DEF WorkersOK
  <2>2. worker'[v] = worker[v]
    BY <1>0, <1>6, <2>1, Zenon DEF WorkersOK
  <2>3. c \in Coords /\ c \in worker[v].coord /\ worker[v].pc = "store"
    BY <1>0, <1>8, <2>2, Zenon DEF WorkersOK, Slot
  <2>4. CASE c = d
    <3>1. c \in excused
      BY <1>0, <1>1, <2>1, <2>3, <2>4, Zenon DEF Once
    <3> QED
      BY <1>0, <1>2, <2>2, <2>3, <3>1, Zenon DEF FindingsKnown
  <2>5. CASE c # d
    BY <1>0, <1>2, <1>4, <2>2, <2>3, <2>5, Zenon DEF FindingsKnown
  <2> QED
    BY <2>4, <2>5, Zenon
<1>9. \A c \in Coords : verdict[c] = "bad" /\ verdict'[c] # "bad" => c \in excused
  <2>1. worker[w].answer # "bad" => worker[w].answer = "good"
    BY <1>3, Zenon DEF Verdicts
  <2> QED
    BY <1>0, <1>1, <1>2, <1>4, <2>1, Zenon DEF FindingsKnown
<1> QED
  BY <1>7, <1>8, <1>9, Zenon DEF FindingsKnown

\* Every step keeps the findings known and clears one only after a race.
LEMMA NextFindings ==
    ASSUME ScanInv, Next
    PROVE  /\ FindingsKnown'
           /\ \A c \in Coords : verdict[c] = "bad" /\ verdict'[c] # "bad" => c \in excused
<1>0. /\ WorkersOK /\ DOMAIN worker = Terms \X Pool /\ FindingsKnown /\ excused \subseteq excused'
      /\ truth \in [Coords -> Verdicts]
  BY NextAlone, Zenon DEF ScanInv, ProgressOK, WorkersOK, QueueOK
<1>1. ASSUME verdict' = verdict, truth' = truth,
             \A v \in Terms \X Pool : worker'[v] = worker[v] \/ worker'[v].pc # "store"
      PROVE  FindingsKnown' /\ verdict' = verdict
  BY <1>0, <1>1, NoAnswer, Zenon
<1>2. ASSUME \/ \E k \in Clients : Request(k) \/ Store(k)
             \/ \E p \in Procs : Enqueue(p)
             \/ Sweep \/ SweepFails \/ RescanTick \/ \E c \in Coords : MarkExpires(c)
             \/ StopLeading \/ DeleteArtifact \/ Age
      PROVE  FindingsKnown' /\ verdict' = verdict
  <2>1. verdict' = verdict /\ truth' = truth /\ worker' = worker
    BY <1>2, Zenon DEF Request, Store, Enqueue, CheckMark, Send, Sweep, SweepStart, SweepPage,
       SweepFails, RescanTick, MarkExpires, StopLeading, DeleteArtifact, Age, table
  <2> QED
    BY <1>1, <2>1, Zenon
<1>3. ASSUME NEW w \in Terms \X Pool, TakeJob(w) \/ Fail(w) \/ Stop(w)
      PROVE  FindingsKnown' /\ verdict' = verdict
  <2>1. verdict' = verdict /\ truth' = truth
    BY <1>3, Zenon DEF TakeJob, Fail, Stop, table
  <2>2. \E x : worker' = [worker EXCEPT ![w] = x] /\ x.pc # "store"
    <3>1. CASE TakeJob(w)
      <4>1. PICK x : x = [pc |-> "query", coord |-> {Head(queue)}, answer |-> "none"]
        BY Zenon
      <4>2. x.pc # "store"
        BY <4>1
      <4> QED
        BY <3>1, <4>1, <4>2, Zenon DEF TakeJob
    <3>2. CASE Fail(w) \/ Stop(w)
      <4>1. [Off EXCEPT !.pc = "idle"].pc # "store" /\ Off.pc # "store"
        BY Slots, Zenon
      <4> QED
        BY <3>2, <4>1, Zenon DEF Fail, Stop
    <3> QED
      BY <1>3, <3>1, <3>2, Zenon
  <2>3. \A v \in Terms \X Pool : worker'[v] = worker[v] \/ worker'[v].pc # "store"
    BY <1>0, <2>2, Zenon
  <2> QED
    BY <1>1, <2>1, <2>3, Zenon
<1>4. ASSUME NEW w \in Terms \X Pool, Query(w) PROVE FindingsKnown' /\ verdict' = verdict
  <2>1. verdict' = verdict /\ truth' = truth /\ excused' = excused
    BY <1>4, Zenon DEF Query, table
  <2>2. PICK d \in worker[w].coord :
           worker' = [worker EXCEPT ![w] = [@ EXCEPT !.pc = "store", !.answer = truth[d]]]
    BY <1>4, Zenon DEF Query
  <2>3. PICK x : x = [worker[w] EXCEPT !.pc = "store", !.answer = truth[d]]
    BY Zenon
  <2>4. worker[w] \in Slot /\ SlotOK(worker[w])
    BY <1>0, Zenon DEF WorkersOK
  <2>5. x.coord = worker[w].coord /\ x.answer = truth[d] /\ d \in Coords /\ \A c \in x.coord : c = d
    BY <2>2, <2>3, <2>4, Zenon DEF Slot, SlotOK
  <2>6. worker'[w] = x /\ \A v \in Terms \X Pool : v # w => worker'[v] = worker[v]
    BY <1>0, <2>2, <2>3, Zenon
  <2>7. \A c \in Coords : verdict'[c] = "bad" => truth'[c] = "bad"
    BY <1>0, <2>1, Zenon DEF FindingsKnown
  <2>8. ASSUME NEW v \in Terms \X Pool, NEW c \in worker'[v].coord, worker'[v].pc = "store"
        PROVE  /\ worker'[v].answer = "bad" => truth'[c] = "bad"
               /\ worker'[v].answer = "good" /\ verdict'[c] = "bad" => c \in excused'
    <3>1. CASE v = w
      <4>1. worker'[v].answer = truth'[c] /\ c \in Coords
        BY <2>1, <2>5, <2>6, <2>8, <3>1, Zenon
      <4>2. truth'[c] = "good" => verdict'[c] # "bad"
        BY <2>7, <4>1, Zenon
      <4> QED
        BY <4>1, <4>2, Zenon
    <3>2. CASE v # w
      <4>1. worker'[v] = worker[v]
        BY <2>6, <3>2, Zenon
      <4>2. c \in worker[v].coord /\ worker[v].pc = "store"
        BY <2>8, <4>1, Zenon
      <4>3. /\ worker[v].answer = "bad" => truth[c] = "bad"
            /\ worker[v].answer = "good" /\ verdict[c] = "bad" => c \in excused
        BY <1>0, <4>2, Zenon DEF FindingsKnown
      <4> QED
        BY <2>1, <4>1, <4>3, Zenon
    <3> QED
      BY <3>1, <3>2, Zenon
  <2> QED
    BY <2>1, <2>7, <2>8, Zenon DEF FindingsKnown
<1>5. ASSUME NEW d \in Coords, Disclose(d) PROVE FindingsKnown' /\ verdict' = verdict
  <2>1. verdict' = verdict /\ worker' = worker /\ truth' = [truth EXCEPT ![d] = "bad"]
    BY <1>5, Zenon DEF Disclose, table
  <2>2. \A c \in Coords : truth[c] = "bad" => truth'[c] = "bad"
    BY <1>0, <2>1, Zenon
  <2> QED
    BY <1>0, <2>1, <2>2, NoAnswer, Zenon
<1>6. ASSUME StartLeading \/ Restart PROVE FindingsKnown' /\ verdict' = verdict
  <2>1. verdict' = verdict /\ truth' = truth
    BY <1>6, Zenon DEF StartLeading, Restart, table
  <2>2. PICK idle : idle = [Off EXCEPT !.pc = "idle"] /\ idle.pc # "store"
    BY Slots, Zenon
  <2>3. \/ worker' = [w \in Terms \X Pool |-> IF w[1] = term THEN idle ELSE worker[w]]
        \/ worker' = [w \in Terms \X Pool |-> Off]
    BY <1>0, <1>6, <2>2, Zenon DEF StartLeading, Restart
  <2>4. Off.pc # "store"
    BY Slots, Zenon
  <2>5. \A v \in Terms \X Pool : worker'[v] = worker[v] \/ worker'[v].pc # "store"
    BY <2>2, <2>3, <2>4, Zenon
  <2> QED
    BY <1>1, <2>1, <2>5, Zenon
<1>7. ASSUME NEW w \in DOMAIN worker, StoreResult(w)
      PROVE  /\ FindingsKnown'
             /\ \A c \in Coords : verdict[c] = "bad" /\ verdict'[c] # "bad" => c \in excused
  BY <1>0, <1>7, StoreKnown, Zenon
<1>8. (FindingsKnown' /\ verdict' = verdict) \/ \E w \in DOMAIN worker : StoreResult(w)
  BY <1>0, <1>2, <1>3, <1>4, <1>5, <1>6, Zenon DEF Next, Work
<1> QED
  BY <1>7, <1>8, Zenon

-----------------------------------------------------------------------------
(* The theorem.                                                             *)

\* The invariant holds of a new installation, and of one whose results have all gone stale:
\* no marks, no jobs and no worker yet.
LEMMA ScanInit ==
    ASSUME Init
    PROVE  ScanInv
<1>1. /\ DOMAIN queue = {} /\ queue \in Seq(Coords) /\ Len(queue) <= QueueCap
      /\ term \in Terms
  BY ConstantsAssumption DEF Init, Terms
<1>2. \A w \in Terms \X Pool : worker[w] = Off /\ worker[w].coord = {}
  BY Slots, Zenon DEF Init
<1>3. worker \in [Terms \X Pool -> Slot] /\ \A w \in Terms \X Pool : SlotOK(worker[w])
  BY Slots, Zenon DEF Init
<1>4. ProgressOK
  <2>1. <<>> \in Seq(Coords)
    OBVIOUS
  <2> QED
    BY <1>3, <2>1, Zenon DEF Init, ProgressOK
<1>5. truth \in [Coords -> Verdicts]
  BY Zenon DEF Init
<1>6. sweep \in Progress
  BY DEF Init, NoSweep, Progress
<1>7. artifacts \in Seq(Versioned)
  BY ConstantsAssumption, Zenon DEF Init
<1>8. QueueOK
  BY <1>1, <1>5, <1>6, <1>7, Zenon DEF Init, QueueOK
<1>9. Deduplicated
  <2>1. \A c : ~Queued(c) /\ ~InHand(c)
    BY <1>1, <1>2, Zenon DEF Queued, InHand
  <2>2. \A c : Once(c)
    BY <1>1, <1>2, <2>1, Zenon DEF Once
  <2>3. \A p \in Procs : held[p] = {}
    BY Zenon DEF Init
  <2> QED
    BY <2>1, <2>2, <2>3, Zenon DEF Deduplicated, OnWay
<1>10. ResultsOK /\ \A c \in Coords : verdict[c] = "bad" => truth[c] = "bad"
  <2>1. CASE rows = <<>> /\ verdict = [c \in Coords |-> "none"]
    <3>1. \A c \in Coords : verdict[c] = "none"
      BY <2>1, Zenon
    <3>2. verdict \in [Coords -> Verdicts \union {"none"}]
      BY <2>1, Zenon
    <3>3. rows \in Seq(Coords) /\ IsInjective(rows) /\ stale \in 0..Len(rows) /\ Range(rows) = {}
      BY <2>1 DEF Init, IsInjective, Range
    <3> QED
      BY <3>1, <3>2, <3>3, Zenon DEF ResultsOK
  <2>2. CASE rows \in Bijection(1..Cardinality(Versioned), Versioned)
             /\ \E f \in [Versioned -> Verdicts] :
                   /\ \A c \in Versioned : f[c] \in {"good", truth[c]}
                   /\ verdict = [c \in Coords |-> IF c \in Versioned THEN f[c] ELSE "none"]
    <3>1. PICK f \in [Versioned -> Verdicts] :
             /\ \A c \in Versioned : f[c] \in {"good", truth[c]}
             /\ verdict = [c \in Coords |-> IF c \in Versioned THEN f[c] ELSE "none"]
      BY <2>2, Zenon
    <3>2. PICK n \in Nat : n = Cardinality(Versioned)
      BY ConstantsAssumption, Zenon
    <3>3. /\ rows \in [1..n -> Versioned] /\ IsInjective(rows)
          /\ \A c \in Versioned : \E i \in 1..n : rows[i] = c
      BY <2>2, <3>2, Zenon DEF Bijection, Injection, Surjection
    <3>4. rows \in Seq(Coords) /\ Len(rows) = n /\ DOMAIN rows = 1..n
      BY <3>2, <3>3, ConstantsAssumption, SMTT(30)
    <3>5. stale \in 0..Len(rows)
      BY <3>4 DEF Init
    <3>6. Range(rows) = Versioned
      BY <3>3, <3>4, Zenon DEF Range
    <3>7. \A c \in Coords : verdict[c] # "none" <=> c \in Versioned
      BY <3>1, Zenon DEF Verdicts
    <3>8. Versioned = {c \in Coords : verdict[c] # "none"}
      BY <3>7, ConstantsAssumption, Zenon
    <3>9. verdict \in [Coords -> Verdicts \union {"none"}]
      BY <3>1, Zenon
    <3>10. \A c \in Coords : verdict[c] = "bad" => truth[c] = "bad"
      BY <3>1, Zenon
    <3> QED
      BY <3>3, <3>4, <3>5, <3>6, <3>8, <3>9, <3>10, Zenon DEF ResultsOK
  <2> QED
    BY <2>1, <2>2, Zenon DEF Init
<1>11. FindingsKnown
  BY <1>2, <1>10, Zenon DEF FindingsKnown
<1> QED
  BY <1>4, <1>8, <1>9, <1>10, <1>11, Zenon DEF ScanInv

\* In every state of the invariant a coordinate is queued or in a worker's hand once, unless
\* a race is on record (enqueueScan, runScan).
LEMMA ScanSafe ==
    ASSUME ScanInv
    PROVE  TypeOK /\ DuplicateOnlyByRace
<1>1. source = "license" => Range(queue) \subseteq Versioned
  BY Zenon DEF ScanInv, QueueOK, Range
<1>2. TypeOK
  <2>1. \A p \in Procs : todo[p] \in Seq(Coords) /\ \A c, d \in held[p] : c = d
    BY Zenon DEF ScanInv, ProgressOK
  <2> QED
    BY <1>1, <2>1, Zenon DEF ScanInv, ResultsOK, QueueOK, TypeOK
<1>3. DuplicateOnlyByRace
  BY Zenon DEF ScanInv, Deduplicated, DuplicateOnlyByRace
<1> QED
  BY <1>2, <1>3, Zenon

\* Every step keeps the invariant and clears a finding only after a race.
LEMMA ScanStep ==
    ASSUME ScanInv, [Next]_vars
    PROVE  /\ ScanInv'
           /\ \A c \in Coords : verdict[c] = "bad" /\ verdict'[c] # "bad" => c \in excused
<1>1. CASE Next
  BY <1>1, NextResults, NextProgress, NextQueue, NextAlone, NextFindings, Zenon DEF ScanInv
<1>2. CASE UNCHANGED vars
  <2>1. /\ UNCHANGED <<source, truth, artifacts, marks, queue, term, leading, worker, todo, held,
                       sweep, excused>>
        /\ UNCHANGED <<verdict, rows, stale>>
    BY <1>2, Zenon DEF vars, table
  <2>2. ResultsOK' /\ ProgressOK'
    BY <2>1, Zenon DEF ScanInv, ResultsOK, ProgressOK
  <2>3. QueueOK'
    BY <2>1, Zenon DEF ScanInv, QueueOK
  <2>4. Deduplicated'
    BY <2>1, ZenonT(40) DEF ScanInv, Deduplicated, Once, OnWay, Queued, InHand
  <2>5. FindingsKnown' /\ verdict' = verdict
    BY <2>1, Zenon DEF ScanInv, FindingsKnown
  <2> QED
    BY <2>2, <2>3, <2>4, <2>5, Zenon DEF ScanInv
<1> QED
  BY <1>1, <1>2, Zenon

\* A coordinate is scheduled twice, and a stored finding overwritten by an older answer, only
\* if its mark expired before its scan ended or two callers were between has and set at
\* once, for every pool, queue and set of coordinates (enqueueScan, runScan).
THEOREM ScansRepeatedOnlyByRace == Spec => RepeatedOnlyByRace
<1>1. Init => ScanInv
  BY ScanInit, Zenon
<1>2. ScanInv /\ [Next]_vars => ScanInv'
  BY ScanStep, Zenon
<1>3. ScanInv => TypeOK /\ DuplicateOnlyByRace
  BY ScanSafe, Zenon
<1>4. ScanInv /\ [Next]_vars =>
         [\A c \in Coords : verdict[c] = "bad" /\ verdict'[c] # "bad" => c \in excused]_vars
  BY ScanStep, Zenon
<1> QED
  BY <1>1, <1>2, <1>3, <1>4, PTL DEF Spec, RepeatedOnlyByRace, FindingLostOnlyByRace

-----------------------------------------------------------------------------
(* The rules of authorization.                                              *)

\* What matches the empty repository matches every repository (matchGlob).
LEMMA EmptyNameIsGlobal ==
    ASSUME NEW pattern, NEW repo, MatchGlob(pattern, <<>>)
    PROVE  MatchGlob(pattern, repo)
BY DEF MatchGlob

\* Permissions that allow admin on the empty repository allow everything
\* everywhere (rolesAllow, scopesAllow, actionsContain).
LEMMA GlobalAdminAllowsAll ==
    ASSUME NEW entries, NEW repo, NEW action, Allow(entries, <<>>, "admin")
    PROVE  Allow(entries, repo, action)
<1>1. PICK e \in entries : MatchGlob(e.pattern, <<>>) /\ ActionsContain(e.actions, "admin")
  BY DEF Allow
<1>2. MatchGlob(e.pattern, repo)
  BY <1>1, EmptyNameIsGlobal, SMTT(30)
<1>3. ActionsContain(e.actions, action)
  BY <1>1 DEF ActionsContain
<1> QED
  BY <1>1, <1>2, <1>3, SMTT(30) DEF Allow

\* The scopes of an issued token allow none of the deciding actions
\* (validateTokenReq).
LEMMA IssuedScopesDecideNothing ==
    ASSUME NEW scopes, ValidScopes(scopes), NEW action \in {"approve", "audit", "admin"}
    PROVE  /\ ~Grants(scopes, action)
           /\ \A repo : ~Allow(scopes, repo, action)
<1>1. \A e \in scopes : ~ActionsContain(e.actions, action)
  BY DEF ValidScopes, ActionsContain
<1> QED
  BY <1>1 DEF Grants, Allow

\* What is allowed on some repository is granted on some pattern.
LEMMA AllowedIsGranted ==
    ASSUME NEW entries, NEW repo, NEW action, Allow(entries, repo, action)
    PROVE  Grants(entries, action)
BY DEF Allow, Grants

\* IsAdmin, a check on the empty repository, is admin of everything.
THEOREM AdminIsEverywhere == RulesSpec => []AdminEverywhere
<1>1. AdminEverywhere
  <2> SUFFICES ASSUME IsAdmin(task.p), NEW repo \in task.repos, NEW a \in AllActions
               PROVE  Can(task.p, repo, a)
    BY DEF AdminEverywhere
  <2>1. Allow(task.p.perms, repo, a)
    BY GlobalAdminAllowsAll DEF IsAdmin, Can
  <2>2. ASSUME task.p.viaToken /\ task.p.scopes # {} PROVE Allow(task.p.scopes, repo, a)
    BY <2>2, GlobalAdminAllowsAll, SMTT(30) DEF IsAdmin, Can
  <2> QED
    BY <2>1, <2>2, SMTT(30) DEF Can
<1> QED
  BY <1>1, PTL

\* A principal on an issued token never decides, whatever its owner may do.
THEOREM TokensNeverDecide == RulesSpec => []TokenNeverDecides
<1>1. TokenNeverDecides
  <2> SUFFICES ASSUME task.p.viaToken, ValidScopes(task.p.scopes)
               PROVE  /\ ~CanApproveAny(task.p) /\ ~CanAuditAny(task.p) /\ ~IsAdmin(task.p)
                      /\ \A repo \in task.repos, a \in {"approve", "audit", "admin"} : ~Can(task.p, repo, a)
    BY DEF TokenNeverDecides, Resolvable
  <2>1. task.p.scopes # {}
    BY DEF ValidScopes
  <2>2. \A repo : \A a \in {"approve", "audit", "admin"} : ~Can(task.p, repo, a)
    BY <2>1, IssuedScopesDecideNothing, SMTT(30) DEF Can
  <2>3. ~CanApproveAny(task.p) /\ ~CanAuditAny(task.p)
    BY <2>1, IssuedScopesDecideNothing, SMTT(30) DEF CanApproveAny, CanAuditAny
  <2> QED
    BY <2>2, <2>3, SMTT(30) DEF IsAdmin
<1> QED
  BY <1>1, PTL

\* RequireApprover and RequireAuditor admit everybody who may decide something.
THEOREM GatesAdmitDeciders == RulesSpec => []GatesAdmit
<1>1. GatesAdmit
  <2> SUFFICES ASSUME Resolvable(task.p), NEW repo \in task.repos
               PROVE  /\ Can(task.p, repo, "approve") => CanApproveAny(task.p)
                      /\ Can(task.p, repo, "audit") => CanAuditAny(task.p)
    BY DEF GatesAdmit
  <2>1. CASE task.p.viaToken
    <3>1. ValidScopes(task.p.scopes) /\ task.p.scopes # {}
      BY <2>1 DEF Resolvable, ValidScopes
    <3> QED
      BY <2>1, <3>1, IssuedScopesDecideNothing, SMTT(30) DEF Can
  <2>2. CASE ~task.p.viaToken
    BY <2>2, AllowedIsGranted DEF Can, CanApproveAny, CanAuditAny
  <2> QED
    BY <2>1, <2>2, SMTT(30)
<1> QED
  BY <1>1, PTL

\* Gates, checks and scopes agree, for every principal.
THEOREM GatesAgreeAlways == RulesSpec => []GatesAgree
<1>1. AdminEverywhere /\ TokenNeverDecides /\ GatesAdmit => GatesAgree
  BY DEF GatesAgree
<1> QED
  BY <1>1, AdminIsEverywhere, TokensNeverDecide, GatesAdmitDeciders, PTL

-----------------------------------------------------------------------------
(* ParsePolicy.                                                             *)

\* What of the roles is read from the first n lines: they declare the roles, every
\* permission has its line and every line its permission.
RolesRead(lines, n, roles) ==
    /\ DOMAIN roles = {lines[i].role : i \in {j \in 1..n : lines[j].kind = "p"}}
    /\ \A role \in DOMAIN roles : \A e \in roles[role] : \A a \in e.actions :
          \E i \in 1..n : /\ lines[i].kind = "p" /\ lines[i].role = role
                          /\ lines[i].pattern = e.pattern /\ LineAction(lines[i]) = a
    /\ \A i \in 1..n : lines[i].kind = "p" =>
          \E e \in roles[lines[i].role] : e.pattern = lines[i].pattern /\ LineAction(lines[i]) \in e.actions

\* The places of the grants among the first n lines.
Upto(n, places) == {i \in places : i <= n}

\* The permissions of a role after one more line: the earlier ones and the line's.
Added(perms, line, new) ==
    /\ \A e \in new : \A a \in e.actions :
          \/ \E f \in perms : f.pattern = e.pattern /\ a \in f.actions
          \/ e.pattern = line.pattern /\ a = LineAction(line)
    /\ \A f \in perms : \A a \in f.actions : \E e \in new : e.pattern = f.pattern /\ a \in e.actions
    /\ \E e \in new : e.pattern = line.pattern /\ LineAction(line) \in e.actions

\* appendUnique adds the line's action to the entry of its pattern and loses none.
LEMMA AddedPermission ==
    ASSUME NEW perms, NEW line
    PROVE  Added(perms, line, AddPermission(perms, line))
<1>0. PICK new : new = AddPermission(perms, line)
  BY Zenon
<1>1. PICK same, all, one :
         /\ same = {e \in perms : e.pattern = line.pattern}
         /\ all = {LineAction(line)} \union UNION {e.actions : e \in same}
         /\ one = [pattern |-> line.pattern, actions |-> all]
  BY Zenon
<1>2. new = (perms \ same) \union {one}
  BY <1>0, <1>1, Zenon DEF AddPermission
<1>3. one.pattern = line.pattern /\ one.actions = all
  BY <1>1
<1>4. \A a : a \in all <=> a = LineAction(line) \/ \E e \in same : a \in e.actions
  BY <1>1, Zenon
<1>5. ASSUME NEW e \in new, NEW a \in e.actions
      PROVE  \/ \E f \in perms : f.pattern = e.pattern /\ a \in f.actions
             \/ e.pattern = line.pattern /\ a = LineAction(line)
  <2>1. CASE e \in perms \ same
    BY <1>5, <2>1, Zenon
  <2>2. CASE e = one
    BY <1>1, <1>3, <1>4, <1>5, <2>2, Zenon
  <2> QED
    BY <1>2, <2>1, <2>2, Zenon
<1>6. ASSUME NEW f \in perms, NEW a \in f.actions
      PROVE  \E e \in new : e.pattern = f.pattern /\ a \in e.actions
  <2>1. CASE f \in same
    BY <1>1, <1>2, <1>3, <1>4, <1>6, <2>1, Zenon
  <2>2. CASE f \notin same
    BY <1>2, <1>6, <2>2, Zenon
  <2> QED
    BY <2>1, <2>2, Zenon
<1>7. \E e \in new : e.pattern = line.pattern /\ LineAction(line) \in e.actions
  BY <1>2, <1>3, <1>4, Zenon
<1> QED
  BY <1>0, <1>5, <1>6, <1>7, Zenon DEF Added

\* A permission line.
LEMMA RolesReadMore ==
    ASSUME NEW lines, NEW n \in Nat, NEW roles, RolesRead(lines, n, roles),
           lines[n + 1].kind = "p", NEW new,
           new = [r \in DOMAIN roles \union {lines[n + 1].role} |->
                     IF r = lines[n + 1].role THEN AddPermission(Permissions(roles, r), lines[n + 1])
                     ELSE roles[r]]
    PROVE  RolesRead(lines, n + 1, new)
<1>1. PICK line, role, perms, perms2 :
         /\ line = lines[n + 1] /\ role = line.role /\ perms = Permissions(roles, role)
         /\ perms2 = AddPermission(perms, line)
  OBVIOUS
<1>2. /\ DOMAIN new = DOMAIN roles \union {role} /\ new[role] = perms2
      /\ \A r \in DOMAIN roles : r # role => new[r] = roles[r]
  BY <1>1, Zenon
<1>3. \A i : i \in 1..(n + 1) <=> i \in 1..n \/ i = n + 1
  OBVIOUS
<1>4. Added(perms, line, perms2)
  BY <1>1, AddedPermission
<1>5. perms = IF role \in DOMAIN roles THEN roles[role] ELSE {}
  BY <1>1, Zenon DEF Permissions
<1>6. DOMAIN new = {lines[i].role : i \in {j \in 1..(n + 1) : lines[j].kind = "p"}}
  <2>1. PICK here, next : here = 1..n /\ next = 1..(n + 1)
    OBVIOUS
  <2>2. next = here \union {n + 1}
    BY <1>3, <2>1, Zenon
  <2>3. DOMAIN roles = {lines[i].role : i \in {j \in here : lines[j].kind = "p"}}
    BY <2>1, Zenon DEF RolesRead
  <2>4. ASSUME NEW x
        PROVE  x \in DOMAIN new <=> x \in {lines[i].role : i \in {j \in next : lines[j].kind = "p"}}
    <3>1. x \in DOMAIN roles <=> \E j \in here : lines[j].kind = "p" /\ x = lines[j].role
      BY <2>3, Zenon
    <3>2. x \in {lines[i].role : i \in {j \in next : lines[j].kind = "p"}}
            <=> \E j \in next : lines[j].kind = "p" /\ x = lines[j].role
      BY Zenon
    <3>3. (\E j \in next : lines[j].kind = "p" /\ x = lines[j].role)
            <=> x = role \/ \E j \in here : lines[j].kind = "p" /\ x = lines[j].role
      BY <1>1, <2>2, Zenon
    <3> QED
      BY <1>2, <3>1, <3>2, <3>3, Zenon
  <2> QED
    BY <2>1, <2>4, Zenon
<1>7. ASSUME NEW r \in DOMAIN new, NEW e \in new[r], NEW a \in e.actions
      PROVE  \E i \in 1..(n + 1) : /\ lines[i].kind = "p" /\ lines[i].role = r
                                   /\ lines[i].pattern = e.pattern /\ LineAction(lines[i]) = a
  <2>1. ASSUME r \in DOMAIN roles, NEW f \in roles[r], f.pattern = e.pattern, a \in f.actions
        PROVE  \E i \in 1..(n + 1) : /\ lines[i].kind = "p" /\ lines[i].role = r
                                     /\ lines[i].pattern = e.pattern /\ LineAction(lines[i]) = a
    <3>1. PICK i \in 1..n : /\ lines[i].kind = "p" /\ lines[i].role = r
                            /\ lines[i].pattern = f.pattern /\ LineAction(lines[i]) = a
      BY <2>1, Zenon DEF RolesRead
    <3> QED
      BY <1>3, <2>1, <3>1, Zenon
  <2>2. CASE r # role
    <3>1. r \in DOMAIN roles /\ e \in roles[r]
      BY <1>2, <1>7, <2>2, Zenon
    <3> QED
      BY <1>7, <2>1, <3>1, Zenon
  <2>3. CASE r = role
    <3>1. CASE \E f \in perms : f.pattern = e.pattern /\ a \in f.actions
      BY <1>5, <2>1, <2>3, <3>1, Zenon
    <3>2. CASE e.pattern = line.pattern /\ a = LineAction(line)
      BY <1>1, <1>3, <2>3, <3>2, Zenon
    <3>3. e \in perms2 /\ a \in e.actions
      BY <1>2, <1>7, <2>3, Zenon
    <3>4. \/ \E f \in perms : f.pattern = e.pattern /\ a \in f.actions
          \/ e.pattern = line.pattern /\ a = LineAction(line)
      BY <1>4, <3>3, Zenon DEF Added
    <3> QED
      BY <3>1, <3>2, <3>4, Zenon
  <2> QED
    BY <2>2, <2>3, Zenon
<1>8. ASSUME NEW i \in 1..(n + 1), lines[i].kind = "p"
      PROVE  \E e \in new[lines[i].role] : e.pattern = lines[i].pattern /\ LineAction(lines[i]) \in e.actions
  <2>1. CASE i = n + 1
    BY <1>1, <1>2, <1>4, <2>1, Zenon DEF Added
  <2>2. CASE i \in 1..n
    <3>1. lines[i].role \in DOMAIN roles
      BY <1>8, <2>2, Zenon DEF RolesRead
    <3>2. PICK e \in roles[lines[i].role] : e.pattern = lines[i].pattern /\ LineAction(lines[i]) \in e.actions
      BY <1>8, <2>2, Zenon DEF RolesRead
    <3>3. CASE lines[i].role = role
      <4>1. e \in perms /\ new[lines[i].role] = perms2
        BY <1>2, <1>5, <3>1, <3>2, <3>3, Zenon
      <4>2. \E f \in perms2 : f.pattern = e.pattern /\ LineAction(lines[i]) \in f.actions
        BY <1>4, <3>2, <4>1, Zenon DEF Added
      <4> QED
        BY <3>2, <4>1, <4>2, Zenon
    <3>4. CASE lines[i].role # role
      BY <1>2, <3>1, <3>2, <3>4, Zenon
    <3> QED
      BY <3>3, <3>4, Zenon
  <2> QED
    BY <1>3, <2>1, <2>2, Zenon
<1> QED
  BY <1>6, <1>7, <1>8, Zenon DEF RolesRead

\* Another line leaves the roles as they are.
LEMMA RolesReadSame ==
    ASSUME NEW lines, NEW n \in Nat, NEW roles, RolesRead(lines, n, roles), lines[n + 1].kind # "p"
    PROVE  RolesRead(lines, n + 1, roles)
<1>1. \A i : i \in 1..(n + 1) <=> i \in 1..n \/ i = n + 1
  OBVIOUS
<1>2. {j \in 1..(n + 1) : lines[j].kind = "p"} = {j \in 1..n : lines[j].kind = "p"}
  BY <1>1, Zenon
<1>3. DOMAIN roles = {lines[i].role : i \in {j \in 1..(n + 1) : lines[j].kind = "p"}}
  BY <1>2, Zenon DEF RolesRead
<1>4. \A i \in 1..(n + 1) : lines[i].kind = "p" => i \in 1..n
  BY <1>1, Zenon
<1>5. \A i \in 1..n : i \in 1..(n + 1)
  BY <1>1, Zenon
<1>6. ASSUME NEW role \in DOMAIN roles, NEW e \in roles[role], NEW a \in e.actions
      PROVE  \E i \in 1..(n + 1) : /\ lines[i].kind = "p" /\ lines[i].role = role
                                   /\ lines[i].pattern = e.pattern /\ LineAction(lines[i]) = a
  BY <1>5, <1>6, ZenonT(40) DEF RolesRead
<1>7. \A i \in 1..(n + 1) : lines[i].kind = "p" =>
         \E e \in roles[lines[i].role] : e.pattern = lines[i].pattern /\ LineAction(lines[i]) \in e.actions
  BY <1>4, Zenon DEF RolesRead
<1> QED
  BY <1>3, <1>6, <1>7, Zenon DEF RolesRead

\* One more grant is kept after the earlier ones.
LEMMA KeptMore ==
    ASSUME NEW lines, NEW n \in Nat, NEW places, NEW grants, Len(grants) \in Nat,
           DOMAIN grants = 1..Len(grants), places \subseteq Nat,
           KeptInOrder(grants, lines, Upto(n, places)), n + 1 \in places,
           NEW new, Len(new) = Len(grants) + 1, \A i \in 1..Len(grants) : new[i] = grants[i],
           new[Len(grants) + 1] = Grant(lines[n + 1])
    PROVE  KeptInOrder(new, lines, Upto(n + 1, places))
<1>0. PICK k \in Nat : k = Len(grants)
  BY Zenon
<1>1. PICK before, after, all :
         /\ k = Len(grants)
         /\ before = Upto(n, places) /\ after = Upto(n + 1, places) /\ all = 1..(k + 1)
  BY <1>0, Zenon
<1>2. PICK at \in [1..k -> before] :
         /\ \A i, j \in 1..k : i < j => at[i] < at[j]
         /\ \A m \in before : \E i \in 1..k : at[i] = m
         /\ \A i \in 1..k : grants[i] = Grant(lines[at[i]])
  BY <1>1, ZenonT(40) DEF KeptInOrder
<1>3. PICK to : to = [i \in all |-> IF i = k + 1 THEN n + 1 ELSE at[i]]
  BY Zenon
<1>4. \A i : i \in all <=> i \in 1..k \/ i = k + 1
  BY <1>1
<1>5. /\ \A m : m \in before <=> m \in places /\ m <= n
      /\ \A m : m \in after <=> m \in places /\ m <= n + 1
      /\ \A m \in places : m \in Nat
  BY <1>1, Zenon DEF Upto
<1>6. \A m : m \in after <=> m \in before \/ m = n + 1
  <2>1. \A m \in Nat : m <= n + 1 <=> m <= n \/ m = n + 1
    OBVIOUS
  <2> QED
    BY <1>5, <2>1, Zenon
<1>7. \A i \in 1..k : at[i] \in before /\ at[i] \in Nat /\ at[i] <= n /\ i # k + 1
  <2>1. \A i \in 1..k : at[i] \in before
    BY <1>2, Zenon
  <2>2. \A i \in 1..k : i # k + 1
    OBVIOUS
  <2> QED
    BY <1>5, <2>1, <2>2, Zenon
<1>8. to[k + 1] = n + 1 /\ \A i \in 1..k : to[i] = at[i]
  BY <1>3, <1>4, <1>7, Zenon
<1>9. to \in [all -> after]
  BY <1>3, <1>4, <1>6, <1>7, Zenon
<1>10. ASSUME NEW i \in all, NEW j \in all, i < j
      PROVE  to[i] < to[j]
  <2>1. i \in 1..k
    BY <1>1, <1>10, SMTT(30)
  <2>2. CASE j = k + 1
    BY <1>7, <1>8, <2>1, <2>2, SMTT(30)
  <2>3. CASE j \in 1..k
    BY <1>2, <1>8, <1>10, <2>1, <2>3, SMTT(30)
  <2> QED
    BY <1>4, <2>2, <2>3, Zenon
<1>11. ASSUME NEW m \in after
       PROVE  \E i \in all : to[i] = m
  BY <1>2, <1>4, <1>6, <1>8, ZenonT(40)
<1>12. ASSUME NEW i \in all
       PROVE  new[i] = Grant(lines[to[i]])
  BY <1>1, <1>2, <1>4, <1>8, Zenon
<1>13. 1..Len(new) = all
  BY <1>1
<1> QED
  BY <1>1, <1>9, <1>10, <1>11, <1>12, <1>13, ZenonT(40) DEF KeptInOrder

\* A line that grants nothing there leaves them as they are.
LEMMA KeptSame ==
    ASSUME NEW lines, NEW n \in Nat, NEW places, places \subseteq Nat, NEW grants,
           KeptInOrder(grants, lines, Upto(n, places)), n + 1 \notin places
    PROVE  KeptInOrder(grants, lines, Upto(n + 1, places))
<1>1. /\ \A m : m \in Upto(n, places) <=> m \in places /\ m <= n
      /\ \A m : m \in Upto(n + 1, places) <=> m \in places /\ m <= n + 1
      /\ \A m \in places : m \in Nat /\ m # n + 1
  BY Zenon DEF Upto
<1>2. \A m : m \in Upto(n + 1, places) <=> m \in Upto(n, places)
  <2>1. \A m \in Nat : m # n + 1 => (m <= n + 1 <=> m <= n)
    OBVIOUS
  <2> QED
    BY <1>1, <2>1, Zenon
<1>3. Upto(n + 1, places) = Upto(n, places)
  BY <1>2, Zenon
<1> QED
  BY <1>3, Zenon

\* The variables of ParsePolicy.
PolicyShape(st) ==
    st = [next |-> st.next, res |-> st.res, roles |-> st.roles,
          groupRoles |-> st.groupRoles, userRoles |-> st.userRoles]

Granted(lines) == {Grant(lines[i]) : i \in GroupPlaces(lines) \union UserPlaces(lines)}

\* What is built from the lines read: the roles, and the grants in order; every line
\* read was accepted, and the result says how the loop ended.
PolicyRead(lines, st) ==
    /\ RolesRead(lines, st.next, st.roles)
    /\ st.groupRoles \in Seq(Granted(lines)) /\ st.userRoles \in Seq(Granted(lines))
    /\ KeptInOrder(st.groupRoles, lines, Upto(st.next, GroupPlaces(lines)))
    /\ KeptInOrder(st.userRoles, lines, Upto(st.next, UserPlaces(lines)))
    /\ \A i \in 1..st.next : LineOk(lines[i])
    /\ st.res = "no" => \E i \in 1..Len(lines) : ~LineOk(lines[i])
    /\ st.res = "yes" => st.next = Len(lines)

\* What one accepted line changes.
LineAdded(st, line, new) ==
    /\ PolicyShape(new) /\ new.next = st.next + 1 /\ new.res = st.res
    /\ line.kind = "p" =>
          /\ new.groupRoles = st.groupRoles /\ new.userRoles = st.userRoles
          /\ new.roles = [r \in DOMAIN st.roles \union {line.role} |->
                IF r = line.role THEN AddPermission(Permissions(st.roles, r), line) ELSE st.roles[r]]
    /\ line.kind # "p" /\ line.prefix = "group" =>
          /\ new.roles = st.roles /\ new.userRoles = st.userRoles
          /\ new.groupRoles = Append(st.groupRoles, Grant(line))
    /\ line.kind # "p" /\ line.prefix # "group" =>
          /\ new.roles = st.roles /\ new.groupRoles = st.groupRoles
          /\ new.userRoles = Append(st.userRoles, Grant(line))

\* AddLine changes that, and nothing else.
LEMMA AddLineFields ==
    ASSUME NEW st, PolicyShape(st), NEW line
    PROVE  LineAdded(st, line, AddLine(st, line))
<1>1. PICK new : new = AddLine(st, line)
  BY Zenon
<1> SUFFICES LineAdded(st, line, new)
  BY <1>1, Zenon
<1>2. PICK n, res, roles, groups, users :
         st = [next |-> n, res |-> res, roles |-> roles, groupRoles |-> groups, userRoles |-> users]
  BY Zenon DEF PolicyShape
<1>3. PICK m : m = n + 1
  BY Zenon
<1>4. PICK more, built : /\ more = [next |-> m, res |-> res, roles |-> roles, groupRoles |-> groups,
                                    userRoles |-> users]
                         /\ built = [r \in DOMAIN roles \union {line.role} |->
                               IF r = line.role THEN AddPermission(Permissions(roles, r), line) ELSE roles[r]]
  BY Zenon
<1>5. [st EXCEPT !.next = @ + 1] = more
  <2>1. st.next = n
    BY <1>2
  <2>2. [st EXCEPT !.next = st.next + 1] = [st EXCEPT !.next = m]
    BY <1>3, <2>1, Zenon
  <2>3. [st EXCEPT !.next = m] =
           [next |-> m, res |-> res, roles |-> roles, groupRoles |-> groups, userRoles |-> users]
    BY <1>2, SMT
  <2> QED
    BY <1>4, <2>2, <2>3, Zenon
<1>6. /\ st.next = n /\ st.res = res /\ st.roles = roles
      /\ st.groupRoles = groups /\ st.userRoles = users
  BY <1>2
<1>7. ASSUME NEW r, NEW g, NEW u,
             new = [next |-> m, res |-> res, roles |-> r, groupRoles |-> g, userRoles |-> u]
      PROVE  /\ PolicyShape(new) /\ new.next = st.next + 1 /\ new.res = st.res
             /\ new.roles = r /\ new.groupRoles = g /\ new.userRoles = u
  <2>1. new.next = m /\ new.res = res /\ new.roles = r /\ new.groupRoles = g /\ new.userRoles = u
    BY <1>7
  <2>2. PolicyShape(new)
    BY <1>7, <2>1, Zenon DEF PolicyShape
  <2> QED
    BY <1>3, <1>6, <2>1, <2>2, Zenon
<1>8. CASE line.kind = "p"
  <2>1. new = [more EXCEPT !.roles = [r \in DOMAIN @ \union {line.role} |->
                 IF r = line.role THEN AddPermission(Permissions(st.roles, r), line) ELSE st.roles[r]]]
    BY <1>5, <1>8, <1>1, ZenonT(40) DEF AddLine
  <2>2. st.roles = roles /\ more.roles = roles
    BY <1>2, <1>4
  <2>3. new = [more EXCEPT !.roles = built]
    BY <1>4, <2>1, <2>2, Zenon
  <2>4. new = [next |-> m, res |-> res, roles |-> built, groupRoles |-> groups, userRoles |-> users]
    BY <1>4, <2>3, Zenon
  <2>5. /\ PolicyShape(new) /\ new.next = st.next + 1 /\ new.res = st.res
        /\ new.roles = built /\ new.groupRoles = groups /\ new.userRoles = users
    BY <1>7, <2>4, Zenon
  <2> QED
    BY <1>4, <1>8, <1>6, <2>5, ZenonT(40) DEF LineAdded
<1>9. CASE line.kind # "p" /\ line.prefix = "group"
  <2>1. new = [more EXCEPT !.groupRoles = Append(@, Grant(line))]
    BY <1>5, <1>9, <1>1, Zenon DEF AddLine
  <2>2. new = [next |-> m, res |-> res, roles |-> roles,
               groupRoles |-> Append(groups, Grant(line)), userRoles |-> users]
    BY <1>4, <2>1, Zenon
  <2>5. /\ PolicyShape(new) /\ new.next = st.next + 1 /\ new.res = st.res
        /\ new.roles = roles /\ new.groupRoles = Append(groups, Grant(line)) /\ new.userRoles = users
    BY <1>7, <2>2, Zenon
  <2> QED
    BY <1>9, <1>6, <2>5, Zenon DEF LineAdded
<1>10. CASE line.kind # "p" /\ line.prefix # "group"
  <2>1. new = [more EXCEPT !.userRoles = Append(@, Grant(line))]
    BY <1>5, <1>10, <1>1, Zenon DEF AddLine
  <2>2. new = [next |-> m, res |-> res, roles |-> roles,
               groupRoles |-> groups, userRoles |-> Append(users, Grant(line))]
    BY <1>4, <2>1, Zenon
  <2>5. /\ PolicyShape(new) /\ new.next = st.next + 1 /\ new.res = st.res
        /\ new.roles = roles /\ new.groupRoles = groups /\ new.userRoles = Append(users, Grant(line))
    BY <1>7, <2>2, Zenon
  <2> QED
    BY <1>10, <1>6, <2>5, Zenon DEF LineAdded
<1> QED
  BY <1>8, <1>9, <1>10, Zenon

\* Reading an accepted line.
LEMMA PolicyReadMore ==
    ASSUME NEW lines, Len(lines) \in Nat, DOMAIN lines = 1..Len(lines), NEW st, PolicyShape(st),
           PolicyRead(lines, st), st.next \in Nat, st.next < Len(lines), st.res = "run",
           LineOk(lines[st.next + 1]), NEW new, new = AddLine(st, lines[st.next + 1])
    PROVE  PolicyRead(lines, new)
<1>0. PICK n \in Nat : n = st.next
  OBVIOUS
<1>1. PICK line : n = st.next /\ line = lines[n + 1]
  BY <1>0, Zenon
<1>2. LineAdded(st, line, new) /\ new.next = n + 1 /\ new.res = "run"
  <2>1. LineAdded(st, line, new)
    BY <1>1, AddLineFields, SMTT(30)
  <2> QED
    BY <1>1, <2>1, Zenon DEF LineAdded
<1>3. /\ GroupPlaces(lines) \subseteq Nat /\ UserPlaces(lines) \subseteq Nat
      /\ n + 1 \in 1..Len(lines)
  BY <1>1 DEF GroupPlaces, UserPlaces
<1>4. /\ n + 1 \in GroupPlaces(lines) <=> line.kind = "g" /\ line.prefix = "group"
      /\ n + 1 \in UserPlaces(lines) <=> line.kind = "g" /\ line.prefix # "group"
  BY <1>1, <1>3, Zenon DEF GroupPlaces, UserPlaces
<1>5. line.kind \in {"p", "g"}
  BY <1>1 DEF LineOk
<1>6. /\ RolesRead(lines, n, st.roles)
      /\ KeptInOrder(st.groupRoles, lines, Upto(n, GroupPlaces(lines)))
      /\ KeptInOrder(st.userRoles, lines, Upto(n, UserPlaces(lines)))
  BY <1>1, Zenon DEF PolicyRead
<1>7. PICK H : H = Granted(lines)
  BY Zenon
<1>8. line.kind = "g" => Grant(line) \in H
  BY <1>1, <1>4, <1>7, Zenon DEF Granted
<1>9. st.groupRoles \in Seq(H) /\ st.userRoles \in Seq(H)
  BY <1>7, Zenon DEF PolicyRead
<1>10. \A i \in 1..(n + 1) : LineOk(lines[i])
  <2>1. \A i \in 1..(n + 1) : i \in 1..n \/ i = n + 1
    OBVIOUS
  <2> QED
    BY <1>1, <2>1, Zenon DEF PolicyRead
<1>11. ASSUME RolesRead(lines, n + 1, new.roles), new.groupRoles \in Seq(H), new.userRoles \in Seq(H),
              KeptInOrder(new.groupRoles, lines, Upto(n + 1, GroupPlaces(lines))),
              KeptInOrder(new.userRoles, lines, Upto(n + 1, UserPlaces(lines)))
       PROVE  PolicyRead(lines, new)
  BY <1>2, <1>7, <1>10, <1>11, Zenon DEF PolicyRead
<1>12. CASE line.kind = "p"
  <2>1. RolesRead(lines, n + 1, new.roles)
    <3>1. PICK roles, built : roles = st.roles /\ built = new.roles
      OBVIOUS
    <3>2. /\ RolesRead(lines, n, roles) /\ lines[n + 1].kind = "p"
          /\ built = [r \in DOMAIN roles \union {lines[n + 1].role} |->
                IF r = lines[n + 1].role THEN AddPermission(Permissions(roles, r), lines[n + 1])
                ELSE roles[r]]
      BY <1>1, <1>2, <1>6, <1>12, <3>1, Zenon DEF LineAdded
    <3>3. RolesRead(lines, n + 1, built)
      BY <3>2, RolesReadMore, ZenonT(40)
    <3> QED
      BY <3>1, <3>3, Zenon
  <2>2. /\ KeptInOrder(st.groupRoles, lines, Upto(n + 1, GroupPlaces(lines)))
        /\ KeptInOrder(st.userRoles, lines, Upto(n + 1, UserPlaces(lines)))
    BY <1>3, <1>4, <1>6, <1>12, KeptSame, SMTT(30)
  <2> QED
    BY <1>2, <1>9, <1>11, <1>12, <2>1, <2>2, Zenon DEF LineAdded
<1>13. CASE line.kind = "g"
  <2>0. line.kind # "p"
    BY <1>13, SMTT(30)
  <2>1. RolesRead(lines, n + 1, st.roles)
    BY <1>1, <1>6, <2>0, RolesReadSame, SMTT(30)
  <2>2. CASE line.prefix = "group"
    <3>1. /\ new.groupRoles \in Seq(H) /\ Len(new.groupRoles) = Len(st.groupRoles) + 1
          /\ \A i \in 1..Len(st.groupRoles) : new.groupRoles[i] = st.groupRoles[i]
          /\ new.groupRoles[Len(st.groupRoles) + 1] = Grant(line)
          /\ Len(st.groupRoles) \in Nat /\ DOMAIN st.groupRoles = 1..Len(st.groupRoles)
      <4>1. PICK old, g, next : old = st.groupRoles /\ g = Grant(line) /\ next = new.groupRoles
        OBVIOUS
      <4>2. next = Append(old, g) /\ old \in Seq(H) /\ g \in H
        BY <1>2, <1>8, <1>9, <1>13, <2>0, <2>2, <4>1, ZenonT(40) DEF LineAdded
      <4>3. /\ next \in Seq(H) /\ Len(next) = Len(old) + 1 /\ Len(old) \in Nat
            /\ DOMAIN old = 1..Len(old) /\ next[Len(old) + 1] = g
            /\ \A i \in 1..Len(old) : next[i] = old[i]
        BY <4>2
      <4> QED
        BY <4>1, <4>3, Zenon
    <3>2. KeptInOrder(new.groupRoles, lines, Upto(n + 1, GroupPlaces(lines)))
      BY <1>1, <1>3, <1>4, <1>6, <1>13, <2>2, <3>1, KeptMore, ZenonT(40)
    <3>3. KeptInOrder(st.userRoles, lines, Upto(n + 1, UserPlaces(lines)))
      BY <1>3, <1>4, <1>6, <2>2, KeptSame, Zenon
    <3> QED
      BY <1>2, <1>9, <1>11, <2>0, <2>1, <2>2, <3>1, <3>2, <3>3, ZenonT(40) DEF LineAdded
  <2>3. CASE line.prefix # "group"
    <3>1. /\ new.userRoles \in Seq(H) /\ Len(new.userRoles) = Len(st.userRoles) + 1
          /\ \A i \in 1..Len(st.userRoles) : new.userRoles[i] = st.userRoles[i]
          /\ new.userRoles[Len(st.userRoles) + 1] = Grant(line)
          /\ Len(st.userRoles) \in Nat /\ DOMAIN st.userRoles = 1..Len(st.userRoles)
      <4>1. PICK old, g, next : old = st.userRoles /\ g = Grant(line) /\ next = new.userRoles
        OBVIOUS
      <4>2. next = Append(old, g) /\ old \in Seq(H) /\ g \in H
        BY <1>2, <1>8, <1>9, <1>13, <2>0, <2>3, <4>1, ZenonT(40) DEF LineAdded
      <4>3. /\ next \in Seq(H) /\ Len(next) = Len(old) + 1 /\ Len(old) \in Nat
            /\ DOMAIN old = 1..Len(old) /\ next[Len(old) + 1] = g
            /\ \A i \in 1..Len(old) : next[i] = old[i]
        BY <4>2
      <4> QED
        BY <4>1, <4>3, Zenon
    <3>2. KeptInOrder(new.userRoles, lines, Upto(n + 1, UserPlaces(lines)))
      BY <1>1, <1>3, <1>4, <1>6, <1>13, <2>3, <3>1, KeptMore, ZenonT(40)
    <3>3. KeptInOrder(st.groupRoles, lines, Upto(n + 1, GroupPlaces(lines)))
      BY <1>3, <1>4, <1>6, <2>3, KeptSame, SMTT(30)
    <3> QED
      BY <1>2, <1>9, <1>11, <2>0, <2>1, <2>3, <3>1, <3>2, <3>3, ZenonT(40) DEF LineAdded
  <2> QED
    BY <2>2, <2>3, Zenon
<1> QED
  BY <1>5, <1>12, <1>13, Zenon

\* ParsePolicy has read loop.next lines.
PolicyLoop ==
    /\ task \in Tasks
    /\ task.kind = "policy" => /\ PolicyShape(loop) /\ loop.next \in 0..Len(task.lines)
                               /\ loop.res \in {"run", "yes", "no"} /\ PolicyRead(task.lines, loop)

\* Before the first line nothing is built.
LEMMA PolicyLoopStart == ASSUME RulesInit PROVE PolicyLoop
<1> SUFFICES ASSUME task.kind = "policy"
             PROVE  /\ PolicyShape(loop) /\ loop.next \in 0..Len(task.lines)
                    /\ loop.res \in {"run", "yes", "no"} /\ PolicyRead(task.lines, loop)
  BY Zenon DEF RulesInit, PolicyLoop
<1>1. loop = PolicyStart /\ task.lines \in Seq(Range(task.lines))
  BY RulesAssumption, Zenon DEF RulesInit, Start
<1>2. PICK st, lines, S : st = loop /\ lines = task.lines /\ S = Range(task.lines)
  OBVIOUS
<1>3. /\ st = [next |-> 0, res |-> "run", roles |-> <<>>, groupRoles |-> <<>>, userRoles |-> <<>>]
      /\ lines \in Seq(S)
  BY <1>1, <1>2, Zenon DEF PolicyStart
<1>4. /\ st.next = 0 /\ st.res = "run" /\ st.roles = <<>> /\ st.groupRoles = <<>> /\ st.userRoles = <<>>
      /\ Len(lines) \in Nat /\ DOMAIN lines = 1..Len(lines)
  BY <1>3
<1>5. PolicyShape(st)
  BY <1>3, <1>4, Zenon DEF PolicyShape
<1>6. RolesRead(lines, 0, <<>>)
  <2>1. 1..0 = {} /\ DOMAIN <<>> = {}
    OBVIOUS
  <2> QED
    BY <2>1, Zenon DEF RolesRead
<1>7. ASSUME NEW places, places \subseteq 1..Len(lines)
      PROVE  KeptInOrder(<<>>, lines, Upto(0, places))
  <2>1. \A m \in places : ~(m <= 0)
    BY <1>4, <1>7
  <2>2. Upto(0, places) = {}
    BY <2>1, Zenon DEF Upto
  <2>3. 1..Len(<<>>) = {}
    OBVIOUS
  <2>4. PICK at : at = [i \in {} |-> i]
    BY Zenon
  <2>5. at \in [{} -> {}]
    BY <2>4, Zenon
  <2> QED
    BY <2>2, <2>3, <2>5, Zenon DEF KeptInOrder
<1>8. GroupPlaces(lines) \subseteq 1..Len(lines) /\ UserPlaces(lines) \subseteq 1..Len(lines)
  BY <1>4, Zenon DEF GroupPlaces, UserPlaces
<1>9. <<>> \in Seq(Granted(lines))
  OBVIOUS
<1>10. \A i \in 1..0 : LineOk(lines[i])
  OBVIOUS
<1>11. PolicyRead(lines, st)
  BY <1>4, <1>6, <1>7, <1>8, <1>9, <1>10, ZenonT(40) DEF PolicyRead
<1>12. st.next \in 0..Len(lines)
  BY <1>4
<1> QED
  BY <1>2, <1>4, <1>5, <1>11, <1>12, ZenonT(40)

\* One round reads a line, refuses it, or finds the end.
LEMMA PolicyLoopStep == ASSUME PolicyLoop, ReadLine PROVE PolicyLoop'
<1>1. PICK st, lines, new, S : st = loop /\ lines = task.lines /\ new = loop' /\ S = Range(task.lines)
  OBVIOUS
<1>2. task.kind = "policy" /\ task' = task /\ task \in Tasks
  BY Zenon DEF PolicyLoop, ReadLine
<1>3. lines \in Seq(S)
  BY <1>1, <1>2, RulesAssumption, Zenon
<1>4. /\ PolicyShape(st) /\ st.next \in 0..Len(lines) /\ PolicyRead(lines, st) /\ st.res = "run"
  BY <1>1, <1>2, Zenon DEF PolicyLoop, ReadLine
<1>5. /\ Len(lines) \in Nat /\ DOMAIN lines = 1..Len(lines) /\ st.next \in Nat
  BY <1>3, <1>4
<1>6. SUFFICES /\ PolicyShape(new) /\ new.next \in 0..Len(lines)
               /\ new.res \in {"run", "yes", "no"} /\ PolicyRead(lines, new)
  BY <1>1, <1>2, Zenon DEF PolicyLoop
<1>7. ASSUME NEW r \in {"yes", "no"}, new = [st EXCEPT !.res = r],
             r = "yes" => st.next = Len(lines), r = "no" => \E i \in 1..Len(lines) : ~LineOk(lines[i])
      PROVE  /\ PolicyShape(new) /\ new.next \in 0..Len(lines)
             /\ new.res \in {"run", "yes", "no"} /\ PolicyRead(lines, new)
  <2>1. PICK n, res, roles, groups, users :
           st = [next |-> n, res |-> res, roles |-> roles, groupRoles |-> groups, userRoles |-> users]
    BY <1>4, Zenon DEF PolicyShape
  <2>2. new = [next |-> n, res |-> r, roles |-> roles, groupRoles |-> groups, userRoles |-> users]
    BY <1>7, <2>1, SMT
  <2>3. /\ new.next = n /\ new.res = r /\ new.roles = roles /\ new.groupRoles = groups
        /\ new.userRoles = users
    BY <2>2
  <2>4. /\ st.next = n /\ st.roles = roles /\ st.groupRoles = groups /\ st.userRoles = users
    BY <2>1
  <2>5. PolicyShape(new)
    BY <2>2, <2>3, Zenon DEF PolicyShape
  <2>6. PolicyRead(lines, new)
    BY <1>4, <1>7, <2>3, <2>4, Zenon DEF PolicyRead
  <2> QED
    BY <1>4, <2>3, <2>4, <2>5, <2>6, Zenon
<1>8. CASE st.next = Len(lines)
  <2>1. new = [st EXCEPT !.res = "yes"]
    BY <1>1, <1>8, Zenon DEF ReadLine
  <2> QED
    BY <1>7, <1>8, <2>1, Zenon
<1>9. CASE st.next # Len(lines) /\ LineOk(lines[st.next + 1])
  <2>1. new = AddLine(st, lines[st.next + 1])
    BY <1>1, <1>9, Zenon DEF ReadLine
  <2>2. st.next < Len(lines)
    BY <1>4, <1>5, <1>9, SMTT(30)
  <2>3. PolicyRead(lines, new)
    BY <1>4, <1>5, <1>9, <2>1, <2>2, PolicyReadMore, Zenon
  <2>4. PICK line : line = lines[st.next + 1]
    BY Zenon
  <2>5. LineAdded(st, line, new)
    BY <1>4, <2>1, <2>4, AddLineFields
  <2>6. PolicyShape(new) /\ new.next = st.next + 1 /\ new.res = "run"
    BY <1>4, <2>5, Zenon DEF LineAdded
  <2>7. st.next + 1 \in 0..Len(lines)
    BY <1>5, <2>2
  <2> QED
    BY <2>3, <2>6, <2>7, Zenon
<1>10. CASE st.next # Len(lines) /\ ~LineOk(lines[st.next + 1])
  <2>1. new = [st EXCEPT !.res = "no"]
    BY <1>1, <1>10, Zenon DEF ReadLine
  <2>2. st.next + 1 \in 1..Len(lines)
    BY <1>4, <1>5, <1>10, SMTT(30)
  <2> QED
    BY <1>7, <1>10, <2>1, <2>2, Zenon
<1> QED
  BY <1>8, <1>9, <1>10, Zenon

\* buildRoles: a role read from all the lines allows what one of its lines does.
LEMMA RoleAllows ==
    ASSUME NEW lines, NEW n, NEW roles, RolesRead(lines, n, roles), NEW role \in DOMAIN roles,
           NEW repo, NEW a \in AllActions
    PROVE  Allow(roles[role], repo, a) <=> \E i \in 1..n : LineAllows(lines[i], role, repo, a)
<1>1. \A line : line.action \in {a, "admin", "*"} <=> LineAction(line) \in {"admin", a}
  <2>1. a # "*"
    BY DEF AllActions
  <2> QED
    BY <2>1, Zenon DEF LineAction
<1>2. ASSUME Allow(roles[role], repo, a)
      PROVE  \E i \in 1..n : LineAllows(lines[i], role, repo, a)
  <2>1. PICK e \in roles[role] : MatchGlob(e.pattern, repo) /\ e.actions \cap {"admin", a} # {}
    BY <1>2, Zenon DEF Allow, ActionsContain
  <2>2. PICK b \in e.actions : b \in {"admin", a}
    BY <2>1, Zenon
  <2>3. PICK i \in 1..n : /\ lines[i].kind = "p" /\ lines[i].role = role
                          /\ lines[i].pattern = e.pattern /\ LineAction(lines[i]) = b
    BY <2>1, <2>2, Zenon DEF RolesRead
  <2>4. lines[i].action \in {a, "admin", "*"}
    BY <1>1, <2>2, <2>3, Zenon
  <2>5. MatchGlob(lines[i].pattern, repo)
    BY <2>1, <2>3, Zenon
  <2> QED
    BY <2>3, <2>4, <2>5, Zenon DEF LineAllows
<1>3. ASSUME NEW i \in 1..n, LineAllows(lines[i], role, repo, a)
      PROVE  Allow(roles[role], repo, a)
  <2>1. /\ lines[i].kind = "p" /\ lines[i].role = role /\ MatchGlob(lines[i].pattern, repo)
        /\ LineAction(lines[i]) \in {"admin", a}
    BY <1>1, <1>3, Zenon DEF LineAllows
  <2>2. PICK e \in roles[role] : e.pattern = lines[i].pattern /\ LineAction(lines[i]) \in e.actions
    BY <2>1, Zenon DEF RolesRead
  <2>3. MatchGlob(e.pattern, repo)
    BY <2>1, <2>2, Zenon
  <2>4. e.actions \cap {"admin", a} # {}
    BY <2>1, <2>2, Zenon
  <2> QED
    BY <2>3, <2>4, Zenon DEF Allow, ActionsContain
<1> QED
  BY <1>2, <1>3, Zenon

\* All the lines read, the policy is what they say.
LEMMA PolicyBuilt == ASSUME PolicyLoop PROVE PolicyMeansItsLines
<1> SUFFICES ASSUME task.kind = "policy", loop.res # "run"
             PROVE  /\ loop.res = "yes" <=> \A n \in DOMAIN task.lines : LineOk(task.lines[n])
                    /\ loop.res = "yes" =>
                       /\ DOMAIN loop.roles = PolicyRoles(task.lines)
                       /\ \A role \in DOMAIN loop.roles, repo \in task.repos, a \in AllActions :
                             Allow(loop.roles[role], repo, a) <=>
                             \E n \in DOMAIN task.lines : LineAllows(task.lines[n], role, repo, a)
                       /\ KeptInOrder(loop.groupRoles, task.lines, GroupPlaces(task.lines))
                       /\ KeptInOrder(loop.userRoles, task.lines, UserPlaces(task.lines))
  BY Zenon DEF PolicyMeansItsLines
<1>1. PICK lines, S, st, repos :
         lines = task.lines /\ S = Range(task.lines) /\ st = loop /\ repos = task.repos
  OBVIOUS
<1>2. lines \in Seq(S)
  BY <1>1, RulesAssumption, Zenon DEF PolicyLoop
<1>3. DOMAIN lines = 1..Len(lines) /\ Len(lines) \in Nat
  BY <1>2
<1>4. PolicyRead(lines, st) /\ st.res \in {"yes", "no"}
  BY <1>1, Zenon DEF PolicyLoop
<1>5. st.res = "yes" <=> \A n \in DOMAIN lines : LineOk(lines[n])
  <2>1. st.res = "yes" \/ st.res = "no"
    BY <1>4, Zenon
  <2>2. CASE st.res = "yes"
    BY <1>3, <1>4, <2>2, Zenon DEF PolicyRead
  <2>3. CASE st.res = "no"
    <3>1. st.res # "yes"
      BY <2>3
    <3> QED
      BY <1>3, <1>4, <2>3, <3>1, Zenon DEF PolicyRead
  <2> QED
    BY <2>1, <2>2, <2>3, Zenon
<1>6. ASSUME st.res = "yes"
      PROVE  /\ DOMAIN st.roles = PolicyRoles(lines)
             /\ \A role \in DOMAIN st.roles, repo \in repos, a \in AllActions :
                   Allow(st.roles[role], repo, a) <=>
                   \E n \in DOMAIN lines : LineAllows(lines[n], role, repo, a)
             /\ KeptInOrder(st.groupRoles, lines, GroupPlaces(lines))
             /\ KeptInOrder(st.userRoles, lines, UserPlaces(lines))
  <2>1. /\ RolesRead(lines, Len(lines), st.roles)
        /\ KeptInOrder(st.groupRoles, lines, Upto(Len(lines), GroupPlaces(lines)))
        /\ KeptInOrder(st.userRoles, lines, Upto(Len(lines), UserPlaces(lines)))
    BY <1>4, <1>6, Zenon DEF PolicyRead
  <2>2. \A i \in 1..Len(lines) : i <= Len(lines)
    BY <1>3
  <2>3. /\ Upto(Len(lines), GroupPlaces(lines)) = GroupPlaces(lines)
        /\ Upto(Len(lines), UserPlaces(lines)) = UserPlaces(lines)
    BY <1>3, <2>2, Zenon DEF Upto, GroupPlaces, UserPlaces
  <2>4. DOMAIN st.roles = PolicyRoles(lines)
    BY <1>3, <2>1, Zenon DEF RolesRead, PolicyRoles
  <2>5. PICK roles, k : roles = st.roles /\ k = Len(lines)
    BY Zenon
  <2>6. RolesRead(lines, k, roles)
    BY <2>1, <2>5, Zenon
  <2>7. ASSUME NEW role \in DOMAIN roles, NEW repo \in repos, NEW a \in AllActions
        PROVE  Allow(roles[role], repo, a) <=> \E n \in 1..k : LineAllows(lines[n], role, repo, a)
    BY <2>6, RoleAllows, Zenon
  <2>8. \A role \in DOMAIN st.roles, repo \in repos, a \in AllActions :
           Allow(st.roles[role], repo, a) <=>
           \E n \in DOMAIN lines : LineAllows(lines[n], role, repo, a)
    BY <1>3, <2>5, <2>7, Zenon
  <2> QED
    BY <2>1, <2>3, <2>4, <2>8, Zenon
<1> QED
  BY <1>1, <1>5, <1>6, Zenon

\* Config.validate: what it accepts runs, and haMode names its topology.
LEMMA ConfigRuns == ASSUME task \in Tasks PROVE AcceptedRuns
<1> SUFFICES ASSUME task.kind = "config", Validate(task.c)
             PROVE  /\ CallsElector(task.c) => HasElector(task.c)
                    /\ HaMode(task.c) = "object-storage" <=> task.c.backend = "s3"
                    /\ HaMode(task.c) = "single" <=> ~task.c.ha /\ task.c.backend = "fs"
  BY Zenon DEF AcceptedRuns
<1>1. task.c.backend \in {"fs", "s3"}
  BY RulesAssumption, Zenon
<1>2. PICK c : c = task.c
  BY Zenon
<1>3. (c.backend = "fs" \/ c.backend = "s3") /\ Validate(c)
  BY <1>1, <1>2, Zenon
<1>4. CallsElector(c) => HasElector(c)
  BY <1>3, Zenon DEF Validate, CallsElector, HasElector, LabelRouting
<1>5. /\ HaMode(c) = "object-storage" <=> c.backend = "s3"
      /\ HaMode(c) = "single" <=> ~c.ha /\ c.backend = "fs"
  <2>1. CASE c.replication
    BY <1>3, <2>1, Zenon DEF Validate, HaMode
  <2>2. CASE ~c.replication /\ c.backend = "s3"
    BY <2>2, Zenon DEF HaMode
  <2>3. CASE ~c.replication /\ c.backend = "fs" /\ c.ha
    BY <2>3, Zenon DEF HaMode
  <2>4. CASE ~c.replication /\ c.backend = "fs" /\ ~c.ha
    BY <2>4, Zenon DEF HaMode
  <2> QED
    BY <1>3, <2>1, <2>2, <2>3, <2>4, Zenon
<1> QED
  BY <1>2, <1>4, <1>5, Zenon

\* A policy text that ParsePolicy accepts means its lines, and a configuration that
\* Config.validate accepts runs in the mode it reports.
THEOREM AcceptedTextsMeanThemselves == RulesSpec => []AcceptedMeansItself
<1>1. RulesInit => PolicyLoop
  BY PolicyLoopStart
<1>2. PolicyLoop /\ [RulesNext]_ruleVars => PolicyLoop'
  <2>1. ASSUME PolicyLoop, Match \/ RangeVersions PROVE PolicyLoop'
    BY <2>1 DEF PolicyLoop, Match, RangeVersions
  <2>2. ASSUME PolicyLoop, UNCHANGED ruleVars PROVE PolicyLoop'
    BY <2>2, Zenon DEF PolicyLoop, ruleVars
  <2> QED
    BY <2>1, <2>2, PolicyLoopStep, Zenon DEF RulesNext
<1>3. PolicyLoop => AcceptedMeansItself
  <2>1. ASSUME PolicyLoop PROVE task \in Tasks
    BY <2>1 DEF PolicyLoop
  <2> QED
    BY <2>1, PolicyBuilt, ConfigRuns, Zenon DEF AcceptedMeansItself
<1> QED
  BY <1>1, <1>2, <1>3, PTL DEF RulesSpec

-----------------------------------------------------------------------------
(* The loops.                                                               *)

\* The inductive form of RulesTypeOK: loop is the record of its task's kind.
LoopShape ==
    /\ task \in Tasks
    /\ task.kind = "npm" => loop = [todo |-> loop.todo, best |-> loop.best]
    /\ task.kind = "glob" => loop \in GlobStates
    /\ PolicyLoop /\ RulesTypeOK

\* One round of globMatch keeps the indices in bounds.
LEMMA GlobStepInBounds ==
    ASSUME LoopShape, Match PROVE LoopShape'
<1> DEFINE pattern == task.pattern
           s == task.name
<1>1. /\ pattern \in Seq(STRING) /\ s \in Seq(STRING) /\ task.kind = "glob" /\ task' = task
      /\ Len(pattern) \in Nat /\ Len(s) \in Nat
  BY RulesAssumption DEF LoopShape, Match
<1>2. /\ loop \in GlobStates /\ loop.sx \in 0..Len(s) /\ loop.px \in 0..Len(pattern) /\ loop.res = "run"
      /\ \/ loop.starIdx = -1 /\ loop.sTmp = -1
         \/ /\ loop.starIdx \in 0..(loop.px - 1) /\ loop.sTmp \in 0..loop.sx
            /\ pattern[loop.starIdx + 1] = Star
  BY <1>1 DEF LoopShape, RulesTypeOK, Match
<1>3. loop' = GlobStep(pattern, s, loop)
  BY DEF Match
<1>4. /\ loop' \in GlobStates /\ loop'.sx \in 0..Len(s) /\ loop'.px \in 0..Len(pattern)
      /\ loop'.res \in {"run", "yes", "no"}
      /\ \/ loop'.starIdx = -1 /\ loop'.sTmp = -1
         \/ /\ loop'.starIdx \in 0..(loop'.px - 1) /\ loop'.sTmp \in 0..loop'.sx
            /\ pattern[loop'.starIdx + 1] = Star
  <2> HIDE DEF pattern, s
  <2>1. CASE /\ loop' = At(loop.sx + 1, loop.px + 1, loop.starIdx, loop.sTmp)
             /\ loop.sx < Len(s) /\ loop.px < Len(pattern)
    BY <1>1, <1>2, <2>1, SMTT(30) DEF GlobStates, At
  <2>2. CASE /\ loop' = At(loop.sx, loop.px + 1, loop.px, loop.sx)
             /\ loop.px < Len(pattern) /\ pattern[loop.px + 1] = Star
    BY <1>1, <1>2, <2>2 DEF GlobStates, At
  <2>3. CASE loop' = Backtrack(loop) /\ loop.starIdx # -1 /\ loop.sx < Len(s)
    BY <1>1, <1>2, <2>3, SMTT(30) DEF GlobStates, Backtrack, At
  <2>4. CASE loop' = At(loop.sx, loop.px + 1, loop.starIdx, loop.sTmp) /\ loop.px < Len(pattern)
    BY <1>1, <1>2, <2>4, SMTT(30) DEF GlobStates, At
  <2>5. ASSUME NEW r \in {"yes", "no"}, loop' = [loop EXCEPT !.res = r]
        PROVE  /\ loop' \in GlobStates /\ loop'.sx \in 0..Len(s) /\ loop'.px \in 0..Len(pattern)
               /\ loop'.res \in {"run", "yes", "no"}
               /\ \/ loop'.starIdx = -1 /\ loop'.sTmp = -1
                  \/ /\ loop'.starIdx \in 0..(loop'.px - 1) /\ loop'.sTmp \in 0..loop'.sx
                     /\ pattern[loop'.starIdx + 1] = Star
    <3>1. /\ loop' \in GlobStates /\ loop'.px = loop.px /\ loop'.res = r
          /\ loop'.starIdx = loop.starIdx /\ loop'.sTmp = loop.sTmp /\ loop'.sx = loop.sx
      BY <1>1, <1>2, <2>5, SMTT(30) DEF GlobStates
    <3> QED
      BY <1>1, <1>2, <3>1, SMTT(30) DEF GlobStates
  <2>6. \/ /\ loop' = At(loop.sx + 1, loop.px + 1, loop.starIdx, loop.sTmp)
           /\ loop.sx < Len(s) /\ loop.px < Len(pattern)
        \/ /\ loop' = At(loop.sx, loop.px + 1, loop.px, loop.sx)
           /\ loop.px < Len(pattern) /\ pattern[loop.px + 1] = Star
        \/ loop' = Backtrack(loop) /\ loop.starIdx # -1 /\ loop.sx < Len(s)
        \/ loop' = At(loop.sx, loop.px + 1, loop.starIdx, loop.sTmp) /\ loop.px < Len(pattern)
        \/ \E r \in {"yes", "no"} : loop' = [loop EXCEPT !.res = r]
    BY <1>3, Zenon DEF GlobStep
  <2> QED
    BY <2>1, <2>2, <2>3, <2>4, <2>5, <2>6, SMTT(30)
<1>5. /\ task'.kind = "glob" /\ "glob" # "npm" /\ "glob" # "policy"
      /\ task' \in Tasks
  BY <1>1 DEF LoopShape
<1>6. PolicyLoop' /\ RulesTypeOK'
  <2>1. PolicyLoop'
    BY <1>5, Zenon DEF PolicyLoop
  <2> QED
    BY <1>1, <1>4, <1>5, <2>1, Zenon DEF RulesTypeOK
<1> QED
  BY <1>4, <1>5, <1>6, Zenon DEF LoopShape

-----------------------------------------------------------------------------
(* globMatch answers as its definition.                                     *)

\* The first k characters of pattern p match the first e characters of s, cut as h says.
PrefixCut(p, s, k, e, h) ==
    /\ h \in [0..k -> 0..Len(s)] /\ h[0] = 0 /\ h[k] = e
    /\ \A i \in 1..k : Piece(p, s, h, i)
Reaches(p, s, k, e) == \E h : PrefixCut(p, s, k, e, h)

\* All of p, and all of s.
FullCut(p, s, g) == PrefixCut(p, s, Len(p), Len(s), g)

\* The definition of matching, in these words.
LEMMA CutsIsFull ==
    ASSUME NEW p, NEW s
    PROVE  Cuts(p, s) <=> Reaches(p, s, Len(p), Len(s))
BY Zenon DEF Cuts, Reaches, PrefixCut

\* A cut goes on with one more piece.
LEMMA OneMore ==
    ASSUME NEW p, NEW s, NEW k \in Nat, NEW e, NEW f \in 0..Len(s), Reaches(p, s, k, e),
           IF p[k + 1] = Star THEN f >= e ELSE f = e + 1 /\ s[f] = p[k + 1]
    PROVE  Reaches(p, s, k + 1, f)
<1>1. PICK h : PrefixCut(p, s, k, e, h)
  BY Zenon DEF Reaches
<1>2. PICK h2 : h2 = [i \in 0..(k + 1) |-> IF i = k + 1 THEN f ELSE h[i]]
  BY Zenon
<1>3. h \in [0..k -> 0..Len(s)] /\ h[0] = 0 /\ h[k] = e
  BY <1>1, Zenon DEF PrefixCut
<1>4. /\ 0 \in 0..(k + 1) /\ 0 # k + 1 /\ k + 1 \in 0..(k + 1)
      /\ \A i \in 0..(k + 1) : i # k + 1 => i \in 0..k
  OBVIOUS
<1>5. h2[0] = 0 /\ h2[k + 1] = f /\ \A i \in 0..k : h2[i] = h[i]
  <2>1. \A i \in 0..k : i \in 0..(k + 1) /\ i # k + 1
    OBVIOUS
  <2> QED
    BY <1>2, <1>3, <1>4, <2>1, Zenon
<1>6. h2 \in [0..(k + 1) -> 0..Len(s)]
  BY <1>2, <1>3, <1>4, Zenon
<1>7. ASSUME NEW i \in 1..(k + 1) PROVE Piece(p, s, h2, i)
  <2>1. CASE i = k + 1
    <3>1. i - 1 = k /\ h2[i] = f
      BY <1>5, <2>1
    <3>2. h2[i - 1] = e
      <4>1. k \in 0..k
        OBVIOUS
      <4> QED
        BY <1>3, <1>5, <3>1, <4>1, Zenon
    <3> QED
      BY <2>1, <3>1, <3>2, Zenon DEF Piece
  <2>2. CASE i # k + 1
    <3>1. i \in 1..k /\ i \in 0..k /\ i - 1 \in 0..k
      BY <2>2
    <3>2. Piece(p, s, h, i) /\ h2[i] = h[i] /\ h2[i - 1] = h[i - 1]
      BY <1>1, <1>5, <3>1, Zenon DEF PrefixCut
    <3> QED
      BY <3>2, Zenon DEF Piece
  <2> QED
    BY <2>1, <2>2
<1> QED
  BY <1>5, <1>6, <1>7, Zenon DEF Reaches, PrefixCut

\* What a full cut says of a place in the pattern.
LEMMA FullAt ==
    ASSUME NEW p, NEW s, Len(p) \in Nat, Len(s) \in Nat, NEW g, FullCut(p, s, g), NEW k \in 0..Len(p)
    PROVE  /\ g[k] \in 0..Len(s) /\ (k = Len(p) => g[k] = Len(s)) /\ g[0] = 0
           /\ k < Len(p) => IF p[k + 1] = Star THEN g[k + 1] >= g[k]
                            ELSE g[k + 1] = g[k] + 1 /\ s[g[k] + 1] = p[k + 1] /\ g[k] < Len(s)
<1>1. /\ g \in [0..Len(p) -> 0..Len(s)] /\ g[0] = 0 /\ g[Len(p)] = Len(s)
      /\ \A i \in 1..Len(p) : Piece(p, s, g, i)
  BY Zenon DEF FullCut, PrefixCut
<1>2. g[k] \in 0..Len(s)
  BY <1>1, Zenon
<1>3. ASSUME k < Len(p)
      PROVE  IF p[k + 1] = Star THEN g[k + 1] >= g[k]
             ELSE g[k + 1] = g[k] + 1 /\ s[g[k] + 1] = p[k + 1] /\ g[k] < Len(s)
  <2>1. k + 1 \in 1..Len(p) /\ k + 1 \in 0..Len(p) /\ (k + 1) - 1 = k
    BY <1>3
  <2>2. Piece(p, s, g, k + 1) /\ g[k + 1] \in 0..Len(s)
    BY <1>1, <2>1, Zenon
  <2>3. IF p[k + 1] = Star THEN g[k + 1] >= g[k] ELSE g[k + 1] = g[k] + 1 /\ s[g[k + 1]] = p[k + 1]
    BY <2>1, <2>2, Zenon DEF Piece
  <2>4. PICK a, b : a = g[k] /\ b = g[k + 1]
    OBVIOUS
  <2>5. b = a + 1 => a < Len(s)
    BY <1>2, <2>2, <2>4
  <2> QED
    BY <2>3, <2>4, <2>5, Zenon
<1> QED
  BY <1>1, <1>2, <1>3, Zenon

\* What is matched at indices sx, px: the texts up to them, and up to the last star an end
\* that its retries lie behind.
Matched(p, s, sx, px, star, tmp) ==
    /\ Reaches(p, s, px, sx)
    /\ star # -1 => \E e \in 0..tmp : Reaches(p, s, star, e)

\* What every match must do: reach px no earlier than here.  While the name lasts, it does so
\* here, or as much later as it ends the star later than the present try.
Greedy(p, s, sx, px, star, tmp) ==
    \A g : FullCut(p, s, g) =>
        /\ g[px] >= sx
        /\ sx < Len(s) => IF star = -1 THEN g[px] = sx
                          ELSE g[star + 1] >= tmp /\ g[px] - sx = g[star + 1] - tmp

\* The indices are in bounds (RulesTypeOK), and the texts are what they may be.
Indices(p, s, sx, px, star, tmp) ==
    /\ Len(p) \in Nat /\ Len(s) \in Nat /\ \A i \in 1..Len(s) : s[i] # Star
    /\ sx \in 0..Len(s) /\ px \in 0..Len(p)
    /\ \/ star = -1 /\ tmp = -1
       \/ star \in 0..(px - 1) /\ tmp \in 0..sx /\ p[star + 1] = Star

\* Pattern and name disagree at the indices.
Mismatch(p, s, sx, px) == px < Len(p) => p[px + 1] # s[sx + 1] /\ p[px + 1] # Star

\* The first case of the loop: one more character.
LEMMA SameCharacter ==
    ASSUME NEW p, NEW s, NEW sx, NEW px, NEW star, NEW tmp, Indices(p, s, sx, px, star, tmp),
           Matched(p, s, sx, px, star, tmp), Greedy(p, s, sx, px, star, tmp),
           sx < Len(s), px < Len(p), p[px + 1] = s[sx + 1]
    PROVE  /\ Matched(p, s, sx + 1, px + 1, star, tmp) /\ Greedy(p, s, sx + 1, px + 1, star, tmp)
<1>0. /\ Len(p) \in Nat /\ Len(s) \in Nat /\ sx \in 0..Len(s) /\ px \in 0..Len(p)
      /\ star = -1 \/ (star \in 0..(px - 1) /\ tmp \in 0..sx)
  BY Zenon DEF Indices
<1>1. p[px + 1] # Star
  <2>1. sx + 1 \in 1..Len(s)
    BY <1>0
  <2> QED
    BY <2>1, Zenon DEF Indices
<1>2. Matched(p, s, sx + 1, px + 1, star, tmp)
  <2>1. sx + 1 \in 0..Len(s) /\ px \in Nat
    BY <1>0
  <2>2. Reaches(p, s, px + 1, sx + 1)
    BY <1>1, <2>1, OneMore, Zenon DEF Matched
  <2> QED
    BY <2>2, Zenon DEF Matched
<1>3. ASSUME NEW g, FullCut(p, s, g)
      PROVE  /\ g[px + 1] >= sx + 1
             /\ sx + 1 < Len(s) => IF star = -1 THEN g[px + 1] = sx + 1
                                   ELSE g[star + 1] >= tmp /\ g[px + 1] - (sx + 1) = g[star + 1] - tmp
  <2>1. /\ g[px] \in 0..Len(s)
        /\ IF p[px + 1] = Star THEN g[px + 1] >= g[px]
           ELSE g[px + 1] = g[px] + 1 /\ s[g[px] + 1] = p[px + 1] /\ g[px] < Len(s)
    BY <1>0, <1>3, FullAt, Zenon
  <2>2. g[px + 1] = g[px] + 1
    BY <1>1, <2>1, Zenon
  <2>3. /\ g[px] >= sx /\ IF star = -1 THEN g[px] = sx
                          ELSE g[star + 1] >= tmp /\ g[px] - sx = g[star + 1] - tmp
    BY <1>3, Zenon DEF Greedy
  <2>4. PICK a, b, c : a = g[px] /\ b = g[px + 1] /\ c = g[star + 1]
    OBVIOUS
  <2>5. a \in Nat /\ b = a + 1 /\ a >= sx /\ IF star = -1 THEN a = sx ELSE c >= tmp /\ a - sx = c - tmp
    BY <2>1, <2>2, <2>3, <2>4, SMTT(30)
  <2>6. b >= sx + 1 /\ IF star = -1 THEN b = sx + 1 ELSE c >= tmp /\ b - (sx + 1) = c - tmp
    BY <1>0, <2>5
  <2> QED
    BY <2>4, <2>6, Zenon
<1> QED
  BY <1>2, <1>3, Zenon DEF Greedy

\* The second case: a star, which takes nothing yet.
LEMMA NewStar ==
    ASSUME NEW p, NEW s, NEW sx, NEW px, NEW star, NEW tmp, Indices(p, s, sx, px, star, tmp),
           Matched(p, s, sx, px, star, tmp), Greedy(p, s, sx, px, star, tmp),
           px < Len(p), p[px + 1] = Star
    PROVE  /\ Matched(p, s, sx, px + 1, px, sx) /\ Greedy(p, s, sx, px + 1, px, sx)
<1>0. Len(p) \in Nat /\ Len(s) \in Nat /\ sx \in 0..Len(s) /\ px \in 0..Len(p)
  BY Zenon DEF Indices
<1>1. px \in Nat /\ sx \in 0..sx /\ sx >= sx /\ px # -1
  BY <1>0
<1>2. Reaches(p, s, px, sx)
  BY Zenon DEF Matched
<1>3. Reaches(p, s, px + 1, sx)
  BY <1>0, <1>1, <1>2, OneMore, Zenon
<1>4. ASSUME NEW g, FullCut(p, s, g)
      PROVE  /\ g[px + 1] >= sx
             /\ sx < Len(s) => IF px = -1 THEN g[px + 1] = sx
                               ELSE g[px + 1] >= sx /\ g[px + 1] - sx = g[px + 1] - sx
  <2>1. g[px] \in 0..Len(s) /\ g[px + 1] >= g[px]
    BY <1>0, <1>4, FullAt, Zenon
  <2>2. px + 1 \in 0..Len(p)
    BY <1>0
  <2>3. g[px + 1] \in 0..Len(s)
    BY <1>0, <1>4, <2>2, FullAt, Zenon
  <2>4. g[px] >= sx
    BY <1>4, Zenon DEF Greedy
  <2>5. PICK a, b : a = g[px] /\ b = g[px + 1]
    OBVIOUS
  <2>6. b >= sx
    BY <1>0, <2>1, <2>3, <2>4, <2>5, SMTT(30)
  <2> QED
    BY <1>1, <2>5, <2>6, Zenon
<1>5. Matched(p, s, sx, px + 1, px, sx)
  BY <1>1, <1>2, <1>3, Zenon DEF Matched
<1>6. Greedy(p, s, sx, px + 1, px, sx)
  BY <1>4, Zenon DEF Greedy
<1> QED
  BY <1>5, <1>6, Zenon

\* At a mismatch every match has gone elsewhere before.
LEMMA Elsewhere ==
    ASSUME NEW p, NEW s, NEW sx, NEW px, NEW star, NEW tmp, Indices(p, s, sx, px, star, tmp),
           sx < Len(s), Mismatch(p, s, sx, px), NEW g, FullCut(p, s, g)
    PROVE  g[px] # sx
<1>0. Len(p) \in Nat /\ Len(s) \in Nat /\ sx \in 0..Len(s) /\ px \in 0..Len(p)
  BY Zenon DEF Indices
<1>1. /\ g[px] \in 0..Len(s) /\ (px = Len(p) => g[px] = Len(s)) /\ g[0] = 0
      /\ px < Len(p) => IF p[px + 1] = Star THEN g[px + 1] >= g[px]
                        ELSE g[px + 1] = g[px] + 1 /\ s[g[px] + 1] = p[px + 1] /\ g[px] < Len(s)
  BY <1>0, FullAt, SMTT(30)
<1>2. px < Len(p) /\ p[px + 1] # Star => s[g[px] + 1] = p[px + 1]
  BY <1>1, Zenon
<1>3. (px = Len(p) \/ px < Len(p)) /\ sx # Len(s)
  BY <1>0
<1> QED
  BY <1>1, <1>2, <1>3, Zenon DEF Mismatch

\* The third case: the star takes one character more.
LEMMA Retry ==
    ASSUME NEW p, NEW s, NEW sx, NEW px, NEW star, NEW tmp, Indices(p, s, sx, px, star, tmp),
           Matched(p, s, sx, px, star, tmp), Greedy(p, s, sx, px, star, tmp),
           sx < Len(s), Mismatch(p, s, sx, px), star # -1
    PROVE  /\ Matched(p, s, tmp + 1, star + 1, star, tmp + 1)
           /\ Greedy(p, s, tmp + 1, star + 1, star, tmp + 1)
<1>0. /\ Len(p) \in Nat /\ Len(s) \in Nat /\ sx \in 0..Len(s) /\ px \in 0..Len(p)
      /\ star \in 0..(px - 1) /\ tmp \in 0..sx /\ p[star + 1] = Star
  BY Zenon DEF Indices
<1>1. PICK e \in 0..tmp : Reaches(p, s, star, e)
  BY Zenon DEF Matched
<1>2. /\ star \in Nat /\ tmp + 1 \in 0..Len(s) /\ tmp + 1 >= e /\ e \in 0..(tmp + 1)
      /\ star + 1 \in 0..Len(p)
  BY <1>0
<1>3. Reaches(p, s, star + 1, tmp + 1)
  BY <1>0, <1>1, <1>2, OneMore, Zenon
<1>4. ASSUME NEW g, FullCut(p, s, g)
      PROVE  g[star + 1] >= tmp + 1 /\ g[star + 1] - (tmp + 1) = g[star + 1] - (tmp + 1)
  <2>1. g[px] \in 0..Len(s) /\ g[star + 1] \in 0..Len(s)
    BY <1>0, <1>2, <1>4, FullAt, Zenon
  <2>2. g[star + 1] >= tmp /\ g[px] - sx = g[star + 1] - tmp
    BY <1>4, Zenon DEF Greedy
  <2>3. g[px] # sx
    BY <1>4, Elsewhere, Zenon
  <2>4. PICK a, c : a = g[px] /\ c = g[star + 1]
    OBVIOUS
  <2>5. c >= tmp + 1
    BY <1>0, <2>1, <2>2, <2>3, <2>4, SMTT(30)
  <2> QED
    BY <2>4, <2>5, Zenon
<1>5. Matched(p, s, tmp + 1, star + 1, star, tmp + 1)
  BY <1>1, <1>2, <1>3, Zenon DEF Matched
<1>6. Greedy(p, s, tmp + 1, star + 1, star, tmp + 1)
  BY <1>4, Zenon DEF Greedy
<1> QED
  BY <1>5, <1>6, Zenon

\* The default: without a star nothing matches.
LEMMA NoMatch ==
    ASSUME NEW p, NEW s, NEW sx, NEW px, NEW tmp, Indices(p, s, sx, px, -1, tmp),
           Greedy(p, s, sx, px, -1, tmp), sx < Len(s), Mismatch(p, s, sx, px)
    PROVE  ~Cuts(p, s)
<1>1. SUFFICES ASSUME NEW g, FullCut(p, s, g) PROVE FALSE
  BY CutsIsFull, Zenon DEF Reaches, FullCut
<1>2. g[px] = sx
  BY <1>1, Zenon DEF Greedy
<1> QED
  BY <1>1, <1>2, Elsewhere, Zenon

\* The loop after the name: a star that takes nothing.
LEMMA LastStars ==
    ASSUME NEW p, NEW s, NEW sx, NEW px, NEW star, NEW tmp, Indices(p, s, sx, px, star, tmp),
           Matched(p, s, sx, px, star, tmp), Greedy(p, s, sx, px, star, tmp),
           ~(sx < Len(s)), px < Len(p), p[px + 1] = Star
    PROVE  /\ Matched(p, s, sx, px + 1, star, tmp) /\ Greedy(p, s, sx, px + 1, star, tmp)
<1>1. /\ Matched(p, s, sx, px + 1, px, sx) /\ Greedy(p, s, sx, px + 1, px, sx)
  BY NewStar, Zenon
<1>2. Matched(p, s, sx, px + 1, star, tmp)
  BY <1>1, Zenon DEF Matched
<1>3. Greedy(p, s, sx, px + 1, star, tmp)
  BY <1>1, Zenon DEF Greedy
<1> QED
  BY <1>2, <1>3, Zenon

\* The answer after both loops.
LEMMA AtTheEnd ==
    ASSUME NEW p, NEW s, NEW sx, NEW px, NEW star, NEW tmp, Indices(p, s, sx, px, star, tmp),
           Matched(p, s, sx, px, star, tmp), Greedy(p, s, sx, px, star, tmp),
           ~(sx < Len(s)), ~(px < Len(p) /\ p[px + 1] = Star)
    PROVE  px = Len(p) <=> Cuts(p, s)
<1>0. Len(p) \in Nat /\ Len(s) \in Nat /\ sx \in 0..Len(s) /\ px \in 0..Len(p)
  BY Zenon DEF Indices
<1>1. sx = Len(s) /\ (px = Len(p) \/ px < Len(p))
  BY <1>0
<1>2. ASSUME px = Len(p) PROVE Cuts(p, s)
  BY <1>1, <1>2, CutsIsFull, Zenon DEF Matched
<1>3. ASSUME px < Len(p), Cuts(p, s) PROVE FALSE
  <2>1. PICK g : FullCut(p, s, g)
    BY <1>3, CutsIsFull, Zenon DEF Reaches, FullCut
  <2>2. g[px] \in 0..Len(s) /\ g[px] < Len(s)
    BY <1>0, <1>3, <2>1, FullAt, Zenon
  <2>3. g[px] >= sx
    BY <2>1, Zenon DEF Greedy
  <2>4. PICK a : a = g[px]
    BY Zenon
  <2> QED
    BY <1>0, <1>1, <2>2, <2>3, <2>4, SMTT(30)
<1> QED
  BY <1>1, <1>2, <1>3, Zenon

\* While globMatch runs, what it has matched and what every match must do; then its answer.
Answering ==
    task.kind = "glob" =>
        IF loop.res = "run"
        THEN /\ Matched(task.pattern, task.name, loop.sx, loop.px, loop.starIdx, loop.sTmp)
             /\ Greedy(task.pattern, task.name, loop.sx, loop.px, loop.starIdx, loop.sTmp)
        ELSE loop.res = "yes" <=> Cuts(task.pattern, task.name)

\* One round of globMatch.
LEMMA MatchAnswers ==
    ASSUME LoopShape, Answering, Match PROVE Answering'
<1>1. PICK p, s, sx, px, star, tmp :
         /\ p = task.pattern /\ s = task.name
         /\ sx = loop.sx /\ px = loop.px /\ star = loop.starIdx /\ tmp = loop.sTmp
  BY Zenon
<1>2. task.kind = "glob" /\ loop.res = "run" /\ loop' = GlobStep(p, s, loop) /\ task' = task
  BY <1>1, Zenon DEF Match
<1>3. Indices(p, s, sx, px, star, tmp)
  <2>1. p \in Seq(STRING) /\ s \in Seq(STRING) /\ Star \notin Range(s)
    BY <1>1, <1>2, RulesAssumption, Zenon DEF LoopShape
  <2>2. Len(p) \in Nat /\ Len(s) \in Nat /\ DOMAIN s = 1..Len(s)
    BY <2>1
  <2>3. \A i \in 1..Len(s) : s[i] # Star
    BY <2>1, <2>2, Zenon DEF Range
  <2> QED
    BY <1>1, <1>2, <2>2, <2>3, Zenon DEF LoopShape, RulesTypeOK, Indices
<1>4. Matched(p, s, sx, px, star, tmp) /\ Greedy(p, s, sx, px, star, tmp)
  BY <1>1, <1>2, Zenon DEF Answering
<1>5. ASSUME NEW sx2, NEW px2, NEW star2, NEW tmp2, loop' = At(sx2, px2, star2, tmp2),
             Matched(p, s, sx2, px2, star2, tmp2), Greedy(p, s, sx2, px2, star2, tmp2)
      PROVE  Answering'
  <2>1. /\ loop'.sx = sx2 /\ loop'.px = px2 /\ loop'.starIdx = star2 /\ loop'.sTmp = tmp2
        /\ loop'.res = "run" /\ task'.pattern = p /\ task'.name = s
    BY <1>1, <1>2, <1>5 DEF At
  <2> QED
    BY <1>5, <2>1, Zenon DEF Answering
<1>6. ASSUME NEW r \in {"yes", "no"}, loop' = [loop EXCEPT !.res = r], r = "yes" <=> Cuts(p, s)
      PROVE  Answering'
  <2>1. loop'.res = r /\ r # "run"
    BY <1>2, <1>6 DEF LoopShape, GlobStates
  <2>2. task'.pattern = p /\ task'.name = s
    BY <1>1, <1>2, Zenon
  <2> QED
    BY <1>6, <2>1, <2>2, Zenon DEF Answering
<1>7. CASE sx < Len(s) /\ px < Len(p) /\ p[px + 1] = s[sx + 1]
  <2>1. loop' = At(sx + 1, px + 1, star, tmp)
    BY <1>1, <1>2, <1>7, Zenon DEF GlobStep
  <2> QED
    BY <1>3, <1>4, <1>5, <1>7, <2>1, SameCharacter, Zenon
<1>8. CASE sx < Len(s) /\ px < Len(p) /\ p[px + 1] # s[sx + 1] /\ p[px + 1] = Star
  <2>1. loop' = At(sx, px + 1, px, sx)
    BY <1>1, <1>2, <1>8, Zenon DEF GlobStep
  <2> QED
    BY <1>3, <1>4, <1>5, <1>8, <2>1, NewStar, Zenon
<1>9. CASE sx < Len(s) /\ Mismatch(p, s, sx, px) /\ star # -1
  <2>1. loop' = At(tmp + 1, star + 1, star, tmp + 1)
    BY <1>1, <1>2, <1>9, Zenon DEF GlobStep, Mismatch, Backtrack
  <2> QED
    BY <1>3, <1>4, <1>5, <1>9, <2>1, Retry, Zenon
<1>10. CASE sx < Len(s) /\ Mismatch(p, s, sx, px) /\ star = -1
  <2>1. loop' = [loop EXCEPT !.res = "no"]
    BY <1>1, <1>2, <1>10, Zenon DEF GlobStep, Mismatch
  <2>2. ~Cuts(p, s)
    BY <1>3, <1>4, <1>10, NoMatch, Zenon
  <2> QED
    BY <1>6, <2>1, <2>2, Zenon
<1>11. CASE ~(sx < Len(s)) /\ px < Len(p) /\ p[px + 1] = Star
  <2>1. loop' = At(sx, px + 1, star, tmp)
    BY <1>1, <1>2, <1>11, Zenon DEF GlobStep
  <2> QED
    BY <1>3, <1>4, <1>5, <1>11, <2>1, LastStars, Zenon
<1>12. CASE ~(sx < Len(s)) /\ ~(px < Len(p) /\ p[px + 1] = Star)
  <2>1. PICK r \in {"yes", "no"} : (r = "yes" <=> px = Len(p)) /\ loop' = [loop EXCEPT !.res = r]
    <3>1. CASE px = Len(p)
      <4>1. loop' = [loop EXCEPT !.res = "yes"]
        BY <1>1, <1>2, <1>12, <3>1, Zenon DEF GlobStep
      <4> QED
        BY <3>1, <4>1, Zenon
    <3>2. CASE px # Len(p)
      <4>1. loop' = [loop EXCEPT !.res = "no"]
        BY <1>1, <1>2, <1>12, <3>2, Zenon DEF GlobStep
      <4>2. "no" # "yes"
        OBVIOUS
      <4> QED
        BY <3>2, <4>1, <4>2, Zenon
    <3> QED
      BY <3>1, <3>2, Zenon
  <2>2. px = Len(p) <=> Cuts(p, s)
    BY <1>3, <1>4, <1>12, AtTheEnd, Zenon
  <2> QED
    BY <1>6, <2>1, <2>2, Zenon
<1> QED
  BY <1>7, <1>8, <1>9, <1>10, <1>11, <1>12, Zenon DEF Mismatch

\* globMatch starts with nothing matched.
LEMMA StartAnswers ==
    ASSUME RulesInit PROVE Answering
<1>1. SUFFICES ASSUME task.kind = "glob" PROVE Answering
  BY Zenon DEF Answering
<1>2. PICK p, s : p = task.pattern /\ s = task.name
  BY Zenon
<1>3. loop = At(0, 0, -1, -1)
  BY <1>1, Zenon DEF RulesInit, Start, GlobStart
<1>4. /\ loop.sx = 0 /\ loop.px = 0 /\ loop.starIdx = -1 /\ loop.sTmp = -1 /\ loop.res = "run"
  BY <1>3 DEF At
<1>5. p \in Seq(STRING) /\ s \in Seq(STRING)
  BY <1>1, <1>2, RulesAssumption, Zenon DEF RulesInit
<1>6. Len(p) \in Nat /\ Len(s) \in Nat
  BY <1>5
<1>7. Reaches(p, s, 0, 0)
  <2>1. PICK h : h = [i \in 0..0 |-> 0]
    BY Zenon
  <2>2. h \in [0..0 -> 0..Len(s)] /\ h[0] = 0 /\ 1..0 = {}
    BY <1>6, <2>1
  <2> QED
    BY <2>2, Zenon DEF Reaches, PrefixCut
<1>8. ASSUME NEW g, FullCut(p, s, g) PROVE g[0] >= 0 /\ g[0] = 0
  <2>1. g[0] = 0
    BY <1>8, Zenon DEF FullCut, PrefixCut
  <2> QED
    BY <2>1
<1>9. Matched(p, s, 0, 0, -1, -1) /\ Greedy(p, s, 0, 0, -1, -1)
  BY <1>7, <1>8, Zenon DEF Matched, Greedy
<1> QED
  BY <1>1, <1>2, <1>4, <1>9, Zenon DEF Answering

\* globMatch never reads outside the pattern or the name, and its answer is that of the
\* definition, for every pattern and every name without a star (authz.go).
THEOREM GlobMatchAnswers == RulesSpec => []GlobAnswers
<1>1. RulesInit => LoopShape /\ Answering
  <2> SUFFICES ASSUME RulesInit PROVE LoopShape
    BY StartAnswers
  <2>1. PolicyLoop
    BY PolicyLoopStart
  <2>2. CASE task.kind = "glob"
    <3>1. task \in Tasks /\ loop = GlobStart /\ Len(task.name) \in Nat /\ Len(task.pattern) \in Nat
      BY <2>2, RulesAssumption, SMTT(30) DEF RulesInit, Start
    <3>2. loop \in GlobStates /\ RulesTypeOK
      BY <2>2, <3>1, SMTT(30) DEF GlobStart, At, GlobStates, RulesTypeOK
    <3> QED
      BY <2>1, <2>2, <3>1, <3>2, SMTT(30) DEF LoopShape
  <2>3. CASE task.kind = "policy"
    <3>1. RulesTypeOK
      BY <2>1, <2>3 DEF PolicyLoop, RulesTypeOK
    <3> QED
      BY <2>1, <2>3, <3>1, SMTT(30) DEF LoopShape, PolicyLoop
  <2>4. CASE task.kind \notin {"glob", "policy"}
    BY <2>1, <2>4, Zenon DEF RulesInit, Start, LoopShape, RulesTypeOK
  <2> QED
    BY <2>2, <2>3, <2>4, Zenon
<1>2. LoopShape /\ Answering /\ [RulesNext]_ruleVars => LoopShape' /\ Answering'
  <2>1. ASSUME LoopShape, RangeVersions PROVE LoopShape' /\ Answering'
    <3>1. task.kind = "npm" /\ task' = task /\ PolicyLoop'
      BY <2>1, SMTT(30) DEF RangeVersions, LoopShape, PolicyLoop
    <3>2. Answering'
      BY <3>1, SMTT(30) DEF Answering
    <3>3. RulesTypeOK'
      BY <2>1, <3>1, SMTT(30) DEF LoopShape, RulesTypeOK, RangeVersions, BestAfter
    <3> QED
      BY <2>1, <3>1, <3>2, <3>3, SMTT(30) DEF LoopShape, RangeVersions
  <2>2. ASSUME LoopShape, ReadLine PROVE LoopShape' /\ Answering'
    <3>1. task.kind = "policy" /\ task' = task
      BY <2>2 DEF ReadLine
    <3>2. PolicyLoop'
      BY <2>2, PolicyLoopStep, SMTT(30) DEF LoopShape
    <3>3. Answering'
      BY <3>1, SMTT(30) DEF Answering
    <3>4. RulesTypeOK'
      BY <3>1, <3>2 DEF PolicyLoop, RulesTypeOK
    <3> QED
      BY <2>2, <3>1, <3>2, <3>3, <3>4, SMTT(30) DEF LoopShape
  <2>3. ASSUME LoopShape, Answering, UNCHANGED ruleVars PROVE LoopShape' /\ Answering'
    BY <2>3, Zenon DEF LoopShape, RulesTypeOK, PolicyLoop, Answering, ruleVars
  <2> QED
    BY <2>1, <2>2, <2>3, GlobStepInBounds, MatchAnswers, ZenonT(40) DEF RulesNext
<1>3. LoopShape /\ Answering => GlobAnswers
  BY Zenon DEF LoopShape, Answering, GlobAnswers, GlobIsCuts
<1> QED
  BY <1>1, <1>2, <1>3, PTL DEF RulesSpec

-----------------------------------------------------------------------------
(* npm's highest version.                                                   *)

\* A version that parseSemver accepts has three numbers.
LEMMA ThreeNumbers ==
    ASSUME NEW n \in Seq(Nat), Len(n) = 3
    PROVE  n[1] \in Nat /\ n[2] \in Nat /\ n[3] \in Nat
<1>1. 1 \in 1..Len(n) /\ 2 \in 1..Len(n) /\ 3 \in 1..Len(n)
  OBVIOUS
<1> QED
  BY <1>1, ElementOfSeq, ZenonT(30)

\* The code's comparison is precedence: the first number that differs decides.
LEMMA HigherIsBeats ==
    ASSUME NEW n \in Seq(Nat), NEW m \in Seq(Nat), Len(n) = 3, Len(m) = 3
    PROVE  Higher(n, m) <=> Beats(n, m)
<1>1. n[1] \in Nat /\ n[2] \in Nat /\ n[3] \in Nat /\ m[1] \in Nat /\ m[2] \in Nat /\ m[3] \in Nat
  BY ThreeNumbers, SMTT(30)
<1>2. Beats(n, m) <=> \/ n[1] > m[1]
                      \/ n[2] > m[2] /\ n[1] = m[1]
                      \/ n[3] > m[3] /\ n[1] = m[1] /\ n[2] = m[2]
  <2>1. \A j \in 1..(1 - 1) : n[j] = m[j]
    OBVIOUS
  <2>2. (\A j \in 1..(2 - 1) : n[j] = m[j]) <=> n[1] = m[1]
    BY SMTT(30)
  <2>3. (\A j \in 1..(3 - 1) : n[j] = m[j]) <=> n[1] = m[1] /\ n[2] = m[2]
    BY SMTT(30)
  <2> QED
    BY <2>1, <2>2, <2>3, SMTT(30) DEF Beats
<1> QED
  BY <1>1, <1>2, SMTT(30) DEF Higher

\* What does not beat a version does not beat one that beats it.
LEMMA NotHigherTransitive ==
    ASSUME NEW x \in Seq(Nat), NEW b \in Seq(Nat), NEW v \in Seq(Nat),
           Len(x) = 3, Len(b) = 3, Len(v) = 3, ~Higher(x, b), Higher(v, b)
    PROVE  ~Higher(x, v)
<1>1. /\ x[1] \in Nat /\ x[2] \in Nat /\ x[3] \in Nat /\ b[1] \in Nat /\ b[2] \in Nat /\ b[3] \in Nat
      /\ v[1] \in Nat /\ v[2] \in Nat /\ v[3] \in Nat
  BY ThreeNumbers, SMTT(30)
<1> QED
  BY <1>1, SMTT(30) DEF Higher

\* The loop's invariant: best is one stable version, the highest of those ranged
\* so far, or none while none of them was stable.
BestSoFar ==
    task.kind = "npm" =>
        /\ task \in Tasks /\ loop.todo \subseteq task.versions
        /\ loop.best \subseteq task.versions /\ \A b, c \in loop.best : b = c
        /\ loop.best = {} <=> \A ver \in task.versions \ loop.todo : ~Stable(ver)
        /\ \A b \in loop.best :
              Stable(b) /\ \A ver \in task.versions \ loop.todo : Stable(ver) => ~Higher(ver.segs, b.segs)

\* Ranging one more version keeps the invariant.
LEMMA RangeKeepsBest ==
    ASSUME BestSoFar, RangeVersions PROVE BestSoFar'
<1>1. task.kind = "npm" /\ task' = task
  BY SMTT(30) DEF RangeVersions
<1>2. PICK v \in loop.todo : loop' = [todo |-> loop.todo \ {v}, best |-> BestAfter(loop.best, v)]
  BY SMTT(30) DEF RangeVersions
<1>3. loop'.todo = loop.todo \ {v} /\ loop'.best = BestAfter(loop.best, v)
  BY <1>2, SMTT(30)
<1>4. v \in task.versions /\ task.versions \ loop'.todo = (task.versions \ loop.todo) \union {v}
  BY <1>1, <1>2, <1>3, SMTT(30) DEF BestSoFar
<1>5. \A ver \in task.versions : ver.segs \in Seq(Nat) /\ (Stable(ver) => Len(ver.segs) = 3)
  <2>1. \A ver \in task.versions : ver.segs \in Seq(Nat)
    BY <1>1, RulesAssumption, ZenonT(60) DEF BestSoFar
  <2> QED
    BY <2>1, ZenonT(60) DEF Stable
<1>6. ASSUME NEW x \in Seq(Nat), Len(x) = 3 PROVE ~Higher(x, x)
  <2>1. x[1] \in Nat /\ x[2] \in Nat /\ x[3] \in Nat
    BY <1>6, ThreeNumbers
  <2> QED
    BY <2>1, SMTT(30) DEF Higher
<1>7. CASE Stable(v) /\ \A b \in loop.best : Higher(v.segs, b.segs)
  <2>1. loop'.best = {v}
    BY <1>3, <1>7, SMTT(30) DEF BestAfter
  <2>2. ASSUME NEW ver \in (task.versions \ loop.todo), Stable(ver) PROVE ~Higher(ver.segs, v.segs)
    <3>1. PICK b \in loop.best : TRUE
      BY <1>1, <2>2, SMTT(30) DEF BestSoFar
    <3>2. b \in task.versions /\ Stable(b) /\ ~Higher(ver.segs, b.segs)
      BY <1>1, <2>2, <3>1, SMTT(30) DEF BestSoFar
    <3> QED
      BY <1>4, <1>5, <1>7, <2>2, <3>1, <3>2, NotHigherTransitive, SMTT(30)
  <2>3. ~Higher(v.segs, v.segs)
    BY <1>4, <1>5, <1>6, <1>7, SMTT(30)
  <2> QED
    BY <1>1, <1>3, <1>4, <1>7, <2>1, <2>2, <2>3, SMTT(30) DEF BestSoFar
<1>8. CASE ~(Stable(v) /\ \A b \in loop.best : Higher(v.segs, b.segs))
  <2>1. loop'.best = loop.best
    BY <1>3, <1>8, SMTT(30) DEF BestAfter
  <2>2. ASSUME NEW b \in loop.best, Stable(v) PROVE ~Higher(v.segs, b.segs)
    BY <1>1, <1>8, <2>2, SMTT(30) DEF BestSoFar
  <2>3. loop.best = {} => ~Stable(v)
    BY <1>8, SMTT(30)
  <2> QED
    BY <1>1, <1>3, <1>4, <2>1, <2>2, <2>3, SMTT(30) DEF BestSoFar
<1> QED
  BY <1>7, <1>8, SMTT(30)

\* Whatever the versions and the order Go ranges them in, latest is the highest.
THEOREM LatestIsHighest == RulesSpec => []HighestIsHighest
<1>1. RulesInit => BestSoFar
  BY DEF RulesInit, Start, BestSoFar
<1>2. BestSoFar /\ [RulesNext]_ruleVars => BestSoFar'
  <2>1. ASSUME Match \/ ReadLine PROVE BestSoFar'
    BY <2>1, SMTT(30) DEF Match, ReadLine, BestSoFar
  <2>2. ASSUME BestSoFar, UNCHANGED ruleVars PROVE BestSoFar'
    BY <2>2, SMTT(30) DEF BestSoFar, ruleVars
  <2> QED
    BY <2>1, <2>2, RangeKeepsBest, SMTT(30) DEF RulesNext
<1>3. BestSoFar => HighestIsHighest
  <2> SUFFICES ASSUME BestSoFar, task.kind = "npm", loop.todo = {}
               PROVE  /\ loop.best = {} <=> \A ver \in task.versions : ~Stable(ver)
                      /\ \A b \in loop.best :
                            Stable(b) /\ \A ver \in task.versions : Stable(ver) => ~Beats(ver.segs, b.segs)
    BY SMTT(30) DEF HighestIsHighest
  <2>1. \A ver \in task.versions : ver.segs \in Seq(Nat) /\ (Stable(ver) => Len(ver.segs) = 3)
    BY RulesAssumption, SMTT(30) DEF BestSoFar, Stable
  <2> QED
    BY <2>1, HigherIsBeats, SMTT(30) DEF BestSoFar
<1> QED
  BY <1>1, <1>2, <1>3, PTL DEF RulesSpec

-----------------------------------------------------------------------------
(* Times compared as text.                                                  *)

\* Two decimal digits.
LEMMA TwoDigits ==
    ASSUME NEW a \in 0..99
    PROVE  a \div 10 \in 0..9 /\ a % 10 \in 0..9 /\ a = 10 * (a \div 10) + (a % 10)
BY SMTT(30)

\* The order of numbers is the order of their digits.
LEMMA DigitOrder ==
    ASSUME NEW a \in 0..99, NEW b \in 0..99, a # b
    PROVE  /\ a \div 10 # b \div 10 \/ a % 10 # b % 10
           /\ a < b <=> a \div 10 < b \div 10 \/ (a \div 10 = b \div 10 /\ a % 10 < b % 10)
<1>1. ASSUME NEW p \in 0..9, NEW q \in 0..9, NEW r \in 0..9, NEW w \in 0..9, a = 10 * p + q, b = 10 * r + w
      PROVE  /\ p # r \/ q # w
             /\ a < b <=> p < r \/ (p = r /\ q < w)
  BY <1>1, SMTT(30)
<1> QED
  BY <1>1, TwoDigits, ZenonT(30)

\* A text of two characters.
LEMMA PairIsText ==
    ASSUME NEW p \in Nat, NEW q \in Nat
    PROVE  <<p, q>> \in Seq(Nat) /\ Len(<<p, q>>) = 2 /\ <<p, q>>[1] = p /\ <<p, q>>[2] = q
OBVIOUS

\* What follows a text leaves its characters where they are.
LEMMA TextPrefix ==
    ASSUME NEW x \in Seq(Nat), NEW y \in Seq(Nat), Len(x) >= 2
    PROVE  /\ x \o y \in Seq(Nat) /\ Len(x \o y) = Len(x) + Len(y)
           /\ (x \o y)[1] = x[1] /\ (x \o y)[2] = x[2]
<1>1. /\ x \o y \in Seq(Nat) /\ Len(x \o y) = Len(x) + Len(y)
      /\ \A i \in 1 .. Len(x) + Len(y) : (x \o y)[i] = IF i <= Len(x) THEN x[i] ELSE y[i - Len(x)]
  BY ConcatProperties, Zenon
<1>2. Len(x) \in Nat /\ Len(y) \in Nat
  BY LenProperties, SMTT(30)
<1>3. 1 \in 1 .. Len(x) + Len(y) /\ 2 \in 1 .. Len(x) + Len(y) /\ 1 <= Len(x) /\ 2 <= Len(x)
  BY <1>2, SMTT(30)
<1> QED
  BY <1>1, <1>3, Zenon

\* The text of a time starts with the two digits of its seconds (nowRFC3339).
LEMMA TextStarts ==
    ASSUME NEW t, t.sec \in 0..99, t.frac \in Seq(0..9), Len(t.frac) = 2
    PROVE  /\ Len(Text(t)) \in Nat /\ Len(Text(t)) >= 3
           /\ Text(t)[1] = 48 + (t.sec \div 10) /\ Text(t)[2] = 48 + (t.sec % 10)
<1> DEFINE digits == Fraction(t.frac)
           middle == IF digits = <<>> THEN <<>> ELSE <<Dot>> \o [i \in DOMAIN digits |-> Digit(digits[i])]
<1>1. t.frac[1] \in 0..9 /\ t.frac[2] \in 0..9
  <2>1. 1 \in 1..Len(t.frac) /\ 2 \in 1..Len(t.frac)
    OBVIOUS
  <2> QED
    BY <2>1, ElementOfSeq, SMTT(30)
<1>2. digits \in Seq(0..9)
  <2>1. <<t.frac[1]>> \in Seq(0..9) /\ <<>> \in Seq(0..9)
    BY <1>1
  <2>2. digits = t.frac \/ digits = <<t.frac[1]>> \/ digits = <<>>
    BY Zenon DEF Fraction
  <2> QED
    BY <2>1, <2>2, Zenon
<1>3. [i \in DOMAIN digits |-> Digit(digits[i])] \in Seq(Nat)
  <2> HIDE DEF digits
  <2>1. DOMAIN digits = 1..Len(digits) /\ Len(digits) \in Nat
    BY <1>2, SMTT(30)
  <2>2. \A i \in 1..Len(digits) : digits[i] \in 0..9
    BY <1>2, ElementOfSeq, SMTT(30)
  <2>3. \A i \in 1..Len(digits) : Digit(digits[i]) \in Nat
    BY <2>2, SMTT(30) DEF Digit
  <2>4. [i \in 1..Len(digits) |-> Digit(digits[i])] \in Seq(Nat)
    BY <2>1, <2>3, IsASeq, SMTT(30)
  <2> QED
    BY <2>1, <2>4, SMTT(30)
<1>4. middle \in Seq(Nat)
  <2> HIDE DEF digits
  <2>1. <<Dot>> \in Seq(Nat)
    BY SMTT(30) DEF Dot
  <2> QED
    BY <1>3, <2>1, SMTT(30)
<1>5. /\ Seconds(t.sec) \in Seq(Nat) /\ Len(Seconds(t.sec)) = 2
      /\ Seconds(t.sec)[1] = 48 + (t.sec \div 10) /\ Seconds(t.sec)[2] = 48 + (t.sec % 10)
  <2>1. 48 + (t.sec \div 10) \in Nat /\ 48 + (t.sec % 10) \in Nat
    <3>1. t.sec \div 10 \in 0..9 /\ t.sec % 10 \in 0..9
      BY TwoDigits, Zenon
    <3>2. \A p \in 0..9 : 48 + p \in Nat
      OBVIOUS
    <3> QED
      BY <3>1, <3>2, Zenon
  <2>2. Seconds(t.sec) = <<48 + (t.sec \div 10), 48 + (t.sec % 10)>>
    BY DEF Seconds, Digit
  <2> QED
    BY <2>1, <2>2, PairIsText, SMTT(30)
<1>6. <<Zulu>> \in Seq(Nat) /\ Len(<<Zulu>>) = 1
  BY DEF Zulu
<1>7. Text(t) = Seconds(t.sec) \o middle \o <<Zulu>>
  BY DEF Text
<1> HIDE DEF middle
<1>8. /\ Seconds(t.sec) \o middle \in Seq(Nat) /\ Len(Seconds(t.sec) \o middle) = 2 + Len(middle)
      /\ (Seconds(t.sec) \o middle)[1] = 48 + (t.sec \div 10)
      /\ (Seconds(t.sec) \o middle)[2] = 48 + (t.sec % 10)
  <2>1. Len(Seconds(t.sec)) >= 2
    BY <1>5
  <2> QED
    BY <1>4, <1>5, <2>1, TextPrefix, ZenonT(30)
<1>9. Len(middle) \in Nat /\ Len(Seconds(t.sec) \o middle) >= 2
  BY <1>4, <1>8, LenProperties
<1>10. /\ Len(Text(t)) = 2 + Len(middle) + 1
       /\ Text(t)[1] = (Seconds(t.sec) \o middle)[1] /\ Text(t)[2] = (Seconds(t.sec) \o middle)[2]
  BY <1>6, <1>7, <1>8, <1>9, TextPrefix, SMTT(30)
<1> QED
  BY <1>8, <1>9, <1>10, SMTT(30)

\* Two texts that differ in their first two characters are ordered by them.
LEMMA TextLessByPrefix ==
    ASSUME NEW a, NEW b, Len(a) \in Nat, Len(b) \in Nat, Len(a) >= 3, Len(b) >= 3,
           a[1] \in Nat, a[2] \in Nat, b[1] \in Nat, b[2] \in Nat, a[1] # b[1] \/ a[2] # b[2]
    PROVE  TextLess(a, b) <=> a[1] < b[1] \/ (a[1] = b[1] /\ a[2] < b[2])
<1>1. ASSUME a[1] < b[1] PROVE TextLess(a, b)
  <2>1. 1 \in 1..Len(b) /\ 1..(1 - 1) = {}
    BY SMTT(30)
  <2> QED
    BY <1>1, <2>1, SMTT(30) DEF TextLess
<1>2. ASSUME a[1] = b[1], a[2] < b[2] PROVE TextLess(a, b)
  <2>1. 2 \in 1..Len(b) /\ \A j \in 1..(2 - 1) : j <= Len(a) /\ a[j] = b[j]
    BY <1>2, SMTT(30)
  <2> QED
    BY <1>2, <2>1, SMTT(30) DEF TextLess
<1>3. ASSUME TextLess(a, b) PROVE a[1] < b[1] \/ (a[1] = b[1] /\ a[2] < b[2])
  <2>1. PICK i \in 1..Len(b) : /\ \A j \in 1..(i - 1) : j <= Len(a) /\ a[j] = b[j]
                               /\ i > Len(a) \/ a[i] < b[i]
    BY <1>3, SMTT(30) DEF TextLess
  <2>2. CASE i = 1
    BY <2>1, <2>2, SMTT(30)
  <2>3. CASE i = 2
    BY <2>1, <2>3, SMTT(30)
  <2>4. CASE i > 2
    <3>1. 1 \in 1..(i - 1) /\ 2 \in 1..(i - 1)
      BY <2>4, SMTT(30)
    <3> QED
      BY <2>1, <3>1, SMTT(30)
  <2> QED
    BY <2>2, <2>3, <2>4, SMTT(30)
<1> QED
  BY <1>1, <1>2, <1>3, SMTT(30)

\* From one second to the next, text order is time order, for every fraction.
THEOREM TextOrderBySecond == RulesSpec => []MisorderedWithinSecond
<1>1. RulesInit => task \in Tasks
  BY DEF RulesInit
<1>2. task \in Tasks /\ [RulesNext]_ruleVars => (task \in Tasks)'
  BY SMTT(30) DEF RulesNext, Match, RangeVersions, ReadLine, ruleVars
<1>3. task \in Tasks => MisorderedWithinSecond
  <2> SUFFICES ASSUME task \in Tasks, task.kind = "time", task.t.sec # task.u.sec
               PROVE  TextLess(Text(task.t), Text(task.u)) <=> Before(task.t, task.u)
    BY SMTT(30) DEF MisorderedWithinSecond
  <2>1. \A x \in {task.t, task.u} : x.sec \in 0..99 /\ x.frac \in Seq(0..9) /\ Len(x.frac) = 2
    BY RulesAssumption, ZenonT(30)
  <2>2. \A x \in {task.t, task.u} :
           /\ Len(Text(x)) \in Nat /\ Len(Text(x)) >= 3
           /\ Text(x)[1] = 48 + (x.sec \div 10) /\ Text(x)[2] = 48 + (x.sec % 10)
    BY <2>1, TextStarts, SMTT(30)
  <2> DEFINE a == task.t.sec
             b == task.u.sec
  <2>3. a \in 0..99 /\ b \in 0..99 /\ a # b
    BY <2>1, SMTT(30)
  <2>4. TextLess(Text(task.t), Text(task.u)) <=> a < b
    <3> DEFINE x == Text(task.t)
               y == Text(task.u)
    <3>1. a \div 10 \in 0..9 /\ a % 10 \in 0..9 /\ b \div 10 \in 0..9 /\ b % 10 \in 0..9
      BY <2>3, TwoDigits, ZenonT(60)
    <3>2. /\ Len(x) \in Nat /\ Len(x) >= 3 /\ x[1] = 48 + (a \div 10) /\ x[2] = 48 + (a % 10)
          /\ Len(y) \in Nat /\ Len(y) >= 3 /\ y[1] = 48 + (b \div 10) /\ y[2] = 48 + (b % 10)
      BY <2>2, SMTT(30)
    <3>3. /\ a \div 10 # b \div 10 \/ a % 10 # b % 10
          /\ a < b <=> a \div 10 < b \div 10 \/ (a \div 10 = b \div 10 /\ a % 10 < b % 10)
      BY <2>3, DigitOrder, ZenonT(30)
    <3>4. /\ x[1] \in Nat /\ x[2] \in Nat /\ y[1] \in Nat /\ y[2] \in Nat
          /\ x[1] # y[1] \/ x[2] # y[2]
          /\ a < b <=> x[1] < y[1] \/ (x[1] = y[1] /\ x[2] < y[2])
      <4>1. PICK p \in 0..9, q \in 0..9, r \in 0..9, w \in 0..9 :
               p = a \div 10 /\ q = a % 10 /\ r = b \div 10 /\ w = b % 10
        BY <3>1, Zenon
      <4>2. /\ x[1] = 48 + p /\ x[2] = 48 + q /\ y[1] = 48 + r /\ y[2] = 48 + w
            /\ p # r \/ q # w
            /\ a < b <=> p < r \/ (p = r /\ q < w)
        BY <3>2, <3>3, <4>1, ZenonT(40)
      <4> HIDE DEF x, y, a, b
      <4> QED
        BY <4>2
    <3> HIDE DEF x, y, a, b
    <3>5. TextLess(x, y) <=> x[1] < y[1] \/ (x[1] = y[1] /\ x[2] < y[2])
      BY <3>2, <3>4, TextLessByPrefix, ZenonT(60)
    <3> QED
      BY <3>4, <3>5, ZenonT(60) DEF x, y
  <2>5. Before(task.t, task.u) <=> a < b
    BY <2>3 DEF Before
  <2> QED
    BY <2>4, <2>5, SMTT(30)
<1> QED
  BY <1>1, <1>2, <1>3, PTL DEF RulesSpec
=============================================================================
