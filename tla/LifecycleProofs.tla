-------------------------- MODULE LifecycleProofs ---------------------------
(***************************************************************************)
(* Proofs about the life of a process, for any peers, images, default       *)
(* repositories, handlers and sizes of the audit channel.                   *)
(***************************************************************************)
EXTENDS Lifecycle, TLAPS

-----------------------------------------------------------------------------
(* The inductive invariant, part by part.                                   *)

\* migrate: the schema, and what a starting replica found of it, are first migrations;
\* what it found is still there.
Migrated ==
    /\ \E k \in Nat : schema = 1..k
    /\ \A i \in Replicas :
          pc[i] = "migrate" => known[i] \subseteq schema /\ \E j \in Nat : known[i] = 1..j

\* A list of defaults still to seed is the end of the list; the others are passed.
Suffix(t) ==
    /\ Len(t) <= Len(Seeds)
    /\ \A j \in 1..Len(t) : t[j] = Seeds[j + (Len(Seeds) - Len(t))]
Passed(t) == {Seeds[j] : j \in 1..(Len(Seeds) - Len(t))}

\* SeedDefaults: while nobody deletes one, the defaults a starting replica has passed are
\* there, all of them once it is up, and the members of a group before the group.
Seeded ==
    /\ \A i \in Replicas : /\ pc[i] \in {"seed", "create"} => Suffix(todo[i])
                           /\ pc[i] = "create" => todo[i] # <<>>
    /\ "deleted" \notin excused =>
          /\ \A i \in Replicas : /\ pc[i] \in {"seed", "create"} => Passed(todo[i]) \subseteq repos
                                 /\ pc[i] = "up" => Range(Seeds) \subseteq repos
          /\ \A r \in repos : Members[r] \subseteq repos

\* A startLeading that was not overtaken runs in its term.
Led == mode = "shared" =>
          /\ ready => term \/ "stopped first" \in excused
          /\ starting = "live" => term

\* Outside of run() nothing is in memory; the channel is closed while run() returns,
\* empty once its writer is done, and used by no handler unless run() did not wait for it.
Quiet ==
    /\ ~Running => /\ buffer = <<>> /\ writer = 0
                   /\ \A a \in Actors : act[a] = Off
    /\ closed <=> pc[Self] \in {"closing", "flushed"}
    /\ pc[Self] = "flushed" => buffer = <<>> /\ writer = 0
    /\ closed /\ "late" \notin excused => \A h \in Handlers : act[h] = Rest

\* Every request makes one event at most, so the stamps stay within the bound: those
\* being served have a stamp of their own to come, f.
Due(f, A, m, w) ==
    \A a \in Actors : A[a] = Busy =>
       m < f[a] /\ f[a] <= w /\ \A b \in Actors : A[b] = Busy /\ f[b] = f[a] => b = a
Worked ==
    /\ work \in Nat /\ work <= MaxWork /\ n <= work
    /\ \E f \in [Actors -> Nat] : Due(f, act, n, work)

\* An event is held once, by one actor or in one place of the channel.
HeldOnce ==
    /\ \A a, b \in Actors : act[a] = act[b] /\ act[a] > 0 => a = b
    /\ \A j, k \in DOMAIN buffer : buffer[j] = buffer[k] => j = k
    /\ \A e \in Events : fate[e] = "none" <=> e > n

\* Event d is on its way and e overtook it, or may have.
Overtaken(d, e) ==
    \/ fate[d] = "stamped" /\ e <= n
    \/ fate[d] = "buffered" /\ fate[e] \in {"writing", "written"}
    \/ fate[d] = "writing" /\ fate[e] = "written"

\* An event overtakes only what was in an actor's hands when it was stamped, in the
\* channel too; rows are numbered upwards.
OvertakenInHand == \A d, e \in Events : d < e /\ Overtaken(d, e) => <<d, e>> \in overlaps
SentInOrder ==
    \A j, k \in DOMAIN buffer :
       j < k /\ buffer[k] < buffer[j] => <<buffer[k], buffer[j]>> \in overlaps
Numbered == \A e \in Events : id[e] <= lastId
InOrder == OvertakenInHand /\ SentInOrder /\ Numbered /\ ListedByTime

\* Events are accounted for.
Accounted == BufferedIsFlushed /\ RefusedOnlyLate /\ Quiet /\ Worked /\ HeldOnce /\ InOrder

-----------------------------------------------------------------------------
(* Which steps write what.                                                  *)

\* A step of the start, of a term, of an actor, of the audit writer, of the shutdown.
LEMMA NextKinds ==
    ASSUME [Next]_vars
    PROVE  \/ \E i \in Replicas : \/ ReadSchema(i) \/ ApplyMigration(i) \/ SeedGet(i)
                                  \/ SeedCreate(i) \/ Serve(i)
           \/ DeleteRepository \/ StartLeading \/ BecomeReady \/ StopLeading
           \/ \E h \in Handlers : Request(h)
           \/ \E a \in Actors : Stamp(a) \/ Send(a)
           \/ ReapArtifact \/ ReaperEnds \/ TakeEvent \/ InsertAuditLog \/ InsertFails
           \/ PruneAuditLogs
           \/ Signal \/ Shutdown \/ Drained \/ DrainTimeout \/ Flushed \/ CloseStore
           \/ ListenerFails \/ Crash \/ UNCHANGED vars
BY Zenon DEF Next, Boot, Write, Stop

\* The deployment is fixed, causes are remembered, and work is counted up to its bound.
LEMMA Common ==
    ASSUME [Next]_vars
    PROVE  /\ mode' = mode /\ excused \subseteq excused'
           /\ work' = work \/ (work < MaxWork /\ work' = work + 1)
<1>1. ASSUME NEW i \in Replicas, \/ ReadSchema(i) \/ ApplyMigration(i) \/ SeedGet(i)
                                \/ SeedCreate(i) \/ Serve(i)
      PROVE  mode' = mode /\ excused' = excused /\ work' = work
  BY <1>1, Zenon DEF ReadSchema, ApplyMigration, SeedGet, SeedCreate, Serve
<1>2. ASSUME DeleteRepository \/ StartLeading \/ BecomeReady \/ StopLeading
      PROVE  /\ mode' = mode /\ excused \subseteq excused'
             /\ work' = work \/ (work < MaxWork /\ work' = work + 1)
  BY <1>2, Zenon DEF DeleteRepository, StartLeading, BecomeReady, StopLeading, External, Leaves
<1>3. ASSUME NEW a \in Actors, Request(a) \/ Stamp(a) \/ Send(a)
      PROVE  /\ mode' = mode /\ excused \subseteq excused'
             /\ work' = work \/ (work < MaxWork /\ work' = work + 1)
  BY <1>3, Zenon DEF Request, Stamp, Send, Exit, External
<1>4. ASSUME \/ ReapArtifact \/ ReaperEnds \/ TakeEvent \/ InsertAuditLog \/ InsertFails
             \/ PruneAuditLogs
      PROVE  /\ mode' = mode /\ excused' = excused
             /\ work' = work \/ (work < MaxWork /\ work' = work + 1)
  BY <1>4, Zenon DEF ReapArtifact, ReaperEnds, TakeEvent, InsertAuditLog, InsertFails,
     PruneAuditLogs, External
<1>5. ASSUME Signal \/ Shutdown \/ Drained \/ DrainTimeout \/ Flushed \/ CloseStore
             \/ ListenerFails \/ Crash \/ UNCHANGED vars
      PROVE  /\ mode' = mode /\ excused \subseteq excused'
             /\ work' = work \/ (work < MaxWork /\ work' = work + 1)
  BY <1>5, Zenon DEF Signal, Shutdown, Drained, DrainTimeout, Flushed, CloseStore, ListenerFails,
     Crash, Close, Exit, External, vars
<1>6. \A h \in Handlers : h \in Actors
  BY Zenon DEF Actors
<1> QED
  BY <1>1, <1>2, <1>3, <1>4, <1>5, <1>6, NextKinds, Zenon

-----------------------------------------------------------------------------
(* The start.                                                               *)

\* What the other steps make of the start: run() goes on past it, or ends.
PastStart ==
    /\ pc' = pc \/ \E j \in Replicas, x \in {"off", "draining", "closing", "flushed"} :
                      pc' = [pc EXCEPT ![j] = x]
    /\ UNCHANGED <<known, todo, schema, repos>>

\* Every other step is one of the start, or an administrator's.
LEMMA BootKinds ==
    ASSUME [Next]_vars
    PROVE  \/ \E i \in Replicas : \/ ReadSchema(i) \/ ApplyMigration(i) \/ SeedGet(i)
                                  \/ SeedCreate(i) \/ Serve(i)
           \/ DeleteRepository
           \/ PastStart
<1>a. Self \in Replicas /\ \A i \in Peers : i \in Replicas
  BY Zenon DEF Replicas
<1>2. ASSUME StartLeading \/ BecomeReady \/ StopLeading PROVE PastStart
  BY <1>2, Zenon DEF PastStart, StartLeading, BecomeReady, StopLeading, Leaves, bootVars
<1>3. ASSUME NEW a \in Actors, Request(a) \/ Stamp(a) PROVE PastStart
  BY <1>3, Zenon DEF PastStart, Request, Stamp, bootVars
<1>4. ASSUME \/ ReapArtifact \/ ReaperEnds \/ TakeEvent \/ InsertAuditLog \/ InsertFails
             \/ PruneAuditLogs \/ Signal \/ UNCHANGED vars
      PROVE  PastStart
  BY <1>4, Zenon DEF ReapArtifact, ReaperEnds, TakeEvent, InsertAuditLog, InsertFails,
     PruneAuditLogs, Signal, bootVars, vars, PastStart
<1>5. \A x \in {"off", "draining", "closing", "flushed"}, j \in Replicas :
         Goto(j, x) /\ UNCHANGED <<known, todo, schema, repos>> => PastStart
  BY Zenon DEF PastStart, Goto
<1>6. \A f : Exit(f) => Goto(Self, "off") /\ UNCHANGED <<known, todo, schema, repos>>
  BY Zenon DEF Exit
<1>7. ASSUME NEW a \in Actors, Send(a) PROVE PastStart
  <2>1. (\E f : Exit(f)) \/ UNCHANGED bootVars
    BY <1>7, Zenon DEF Send
  <2> QED
    BY <1>5, <1>6, <1>a, <2>1, Zenon DEF PastStart, bootVars
<1>8. ASSUME Shutdown \/ Drained \/ DrainTimeout \/ Flushed \/ CloseStore \/ ListenerFails
      PROVE  PastStart
  <2>1. /\ \E x \in {"off", "draining", "closing", "flushed"} : Goto(Self, x)
        /\ UNCHANGED <<known, todo, schema, repos>>
    BY <1>8, <1>6, Zenon DEF Shutdown, Drained, DrainTimeout, Flushed, CloseStore, ListenerFails,
       Close
  <2> QED
    BY <1>5, <1>a, <2>1, Zenon
<1>9. ASSUME Crash PROVE PastStart
  <2>1. /\ \E j \in Replicas : Goto(j, "off")
        /\ UNCHANGED <<known, todo, schema, repos>>
    BY <1>9, <1>6, <1>a, Zenon DEF Crash
  <2> QED
    BY <1>5, <2>1, Zenon
<1>10. \A h \in Handlers : h \in Actors
  BY Zenon DEF Actors
<1> QED
  BY <1>2, <1>3, <1>4, <1>7, <1>8, <1>9, <1>10, NextKinds, Zenon

\* Types of what the start writes.
BootTypes ==
    /\ pc \in [Replicas -> Pcs] /\ known \in [Replicas -> SUBSET Nat]
    /\ todo \in [Replicas -> Seq(Range(Seeds))]
    /\ schema \subseteq Nat \ {0} /\ repos \subseteq Range(Seeds)

\* What migrate applies next is the successor of what it found.
LEMMA NextIsSuccessor ==
    ASSUME NEW m \in Nat, NEW j \in Nat, 1..m \ 1..j # {}
    PROVE  NextMigration(1..m \ 1..j) = j + 1
<1>1. j < m
  OBVIOUS
<1>2. j + 1 \in 1..m \ 1..j /\ \A x \in 1..m \ 1..j : j + 1 <= x
  BY <1>1
<1>3. \A x \in 1..m \ 1..j : (\A y \in 1..m \ 1..j : x <= y) => x = j + 1
  BY <1>2
<1> QED
  BY <1>2, <1>3, Zenon DEF NextMigration, Min

\* The end of the list, one default further.
LEMMA SuffixTail ==
    ASSUME NEW t \in Seq(Range(Seeds)), Suffix(t), t # <<>>
    PROVE  /\ Tail(t) \in Seq(Range(Seeds)) /\ Head(t) \in Range(Seeds)
           /\ Suffix(Tail(t))
           /\ Passed(Tail(t)) = Passed(t) \cup {Head(t)}
           /\ Members[Head(t)] \subseteq Passed(t)
<1> DEFINE d == Len(Seeds) - Len(t)
<1>a. Seeds \in Seq(Range(Seeds)) /\ Len(Seeds) \in Nat /\ DOMAIN Seeds = 1..Len(Seeds)
  BY ConstantsAssumption
<1>b. Len(t) \in Nat /\ Len(t) >= 1 /\ Len(t) <= Len(Seeds) /\ d \in Nat /\ Head(t) = t[1]
  BY <1>a DEF Suffix
<1>1. /\ Tail(t) \in Seq(Range(Seeds)) /\ Head(t) \in Range(Seeds) /\ Len(Tail(t)) = Len(t) - 1
      /\ \A j \in 1..(Len(t) - 1) : Tail(t)[j] = t[j + 1]
  OBVIOUS
<1>2. Head(t) = Seeds[d + 1] /\ d + 1 \in 1..Len(Seeds)
  BY <1>a, <1>b DEF Suffix
<1>3. Suffix(Tail(t))
  <2>1. \A j \in 1..(Len(t) - 1) : t[j + 1] = Seeds[(j + 1) + d]
    BY <1>b DEF Suffix
  <2>2. \A j \in 1..(Len(t) - 1) : (j + 1) + d = j + (Len(Seeds) - (Len(t) - 1))
    BY <1>a, <1>b
  <2> QED
    BY <1>a, <1>b, <1>1, <2>1, <2>2 DEF Suffix
<1>4. Passed(Tail(t)) = Passed(t) \cup {Head(t)}
  <2>1. Len(Seeds) - Len(Tail(t)) = d + 1
    BY <1>a, <1>b, <1>1
  <2>2. 1..(d + 1) = 1..d \cup {d + 1}
    BY <1>b
  <2> QED
    BY <1>2, <2>1, <2>2, Zenon DEF Passed
<1>5. Members[Head(t)] \subseteq Passed(t)
  <2>1. Members[Seeds[d + 1]] \subseteq {Seeds[j] : j \in 1..((d + 1) - 1)}
    BY <1>a, <1>2, ConstantsAssumption, Zenon
  <2>2. (d + 1) - 1 = d
    BY <1>b
  <2> QED
    BY <1>2, <2>1, <2>2, Zenon DEF Passed
<1> QED
  BY <1>1, <1>3, <1>4, <1>5, Zenon

\* The whole list, and its end.
LEMMA SuffixEnds ==
    /\ Seeds \in Seq(Range(Seeds)) /\ Suffix(Seeds) /\ Passed(Seeds) = {}
    /\ Passed(<<>>) = Range(Seeds)
<1>a. Seeds \in Seq(Range(Seeds)) /\ Len(Seeds) \in Nat /\ DOMAIN Seeds = 1..Len(Seeds)
  BY ConstantsAssumption
<1>1. Suffix(Seeds) /\ Len(Seeds) - Len(Seeds) = 0 /\ 1..0 = {}
  BY <1>a DEF Suffix
<1>2. Passed(Seeds) = {}
  BY <1>1, Zenon DEF Passed
<1>3. Len(Seeds) - Len(<<>>) = Len(Seeds)
  BY <1>a
<1>4. Passed(<<>>) = Range(Seeds)
  BY <1>a, <1>3, Zenon DEF Passed, Range
<1> QED
  BY <1>a, <1>1, <1>2, <1>4, Zenon

\* Migrations stay first ones.
LEMMA MigratedStep ==
    ASSUME BootTypes, Migrated, [Next]_vars
    PROVE  /\ Migrated' /\ schema' \subseteq Nat \ {0} /\ known' \in [Replicas -> SUBSET Nat]
<1>a. /\ pc \in [Replicas -> Pcs] /\ known \in [Replicas -> SUBSET Nat]
      /\ schema \subseteq Nat \ {0}
  BY Zenon DEF BootTypes
<1>b. PICK k \in Nat : schema = 1..k
  BY Zenon DEF Migrated
<1>c. \A i \in Replicas :
         pc[i] = "migrate" => known[i] \subseteq schema /\ \E j \in Nat : known[i] = 1..j
  BY Zenon DEF Migrated
<1> DEFINE Goal == /\ Migrated' /\ schema' \subseteq Nat \ {0}
                   /\ known' \in [Replicas -> SUBSET Nat]
<1>1. ASSUME UNCHANGED <<known, schema>>,
             \A i \in Replicas : pc'[i] = "migrate" => pc[i] = "migrate"
      PROVE  Goal
  BY <1>1, <1>a, <1>b, <1>c, Zenon DEF Migrated
<1>2. ASSUME NEW i \in Replicas, ReadSchema(i) PROVE Goal
  <2>1. /\ schema' = schema /\ known' = [known EXCEPT ![i] = schema]
        /\ pc' = [pc EXCEPT ![i] = "migrate"]
    BY <1>2, Zenon DEF ReadSchema, Found, Goto
  <2>2. known' \in [Replicas -> SUBSET Nat]
    <3>1. schema \in SUBSET Nat
      BY <1>a
    <3> QED
      BY <1>a, <2>1, <3>1, Zenon
  <2>3. ASSUME NEW j \in Replicas, pc'[j] = "migrate"
        PROVE  known'[j] \subseteq schema' /\ \E m \in Nat : known'[j] = 1..m
    <3>1. CASE j = i
      BY <1>a, <1>b, <2>1, <3>1, Zenon
    <3>2. CASE j # i
      BY <1>a, <1>c, <2>1, <2>3, <3>2, Zenon
    <3> QED
      BY <3>1, <3>2, Zenon
  <2> QED
    BY <1>a, <1>b, <2>1, <2>2, <2>3, Zenon DEF Migrated
<1>3. ASSUME NEW i \in Replicas, ApplyMigration(i) PROVE Goal
  <2> DEFINE missing == 1..Ships[i] \ known[i]
             v == NextMigration(missing)
  <2>1. pc[i] = "migrate"
    BY <1>3, Zenon DEF ApplyMigration
  <2>2. PICK j \in Nat : known[i] = 1..j
    BY <1>c, <2>1, Zenon
  <2>3. CASE missing = {} \/ v \in schema
    <3>1. /\ UNCHANGED <<known, schema>>
          /\ Goto(i, "seed") \/ Goto(i, "off")
      BY <1>3, <2>3, Zenon DEF ApplyMigration
    <3>2. \A l \in Replicas : pc'[l] = "migrate" => pc[l] = "migrate"
      BY <1>a, <2>1, <3>1, Zenon DEF Goto
    <3> QED
      BY <1>1, <3>1, <3>2, Zenon
  <2>4. CASE missing # {} /\ v \notin schema
    <3>1. /\ schema' = schema \union {v} /\ pc' = pc
          /\ known' = [known EXCEPT ![i] = known[i] \union {v}]
      BY <1>3, <2>4, Zenon DEF ApplyMigration
    <3>2. v = j + 1
      <4>1. Ships[i] \in Nat
        BY ConstantsAssumption, Zenon
      <4> QED
        BY <2>2, <2>4, <4>1, NextIsSuccessor, Zenon
    <3>3. j = k
      <4>1. 1..j \subseteq 1..k /\ j + 1 \notin 1..k
        BY <1>b, <1>c, <2>1, <2>2, <2>4, <3>2, Zenon
      <4> QED
        BY <4>1
    <3>4. schema' = 1..(k + 1) /\ known'[i] = 1..(k + 1)
      <4>1. 1..k \cup {k + 1} = 1..(k + 1)
        OBVIOUS
      <4> QED
        BY <1>a, <1>b, <2>2, <3>1, <3>2, <3>3, <4>1, Zenon
    <3>5. k + 1 \in Nat /\ 1..(k + 1) \in SUBSET Nat /\ 1..(k + 1) \subseteq Nat \ {0}
      OBVIOUS
    <3>6. known' \in [Replicas -> SUBSET Nat]
      BY <1>a, <3>1, <3>4, <3>5, Zenon
    <3>7. ASSUME NEW l \in Replicas, pc'[l] = "migrate"
          PROVE  known'[l] \subseteq schema' /\ \E m \in Nat : known'[l] = 1..m
      <4>1. CASE l = i
        BY <3>4, <3>5, <4>1, Zenon
      <4>2. CASE l # i
        BY <1>a, <1>c, <3>1, <3>7, <4>2, Zenon
      <4> QED
        BY <4>1, <4>2, Zenon
    <3> QED
      BY <3>4, <3>5, <3>6, <3>7, Zenon DEF Migrated
  <2> QED
    BY <2>3, <2>4, Zenon
<1>4. ASSUME NEW i \in Replicas, SeedGet(i) \/ SeedCreate(i) \/ Serve(i) PROVE Goal
  <2>1. /\ UNCHANGED <<known, schema>>
        /\ pc' = pc \/ \E x \in {"seed", "create", "up"} : pc' = [pc EXCEPT ![i] = x]
    BY <1>4, Zenon DEF SeedGet, SeedCreate, Serve, Goto
  <2>2. \A l \in Replicas : pc'[l] = "migrate" => pc[l] = "migrate"
    BY <1>a, <2>1, Zenon
  <2> QED
    BY <1>1, <2>1, <2>2, Zenon
<1>5. ASSUME DeleteRepository PROVE Goal
  BY <1>1, <1>5, Zenon DEF DeleteRepository
<1>6. ASSUME PastStart PROVE Goal
  <2>1. \A l \in Replicas : pc'[l] = "migrate" => pc[l] = "migrate"
    BY <1>a, <1>6, Zenon DEF PastStart
  <2> QED
    BY <1>1, <1>6, <2>1, Zenon DEF PastStart
<1> QED
  BY <1>2, <1>3, <1>4, <1>5, <1>6, BootKinds, Zenon

\* What one replica has seeded: i is at x with t still to seed, and R is there.
SeededBy(x, t, R) ==
    /\ x \in {"seed", "create"} => Passed(t) \subseteq R
    /\ x = "up" => Range(Seeds) \subseteq R

\* Defaults stay seeded.
LEMMA SeededStep ==
    ASSUME BootTypes, Seeded, [Next]_vars
    PROVE  /\ Seeded' /\ pc' \in [Replicas -> Pcs] /\ repos' \subseteq Range(Seeds)
           /\ todo' \in [Replicas -> Seq(Range(Seeds))]
<1>a. /\ pc \in [Replicas -> Pcs] /\ todo \in [Replicas -> Seq(Range(Seeds))]
      /\ repos \subseteq Range(Seeds)
  BY Zenon DEF BootTypes
<1>b. \A i \in Replicas : /\ pc[i] \in {"seed", "create"} => Suffix(todo[i])
                          /\ pc[i] = "create" => todo[i] # <<>>
  BY Zenon DEF Seeded
<1>c. "deleted" \notin excused =>
         /\ \A i \in Replicas : SeededBy(pc[i], todo[i], repos)
         /\ \A r \in repos : Members[r] \subseteq repos
  BY Zenon DEF Seeded, SeededBy
<1>d. "deleted" \notin excused' => "deleted" \notin excused
  BY Common, Zenon
<1>e. \A x \in {"off", "migrate", "seed", "create", "up", "draining", "closing", "flushed"} :
         x \in Pcs
  BY Zenon DEF Pcs
<1>f. \A x, t, R, S : SeededBy(x, t, R) /\ R \subseteq S => SeededBy(x, t, S)
  BY Zenon DEF SeededBy
<1>g. \A x \in {"off", "migrate", "draining", "closing", "flushed"} : \A t, R : SeededBy(x, t, R)
  BY Zenon DEF SeededBy
<1> DEFINE Goal == /\ Seeded' /\ pc' \in [Replicas -> Pcs] /\ repos' \subseteq Range(Seeds)
                   /\ todo' \in [Replicas -> Seq(Range(Seeds))]
<1>h. ASSUME pc' \in [Replicas -> Pcs], repos' \subseteq Range(Seeds),
             todo' \in [Replicas -> Seq(Range(Seeds))],
             \A i \in Replicas : /\ pc'[i] \in {"seed", "create"} => Suffix(todo'[i])
                                 /\ pc'[i] = "create" => todo'[i] # <<>>,
             "deleted" \notin excused' =>
                /\ \A i \in Replicas : SeededBy(pc'[i], todo'[i], repos')
                /\ \A r \in repos' : Members[r] \subseteq repos'
      PROVE  Goal
  <2>1. "deleted" \notin excused' =>
          /\ \A i \in Replicas : /\ pc'[i] \in {"seed", "create"} =>
                                         Passed(todo'[i]) \subseteq repos'
                                 /\ pc'[i] = "up" => Range(Seeds) \subseteq repos'
          /\ \A r \in repos' : Members[r] \subseteq repos'
    BY <1>h, Zenon DEF SeededBy
  <2> QED
    BY <1>h, <2>1, Zenon DEF Seeded, Passed, Suffix
<1> HIDE DEF Goal
\* One replica goes from x to y with t to seed; the repositories stay.
<1>1. ASSUME NEW i \in Replicas, NEW y \in Pcs, NEW t \in Seq(Range(Seeds)),
             pc' = [pc EXCEPT ![i] = y], todo' = [todo EXCEPT ![i] = t], repos' = repos,
             y \in {"seed", "create"} => Suffix(t), y = "create" => t # <<>>,
             "deleted" \notin excused => SeededBy(y, t, repos)
      PROVE  Goal
  <2>1. pc' \in [Replicas -> Pcs] /\ todo' \in [Replicas -> Seq(Range(Seeds))]
    BY <1>1, <1>a, Zenon
  <2>2. \A l \in Replicas : l # i => pc'[l] = pc[l] /\ todo'[l] = todo[l]
    BY <1>1, <1>a, Zenon
  <2>3. pc'[i] = y /\ todo'[i] = t
    BY <1>1, <1>a, Zenon
  <2>4. \A l \in Replicas : /\ pc'[l] \in {"seed", "create"} => Suffix(todo'[l])
                            /\ pc'[l] = "create" => todo'[l] # <<>>
    BY <1>1, <1>b, <2>2, <2>3, Zenon
  <2>5. "deleted" \notin excused' => \A l \in Replicas : SeededBy(pc'[l], todo'[l], repos')
    BY <1>1, <1>c, <1>d, <2>2, <2>3, Zenon
  <2> QED
    BY <1>1, <1>a, <1>c, <1>d, <1>h, <2>1, <2>4, <2>5, Zenon
<1>2. ASSUME NEW i \in Replicas, ReadSchema(i) PROVE Goal
  <2>1. pc' = [pc EXCEPT ![i] = "migrate"] /\ todo' = todo /\ repos' = repos
    BY <1>2, Zenon DEF ReadSchema, Goto
  <2>2. todo' = [todo EXCEPT ![i] = todo[i]] /\ todo[i] \in Seq(Range(Seeds))
    BY <1>a, <2>1, Zenon
  <2> QED
    BY <1>1, <1>e, <1>g, <2>1, <2>2, Zenon
<1>3. ASSUME NEW i \in Replicas, ApplyMigration(i) PROVE Goal
  <2>1. /\ repos' = repos
        /\ \/ pc' = [pc EXCEPT ![i] = "seed"] /\ todo' = [todo EXCEPT ![i] = Seeds]
           \/ pc' = [pc EXCEPT ![i] = "off"] /\ todo' = todo
           \/ pc' = pc /\ todo' = todo
    BY <1>3, Zenon DEF ApplyMigration, Goto
  <2>2. CASE pc' = [pc EXCEPT ![i] = "seed"] /\ todo' = [todo EXCEPT ![i] = Seeds]
    <3>1. Seeds \in Seq(Range(Seeds)) /\ Suffix(Seeds) /\ SeededBy("seed", Seeds, repos)
      BY SuffixEnds, Zenon DEF SeededBy
    <3> QED
      BY <1>1, <1>e, <2>1, <2>2, <3>1, Zenon
  <2>3. CASE pc' = [pc EXCEPT ![i] = "off"] /\ todo' = todo
    <3>1. todo' = [todo EXCEPT ![i] = todo[i]] /\ todo[i] \in Seq(Range(Seeds))
      BY <1>a, <2>3, Zenon
    <3> QED
      BY <1>1, <1>e, <1>g, <2>1, <2>3, <3>1, Zenon
  <2>4. CASE pc' = pc /\ todo' = todo
    BY <1>a, <1>b, <1>c, <1>d, <1>h, <2>1, <2>4, Zenon
  <2> QED
    BY <2>1, <2>2, <2>3, <2>4, Zenon
<1>4. ASSUME NEW i \in Replicas, SeedGet(i) PROVE Goal
  <2>1. /\ repos' = repos /\ pc[i] = "seed" /\ todo[i] # <<>>
        /\ IF Head(todo[i]) \in repos
           THEN pc' = pc /\ todo' = [todo EXCEPT ![i] = Tail(todo[i])]
           ELSE pc' = [pc EXCEPT ![i] = "create"] /\ todo' = todo
    BY <1>4, Zenon DEF SeedGet, Goto
  <2>2. Suffix(todo[i]) /\ todo[i] \in Seq(Range(Seeds))
    BY <1>a, <1>b, <2>1, Zenon
  <2>3. "deleted" \notin excused => Passed(todo[i]) \subseteq repos
    BY <1>c, <2>1, Zenon DEF SeededBy
  <2>4. CASE Head(todo[i]) \in repos
    <3>1. pc' = [pc EXCEPT ![i] = "seed"]
      BY <1>a, <2>1, <2>4, Zenon
    <3>2. /\ Tail(todo[i]) \in Seq(Range(Seeds)) /\ Suffix(Tail(todo[i]))
          /\ Passed(Tail(todo[i])) = Passed(todo[i]) \cup {Head(todo[i])}
      BY <2>1, <2>2, SuffixTail, Zenon
    <3>3. "deleted" \notin excused => SeededBy("seed", Tail(todo[i]), repos)
      BY <2>3, <2>4, <3>2, Zenon DEF SeededBy
    <3> QED
      BY <1>1, <1>e, <2>1, <2>4, <3>1, <3>2, <3>3, Zenon
  <2>5. CASE Head(todo[i]) \notin repos
    <3>1. todo' = [todo EXCEPT ![i] = todo[i]]
      BY <1>a, <2>1, <2>5, Zenon
    <3>2. "deleted" \notin excused => SeededBy("create", todo[i], repos)
      BY <2>3, Zenon DEF SeededBy
    <3> QED
      BY <1>1, <1>e, <2>1, <2>2, <2>5, <3>1, <3>2, Zenon
  <2> QED
    BY <2>4, <2>5, Zenon
<1>5. ASSUME NEW i \in Replicas, SeedCreate(i) PROVE Goal
  <2> DEFINE t == todo[i]
  <2>1. pc[i] = "create" /\ repos' = repos \union {Head(t)} /\ pc' = [pc EXCEPT ![i] = "seed"]
    BY <1>5, Zenon DEF SeedCreate, Goto
  <2>2. todo' = [todo EXCEPT ![i] = Tail(t)]
    <3>1. todo' = [todo EXCEPT ![i] =
                      IF Head(todo[i]) \in repos THEN SeededSince(i) ELSE Tail(todo[i])]
      BY <1>5, Zenon DEF SeedCreate
    <3> QED
      BY <3>1, Zenon DEF SeededSince
  <2>3. Suffix(t) /\ t \in Seq(Range(Seeds)) /\ t # <<>>
    BY <1>a, <1>b, <2>1, Zenon
  <2>4. /\ Tail(t) \in Seq(Range(Seeds)) /\ Head(t) \in Range(Seeds)
        /\ Suffix(Tail(t))
        /\ Passed(Tail(t)) = Passed(t) \cup {Head(t)}
        /\ Members[Head(t)] \subseteq Passed(t)
    BY <2>3, SuffixTail, Zenon
  <2>5. /\ pc' \in [Replicas -> Pcs] /\ todo' \in [Replicas -> Seq(Range(Seeds))]
        /\ repos' \subseteq Range(Seeds)
    BY <1>a, <1>e, <2>1, <2>2, <2>4, Zenon
  <2>6. \A l \in Replicas : l # i => pc'[l] = pc[l] /\ todo'[l] = todo[l]
    BY <1>a, <2>1, <2>2, Zenon
  <2>7. pc'[i] = "seed" /\ todo'[i] = Tail(t)
    BY <1>a, <2>1, <2>2, Zenon
  <2>8. \A l \in Replicas : /\ pc'[l] \in {"seed", "create"} => Suffix(todo'[l])
                            /\ pc'[l] = "create" => todo'[l] # <<>>
    <3>1. "seed" # "create"
      OBVIOUS
    <3> QED
      BY <1>b, <2>4, <2>6, <2>7, <3>1, Zenon
  <2>9. ASSUME "deleted" \notin excused'
        PROVE  /\ \A l \in Replicas : SeededBy(pc'[l], todo'[l], repos')
               /\ \A r \in repos' : Members[r] \subseteq repos'
    <3>1. Passed(t) \subseteq repos
      BY <1>c, <1>d, <2>1, <2>9, Zenon DEF SeededBy
    <3>2. SeededBy("seed", Tail(t), repos')
      BY <2>1, <2>4, <3>1, Zenon DEF SeededBy
    <3>3. \A l \in Replicas : SeededBy(pc'[l], todo'[l], repos')
      <4>1. \A l \in Replicas : SeededBy(pc[l], todo[l], repos)
        BY <1>c, <1>d, <2>9, Zenon
      <4>2. \A l \in Replicas : SeededBy(pc[l], todo[l], repos')
        BY <1>f, <2>1, <4>1, Zenon
      <4> QED
        BY <2>6, <2>7, <3>2, <4>2, Zenon
    <3>4. \A r \in repos' : Members[r] \subseteq repos'
      BY <1>c, <1>d, <2>1, <2>4, <2>9, <3>1, Zenon
    <3> QED
      BY <3>3, <3>4, Zenon
  <2> QED
    BY <1>h, <2>5, <2>8, <2>9, Zenon
<1>6. ASSUME NEW i \in Replicas, Serve(i) PROVE Goal
  <2>1. /\ pc[i] = "seed" /\ todo[i] = <<>> /\ pc' = [pc EXCEPT ![i] = "up"] /\ todo' = todo
        /\ repos' = repos
    BY <1>6, Zenon DEF Serve, Goto
  <2>2. todo' = [todo EXCEPT ![i] = todo[i]] /\ todo[i] \in Seq(Range(Seeds))
    BY <1>a, <2>1, Zenon
  <2>3. "deleted" \notin excused => SeededBy("up", todo[i], repos)
    BY <1>c, <2>1, SuffixEnds, Zenon DEF SeededBy
  <2> QED
    BY <1>1, <1>e, <2>1, <2>2, <2>3, Zenon
<1>7. ASSUME DeleteRepository PROVE Goal
  <2>1. pc' = pc /\ todo' = todo /\ repos' \subseteq repos /\ "deleted" \in excused'
    BY <1>7, Zenon DEF DeleteRepository
  <2> QED
    BY <1>a, <1>b, <1>h, <2>1, Zenon
<1>8. ASSUME PastStart PROVE Goal
  <2>1. CASE pc' = pc
    BY <1>8, <1>a, <1>b, <1>c, <1>d, <1>h, <2>1, Zenon DEF PastStart
  <2>2. ASSUME NEW j \in Replicas, NEW x \in {"off", "draining", "closing", "flushed"},
               pc' = [pc EXCEPT ![j] = x]
        PROVE  Goal
    <3>1. todo' = [todo EXCEPT ![j] = todo[j]] /\ todo[j] \in Seq(Range(Seeds)) /\ repos' = repos
      BY <1>8, <1>a, Zenon DEF PastStart
    <3>2. x \in Pcs /\ x \notin {"seed", "create"} /\ x # "create"
      BY Zenon DEF Pcs
    <3>3. SeededBy(x, todo[j], repos)
      BY Zenon DEF SeededBy
    <3> QED
      BY <1>1, <2>2, <3>1, <3>2, <3>3, Zenon
  <2> QED
    BY <1>8, <2>1, <2>2, Zenon DEF PastStart
<1>9. Goal
  BY <1>2, <1>3, <1>4, <1>5, <1>6, <1>7, <1>8, BootKinds, Zenon
<1> QED
  BY <1>9, Zenon DEF Goal

-----------------------------------------------------------------------------
(* Readiness.                                                               *)

\* Only the term's own steps, the start and the end of the process change readiness.
LEMMA LeadKinds ==
    ASSUME [Next]_vars
    PROVE  \/ StartLeading \/ BecomeReady \/ StopLeading \/ Serve(Self)
           \/ ready' = FALSE /\ starting' = "no"
           \/ UNCHANGED leadVars
<1> DEFINE Goal == (ready' = FALSE /\ starting' = "no") \/ UNCHANGED leadVars
<1>1. ASSUME NEW i \in Replicas, \/ ReadSchema(i) \/ ApplyMigration(i) \/ SeedGet(i)
                                \/ SeedCreate(i) \/ Serve(i)
      PROVE  Serve(Self) \/ UNCHANGED leadVars
  BY <1>1, Zenon DEF ReadSchema, ApplyMigration, SeedGet, SeedCreate, Serve
<1>2. \A f : Exit(f) => ready' = FALSE /\ starting' = "no"
  BY Zenon DEF Exit
<1>3. ASSUME NEW a \in Actors, Request(a) \/ Stamp(a) \/ Send(a) PROVE Goal
  BY <1>2, <1>3, Zenon DEF Request, Stamp, Send
<1>4. ASSUME \/ ReapArtifact \/ ReaperEnds \/ TakeEvent \/ InsertAuditLog \/ InsertFails
             \/ PruneAuditLogs \/ Signal \/ DeleteRepository \/ UNCHANGED vars
      PROVE  Goal
  BY <1>4, Zenon DEF ReapArtifact, ReaperEnds, TakeEvent, InsertAuditLog, InsertFails,
     PruneAuditLogs, Signal, DeleteRepository, vars
<1>5. ASSUME \/ Shutdown \/ Drained \/ DrainTimeout \/ Flushed \/ CloseStore
             \/ ListenerFails \/ Crash
      PROVE  Goal
  BY <1>2, <1>5, Zenon DEF Shutdown, Drained, DrainTimeout, Flushed, CloseStore, ListenerFails,
     Crash, Close
<1>6. \A h \in Handlers : h \in Actors
  BY Zenon DEF Actors
<1> QED
  BY <1>1, <1>3, <1>4, <1>5, <1>6, NextKinds, Zenon

\* Readiness stays with the term, or has its excuse.
LEMMA LedStep ==
    ASSUME Led, [Next]_vars, starting \in {"no", "live", "stale"}
    PROVE  Led'
<1> SUFFICES ASSUME mode = "shared"
             PROVE  /\ ready' => term' \/ "stopped first" \in excused'
                    /\ starting' = "live" => term'
  BY Common, Zenon DEF Led
<1>a. /\ ready => term \/ "stopped first" \in excused
      /\ starting = "live" => term
  BY Zenon DEF Led
<1>b. excused \subseteq excused'
  BY Common, Zenon
<1>1. CASE StartLeading
  BY <1>1, <1>a, <1>b, Zenon DEF StartLeading
<1>2. CASE BecomeReady
  <2>1. starting = "live" \/ starting = "stale"
    BY <1>2, Zenon DEF BecomeReady
  <2>2. starting = "stale" => "stopped first" \in excused'
    BY <1>2, Zenon DEF BecomeReady
  <2>3. starting' = "no" /\ term' = term
    BY <1>2, Zenon DEF BecomeReady
  <2> QED
    BY <1>a, <2>1, <2>2, <2>3
<1>3. CASE StopLeading
  <2>1. ~ready' /\ starting' # "live"
    BY <1>3, Zenon DEF StopLeading, ReadyAfterStop
  <2> QED
    BY <2>1, Zenon
<1>4. CASE Serve(Self)
  <2>1. ~ready' /\ starting' = "no"
    BY <1>4, Zenon DEF Serve, ReadyAtStart
  <2> QED
    BY <2>1
<1>5. CASE ready' = FALSE /\ starting' = "no"
  BY <1>5
<1>6. CASE UNCHANGED leadVars
  BY <1>6, <1>a, <1>b, Zenon DEF leadVars
<1> QED
  BY <1>1, <1>2, <1>3, <1>4, <1>5, <1>6, LeadKinds, Zenon

-----------------------------------------------------------------------------
(* The audit events.                                                        *)

\* The variables an event is followed through.
eventVars == <<act, buffer, writer, id, lastId, n, fate, overlaps>>

\* Actor a, with no event in hand, turns to x.
Turns(a, x) ==
    /\ act[a] \in {Off, Rest} /\ x \in {Off, Rest, Busy} /\ act' = [act EXCEPT ![a] = x]
    /\ x = Busy => work < MaxWork /\ work' = work + 1
    /\ UNCHANGED <<buffer, writer, id, lastId, n, fate, overlaps>>

\* An event is handed to the channel, if it is open and has room.
Sends(a) ==
    /\ act[a] > 0
    /\ act' = [act EXCEPT ![a] = Rest]
    /\ \/ ~closed /\ buffer' = Append(buffer, act[a]) /\ Moved(act[a], "buffered") /\ Room
       \/ ~closed /\ buffer' = buffer /\ Moved(act[a], "dropped")
       \/ closed /\ buffer' = buffer /\ Moved(act[a], "refused") /\ a \in Handlers
    /\ UNCHANGED <<writer, id, lastId, n, overlaps>>

\* The process ends: run() has returned, or there is a cause.
Exits ==
    /\ pc'[Self] = "off" /\ act' = [a \in Actors |-> Off] /\ buffer' = <<>> /\ writer' = 0
    /\ closed' = FALSE /\ fate' = Vanish(fate)
    /\ pc[Self] = "flushed" \/ excused' \cap {"crash", "reaper panic"} # {}
    /\ UNCHANGED <<id, lastId, n, overlaps>>

\* Types of the audit events.
AuditTypes ==
    /\ act \in [Actors -> {Off, Rest, Busy} \union Events]
    /\ buffer \in Seq(Events) /\ Len(buffer) <= BufferSize
    /\ writer \in {0} \union Events /\ n \in 0..MaxWork
    /\ id \in [Events -> Nat] /\ lastId \in Nat
    /\ fate \in [Events -> Fates]

\* An event with fate x is where its fate says: with an actor, in the channel B, with the
\* writer W, or in the table under id k.
Place(e, x, A, B, W, k) ==
    /\ x = "stamped" <=> \E a \in Actors : A[a] = e
    /\ x = "buffered" <=> e \in Range(B)
    /\ x = "writing" <=> W = e
    /\ x = "written" <=> k # 0
Placed == \A e \in Events : Place(e, fate[e], act, buffer, writer, id[e])

\* Numbers of events are no other activity.
LEMMA EventNumbers ==
    /\ \A e \in Events : /\ e \in Nat /\ e > 0 /\ e # 0 /\ e # Off /\ e # Rest /\ e # Busy
                         /\ e \in 1..MaxWork
    /\ \A x \in {Off, Rest, Busy} \union Events : x > 0 <=> x \in Events
    /\ Off # Rest /\ Off # Busy /\ Rest # Busy
    /\ \A x \in {Off, Rest, Busy} : ~(x > 0) /\ x \notin Events
BY ConstantsAssumption DEF Events, Off, Rest, Busy

\* What becomes of the events in memory when the process ends does not depend on whether
\* the reaper's event was already given up.
LEMMA VanishTwice ==
    ASSUME fate \in [Events -> Fates], NEW e \in Events, fate[e] = "stamped"
    PROVE  Vanish([fate EXCEPT ![e] = "unsent"]) = Vanish(fate)
BY DEF Vanish

\* Every step does one of these to the events.
LEMMA AuditKinds ==
    ASSUME BootTypes, AuditTypes, Placed, [Next]_vars
    PROVE  \/ UNCHANGED eventVars \/ Serve(Self)
           \/ \E a \in Actors, x \in {Off, Rest, Busy} : Turns(a, x)
           \/ \E a \in Actors : Stamp(a)
           \/ \E a \in Actors : Running /\ Sends(a)
           \/ TakeEvent \/ InsertAuditLog \/ InsertFails \/ PruneAuditLogs
           \/ Exits
<1>a. /\ act \in [Actors -> {Off, Rest, Busy} \union Events] /\ pc \in [Replicas -> Pcs]
      /\ fate \in [Events -> Fates] /\ Self \in Replicas /\ Reaper \in Actors
      /\ \A h \in Handlers : h \in Actors
  BY Zenon DEF AuditTypes, BootTypes, Replicas, Actors
<1>1. ASSUME NEW i \in Replicas, \/ ReadSchema(i) \/ ApplyMigration(i) \/ SeedGet(i)
                                \/ SeedCreate(i) \/ Serve(i)
      PROVE  Serve(Self) \/ UNCHANGED eventVars
  BY <1>1, Zenon DEF ReadSchema, ApplyMigration, SeedGet, SeedCreate, Serve, auditVars, eventVars
<1>2. ASSUME \/ DeleteRepository \/ StartLeading \/ StopLeading \/ Signal \/ Shutdown \/ Flushed
             \/ UNCHANGED vars
      PROVE  UNCHANGED eventVars
  BY <1>2, Zenon DEF DeleteRepository, StartLeading, StopLeading, Signal, Shutdown, Flushed, Leaves,
     auditVars, eventVars, vars
<1>3. ASSUME Drained \/ DrainTimeout \/ ListenerFails PROVE UNCHANGED eventVars
  BY <1>3, Zenon DEF Drained, DrainTimeout, ListenerFails, Close, eventVars
<1>4. ASSUME NEW h \in Handlers, Request(h) PROVE Turns(h, Busy)
  BY <1>4, Zenon DEF Request, Turns, External
<1>5. ReapArtifact => Turns(Reaper, Busy)
  BY Zenon DEF ReapArtifact, Turns, External
<1>6. ReaperEnds => Turns(Reaper, Off)
  BY EventNumbers, Zenon DEF ReaperEnds, Turns
<1>7. BecomeReady => Turns(Reaper, Rest) \/ UNCHANGED eventVars
  BY EventNumbers, Zenon DEF BecomeReady, Turns, eventVars
<1>8. ASSUME NEW f, Exit(f), Vanish(f) = Vanish(fate),
             pc[Self] = "flushed" \/ excused' \cap {"crash", "reaper panic"} # {}
      PROVE  Exits
  BY <1>8, <1>a, Zenon DEF Exit, Exits, Goto
<1>9. ASSUME NEW a \in Actors, Send(a) PROVE (Running /\ Sends(a)) \/ Exits
  <2>1. CASE closed /\ a = Reaper
    <3>1. act[a] > 0 /\ Exit([fate EXCEPT ![act[a]] = "unsent"])
      BY <1>9, <2>1, Zenon DEF Send
    <3>2. act[a] \in Events
      BY <1>a, <3>1, EventNumbers, Zenon
    <3>3. fate[act[a]] = "stamped"
      BY <3>2, Zenon DEF Placed, Place
    <3>4. excused' \cap {"crash", "reaper panic"} # {}
      BY <1>9, <2>1, Zenon DEF Send
    <3> QED
      BY <1>8, <1>a, <3>1, <3>2, <3>3, <3>4, VanishTwice, Zenon
  <2>2. CASE ~(closed /\ a = Reaper)
    <3>1. /\ Running /\ act[a] > 0 /\ act' = [act EXCEPT ![a] = Rest]
          /\ buffer' = IF ~closed /\ Room THEN Append(buffer, act[a]) ELSE buffer
          /\ Moved(act[a], IF closed THEN "refused" ELSE IF Room THEN "buffered" ELSE "dropped")
          /\ UNCHANGED <<writer, id, lastId, n, overlaps>>
      BY <1>9, <2>2, Zenon DEF Send
    <3>2. closed => a \in Handlers
      BY <2>2, Zenon DEF Actors
    <3>3. CASE closed
      BY <3>1, <3>2, <3>3, Zenon DEF Sends
    <3>4. CASE ~closed /\ Room
      BY <3>1, <3>4, Zenon DEF Sends
    <3>5. CASE ~closed /\ ~Room
      BY <3>1, <3>5, Zenon DEF Sends
    <3> QED
      BY <3>3, <3>4, <3>5, Zenon
  <2> QED
    BY <2>1, <2>2, Zenon
<1>10. CloseStore => Exits
  BY <1>8, Zenon DEF CloseStore
<1>11. Crash => Exits \/ UNCHANGED eventVars
  <2> SUFFICES ASSUME Crash PROVE Exits \/ UNCHANGED eventVars
    OBVIOUS
  <2>1. CASE Exit(fate) /\ excused' = excused \union {"crash"}
    <3>1. excused' \cap {"crash", "reaper panic"} # {}
      BY <2>1, Zenon
    <3> QED
      BY <1>8, <2>1, <3>1, Zenon
  <2>2. CASE UNCHANGED auditVars
    BY <2>2, Zenon DEF auditVars, eventVars
  <2> QED
    BY <2>1, <2>2, Zenon DEF Crash
<1>12. Busy \in {Off, Rest, Busy} /\ Off \in {Off, Rest, Busy} /\ Rest \in {Off, Rest, Busy}
  BY Zenon
<1> QED
  BY <1>1, <1>2, <1>3, <1>4, <1>5, <1>6, <1>7, <1>9, <1>10, <1>11, <1>12, <1>a, NextKinds, Zenon

\* A channel after a send and after a receive.
LEMMA Appended ==
    ASSUME NEW B \in Seq(Events), NEW e \in Events
    PROVE  /\ Append(B, e) \in Seq(Events) /\ Len(Append(B, e)) = Len(B) + 1
           /\ \A j \in DOMAIN Append(B, e) :
                 \/ j \in DOMAIN B /\ j <= Len(B) /\ Append(B, e)[j] = B[j]
                 \/ j = Len(B) + 1 /\ Append(B, e)[j] = e
           /\ Range(Append(B, e)) = Range(B) \cup {e}
<1>1. /\ Append(B, e) \in Seq(Events) /\ Len(Append(B, e)) = Len(B) + 1
      /\ \A j \in 1..Len(B) : Append(B, e)[j] = B[j]
      /\ Append(B, e)[Len(B) + 1] = e
      /\ DOMAIN B = 1..Len(B) /\ DOMAIN Append(B, e) = 1..(Len(B) + 1)
  OBVIOUS
<1>2. 1..(Len(B) + 1) = 1..Len(B) \cup {Len(B) + 1} /\ \A j \in 1..Len(B) : j <= Len(B)
  OBVIOUS
<1>3. Range(Append(B, e)) = Range(B) \cup {e}
  <2>1. \A x \in Range(Append(B, e)) : x \in Range(B) \cup {e}
    BY <1>1, <1>2, Zenon DEF Range
  <2>2. \A j \in 1..Len(B) : Append(B, e)[j] \in Range(Append(B, e))
    BY <1>1, <1>2, Zenon DEF Range
  <2>3. Append(B, e)[Len(B) + 1] \in Range(Append(B, e))
    BY <1>1, <1>2, Zenon DEF Range
  <2>4. \A x \in Range(B) : x \in Range(Append(B, e))
    BY <1>1, <2>2, Zenon DEF Range
  <2> QED
    BY <1>1, <2>1, <2>3, <2>4, Zenon
<1> QED
  BY <1>1, <1>2, <1>3, Zenon

LEMMA Taken ==
    ASSUME NEW B \in Seq(Events), B # <<>>
    PROVE  /\ Head(B) \in Events /\ Tail(B) \in Seq(Events) /\ Len(Tail(B)) <= Len(B)
           /\ Head(B) = B[1] /\ 1 \in DOMAIN B
           /\ \A j \in DOMAIN Tail(B) : /\ j + 1 \in DOMAIN B /\ Tail(B)[j] = B[j + 1]
                                        /\ 1 < j + 1 /\ j \in Nat
           /\ Range(B) = Range(Tail(B)) \cup {Head(B)}
<1>1. /\ Head(B) \in Events /\ Tail(B) \in Seq(Events) /\ Len(Tail(B)) = Len(B) - 1
      /\ Head(B) = B[1] /\ Len(B) \in Nat /\ Len(B) >= 1
      /\ DOMAIN B = 1..Len(B) /\ DOMAIN Tail(B) = 1..(Len(B) - 1)
      /\ \A j \in 1..(Len(B) - 1) : Tail(B)[j] = B[j + 1]
  OBVIOUS
<1>2. /\ \A j \in 1..(Len(B) - 1) : j + 1 \in 1..Len(B) /\ 1 < j + 1 /\ j \in Nat
      /\ \A j \in 1..Len(B) : j = 1 \/ (j - 1 \in 1..(Len(B) - 1) /\ (j - 1) + 1 = j)
      /\ 1 \in 1..Len(B) /\ Len(B) - 1 <= Len(B)
  BY <1>1
<1>3. \A x \in Range(B) : x \in Range(Tail(B)) \cup {Head(B)}
  <2> SUFFICES ASSUME NEW j \in 1..Len(B) PROVE B[j] \in Range(Tail(B)) \cup {Head(B)}
    BY <1>1, ZenonT(60) DEF Range
  <2>1. CASE j = 1
    BY <1>1, <2>1, Zenon
  <2>2. CASE j - 1 \in 1..(Len(B) - 1) /\ (j - 1) + 1 = j
    <3>1. Tail(B)[j - 1] = B[j]
      BY <1>1, <2>2, Zenon
    <3> QED
      BY <1>1, <2>2, <3>1, Zenon DEF Range
  <2> QED
    BY <1>2, <2>1, <2>2, Zenon
<1>4. \A x \in Range(Tail(B)) \cup {Head(B)} : x \in Range(B)
  <2>1. \A j \in 1..Len(B) : B[j] \in Range(B)
    BY <1>1, Zenon DEF Range
  <2>2. \A j \in 1..(Len(B) - 1) : Tail(B)[j] \in Range(B)
    BY <1>1, <1>2, <2>1, Zenon
  <2>3. \A x \in Range(Tail(B)) : x \in Range(B)
    BY <1>1, <2>2, Zenon DEF Range
  <2> QED
    BY <1>1, <1>2, <2>1, <2>3, ZenonT(60)
<1> QED
  BY <1>1, <1>2, <1>3, <1>4, Zenon

\* The parts of the audit invariant that say where an event is.
Where == AuditTypes /\ Placed /\ HeldOnce

\* Facts every case below starts from.
LEMMA WhereFacts ==
    ASSUME Where
    PROVE  /\ act \in [Actors -> {Off, Rest, Busy} \union Events]
           /\ buffer \in Seq(Events) /\ Len(buffer) <= BufferSize
           /\ writer \in {0} \union Events /\ n \in 0..MaxWork /\ n \in Nat
           /\ id \in [Events -> Nat] /\ lastId \in Nat
           /\ fate \in [Events -> Fates]
           /\ \A e \in Events : /\ fate[e] = "stamped" <=> \E a \in Actors : act[a] = e
                                /\ fate[e] = "buffered" <=> e \in Range(buffer)
                                /\ fate[e] = "writing" <=> writer = e
                                /\ fate[e] = "written" <=> id[e] # 0
                                /\ fate[e] = "none" <=> e > n
           /\ \A a, b \in Actors : act[a] = act[b] /\ act[a] > 0 => a = b
           /\ \A j, k \in DOMAIN buffer : buffer[j] = buffer[k] => j = k
<1>1. n \in 0..MaxWork => n \in Nat
  BY ConstantsAssumption
<1> QED
  BY <1>1, Zenon DEF Where, AuditTypes, Placed, Place, HeldOnce

\* Only an actor without an event turns.
LEMMA WhereTurns ==
    ASSUME Where, NEW a \in Actors, NEW x \in {Off, Rest, Busy}, Turns(a, x)
    PROVE  Where'
<1>a. /\ act[a] \in {Off, Rest} /\ act' = [act EXCEPT ![a] = x]
      /\ UNCHANGED <<buffer, writer, id, lastId, n, fate>>
  BY Zenon DEF Turns
<1>b. /\ act \in [Actors -> {Off, Rest, Busy} \union Events]
      /\ \A e \in Events : fate[e] = "stamped" <=> \E b \in Actors : act[b] = e
      /\ \A c, b \in Actors : act[c] = act[b] /\ act[c] > 0 => c = b
  BY WhereFacts, Zenon
<1>1. /\ act' \in [Actors -> {Off, Rest, Busy} \union Events]
      /\ act'[a] = x /\ \A b \in Actors : b # a => act'[b] = act[b]
  BY <1>a, <1>b, Zenon
<1>2. ~(x > 0) /\ \A e \in Events : e # x /\ e # act[a]
  BY <1>a, EventNumbers, Zenon
<1>3. \A e \in Events : fate[e] = "stamped" <=> \E b \in Actors : act'[b] = e
  BY <1>b, <1>1, <1>2, Zenon
<1>4. \A c, b \in Actors : act'[c] = act'[b] /\ act'[c] > 0 => c = b
  BY <1>b, <1>1, <1>2, Zenon
<1> QED
  BY <1>a, <1>1, <1>3, <1>4, Zenon DEF Where, AuditTypes, Placed, Place, HeldOnce

\* The server comes up with no event in memory.
LEMMA WhereServe ==
    ASSUME Where, Quiet, Serve(Self)
    PROVE  Where'
<1>a. /\ ~Running
  BY Zenon DEF Serve, Running
<1>b. /\ act' = [a \in Actors |-> IF a \in Handlers \/ mode = "single" THEN Rest ELSE Off]
      /\ buffer' = <<>> /\ writer' = 0
      /\ UNCHANGED <<id, lastId, n, fate>>
  BY Zenon DEF Serve, NewRecorder
<1>c. buffer = <<>> /\ writer = 0 /\ \A a \in Actors : act[a] = Off
  BY <1>a, Zenon DEF Quiet
<1>1. \A a \in Actors : act'[a] \in {Off, Rest}
  BY <1>b, Zenon
<1>2. act' \in [Actors -> {Off, Rest, Busy} \union Events]
  BY <1>b, Zenon
<1>3. \A e \in Events, a \in Actors : act'[a] # e /\ act[a] # e
  BY <1>1, <1>c, EventNumbers, Zenon
<1>4. \A a \in Actors : ~(act'[a] > 0)
  BY <1>1, EventNumbers, Zenon
<1>5. buffer' = buffer /\ writer' = writer
  BY <1>b, <1>c, Zenon
<1>6. AuditTypes'
  BY <1>b, <1>2, <1>5, Zenon DEF Where, AuditTypes
<1>7. Placed'
  BY <1>b, <1>3, <1>5, ZenonT(40) DEF Where, Placed, Place
<1>8. HeldOnce'
  BY <1>b, <1>4, <1>5, Zenon DEF Where, HeldOnce
<1> QED
  BY <1>6, <1>7, <1>8, Zenon DEF Where

\* The next stamp is a new event.
LEMMA WhereStamp ==
    ASSUME Where, NEW a \in Actors, Stamp(a), n + 1 \in Events
    PROVE  Where'
<1>a. /\ act[a] = Busy /\ n' = n + 1 /\ act' = [act EXCEPT ![a] = n + 1]
      /\ fate' = [fate EXCEPT ![n + 1] = "stamped"]
      /\ UNCHANGED <<buffer, writer, id, lastId>>
  BY Zenon DEF Stamp, Moved
<1>b. /\ act \in [Actors -> {Off, Rest, Busy} \union Events] /\ n \in Nat
      /\ fate \in [Events -> Fates]
      /\ \A e \in Events : /\ fate[e] = "stamped" <=> \E b \in Actors : act[b] = e
                           /\ fate[e] = "buffered" <=> e \in Range(buffer)
                           /\ fate[e] = "writing" <=> writer = e
                           /\ fate[e] = "written" <=> id[e] # 0
                           /\ fate[e] = "none" <=> e > n
      /\ \A c, b \in Actors : act[c] = act[b] /\ act[c] > 0 => c = b
  BY WhereFacts, Zenon
<1>c. /\ n + 1 \in 0..MaxWork /\ n + 1 > n
      /\ \A e \in Events : e # n + 1 => (e > n <=> e > n + 1)
      /\ ~(n + 1 > n + 1)
  BY <1>b, EventNumbers
<1>d. fate[n + 1] = "none" /\ \A b \in Actors : act[b] # n + 1
  BY <1>b, <1>c, Zenon
<1>1. /\ act' \in [Actors -> {Off, Rest, Busy} \union Events]
      /\ act'[a] = n + 1 /\ \A b \in Actors : b # a => act'[b] = act[b]
  BY <1>a, <1>b, Zenon
<1>2. /\ "stamped" \in Fates
      /\ fate' \in [Events -> Fates] /\ fate'[n + 1] = "stamped"
      /\ \A e \in Events : e # n + 1 => fate'[e] = fate[e]
  BY <1>a, <1>b, Zenon DEF Fates
<1>3. \A e \in Events : Place(e, fate'[e], act', buffer, writer, id[e])
  <2> SUFFICES ASSUME NEW e \in Events PROVE Place(e, fate'[e], act', buffer, writer, id[e])
    BY Zenon
  <2>1. CASE e = n + 1
    BY <1>b, <1>1, <1>2, <1>d, <2>1, Zenon DEF Place
  <2>2. CASE e # n + 1
    <3>1. e # act[a]
      BY <1>a, EventNumbers, Zenon
    <3>2. (\E b \in Actors : act'[b] = e) <=> \E b \in Actors : act[b] = e
      BY <1>1, <2>2, <3>1, Zenon
    <3> QED
      BY <1>b, <1>2, <2>2, <3>2, ZenonT(60) DEF Place
  <2> QED
    BY <2>1, <2>2, Zenon
<1>4. \A c, b \in Actors : act'[c] = act'[b] /\ act'[c] > 0 => c = b
  <2>1. \A c, b \in Actors : act[c] = act[b] /\ act[c] > 0 => c = b
    BY <1>b, Zenon
  <2> QED
    BY <2>1, <1>1, <1>d, Zenon
<1>5. \A e \in Events : fate'[e] = "none" <=> e > n + 1
  <2> SUFFICES ASSUME NEW e \in Events PROVE fate'[e] = "none" <=> e > n + 1
    BY Zenon
  <2>1. CASE e = n + 1
    BY <1>2, <1>c, <2>1, Zenon
  <2>2. CASE e # n + 1
    BY <1>b, <1>2, <1>c, <2>2, Zenon
  <2> QED
    BY <2>1, <2>2, Zenon
<1>6. AuditTypes'
  BY <1>a, <1>1, <1>2, <1>c, Zenon DEF Where, AuditTypes
<1>7. Placed'
  BY <1>a, <1>3, Zenon DEF Placed
<1>8. HeldOnce'
  BY <1>a, <1>4, <1>5, Zenon DEF Where, HeldOnce
<1> QED
  BY <1>6, <1>7, <1>8, Zenon DEF Where

\* A sent event is in the channel, or nowhere.
LEMMA WhereSends ==
    ASSUME Where, NEW a \in Actors, Sends(a)
    PROVE  Where' /\ act[a] \in Events
<1> DEFINE e0 == act[a]
<1>a. /\ act[a] > 0 /\ act' = [act EXCEPT ![a] = Rest]
      /\ UNCHANGED <<writer, id, lastId, n>>
  BY Zenon DEF Sends
<1>b. /\ act \in [Actors -> {Off, Rest, Busy} \union Events] /\ n \in Nat
      /\ fate \in [Events -> Fates] /\ buffer \in Seq(Events) /\ Len(buffer) <= BufferSize
      /\ \A e \in Events : /\ fate[e] = "stamped" <=> \E b \in Actors : act[b] = e
                           /\ fate[e] = "buffered" <=> e \in Range(buffer)
                           /\ fate[e] = "writing" <=> writer = e
                           /\ fate[e] = "written" <=> id[e] # 0
                           /\ fate[e] = "none" <=> e > n
      /\ \A c, b \in Actors : act[c] = act[b] /\ act[c] > 0 => c = b
      /\ \A j, k \in DOMAIN buffer : buffer[j] = buffer[k] => j = k
  BY WhereFacts, Zenon
<1>c. e0 \in Events /\ fate[e0] = "stamped" /\ e0 # Rest /\ ~(Rest > 0)
  BY <1>a, <1>b, EventNumbers, Zenon
<1>1. /\ act' \in [Actors -> {Off, Rest, Busy} \union Events]
      /\ act'[a] = Rest /\ \A b \in Actors : b # a => act'[b] = act[b]
  BY <1>a, <1>b, ZenonT(60)
<1>2. \A c, b \in Actors : act'[c] = act'[b] /\ act'[c] > 0 => c = b
  <2>1. \A c, b \in Actors : act[c] = act[b] /\ act[c] > 0 => c = b
    BY <1>b, Zenon
  <2> QED
    BY <2>1, <1>1, <1>c, Zenon
<1>3. \A b \in Actors : act'[b] # e0
  <2> SUFFICES ASSUME NEW b \in Actors, act'[b] = act[a] PROVE FALSE
    BY Zenon
  <2>1. b # a => b = a
    <3>1. \A c, d \in Actors : act[c] = act[d] /\ act[c] > 0 => c = d
      BY <1>b, Zenon
    <3>2. act[a] > 0
      BY <1>a, Zenon
    <3>3. b # a => act[b] = act[a]
      BY <1>1, Zenon
    <3>4. act[a] = act[b] => a = b
      BY <3>1, <3>2, Zenon
    <3> QED
      BY <3>3, <3>4
  <2> QED
    BY <1>1, <1>c, <2>1, Zenon
<1>4. \A e \in Events : e # e0 => ((\E b \in Actors : act'[b] = e) <=> \E b \in Actors : act[b] = e)
  <2>1. \A e \in Events : e # Rest
    BY EventNumbers, Zenon
  <2> QED
    BY <1>1, <2>1, Zenon
<1>5. \E x \in {"buffered", "dropped", "refused"} :
         /\ fate' = [fate EXCEPT ![e0] = x]
         /\ \/ x = "buffered" /\ buffer' = Append(buffer, e0) /\ Len(buffer) < BufferSize
            \/ x # "buffered" /\ buffer' = buffer
  BY Zenon DEF Sends, Moved, Room
<1> PICK x \in {"buffered", "dropped", "refused"} :
         /\ fate' = [fate EXCEPT ![e0] = x]
         /\ \/ x = "buffered" /\ buffer' = Append(buffer, e0) /\ Len(buffer) < BufferSize
            \/ x # "buffered" /\ buffer' = buffer
  BY <1>5, Zenon
<1>6. x \in Fates /\ x # "stamped" /\ x # "writing" /\ x # "written" /\ x # "none"
  BY Zenon DEF Fates
<1>7. /\ fate' \in [Events -> Fates] /\ fate'[e0] = x
      /\ \A e \in Events : e # e0 => fate'[e] = fate[e]
  BY <1>b, <1>c, <1>6, ZenonT(60)
<1>8. /\ buffer' \in Seq(Events) /\ Len(buffer') <= BufferSize
      /\ \A e \in Events : e # e0 => (e \in Range(buffer') <=> e \in Range(buffer))
      /\ e0 \in Range(buffer') <=> x = "buffered"
      /\ \A j, k \in DOMAIN buffer' : buffer'[j] = buffer'[k] => j = k
  <2>1. e0 \notin Range(buffer)
    BY <1>b, <1>c, Zenon
  <2>2. CASE x # "buffered"
    <3>1. buffer' = buffer
      BY <2>2, Zenon
    <3> QED
      BY <3>1, <2>1, <2>2, <1>b, Zenon
  <2>3. CASE x = "buffered"
    <3>1. buffer' = Append(buffer, e0) /\ Len(buffer) < BufferSize
      BY <2>3, Zenon
    <3>2. /\ buffer' \in Seq(Events) /\ Len(buffer') = Len(buffer) + 1
          /\ \A j \in DOMAIN buffer' :
                 \/ j \in DOMAIN buffer /\ j <= Len(buffer) /\ buffer'[j] = buffer[j]
                 \/ j = Len(buffer) + 1 /\ buffer'[j] = e0
          /\ Range(buffer') = Range(buffer) \cup {e0}
      <4> HIDE DEF e0
      <4>1. buffer \in Seq(Events) /\ e0 \in Events
        BY <1>b, <1>c, Zenon
      <4> QED
        BY <3>1, <4>1, Appended, Zenon
    <3>3. Len(buffer') <= BufferSize
      BY <3>1, <3>2, <1>b, ConstantsAssumption
    <3>4. \A j \in DOMAIN buffer : buffer[j] # e0
      BY <2>1, Zenon DEF Range
    <3>5. \A j, k \in DOMAIN buffer' : buffer'[j] = buffer'[k] => j = k
      <4>1. \A j, k \in DOMAIN buffer : buffer[j] = buffer[k] => j = k
        BY <1>b, Zenon
      <4> HIDE DEF e0
      <4> QED
        BY <3>2, <3>4, <4>1, Zenon
    <3>6. /\ \A e \in Events : e # e0 => (e \in Range(buffer') <=> e \in Range(buffer))
          /\ e0 \in Range(buffer')
      BY <3>2, Zenon
    <3> QED
      BY <2>3, <3>2, <3>3, <3>5, <3>6, Zenon
  <2> QED
    BY <2>2, <2>3, Zenon
<1>9. \A e \in Events : Place(e, fate'[e], act', buffer', writer, id[e])
  <2> SUFFICES ASSUME NEW e \in Events PROVE Place(e, fate'[e], act', buffer', writer, id[e])
    BY Zenon
  <2>1. CASE e = e0
    BY <1>3, <1>6, <1>7, <1>8, <1>b, <1>c, <2>1, Zenon DEF Place
  <2>2. CASE e # e0
    <3>1. Place(e, fate[e], act, buffer, writer, id[e])
      BY Zenon DEF Where, Placed
    <3>2. /\ fate'[e] = fate[e] /\ (e \in Range(buffer') <=> e \in Range(buffer))
          /\ (\E b \in Actors : act'[b] = e) <=> \E b \in Actors : act[b] = e
      BY <1>4, <1>7, <1>8, <2>2, Zenon
    <3> QED
      BY <3>1, <3>2, Zenon DEF Place
  <2> QED
    BY <2>1, <2>2, Zenon
<1>10. \A e \in Events : fate'[e] = "none" <=> e > n
  <2> SUFFICES ASSUME NEW e \in Events PROVE fate'[e] = "none" <=> e > n
    BY Zenon
  <2>1. CASE e = e0
    BY <1>6, <1>7, <1>b, <1>c, <2>1, Zenon
  <2>2. CASE e # e0
    BY <1>7, <1>b, <2>2, Zenon
  <2> QED
    BY <2>1, <2>2, Zenon
<1>11. AuditTypes'
  BY <1>a, <1>1, <1>7, <1>8, Zenon DEF Where, AuditTypes
<1>12. Placed'
  BY <1>a, <1>9, Zenon DEF Placed
<1>13. HeldOnce'
  BY <1>a, <1>2, <1>8, <1>10, Zenon DEF HeldOnce
<1> QED
  BY <1>11, <1>12, <1>13, <1>c, Zenon DEF Where

\* A taken event is the writer's.
LEMMA WhereTake ==
    ASSUME Where, TakeEvent
    PROVE  Where' /\ Head(buffer) \in Events
<1> DEFINE e0 == Head(buffer)
<1>a. /\ writer = 0 /\ buffer # <<>> /\ writer' = e0 /\ buffer' = Tail(buffer)
      /\ fate' = [fate EXCEPT ![e0] = "writing"]
      /\ UNCHANGED <<act, id, lastId, n>>
  BY Zenon DEF TakeEvent, Moved
<1>b. /\ fate \in [Events -> Fates] /\ buffer \in Seq(Events) /\ Len(buffer) <= BufferSize
      /\ \A e \in Events : fate[e] = "buffered" <=> e \in Range(buffer)
      /\ \A e \in Events : fate[e] = "none" <=> e > n
      /\ \A e \in Events : Place(e, fate[e], act, buffer, writer, id[e])
      /\ \A e \in Events : e # 0
  BY WhereFacts, EventNumbers, Zenon DEF Where, Placed
<1>i. \A j, k \in DOMAIN buffer : buffer[j] = buffer[k] => j = k
  BY WhereFacts, Zenon
<1>1. /\ e0 \in Events /\ buffer' \in Seq(Events) /\ Len(buffer') <= Len(buffer)
      /\ e0 = buffer[1] /\ 1 \in DOMAIN buffer
      /\ \A j \in DOMAIN buffer' : /\ j + 1 \in DOMAIN buffer /\ buffer'[j] = buffer[j + 1]
                                   /\ 1 < j + 1 /\ j \in Nat
      /\ Range(buffer) = Range(buffer') \cup {e0}
  <2>1. buffer \in Seq(Events) /\ buffer # <<>>
    BY <1>a, <1>b, Zenon
  <2> QED
    BY <1>a, <2>1, Taken, Zenon
<1>2. fate[e0] = "buffered"
  BY <1>1, <1>b, Zenon
<1>3. e0 \notin Range(buffer')
  <2> SUFFICES ASSUME NEW j \in DOMAIN buffer', buffer'[j] = buffer[1] PROVE FALSE
    BY <1>1, Zenon DEF Range
  <2>1. j + 1 \in DOMAIN buffer /\ 1 \in DOMAIN buffer /\ buffer[j + 1] = buffer[1] /\ 1 < j + 1
    BY <1>1, Zenon
  <2>2. j + 1 = 1
    BY <2>1, <1>i, Zenon
  <2> QED
    BY <2>1, <2>2
<1>4. \A j, k \in DOMAIN buffer' : buffer'[j] = buffer'[k] => j = k
  <2> SUFFICES ASSUME NEW j \in DOMAIN buffer', NEW k \in DOMAIN buffer', buffer'[j] = buffer'[k]
               PROVE  j = k
    BY Zenon
  <2>1. /\ j + 1 \in DOMAIN buffer /\ k + 1 \in DOMAIN buffer /\ buffer[j + 1] = buffer[k + 1]
        /\ j \in Nat /\ k \in Nat
    BY <1>1, Zenon
  <2>2. j + 1 = k + 1
    BY <2>1, <1>i, Zenon
  <2> QED
    BY <2>1, <2>2
<1>5. Len(buffer') <= BufferSize
  BY <1>1, <1>b, ConstantsAssumption
<1>6. /\ "writing" \in Fates
      /\ fate' \in [Events -> Fates] /\ fate'[e0] = "writing"
      /\ \A e \in Events : e # e0 => fate'[e] = fate[e]
  BY <1>a, <1>b, <1>1, Zenon DEF Fates
<1>7. \A e \in Events : Place(e, fate'[e], act, buffer', e0, id[e])
  <2> SUFFICES ASSUME NEW e \in Events PROVE Place(e, fate'[e], act, buffer', e0, id[e])
    BY Zenon
  <2>1. Place(e, fate[e], act, buffer, writer, id[e])
    BY <1>b, Zenon
  <2>2. CASE e = e0
    BY <1>2, <1>3, <1>6, <2>1, <2>2, Zenon DEF Place
  <2>3. CASE e # e0
    <3>1. fate'[e] = fate[e] /\ (e \in Range(buffer') <=> e \in Range(buffer))
      BY <1>1, <1>6, <2>3, Zenon
    <3>2. e # writer
      BY <1>a, <1>b, Zenon
    <3> QED
      BY <2>1, <2>3, <3>1, <3>2, Zenon DEF Place
  <2> QED
    BY <2>2, <2>3, Zenon
<1>8. \A e \in Events : fate'[e] = "none" <=> e > n
  <2> SUFFICES ASSUME NEW e \in Events PROVE fate'[e] = "none" <=> e > n
    BY Zenon
  <2>1. CASE e = e0
    BY <1>2, <1>6, <1>b, <2>1, Zenon
  <2>2. CASE e # e0
    BY <1>6, <1>b, <2>2, Zenon
  <2> QED
    BY <2>1, <2>2, Zenon
<1>9. AuditTypes'
  BY <1>a, <1>1, <1>5, <1>6, Zenon DEF Where, AuditTypes
<1>10. Placed'
  BY <1>a, <1>7, Zenon DEF Placed
<1>11. HeldOnce'
  BY <1>a, <1>4, <1>8, Zenon DEF Where, HeldOnce
<1> QED
  BY <1>1, <1>9, <1>10, <1>11, Zenon DEF Where

\* A written event has a row, a failed one has not; the writer is free.
LEMMA WhereInsert ==
    ASSUME Where, InsertAuditLog \/ InsertFails
    PROVE  Where' /\ writer \in Events
<1>a. /\ writer # 0 /\ writer' = 0 /\ UNCHANGED <<act, buffer, n>>
      /\ \/ /\ lastId' = lastId + 1 /\ id' = [id EXCEPT ![writer] = lastId + 1]
            /\ fate' = [fate EXCEPT ![writer] = "written"]
         \/ /\ UNCHANGED <<id, lastId>>
            /\ fate' = [fate EXCEPT ![writer] = "failed"]
  BY Zenon DEF InsertAuditLog, InsertFails, Moved
<1>b. /\ fate \in [Events -> Fates] /\ id \in [Events -> Nat] /\ lastId \in Nat
      /\ \A e \in Events : fate[e] = "none" <=> e > n
      /\ \A e \in Events : Place(e, fate[e], act, buffer, writer, id[e])
      /\ \A e \in Events : e # 0
  BY WhereFacts, EventNumbers, Zenon DEF Where, Placed
<1>c. writer \in Events
  BY <1>a, WhereFacts, Zenon
<1>d. fate[writer] = "writing" /\ id[writer] = 0
  BY <1>b, <1>c, Zenon DEF Place
<1>e. "written" \in Fates /\ "failed" \in Fates /\ lastId + 1 \in Nat /\ lastId + 1 # 0
  BY <1>b DEF Fates
<1>1. /\ fate' \in [Events -> Fates] /\ id' \in [Events -> Nat] /\ lastId' \in Nat
      /\ \A e \in Events : e # writer => fate'[e] = fate[e] /\ id'[e] = id[e]
  BY <1>a, <1>b, <1>c, <1>e, Zenon
<1>2. \/ fate'[writer] = "written" /\ id'[writer] # 0
      \/ fate'[writer] = "failed" /\ id'[writer] = 0
  BY <1>a, <1>b, <1>c, <1>d, <1>e, Zenon
<1>3. \A e \in Events : Place(e, fate'[e], act, buffer, 0, id'[e])
  <2> SUFFICES ASSUME NEW e \in Events PROVE Place(e, fate'[e], act, buffer, 0, id'[e])
    BY Zenon
  <2>1. Place(e, fate[e], act, buffer, writer, id[e]) /\ e # 0
    BY <1>b, Zenon
  <2>2. CASE e = writer
    BY <1>2, <1>d, <2>1, <2>2, Zenon DEF Place
  <2>3. CASE e # writer
    BY <1>1, <2>1, <2>3, Zenon DEF Place
  <2> QED
    BY <2>2, <2>3, Zenon
<1>4. \A e \in Events : fate'[e] = "none" <=> e > n
  <2> SUFFICES ASSUME NEW e \in Events PROVE fate'[e] = "none" <=> e > n
    BY Zenon
  <2>1. CASE e = writer
    BY <1>2, <1>d, <1>b, <2>1, Zenon
  <2>2. CASE e # writer
    BY <1>1, <1>b, <2>2, Zenon
  <2> QED
    BY <2>1, <2>2, Zenon
<1>9. AuditTypes'
  BY <1>a, <1>1, Zenon DEF Where, AuditTypes
<1>10. Placed'
  BY <1>a, <1>3, Zenon DEF Placed
<1>11. HeldOnce'
  BY <1>a, <1>4, Zenon DEF Where, HeldOnce
<1> QED
  BY <1>c, <1>9, <1>10, <1>11, Zenon DEF Where

\* Pruned entries have no row.
LEMMA WherePrune ==
    ASSUME Where, PruneAuditLogs
    PROVE  Where'
<1>a. /\ UNCHANGED <<act, buffer, writer, lastId, n>>
      /\ \E cutoff \in 2..n + 1 :
            /\ id' = [e \in Events |-> IF e < cutoff THEN 0 ELSE id[e]]
            /\ fate' = [e \in Events |-> IF id[e] # 0 /\ e < cutoff THEN "pruned" ELSE fate[e]]
  BY Zenon DEF PruneAuditLogs
<1> PICK cutoff \in 2..n + 1 :
            /\ id' = [e \in Events |-> IF e < cutoff THEN 0 ELSE id[e]]
            /\ fate' = [e \in Events |-> IF id[e] # 0 /\ e < cutoff THEN "pruned" ELSE fate[e]]
  BY <1>a, Zenon
<1>b. /\ fate \in [Events -> Fates] /\ id \in [Events -> Nat]
      /\ \A e \in Events : fate[e] = "none" <=> e > n
      /\ \A e \in Events : Place(e, fate[e], act, buffer, writer, id[e])
      /\ 0 \in Nat /\ "pruned" \in Fates
  BY WhereFacts, Zenon DEF Where, Placed, Fates
<1>1. /\ fate' \in [Events -> Fates] /\ id' \in [Events -> Nat]
      /\ \A e \in Events : \/ id[e] # 0 /\ id'[e] = 0 /\ fate'[e] = "pruned"
                           \/ id'[e] = id[e] /\ fate'[e] = fate[e]
  BY <1>b, Zenon
<1>2. \A e \in Events : Place(e, fate'[e], act, buffer, writer, id'[e])
  <2> SUFFICES ASSUME NEW e \in Events PROVE Place(e, fate'[e], act, buffer, writer, id'[e])
    BY Zenon
  <2>1. Place(e, fate[e], act, buffer, writer, id[e])
    BY <1>b, Zenon
  <2> QED
    BY <1>1, <2>1, Zenon DEF Place
<1>3. \A e \in Events : fate'[e] = "none" <=> e > n
  <2> SUFFICES ASSUME NEW e \in Events PROVE fate'[e] = "none" <=> e > n
    BY Zenon
  <2>1. Place(e, fate[e], act, buffer, writer, id[e]) /\ (fate[e] = "none" <=> e > n)
    BY <1>b, Zenon
  <2> QED
    BY <1>1, <2>1, Zenon DEF Place
<1>9. AuditTypes'
  BY <1>a, <1>1, Zenon DEF Where, AuditTypes
<1>10. Placed'
  BY <1>a, <1>2, Zenon DEF Placed
<1>11. HeldOnce'
  BY <1>a, <1>3, Zenon DEF Where, HeldOnce
<1> QED
  BY <1>9, <1>10, <1>11, Zenon DEF Where

\* When the process ends nothing is on its way.
LEMMA WhereExits ==
    ASSUME Where, Exits
    PROVE  Where'
<1>a. /\ act' = [a \in Actors |-> Off] /\ buffer' = <<>> /\ writer' = 0
      /\ fate' = [e \in Events |-> IF fate[e] \in {"buffered", "writing"} THEN "lost"
                                   ELSE IF fate[e] = "stamped" THEN "unsent" ELSE fate[e]]
      /\ UNCHANGED <<id, lastId, n>>
  BY Zenon DEF Exits, Vanish
<1>b. /\ fate \in [Events -> Fates]
      /\ \A e \in Events : fate[e] = "none" <=> e > n
      /\ \A e \in Events : fate[e] = "written" <=> id[e] # 0
      /\ \A e \in Events : e # 0 /\ e # Off
      /\ "lost" \in Fates /\ "unsent" \in Fates
  BY WhereFacts, EventNumbers, Zenon DEF Fates
<1>1. /\ fate' \in [Events -> Fates]
      /\ \A e \in Events :
            \/ /\ fate'[e] \in {"lost", "unsent"}
               /\ fate[e] \in {"buffered", "writing", "stamped"}
            \/ /\ fate'[e] = fate[e]
               /\ fate[e] \notin {"buffered", "writing", "stamped"}
  BY <1>a, <1>b, Zenon
<1>2. /\ buffer' \in Seq(Events) /\ Len(buffer') <= BufferSize /\ Range(buffer') = {}
      /\ DOMAIN buffer' = {}
  <2>1. << >> \in Seq(Events) /\ Len(<< >>) <= BufferSize /\ DOMAIN << >> = {}
    BY ConstantsAssumption
  <2> QED
    BY <1>a, <2>1, Zenon DEF Range
<1>3. act' \in [Actors -> {Off, Rest, Busy} \union Events] /\ \A a \in Actors : act'[a] = Off
  BY <1>a, Zenon
<1>4. \A e \in Events : Place(e, fate'[e], act', buffer', 0, id[e])
  <2> SUFFICES ASSUME NEW e \in Events PROVE Place(e, fate'[e], act', buffer', 0, id[e])
    BY Zenon
  <2>1. e # 0 /\ e # Off /\ (fate[e] = "written" <=> id[e] # 0)
    BY <1>b, Zenon
  <2>2. /\ fate'[e] \notin {"buffered", "writing", "stamped"}
        /\ fate'[e] = "written" <=> fate[e] = "written"
    BY <1>1, Zenon
  <2> QED
    BY <1>2, <1>3, <2>1, <2>2, Zenon DEF Place
<1>5. \A e \in Events : fate'[e] = "none" <=> e > n
  <2> SUFFICES ASSUME NEW e \in Events PROVE fate'[e] = "none" <=> e > n
    BY Zenon
  <2>1. fate'[e] = "none" <=> fate[e] = "none"
    BY <1>1, Zenon
  <2> QED
    BY <1>b, <2>1, Zenon
<1>6. \A a \in Actors : ~(act'[a] > 0)
  BY <1>3, EventNumbers, Zenon
<1>9. AuditTypes'
  <2>1. writer' \in {0} \union Events
    BY <1>a, Zenon
  <2> QED
    BY <1>a, <1>1, <1>2, <1>3, <2>1, Zenon DEF Where, AuditTypes
<1>10. Placed'
  BY <1>a, <1>4, Zenon DEF Placed
<1>11. HeldOnce'
  BY <1>a, <1>2, <1>5, <1>6, Zenon DEF HeldOnce
<1> QED
  BY <1>9, <1>10, <1>11, Zenon DEF Where

-----------------------------------------------------------------------------
(* The stamps are bounded by the work.                                      *)

\* A stamp is within the bound.
LEMMA StampBound ==
    ASSUME Where, Worked, NEW a \in Actors, act[a] = Busy
    PROVE  n + 1 \in Events
<1>1. PICK f \in [Actors -> Nat] : Due(f, act, n, work)
  BY Zenon DEF Worked
<1>2. f[a] \in Nat /\ n < f[a] /\ f[a] <= work
  BY <1>1, Zenon DEF Due
<1>3. n \in Nat /\ work <= MaxWork /\ work \in Nat
  BY WhereFacts, Zenon DEF Worked
<1> QED
  BY <1>2, <1>3, ConstantsAssumption DEF Events

\* The stamps to come are still there after every step.
LEMMA WorkedStep ==
    ASSUME BootTypes, Where, Worked, [Next]_vars
    PROVE  Worked'
<1>a. /\ act \in [Actors -> {Off, Rest, Busy} \union Events] /\ n \in Nat
      /\ AuditTypes /\ Placed
  BY WhereFacts, Zenon DEF Where
<1>b. work \in Nat /\ work <= MaxWork /\ n <= work /\ MaxWork \in Nat
  BY ConstantsAssumption, Zenon DEF Worked
<1>f. PICK f \in [Actors -> Nat] : Due(f, act, n, work)
  BY Zenon DEF Worked
<1>g. \A a \in Actors : f[a] \in Nat
  BY <1>f, Zenon
<1>h. \A a \in Actors : act[a] = Busy => n < f[a] /\ f[a] <= work
  BY <1>f, Zenon DEF Due
<1>i. \A a, b \in Actors : act[a] = Busy /\ act[b] = Busy /\ f[b] = f[a] => b = a
  BY <1>f, Zenon DEF Due
<1>w. work' = work \/ (work < MaxWork /\ work' = work + 1)
  BY Common, Zenon
<1>e. /\ work' \in Nat /\ work' <= MaxWork /\ n <= work'
      /\ \A a \in Actors : f[a] <= work => f[a] <= work'
  BY <1>w, <1>a, <1>b, <1>g
<1>1. ASSUME n' = n, \A a \in Actors : act'[a] = Busy => act[a] = Busy PROVE Worked'
  <2>1. Due(f, act', n, work')
    BY <1>1, <1>e, <1>h, <1>i, Zenon DEF Due
  <2> QED
    BY <1>1, <1>e, <2>1, Zenon DEF Worked
<1>2. ASSUME NEW a \in Actors, NEW x \in {Off, Rest, Busy}, Turns(a, x) PROVE Worked'
  <2>1. /\ act[a] # Busy /\ act'[a] = x /\ n' = n
        /\ \A b \in Actors : b # a => act'[b] = act[b]
        /\ x = Busy => work < MaxWork /\ work' = work + 1
    BY <1>2, <1>a, EventNumbers, Zenon DEF Turns
  <2>2. CASE x # Busy
    BY <1>1, <2>1, <2>2, Zenon
  <2>3. CASE x = Busy
    <3> DEFINE g == [f EXCEPT ![a] = work']
    <3>1. g \in [Actors -> Nat] /\ g[a] = work' /\ \A b \in Actors : b # a => g[b] = f[b]
      BY <1>e, Zenon
    <3> HIDE DEF g
    <3>2. n < work' /\ work' <= work' /\ \A b \in Actors : f[b] <= work => f[b] # work'
      BY <2>1, <2>3, <1>a, <1>b, <1>g
    <3>3. \A b \in Actors : act'[b] = Busy /\ b # a => act[b] = Busy
      BY <2>1, Zenon
    <3>4. ASSUME NEW b \in Actors, act'[b] = Busy PROVE n < g[b] /\ g[b] <= work'
      BY <3>1, <3>2, <3>3, <3>4, <1>e, <1>h, Zenon
    <3>5. ASSUME NEW b \in Actors, NEW c \in Actors, act'[b] = Busy, act'[c] = Busy, g[c] = g[b]
          PROVE  c = b
      <4>1. b # a => f[b] # work' /\ g[b] = f[b] /\ act[b] = Busy
        BY <3>1, <3>2, <3>3, <3>5, <1>h, Zenon
      <4>2. c # a => f[c] # work' /\ g[c] = f[c] /\ act[c] = Busy
        BY <3>1, <3>2, <3>3, <3>5, <1>h, Zenon
      <4> QED
        BY <4>1, <4>2, <3>1, <3>5, <1>i, Zenon
    <3>6. Due(g, act', n, work')
      BY <3>4, <3>5, Zenon DEF Due
    <3> QED
      BY <2>1, <1>e, <3>1, <3>6, Zenon DEF Worked
  <2> QED
    BY <2>2, <2>3, Zenon
<1>3. ASSUME NEW a \in Actors, Stamp(a) PROVE Worked'
  <2>1. /\ act[a] = Busy /\ act' = [act EXCEPT ![a] = n + 1] /\ n' = n + 1
    BY <1>3, Zenon DEF Stamp
  <2>2. n + 1 # Busy /\ n + 1 \in Nat
    BY <1>a DEF Busy
  <2>3. \A b \in Actors : act'[b] = Busy => b # a /\ act[b] = Busy
    BY <2>1, <2>2, <1>a, Zenon
  \* a's place goes to the one that had the next
  <2> DEFINE g == [b \in Actors |-> IF f[b] = n + 1 THEN f[a] ELSE f[b]]
  <2>4. /\ g \in [Actors -> Nat]
        /\ \A b \in Actors : \/ f[b] = n + 1 /\ g[b] = f[a]
                             \/ f[b] # n + 1 /\ g[b] = f[b]
    BY <1>g, Zenon
  <2> HIDE DEF g
  <2>5. \A b \in Actors : act[b] = Busy /\ f[b] # n + 1 => n + 1 < f[b]
    BY <1>g, <1>h, <1>a
  <2>6. n + 1 <= work'
    BY <2>1, <1>h, <1>g, <1>a, <1>e
  <2>7. ASSUME NEW b \in Actors, act'[b] = Busy PROVE n + 1 < g[b] /\ g[b] <= work'
    <3>1. b # a /\ act[b] = Busy
      BY <2>3, <2>7, Zenon
    <3>2. f[a] # f[b]
      BY <3>1, <2>1, <1>i, Zenon
    <3>3. CASE f[b] = n + 1 /\ g[b] = f[a]
      BY <3>2, <3>3, <2>1, <2>5, <1>h, <1>e, Zenon
    <3>4. CASE f[b] # n + 1 /\ g[b] = f[b]
      BY <3>1, <3>4, <2>5, <1>h, <1>e, Zenon
    <3> QED
      BY <3>3, <3>4, <2>4, Zenon
  <2>8. ASSUME NEW b \in Actors, NEW c \in Actors, act'[b] = Busy, act'[c] = Busy, g[c] = g[b]
        PROVE  c = b
    <3>1. b # a /\ act[b] = Busy /\ c # a /\ act[c] = Busy
      BY <2>3, <2>8, Zenon
    <3>2. f[a] # f[b] /\ f[a] # f[c]
      BY <3>1, <2>1, <1>i, Zenon
    <3>3. f[c] = f[b]
      BY <3>2, <2>4, <2>8, Zenon
    <3> QED
      BY <3>1, <3>3, <1>i, Zenon
  <2>9. Due(g, act', n + 1, work')
    BY <2>7, <2>8, Zenon DEF Due
  <2> QED
    BY <2>1, <2>4, <2>6, <2>9, <1>e, Zenon DEF Worked
<1>4. ASSUME NEW a \in Actors, Sends(a) PROVE Worked'
  <2>1. act[a] > 0 /\ act' = [act EXCEPT ![a] = Rest] /\ n' = n
    BY <1>4, Zenon DEF Sends
  <2>2. Rest # Busy
    BY EventNumbers, Zenon
  <2>3. \A b \in Actors : act'[b] = Busy => act[b] = Busy
    BY <2>1, <2>2, <1>a, Zenon
  <2> QED
    BY <1>1, <2>1, <2>3, Zenon
<1>5. Serve(Self) => n' = n /\ \A a \in Actors : act'[a] # Busy
  BY EventNumbers, Zenon DEF Serve
<1>6. Exits => n' = n /\ \A a \in Actors : act'[a] # Busy
  BY EventNumbers, Zenon DEF Exits
<1>7. UNCHANGED eventVars \/ TakeEvent \/ InsertAuditLog \/ InsertFails \/ PruneAuditLogs
         => n' = n /\ act' = act
  BY Zenon DEF eventVars, TakeEvent, InsertAuditLog, InsertFails, PruneAuditLogs
<1> QED
  BY <1>1, <1>2, <1>3, <1>4, <1>5, <1>6, <1>7, <1>a, AuditKinds, Zenon

\* Every step leaves the events where their fates say.
LEMMA WhereStep ==
    ASSUME BootTypes, Where, Quiet, Worked, [Next]_vars
    PROVE  Where'
<1>1. AuditTypes /\ Placed
  BY Zenon DEF Where
<1>2. UNCHANGED eventVars => Where'
  <2> SUFFICES ASSUME UNCHANGED <<act, buffer, writer, id, lastId, n, fate>> PROVE Where'
    BY Zenon DEF eventVars
  <2>1. AuditTypes'
    BY Zenon DEF Where, AuditTypes
  <2>2. Placed'
    BY Zenon DEF Where, Placed
  <2>3. HeldOnce'
    BY Zenon DEF Where, HeldOnce
  <2> QED
    BY <2>1, <2>2, <2>3, Zenon DEF Where
<1>3. ASSUME NEW a \in Actors, Stamp(a) PROVE Where'
  <2>1. n + 1 \in Events
    BY <1>3, StampBound, Zenon DEF Stamp
  <2> QED
    BY <1>3, <2>1, WhereStamp, Zenon
<1> QED
  BY <1>1, <1>2, <1>3, AuditKinds, WhereTurns, WhereServe, WhereSends, WhereTake, WhereInsert,
     WherePrune, WhereExits, Zenon

-----------------------------------------------------------------------------
(* The order of the entries.                                                *)

\* An event that leaves the way to the table is overtaken by nothing more.
LEMMA OvertakenLess ==
    ASSUME OvertakenInHand, n' = n, overlaps' = overlaps,
           \A e \in Events : \/ fate'[e] = fate[e]
                             \/ fate'[e] \notin {"stamped", "buffered", "writing", "written"}
    PROVE  OvertakenInHand'
<1> SUFFICES ASSUME NEW d \in Events, NEW e \in Events, d < e, Overtaken(d, e)'
             PROVE  <<d, e>> \in overlaps
  BY Zenon DEF OvertakenInHand
<1>1. /\ fate'[d] = fate[d] \/ fate'[d] \notin {"stamped", "buffered", "writing", "written"}
      /\ fate'[e] = fate[e] \/ fate'[e] \notin {"stamped", "buffered", "writing", "written"}
  BY Zenon
<1>2. \/ fate'[d] = "stamped" /\ e <= n
      \/ fate'[d] = "buffered" /\ fate'[e] \in {"writing", "written"}
      \/ fate'[d] = "writing" /\ fate'[e] = "written"
  BY Zenon DEF Overtaken
<1>3. Overtaken(d, e)
  BY <1>1, <1>2, Zenon DEF Overtaken
<1> QED
  BY <1>3, Zenon DEF OvertakenInHand

\* The rows are left, or some are deleted.
LEMMA ListedLess ==
    ASSUME Numbered, ListedByTime, lastId' = lastId, overlaps \subseteq overlaps', lastId \in Nat,
           id \in [Events -> Nat], \A e \in Events : id'[e] = id[e] \/ id'[e] = 0
    PROVE  Numbered' /\ ListedByTime'
<1>1. \A e \in Events : id[e] \in Nat /\ id[e] <= lastId
  BY Zenon DEF Numbered
<1>2. Numbered'
  BY <1>1 DEF Numbered
<1>3. ASSUME NEW d \in Events, NEW e \in Events, 0 < id'[e], id'[e] < id'[d], d < e
      PROVE  <<d, e>> \in overlaps'
  <2>1. id'[e] = id[e] /\ id'[d] = id[d]
    BY <1>1, <1>3
  <2>2. 0 < id[e] /\ id[e] < id[d]
    BY <2>1, <1>3, Zenon
  <2> QED
    BY <2>2, <1>3, Zenon DEF ListedByTime
<1> QED
  BY <1>2, <1>3, Zenon DEF ListedByTime

\* A stamp is overtaken by nothing yet; what was in hand is noted.
LEMMA InOrderStamp ==
    ASSUME Where, InOrder, NEW a \in Actors, Stamp(a), n + 1 \in Events
    PROVE  InOrder'
<1>a. /\ n' = n + 1 /\ fate' = [fate EXCEPT ![n + 1] = "stamped"]
      /\ overlaps' = overlaps \union {<<act[b], n + 1>> : b \in {c \in Actors : act[c] > 0}}
      /\ UNCHANGED <<buffer, id, lastId>>
  BY Zenon DEF Stamp, Moved
<1>b. /\ fate \in [Events -> Fates] /\ n \in Nat /\ id \in [Events -> Nat] /\ lastId \in Nat
      /\ \A e \in Events : fate[e] = "stamped" <=> \E b \in Actors : act[b] = e
  BY WhereFacts, Zenon
<1>1. OvertakenInHand'
  <2> SUFFICES ASSUME NEW d \in Events, NEW e \in Events, d < e, Overtaken(d, e)'
               PROVE  <<d, e>> \in overlaps'
    BY Zenon DEF OvertakenInHand
  <2>1. \/ fate'[d] = "stamped" /\ e <= n + 1
        \/ fate'[d] = "buffered" /\ fate'[e] \in {"writing", "written"}
        \/ fate'[d] = "writing" /\ fate'[e] = "written"
    BY <1>a, Zenon DEF Overtaken
  <2>2. fate'[n + 1] = "stamped" /\ \A c \in Events : c # n + 1 => fate'[c] = fate[c]
    BY <1>a, <1>b, Zenon
  <2>3. CASE fate'[d] = "stamped" /\ e = n + 1
    <3>1. d # n + 1
      BY <2>3, <1>b, EventNumbers
    <3>2. \E b \in Actors : act[b] = d
      BY <3>1, <2>2, <2>3, <1>b, Zenon
    <3>3. d > 0
      BY EventNumbers, Zenon
    <3> QED
      BY <3>2, <3>3, <2>3, <1>a, Zenon
  <2>4. CASE fate'[d] = "stamped" /\ e <= n
    <3>1. d # n + 1
      BY <2>4, <1>b, EventNumbers
    <3>2. Overtaken(d, e)
      BY <3>1, <2>2, <2>4, Zenon DEF Overtaken
    <3> QED
      BY <3>2, <1>a, Zenon DEF InOrder, OvertakenInHand
  <2>5. CASE \/ fate'[d] = "buffered" /\ fate'[e] \in {"writing", "written"}
             \/ fate'[d] = "writing" /\ fate'[e] = "written"
    <3>1. d # n + 1 /\ e # n + 1
      BY <2>2, <2>5, Zenon
    <3>2. Overtaken(d, e)
      BY <3>1, <2>2, <2>5, Zenon DEF Overtaken
    <3> QED
      BY <3>2, <1>a, Zenon DEF InOrder, OvertakenInHand
  <2>6. e <= n + 1 => e = n + 1 \/ e <= n
    BY <1>b, EventNumbers
  <2> QED
    BY <2>1, <2>3, <2>4, <2>5, <2>6, Zenon
<1>2. SentInOrder'
  BY <1>a, Zenon DEF InOrder, SentInOrder
<1>3. Numbered' /\ ListedByTime'
  <2>1. overlaps \subseteq overlaps' /\ lastId' = lastId /\ \A e \in Events : id'[e] = id[e]
    BY <1>a, Zenon
  <2> QED
    BY <2>1, <1>b, ListedLess, Zenon DEF InOrder
<1> QED
  BY <1>1, <1>2, <1>3, Zenon DEF InOrder

\* What is in the channel was stamped before the sender's hands were empty.
LEMMA InOrderSends ==
    ASSUME Where, InOrder, NEW a \in Actors, Sends(a)
    PROVE  InOrder'
<1> DEFINE e0 == act[a]
<1>a. /\ UNCHANGED <<writer, id, lastId, n, overlaps>>
  BY Zenon DEF Sends
<1>b. /\ fate \in [Events -> Fates] /\ buffer \in Seq(Events) /\ n \in Nat
      /\ id \in [Events -> Nat] /\ lastId \in Nat
      /\ \A e \in Events : fate[e] = "buffered" <=> e \in Range(buffer)
      /\ \A e \in Events : fate[e] = "stamped" <=> \E b \in Actors : act[b] = e
  BY WhereFacts, Zenon
<1>c. e0 \in Events
  BY WhereSends, Zenon
<1>d. fate[e0] = "stamped"
  BY <1>b, <1>c, Zenon
<1>e. \A e \in Events : fate[e] # "none" => e <= n
  <2>1. \A e \in Events : (e \in Nat /\ ~(e > n)) => e <= n
    BY <1>b
  <2> QED
    BY <2>1, WhereFacts, EventNumbers, Zenon
<1>o. \A d, e \in Events : d < e /\ Overtaken(d, e) => <<d, e>> \in overlaps
  BY Zenon DEF InOrder, OvertakenInHand
<1>5. \E x \in {"buffered", "dropped", "refused"} :
         /\ fate' = [fate EXCEPT ![e0] = x]
         /\ \/ x = "buffered" /\ buffer' = Append(buffer, e0)
            \/ x # "buffered" /\ buffer' = buffer
  BY Zenon DEF Sends, Moved, Room
<1> PICK x \in {"buffered", "dropped", "refused"} :
         /\ fate' = [fate EXCEPT ![e0] = x]
         /\ \/ x = "buffered" /\ buffer' = Append(buffer, e0)
            \/ x # "buffered" /\ buffer' = buffer
  BY <1>5, Zenon
<1>6. fate'[e0] = x /\ \A e \in Events : e # e0 => fate'[e] = fate[e]
  BY <1>b, <1>c, Zenon
<1> HIDE DEF e0
<1>7. OvertakenInHand'
  <2> SUFFICES ASSUME NEW d \in Events, NEW e \in Events, d < e, Overtaken(d, e)'
               PROVE  <<d, e>> \in overlaps
    BY <1>a, Zenon DEF OvertakenInHand
  <2>1. \/ fate'[d] = "stamped" /\ e <= n
        \/ fate'[d] = "buffered" /\ fate'[e] \in {"writing", "written"}
        \/ fate'[d] = "writing" /\ fate'[e] = "written"
    BY <1>a, Zenon DEF Overtaken
  <2>2. CASE d = e0
    <3>1. fate'[e] \in {"writing", "written"}
      BY <2>1, <2>2, <1>6, Zenon
    <3>2. e # e0
      BY <3>1, <1>6, Zenon
    <3>3. fate[e] # "none"
      BY <3>1, <3>2, <1>6, Zenon
    <3>4. Overtaken(d, e)
      BY <3>3, <1>e, <1>d, <2>2, Zenon DEF Overtaken
    <3> QED
      BY <3>4, <1>o, Zenon
  <2>3. CASE d # e0
    <3>1. fate'[d] = fate[d] /\ (fate'[e] = fate[e] \/ fate'[e] \notin {"writing", "written"})
      BY <2>3, <1>6, Zenon
    <3>2. Overtaken(d, e)
      BY <3>1, <2>1, Zenon DEF Overtaken
    <3> QED
      BY <3>2, <1>o, Zenon
  <2> QED
    BY <2>2, <2>3, Zenon
<1>8. SentInOrder'
  <2>a. \A j, k \in DOMAIN buffer :
           j < k /\ buffer[k] < buffer[j] => <<buffer[k], buffer[j]>> \in overlaps
    BY Zenon DEF InOrder, SentInOrder
  <2>1. CASE buffer' = buffer
    BY <1>a, <2>1, <2>a, Zenon DEF SentInOrder
  <2>2. CASE buffer' = Append(buffer, e0)
    <3>1. \A j \in DOMAIN buffer' :
             \/ j \in DOMAIN buffer /\ j <= Len(buffer) /\ buffer'[j] = buffer[j]
             \/ j = Len(buffer) + 1 /\ buffer'[j] = e0
      BY <2>2, <1>b, <1>c, Appended, ZenonT(60)
    <3>2. \A j \in DOMAIN buffer : j \in Nat /\ j <= Len(buffer) /\ buffer[j] \in Events
      BY <1>b
    <3>3. Len(buffer) \in Nat
      BY <1>b
    <3> SUFFICES ASSUME NEW j \in DOMAIN buffer', NEW k \in DOMAIN buffer',
                        j < k, buffer'[k] < buffer'[j]
                 PROVE  <<buffer'[k], buffer'[j]>> \in overlaps
      BY <1>a, Zenon DEF SentInOrder
    <3>4. j \in DOMAIN buffer /\ buffer'[j] = buffer[j]
      <4>1. ASSUME j = Len(buffer) + 1 PROVE FALSE
        <5>1. k = Len(buffer) + 1 \/ (k \in Nat /\ k <= Len(buffer))
          BY <3>1, <3>2, Zenon
        <5> QED
          BY <4>1, <5>1, <3>3
      <4> QED
        BY <4>1, <3>1, Zenon
    <3>5. CASE k \in DOMAIN buffer /\ buffer'[k] = buffer[k]
      BY <3>4, <3>5, <2>a, Zenon
    <3>6. CASE buffer'[k] = e0
      <4>1. buffer[j] \in Events /\ buffer[j] \in Range(buffer)
        BY <3>4, <3>2, Zenon DEF Range
      <4>2. fate[buffer[j]] # "none"
        BY <4>1, <1>b, Zenon
      <4>3. Overtaken(e0, buffer[j])
        BY <4>1, <4>2, <1>d, <1>e, Zenon DEF Overtaken
      <4> QED
        BY <4>1, <4>3, <3>4, <3>6, <1>o, <1>c, Zenon
    <3> QED
      BY <3>5, <3>6, <3>1, Zenon
  <2> QED
    BY <2>1, <2>2, Zenon
<1>9. Numbered' /\ ListedByTime'
  <2>1. overlaps \subseteq overlaps' /\ lastId' = lastId /\ \A e \in Events : id'[e] = id[e]
    BY <1>a, Zenon
  <2> QED
    BY <2>1, <1>b, ListedLess, Zenon DEF InOrder
<1> QED
  BY <1>7, <1>8, <1>9, Zenon DEF InOrder

\* The writer takes the oldest: what is left was sent later.
LEMMA InOrderTake ==
    ASSUME Where, InOrder, TakeEvent
    PROVE  InOrder'
<1> DEFINE e0 == Head(buffer)
<1>a. /\ writer = 0 /\ buffer # <<>> /\ buffer' = Tail(buffer)
      /\ fate' = [fate EXCEPT ![e0] = "writing"]
      /\ UNCHANGED <<id, lastId, n, overlaps>>
  BY Zenon DEF TakeEvent, Moved
<1>b. /\ fate \in [Events -> Fates] /\ buffer \in Seq(Events)
      /\ id \in [Events -> Nat] /\ lastId \in Nat
      /\ \A e \in Events : fate[e] = "buffered" <=> e \in Range(buffer)
      /\ \A e \in Events : fate[e] # "writing"
  BY WhereFacts, EventNumbers, <1>a, Zenon
<1>c. /\ e0 \in Events /\ e0 = buffer[1] /\ 1 \in DOMAIN buffer
      /\ \A j \in DOMAIN buffer' : /\ j + 1 \in DOMAIN buffer /\ buffer'[j] = buffer[j + 1]
                                   /\ 1 < j + 1 /\ j \in Nat
      /\ Range(buffer) = Range(buffer') \cup {e0}
  <2>1. buffer \in Seq(Events) /\ buffer # <<>>
    BY <1>a, <1>b, Zenon
  <2> QED
    BY <1>a, <2>1, Taken, Zenon
<1>d. fate[e0] = "buffered"
  BY <1>b, <1>c, Zenon
<1>o. \A d, e \in Events : d < e /\ Overtaken(d, e) => <<d, e>> \in overlaps
  BY Zenon DEF InOrder, OvertakenInHand
<1>s. \A j, k \in DOMAIN buffer :
         j < k /\ buffer[k] < buffer[j] => <<buffer[k], buffer[j]>> \in overlaps
  BY Zenon DEF InOrder, SentInOrder
<1>6. fate'[e0] = "writing" /\ \A e \in Events : e # e0 => fate'[e] = fate[e]
  BY <1>a, <1>b, <1>c, Zenon
<1> HIDE DEF e0
<1>7. OvertakenInHand'
  <2> SUFFICES ASSUME NEW d \in Events, NEW e \in Events, d < e, Overtaken(d, e)'
               PROVE  <<d, e>> \in overlaps
    BY <1>a, Zenon DEF OvertakenInHand
  <2>1. \/ fate'[d] = "stamped" /\ e <= n
        \/ fate'[d] = "buffered" /\ fate'[e] \in {"writing", "written"}
        \/ fate'[d] = "writing" /\ fate'[e] = "written"
    BY <1>a, Zenon DEF Overtaken
  <2>2. CASE d = e0
    <3>1. fate'[e] = "written"
      BY <2>1, <2>2, <1>6, Zenon
    <3>2. fate[e] = "written"
      BY <3>1, <1>6, Zenon
    <3>4. Overtaken(d, e)
      BY <3>2, <1>d, <2>2, Zenon DEF Overtaken
    <3> QED
      BY <3>4, <1>o, Zenon
  <2>3. CASE d # e0 /\ e = e0 /\ fate'[d] = "buffered"
    <3>1. d \in Range(buffer')
      BY <2>3, <1>6, <1>b, <1>c, Zenon
    <3>2. PICK j \in DOMAIN buffer' : buffer'[j] = d
      BY <3>1, Zenon DEF Range
    <3>3. j + 1 \in DOMAIN buffer /\ 1 < j + 1 /\ buffer[j + 1] = d /\ buffer[1] = e
      BY <3>2, <1>c, <2>3, Zenon
    <3> QED
      BY <3>3, <1>c, <1>s, Zenon
  <2>4. CASE d # e0 /\ ~(e = e0 /\ fate'[d] = "buffered")
    <3>1. fate'[d] = fate[d] /\ fate[d] # "writing"
      BY <2>4, <1>6, <1>b, Zenon
    <3>2. e # e0 => fate'[e] = fate[e]
      BY <1>6, Zenon
    <3>3. Overtaken(d, e)
      BY <3>1, <3>2, <2>1, <2>4, Zenon DEF Overtaken
    <3> QED
      BY <3>3, <1>o, Zenon
  <2> QED
    BY <2>2, <2>3, <2>4, Zenon
<1>8. SentInOrder'
  <2> SUFFICES ASSUME NEW j \in DOMAIN buffer', NEW k \in DOMAIN buffer',
                      j < k, buffer'[k] < buffer'[j]
               PROVE  <<buffer'[k], buffer'[j]>> \in overlaps
    BY <1>a, Zenon DEF SentInOrder
  <2>1. /\ j + 1 \in DOMAIN buffer /\ k + 1 \in DOMAIN buffer /\ j \in Nat /\ k \in Nat
        /\ buffer'[j] = buffer[j + 1] /\ buffer'[k] = buffer[k + 1]
    BY <1>c, Zenon
  <2>2. j + 1 < k + 1
    BY <2>1
  <2>3. buffer[k + 1] < buffer[j + 1]
    BY <2>1, Zenon
  <2> QED
    BY <2>1, <2>2, <2>3, <1>s, Zenon
<1>9. Numbered' /\ ListedByTime'
  <2>1. overlaps \subseteq overlaps' /\ lastId' = lastId /\ \A e \in Events : id'[e] = id[e]
    BY <1>a, Zenon
  <2> QED
    BY <2>1, <1>b, ListedLess, Zenon DEF InOrder
<1> QED
  BY <1>7, <1>8, <1>9, Zenon DEF InOrder

\* The new row has the highest id, and the rows below it were not overtaken.
LEMMA InOrderInsert ==
    ASSUME Where, InOrder, InsertAuditLog
    PROVE  InOrder'
<1>a. /\ lastId' = lastId + 1 /\ id' = [id EXCEPT ![writer] = lastId + 1]
      /\ fate' = [fate EXCEPT ![writer] = "written"]
      /\ UNCHANGED <<buffer, n, overlaps>>
  BY Zenon DEF InsertAuditLog, Moved
<1>b. /\ fate \in [Events -> Fates] /\ id \in [Events -> Nat] /\ lastId \in Nat
      /\ \A e \in Events : fate[e] = "writing" <=> writer = e
      /\ \A e \in Events : fate[e] = "written" <=> id[e] # 0
  BY WhereFacts, Zenon
<1>c. writer \in Events
  BY WhereInsert, Zenon
<1>d. fate[writer] = "writing" /\ \A e \in Events : id[e] \in Nat /\ id[e] <= lastId
  BY <1>b, <1>c, Zenon DEF InOrder, Numbered
<1>o. \A d, e \in Events : d < e /\ Overtaken(d, e) => <<d, e>> \in overlaps
  BY Zenon DEF InOrder, OvertakenInHand
<1>6. /\ fate'[writer] = "written" /\ id'[writer] = lastId + 1
      /\ \A e \in Events : e # writer => fate'[e] = fate[e] /\ id'[e] = id[e]
  BY <1>a, <1>b, <1>c, Zenon
<1>7. OvertakenInHand'
  <2> SUFFICES ASSUME NEW d \in Events, NEW e \in Events, d < e, Overtaken(d, e)'
               PROVE  <<d, e>> \in overlaps
    BY <1>a, Zenon DEF OvertakenInHand
  <2>1. \/ fate'[d] = "stamped" /\ e <= n
        \/ fate'[d] = "buffered" /\ fate'[e] \in {"writing", "written"}
        \/ fate'[d] = "writing" /\ fate'[e] = "written"
    BY <1>a, Zenon DEF Overtaken
  <2>2. d # writer
    BY <2>1, <1>6, Zenon
  <2>3. fate'[d] = fate[d] /\ fate[d] # "writing"
    BY <2>2, <1>6, <1>b, Zenon
  <2>4. fate'[e] \in {"writing", "written"} => fate[e] \in {"writing", "written"}
    BY <1>6, <1>d, Zenon
  <2>5. Overtaken(d, e)
    BY <2>1, <2>3, <2>4, Zenon DEF Overtaken
  <2> QED
    BY <2>5, <1>o, Zenon
<1>8. SentInOrder'
  BY <1>a, Zenon DEF InOrder, SentInOrder
<1>9. Numbered'
  <2> SUFFICES ASSUME NEW e \in Events PROVE id'[e] <= lastId + 1
    BY <1>a, Zenon DEF Numbered
  <2>1. id'[e] = lastId + 1 \/ id'[e] = id[e]
    BY <1>6, Zenon
  <2> QED
    BY <2>1, <1>d, <1>b
<1>10. ListedByTime'
  <2> SUFFICES ASSUME NEW d \in Events, NEW e \in Events, 0 < id'[e], id'[e] < id'[d], d < e
               PROVE  <<d, e>> \in overlaps
    BY <1>a, Zenon DEF ListedByTime
  <2>1. e # writer
    <3>1. ASSUME e = writer PROVE FALSE
      <4>1. id'[e] = lastId + 1 /\ (id'[d] = lastId + 1 \/ id'[d] = id[d])
        BY <3>1, <1>6, Zenon
      <4> QED
        BY <4>1, <1>d, <1>b
    <3> QED
      BY <3>1, Zenon
  <2>2. id'[e] = id[e]
    BY <2>1, <1>6, Zenon
  <2>3. CASE d = writer
    <3>1. id[e] # 0
      BY <2>2, <1>d
    <3>2. Overtaken(d, e)
      BY <3>1, <2>3, <1>b, <1>d, Zenon DEF Overtaken
    <3> QED
      BY <3>2, <1>o, Zenon
  <2>4. CASE d # writer
    <3>1. id'[d] = id[d]
      BY <2>4, <1>6, Zenon
    <3>2. 0 < id[e] /\ id[e] < id[d]
      BY <3>1, <2>2, Zenon
    <3> QED
      BY <3>2, Zenon DEF InOrder, ListedByTime
  <2> QED
    BY <2>3, <2>4, Zenon
<1> QED
  BY <1>7, <1>8, <1>9, <1>10, Zenon DEF InOrder

\* Every step keeps the order.
LEMMA InOrderStep ==
    ASSUME BootTypes, Where, Quiet, Worked, InOrder, [Next]_vars
    PROVE  InOrder'
<1>a. AuditTypes /\ Placed
  BY Zenon DEF Where
<1>b. id \in [Events -> Nat] /\ lastId \in Nat /\ fate \in [Events -> Fates]
  BY WhereFacts, Zenon
<1>1. ASSUME /\ n' = n /\ overlaps' = overlaps /\ lastId' = lastId
             /\ buffer' = buffer \/ buffer' = <<>>
             /\ \A e \in Events : id'[e] = id[e] \/ id'[e] = 0
             /\ \A e \in Events : \/ fate'[e] = fate[e]
                                  \/ fate'[e] \notin {"stamped", "buffered", "writing", "written"}
      PROVE  InOrder'
  <2>1. OvertakenInHand'
    BY <1>1, OvertakenLess, Zenon DEF InOrder
  <2>2. SentInOrder'
    <3>1. CASE buffer' = buffer
      BY <1>1, <3>1, Zenon DEF InOrder, SentInOrder
    <3>2. CASE buffer' = <<>>
      <4>1. DOMAIN buffer' = {}
        BY <3>2
      <4> QED
        BY <4>1, Zenon DEF SentInOrder
    <3> QED
      BY <1>1, <3>1, <3>2, Zenon
  <2>3. overlaps \subseteq overlaps'
    BY <1>1, Zenon
  <2>4. Numbered' /\ ListedByTime'
    BY <1>1, <1>b, <2>3, ListedLess, Zenon DEF InOrder
  <2> QED
    BY <2>1, <2>2, <2>4, Zenon DEF InOrder
<1>2. UNCHANGED eventVars => InOrder'
  BY <1>1, Zenon DEF eventVars
<1>3. ASSUME NEW a \in Actors, NEW x \in {Off, Rest, Busy}, Turns(a, x) PROVE InOrder'
  BY <1>1, <1>3, Zenon DEF Turns
<1>4. Serve(Self) => InOrder'
  BY <1>1, Zenon DEF Serve, NewRecorder
<1>5. ASSUME NEW a \in Actors, Stamp(a) PROVE InOrder'
  <2>1. n + 1 \in Events
    BY <1>5, StampBound, Zenon DEF Stamp
  <2> QED
    BY <1>5, <2>1, InOrderStamp, Zenon
<1>6. InsertFails => InOrder'
  <2> SUFFICES ASSUME InsertFails PROVE InOrder'
    OBVIOUS
  <2>1. /\ UNCHANGED <<n, overlaps, lastId, buffer, id>>
        /\ fate' = [fate EXCEPT ![writer] = "failed"]
    BY Zenon DEF InsertFails, Moved
  <2>2. \A e \in Events : fate'[e] = fate[e] \/ fate'[e] = "failed"
    BY <2>1, <1>b, Zenon
  <2> QED
    BY <1>1, <2>1, <2>2, Zenon
<1>7. PruneAuditLogs => InOrder'
  <2> SUFFICES ASSUME PruneAuditLogs PROVE InOrder'
    OBVIOUS
  <2>1. /\ UNCHANGED <<n, overlaps, lastId, buffer>>
        /\ \A e \in Events : id'[e] = id[e] \/ id'[e] = 0
        /\ \A e \in Events : fate'[e] = fate[e] \/ fate'[e] = "pruned"
    BY Zenon DEF PruneAuditLogs
  <2> QED
    BY <1>1, <2>1, Zenon
<1>8. Exits => InOrder'
  <2> SUFFICES ASSUME Exits PROVE InOrder'
    OBVIOUS
  <2>1. /\ UNCHANGED <<n, overlaps, lastId, id>> /\ buffer' = <<>>
        /\ \A e \in Events : fate'[e] = fate[e] \/ fate'[e] \in {"lost", "unsent"}
    BY Zenon DEF Exits, Vanish
  <2> QED
    BY <1>1, <2>1, Zenon
<1> QED
  BY <1>2, <1>3, <1>4, <1>5, <1>6, <1>7, <1>8, <1>a, AuditKinds, InOrderSends, InOrderTake,
     InOrderInsert, Zenon

-----------------------------------------------------------------------------
(* Losses have their causes.                                                *)

\* Every step leaves the memory empty outside of run(), and the channel closed at its end.
LEMMA QuietStep ==
    ASSUME BootTypes, Where, Quiet, [Next]_vars
    PROVE  Quiet'
<1>a. /\ act \in [Actors -> {Off, Rest, Busy} \union Events] /\ pc \in [Replicas -> Pcs]
      /\ Self \in Replicas /\ Reaper \in Actors /\ Reaper \notin Handlers
      /\ \A h \in Handlers : h \in Actors
  BY WhereFacts, ConstantsAssumption, Zenon DEF BootTypes, Replicas, Actors
<1>e. excused \subseteq excused'
  BY Common, Zenon
<1>q. /\ ~Running => buffer = <<>> /\ writer = 0 /\ \A a \in Actors : act[a] = Off
      /\ closed <=> pc[Self] \in {"closing", "flushed"}
      /\ pc[Self] = "flushed" => buffer = <<>> /\ writer = 0
      /\ closed /\ "late" \notin excused => \A h \in Handlers : act[h] = Rest
  BY Zenon DEF Quiet
<1> DEFINE Early == {"off", "migrate", "seed", "create"}
<1>r. Running <=> pc[Self] \notin Early
  BY <1>a, Zenon DEF Running, Pcs
<1>1. ASSUME UNCHANGED <<buffer, closed, writer, act>>,
             pc'[Self] = pc[Self] \/ (pc[Self] \in Early /\ pc'[Self] \in Early)
      PROVE  Quiet'
  <2>1. Running' <=> Running
    BY <1>1, <1>r, Zenon DEF Running
  <2>2. pc'[Self] \in {"closing", "flushed"} <=> pc[Self] \in {"closing", "flushed"}
    BY <1>1, Zenon
  <2>3. pc'[Self] = "flushed" => pc[Self] = "flushed"
    BY <1>1, Zenon
  <2> QED
    BY <1>1, <1>q, <1>e, <2>1, <2>2, <2>3, Zenon DEF Quiet
<1>2. ASSUME Running, UNCHANGED <<buffer, closed, writer, pc>>,
             NEW a \in Actors, NEW x, act' = [act EXCEPT ![a] = x],
             a = Reaper \/ ~closed \/ x = Rest \/ act[a] # Rest
      PROVE  Quiet'
  <2>1. act'[a] = x /\ \A b \in Actors : b # a => act'[b] = act[b]
    BY <1>2, <1>a, Zenon
  <2>2. ASSUME closed, "late" \notin excused', NEW h \in Handlers PROVE act'[h] = Rest
    <3>1. act[h] = Rest
      BY <2>2, <1>q, <1>e, Zenon
    <3> QED
      BY <3>1, <2>1, <2>2, <1>2, <1>a, Zenon
  <2>3. Running'
    BY <1>2, Zenon DEF Running
  <2> QED
    BY <1>2, <1>q, <2>2, <2>3, Zenon DEF Quiet
<1>3. ASSUME Running, UNCHANGED <<closed, pc>>, ~closed PROVE Quiet'
  <2>1. Running'
    BY <1>3, Zenon DEF Running
  <2>2. pc'[Self] \notin {"closing", "flushed"}
    BY <1>3, <1>q, Zenon
  <2> QED
    BY <1>3, <2>1, <2>2, Zenon DEF Quiet
<1>4. ASSUME NEW i \in Replicas, \/ ReadSchema(i) \/ ApplyMigration(i) \/ SeedGet(i)
                                \/ SeedCreate(i)
      PROVE  Quiet'
  <2>1. /\ UNCHANGED <<buffer, closed, writer, act>>
        /\ pc[i] \in Early
        /\ pc' = pc \/ \E x \in Early : pc' = [pc EXCEPT ![i] = x]
    BY <1>4, Zenon DEF ReadSchema, ApplyMigration, SeedGet, SeedCreate, Goto, auditVars
  <2>2. pc'[Self] = pc[Self] \/ (pc[Self] \in Early /\ pc'[Self] \in Early)
    BY <2>1, <1>a, Zenon
  <2> QED
    BY <1>1, <2>1, <2>2, Zenon
<1>5. ASSUME NEW i \in Replicas, i # Self, Serve(i) PROVE Quiet'
  <2>1. UNCHANGED <<buffer, closed, writer, act>> /\ pc'[Self] = pc[Self]
    BY <1>5, <1>a, Zenon DEF Serve, Goto
  <2> QED
    BY <1>1, <2>1, Zenon
<1>6. Serve(Self) => Quiet'
  <2> SUFFICES ASSUME Serve(Self) PROVE Quiet'
    OBVIOUS
  <2>1. pc'[Self] = "up" /\ closed' = FALSE
    BY <1>a, Zenon DEF Serve, Goto, NewRecorder
  <2> QED
    BY <2>1, Zenon DEF Quiet, Running
<1>7. DeleteRepository \/ StartLeading \/ StopLeading \/ Signal \/ PruneAuditLogs \/ UNCHANGED vars
         => Quiet'
  <2>1. DeleteRepository \/ StartLeading \/ StopLeading \/ Signal \/ PruneAuditLogs
           \/ UNCHANGED vars
         => UNCHANGED <<buffer, closed, writer, act>> /\ pc' = pc
    BY Zenon DEF DeleteRepository, StartLeading, StopLeading, Signal, PruneAuditLogs, Leaves,
       auditVars, bootVars, vars
  <2> QED
    BY <1>1, <2>1, Zenon
<1>8. ASSUME NEW h \in Handlers, Request(h) PROVE Quiet'
  <2>1. /\ Running /\ UNCHANGED <<closed, pc>> /\ pc[Self] = "up"
    BY <1>8, Zenon DEF Request, Running, bootVars
  <2>2. ~closed
    BY <2>1, <1>q, Zenon
  <2> QED
    BY <1>3, <2>1, <2>2, Zenon
<1>9. ReapArtifact \/ ReaperEnds => Quiet'
  <2>1. ReapArtifact \/ ReaperEnds =>
           /\ Running /\ UNCHANGED <<buffer, closed, writer, pc>>
           /\ \E x : act' = [act EXCEPT ![Reaper] = x]
    BY Zenon DEF ReapArtifact, ReaperEnds, bootVars
  <2> QED
    BY <1>2, <1>a, <2>1, Zenon
<1>10. BecomeReady => Quiet'
  <2>1. BecomeReady =>
           /\ Running /\ UNCHANGED <<buffer, closed, writer, pc>>
           /\ act' = act \/ \E x : act' = [act EXCEPT ![Reaper] = x]
    BY Zenon DEF BecomeReady, bootVars
  <2> QED
    BY <1>1, <1>2, <1>a, <2>1, Zenon
<1>11. ASSUME NEW a \in Actors, Stamp(a) PROVE Quiet'
  <2>1. /\ Running /\ UNCHANGED <<buffer, closed, writer, pc>> /\ act[a] # Rest
        /\ act' = [act EXCEPT ![a] = n + 1]
    BY <1>11, EventNumbers, Zenon DEF Stamp, bootVars
  <2> QED
    BY <1>2, <2>1, Zenon
<1>12. Exits => Quiet'
  <2> SUFFICES ASSUME Exits PROVE Quiet'
    OBVIOUS
  <2>1. /\ pc'[Self] = "off" /\ \A a \in Actors : act'[a] = Off
        /\ buffer' = <<>> /\ writer' = 0 /\ closed' = FALSE
    BY Zenon DEF Exits
  <2> QED
    BY <2>1, Zenon DEF Quiet, Running
<1>13. ASSUME NEW a \in Actors, Send(a), ~Exits PROVE Quiet'
  <2>1. /\ Running /\ UNCHANGED <<closed, writer, pc>> /\ act' = [act EXCEPT ![a] = Rest]
        /\ closed => buffer' = buffer
    <3>1. ~(closed /\ a = Reaper)
      <4> SUFFICES ASSUME closed, a = Reaper PROVE FALSE
        OBVIOUS
      <4>1. act[a] > 0 /\ Exit([fate EXCEPT ![act[a]] = "unsent"])
            /\ excused' = excused \union {"reaper panic"}
        BY <1>13, Zenon DEF Send
      <4>2. act[a] \in Events /\ fate[act[a]] = "stamped" /\ fate \in [Events -> Fates]
        BY <1>a, <4>1, EventNumbers, WhereFacts, Zenon
      <4>3. Vanish([fate EXCEPT ![act[a]] = "unsent"]) = Vanish(fate)
        BY <4>2, VanishTwice, Zenon
      <4>4. excused' \cap {"crash", "reaper panic"} # {}
        BY <4>1, Zenon
      <4> QED
        BY <4>1, <4>3, <4>4, <1>a, <1>13, Zenon DEF Exits, Exit, Goto
    <3> QED
      BY <3>1, <1>13, Zenon DEF Send, bootVars
  <2>2. CASE ~closed
    BY <1>3, <2>1, <2>2, Zenon
  <2>3. CASE closed
    BY <1>2, <2>1, <2>3, Zenon
  <2> QED
    BY <2>2, <2>3, Zenon
<1>14. TakeEvent \/ InsertAuditLog \/ InsertFails => Quiet'
  <2> SUFFICES ASSUME TakeEvent \/ InsertAuditLog \/ InsertFails PROVE Quiet'
    OBVIOUS
  <2>1. Running /\ UNCHANGED <<closed, act, pc>> /\ (buffer # <<>> \/ writer # 0)
    BY Zenon DEF TakeEvent, InsertAuditLog, InsertFails, bootVars
  <2>2. Running' /\ pc'[Self] # "flushed"
    BY <2>1, <1>q, Zenon DEF Running
  <2> QED
    BY <2>1, <2>2, <1>q, <1>e, Zenon DEF Quiet
<1>15. Shutdown => Quiet'
  <2> SUFFICES ASSUME Shutdown PROVE Quiet'
    OBVIOUS
  <2>1. pc[Self] = "up" /\ pc'[Self] = "draining" /\ closed' = closed
    BY <1>a, Zenon DEF Shutdown, Goto, auditVars
  <2>2. ~closed
    BY <2>1, <1>q, Zenon
  <2> QED
    BY <2>1, <2>2, Zenon DEF Quiet, Running
<1>16. Drained \/ DrainTimeout \/ ListenerFails => Quiet'
  <2> SUFFICES ASSUME Drained \/ DrainTimeout \/ ListenerFails PROVE Quiet'
    OBVIOUS
  <2>1. /\ pc'[Self] = "closing" /\ closed' = TRUE /\ act' = act
        /\ Idle \/ "late" \in excused'
    BY <1>a, Zenon DEF Drained, DrainTimeout, ListenerFails, Close, Goto
  <2> QED
    BY <2>1, Zenon DEF Quiet, Running, Idle
<1>17. Flushed => Quiet'
  <2> SUFFICES ASSUME Flushed PROVE Quiet'
    OBVIOUS
  <2>1. /\ pc[Self] = "closing" /\ pc'[Self] = "flushed"
        /\ UNCHANGED <<closed, act, buffer, writer>>
        /\ buffer = <<>> /\ writer = 0
    BY <1>a, Zenon DEF Flushed, Goto, WriterDone, auditVars
  <2>2. closed
    BY <2>1, <1>q, Zenon
  <2> QED
    BY <2>1, <2>2, <1>q, <1>e, Zenon DEF Quiet, Running
<1>18. Crash /\ ~Exits => Quiet'
  <2> SUFFICES ASSUME Crash, ~Exits PROVE Quiet'
    OBVIOUS
  <2>1. ~(Exit(fate) /\ excused' = excused \union {"crash"})
    <3>1. Exit(fate) => pc'[Self] = "off"
      BY <1>a, Zenon DEF Exit, Goto
    <3>2. excused' = excused \union {"crash"} => excused' \cap {"crash", "reaper panic"} # {}
      BY Zenon
    <3> QED
      BY <3>1, <3>2, Zenon DEF Exits, Exit
  <2>2. PICK i \in Peers : Goto(i, "off") /\ UNCHANGED auditVars
    BY <2>1, Zenon DEF Crash
  <2>3. pc'[Self] = pc[Self]
    BY <2>2, <1>a, ConstantsAssumption, Zenon DEF Goto
  <2> QED
    BY <1>1, <2>2, <2>3, Zenon DEF auditVars
<1>19. CloseStore => Exits
  BY <1>a, Zenon DEF CloseStore, Exits, Exit, Goto
<1> QED
  BY <1>4, <1>5, <1>6, <1>7, <1>8, <1>9, <1>10, <1>11, <1>12, <1>13, <1>14, <1>15, <1>16, <1>17,
     <1>18, <1>19, NextKinds, Zenon

\* An event is lost, and refused, only with a cause.
LEMMA CausesStep ==
    ASSUME BootTypes, Where, Quiet, BufferedIsFlushed, RefusedOnlyLate, [Next]_vars
    PROVE  BufferedIsFlushed' /\ RefusedOnlyLate'
<1>a. /\ AuditTypes /\ Placed /\ fate \in [Events -> Fates] /\ excused \subseteq excused'
      /\ act \in [Actors -> {Off, Rest, Busy} \union Events]
  BY WhereFacts, Common, Zenon DEF Where
<1> DEFINE Died == excused' \cap {"crash", "reaper panic"} # {}
           Late == "late" \in excused'
<1>l. ASSUME NEW e \in Events, fate[e] = "lost" PROVE Died
  BY <1>l, <1>a, Zenon DEF BufferedIsFlushed
<1>r. ASSUME NEW e \in Events, fate[e] = "refused" PROVE Late
  BY <1>r, <1>a, Zenon DEF RefusedOnlyLate
<1> SUFFICES \A e \in Events : (fate'[e] = "lost" => Died) /\ (fate'[e] = "refused" => Late)
  BY Zenon DEF BufferedIsFlushed, RefusedOnlyLate
<1> SUFFICES ASSUME NEW e \in Events
             PROVE  (fate'[e] = "lost" => Died) /\ (fate'[e] = "refused" => Late)
  BY Zenon
<1> HIDE DEF Died, Late
<1>1. CASE fate'[e] = fate[e] \/ fate'[e] \notin {"lost", "refused"}
  BY <1>1, <1>l, <1>r, Zenon
<1>2. ASSUME \/ UNCHANGED eventVars \/ Serve(Self)
             \/ (\E a \in Actors, x \in {Off, Rest, Busy} : Turns(a, x))
      PROVE  fate'[e] = fate[e]
  BY <1>2, Zenon DEF eventVars, Serve, Turns
<1>3. ASSUME \/ \E a \in Actors : Stamp(a)
             \/ TakeEvent \/ InsertAuditLog \/ InsertFails \/ PruneAuditLogs
      PROVE  fate'[e] = fate[e] \/ fate'[e] \notin {"lost", "refused"}
  <2>1. \/ \E c : \E x \in {"stamped", "writing", "written", "failed"} :
              fate' = [fate EXCEPT ![c] = x]
        \/ PruneAuditLogs
    BY <1>3, Zenon DEF Stamp, TakeEvent, InsertAuditLog, InsertFails, Moved
  <2>2. PruneAuditLogs => fate'[e] = fate[e] \/ fate'[e] = "pruned"
    BY Zenon DEF PruneAuditLogs
  <2> QED
    BY <1>a, <2>1, <2>2, Zenon
<1>4. ASSUME NEW a \in Actors, Running, Sends(a)
      PROVE  (fate'[e] = "lost" => Died) /\ (fate'[e] = "refused" => Late)
  <2>1. CASE closed /\ a \in Handlers
    <3>1. act[a] > 0
      BY <1>4, Zenon DEF Sends
    <3>2. act[a] # Rest
      BY <3>1, EventNumbers, Zenon
    <3>3. Late
      BY <3>2, <2>1, <1>a, Zenon DEF Quiet, Late
    <3>4. fate'[e] = fate[e] \/ fate'[e] \in {"buffered", "dropped", "refused"}
      BY <1>4, <1>a, Zenon DEF Sends, Moved
    <3> QED
      BY <3>3, <3>4, <1>l, Zenon
  <2>2. CASE ~(closed /\ a \in Handlers)
    <3>1. fate'[e] = fate[e] \/ fate'[e] \in {"buffered", "dropped"}
      BY <1>4, <2>2, <1>a, Zenon DEF Sends, Moved
    <3> QED
      BY <3>1, <1>1, Zenon
  <2> QED
    BY <2>1, <2>2, Zenon
<1>5. ASSUME Exits
      PROVE  (fate'[e] = "lost" => Died) /\ (fate'[e] = "refused" => Late)
  <2>1. \/ fate'[e] = fate[e] \/ fate'[e] = "unsent"
        \/ fate'[e] = "lost" /\ fate[e] \in {"buffered", "writing"}
    BY <1>5, Zenon DEF Exits, Vanish
  <2>2. CASE fate'[e] = "lost" /\ fate[e] \in {"buffered", "writing"}
    <3>1. CASE pc[Self] = "flushed"
      <4>1. buffer = <<>> /\ writer = 0
        BY <3>1, Zenon DEF Quiet
      <4>2. e \notin Range(buffer)
        <5>1. DOMAIN buffer = {}
          BY <4>1
        <5> QED
          BY <5>1, Zenon DEF Range
      <4>3. writer # e
        BY <4>1, EventNumbers, Zenon
      <4> QED
        BY <4>2, <4>3, <2>2, WhereFacts, Zenon
    <3>2. CASE pc[Self] # "flushed"
      BY <3>2, <2>2, <1>5, Zenon DEF Exits, Died
    <3> QED
      BY <3>1, <3>2, Zenon
  <2>3. CASE fate'[e] = fate[e] \/ fate'[e] = "unsent"
    BY <2>3, <1>1, Zenon
  <2> QED
    BY <2>1, <2>2, <2>3, Zenon
<1> QED
  BY <1>1, <1>2, <1>3, <1>4, <1>5, <1>a, AuditKinds, Zenon

-----------------------------------------------------------------------------
(* The flags.                                                               *)

Flags ==
    /\ mode \in Modes
    /\ cancelled \in BOOLEAN /\ term \in BOOLEAN /\ ready \in BOOLEAN /\ closed \in BOOLEAN
    /\ starting \in {"no", "live", "stale"}

LEMMA FlagsStep ==
    ASSUME Flags, [Next]_vars
    PROVE  Flags'
<1>a. /\ mode' = mode /\ mode \in Modes
      /\ cancelled \in BOOLEAN /\ term \in BOOLEAN /\ ready \in BOOLEAN /\ closed \in BOOLEAN
      /\ starting \in {"no", "live", "stale"}
  BY Common, Zenon DEF Flags
<1> SUFFICES /\ cancelled' \in BOOLEAN /\ term' \in BOOLEAN /\ ready' \in BOOLEAN
             /\ closed' \in BOOLEAN /\ starting' \in {"no", "live", "stale"}
  BY <1>a, Zenon DEF Flags
<1> DEFINE Goal == /\ cancelled' \in BOOLEAN /\ term' \in BOOLEAN /\ ready' \in BOOLEAN
                   /\ closed' \in BOOLEAN /\ starting' \in {"no", "live", "stale"}
           Same == UNCHANGED <<cancelled, term, starting, ready, closed>>
<1>s. Same => Goal
  BY <1>a, Zenon
<1>x. \A f : Exit(f) => Goal
  BY Zenon DEF Exit
<1>1. ASSUME NEW i \in Replicas, \/ ReadSchema(i) \/ ApplyMigration(i) \/ SeedGet(i)
                                \/ SeedCreate(i)
      PROVE  Same
  BY <1>1, Zenon DEF ReadSchema, ApplyMigration, SeedGet, SeedCreate, leadVars, auditVars
<1>2. ASSUME NEW i \in Replicas, Serve(i) PROVE Goal
  <2>1. CASE i = Self
    BY <1>2, <2>1, Zenon DEF Serve, NewRecorder, ReadyAtStart
  <2>2. CASE i # Self
    BY <1>2, <2>2, <1>s, Zenon DEF Serve, leadVars
  <2> QED
    BY <2>1, <2>2, Zenon
<1>3. ASSUME \/ DeleteRepository \/ ReapArtifact \/ ReaperEnds \/ TakeEvent \/ InsertAuditLog
             \/ InsertFails \/ PruneAuditLogs \/ Shutdown \/ Flushed \/ UNCHANGED vars
      PROVE  Same
  BY <1>3, Zenon DEF DeleteRepository, ReapArtifact, ReaperEnds, TakeEvent, InsertAuditLog,
     InsertFails, PruneAuditLogs, Shutdown, Flushed, leadVars, auditVars, vars
<1>4. ASSUME NEW a \in Actors, Request(a) \/ Stamp(a) PROVE Same
  BY <1>4, Zenon DEF Request, Stamp, leadVars
<1>5. ASSUME NEW a \in Actors, Send(a) PROVE Goal
  <2>1. (\E f : Exit(f)) \/ Same
    BY <1>5, Zenon DEF Send, leadVars
  <2> QED
    BY <2>1, <1>s, <1>x, Zenon
<1>6. StartLeading => Goal
  BY <1>a, Zenon DEF StartLeading, Leaves, auditVars
<1>7. BecomeReady => Goal
  BY <1>a, Zenon DEF BecomeReady
<1>8. StopLeading => Goal
  <2> SUFFICES ASSUME StopLeading PROVE Goal
    OBVIOUS
  <2>1. /\ term' = FALSE /\ ready' = ReadyAfterStop /\ UNCHANGED <<cancelled, closed>>
        /\ starting' = IF starting = "live" THEN "stale" ELSE starting
    BY Zenon DEF StopLeading, Leaves, auditVars
  <2>2. starting' \in {"no", "live", "stale"}
    BY <2>1, <1>a, Zenon
  <2>3. ready' \in BOOLEAN
    BY <2>1, Zenon DEF ReadyAfterStop
  <2> QED
    BY <2>1, <2>2, <2>3, <1>a, Zenon
<1>9. Signal => Goal
  BY <1>a, Zenon DEF Signal, leadVars, auditVars
<1>10. Drained \/ DrainTimeout \/ ListenerFails => Goal
  BY <1>a, Zenon DEF Drained, DrainTimeout, ListenerFails, Close, leadVars
<1>11. CloseStore => Goal
  BY <1>x, Zenon DEF CloseStore
<1>12. Crash => Goal
  <2>1. Crash => Exit(fate) \/ Same
    BY Zenon DEF Crash, leadVars, auditVars
  <2> QED
    BY <2>1, <1>s, <1>x, Zenon
<1>13. \A h \in Handlers : h \in Actors
  BY Zenon DEF Actors
<1> HIDE DEF Goal, Same
<1>14. Goal
  BY <1>s, <1>1, <1>2, <1>3, <1>4, <1>5, <1>6, <1>7, <1>8, <1>9, <1>10, <1>11, <1>12, <1>13,
     NextKinds, Zenon
<1> QED
  BY <1>14, Zenon DEF Goal

-----------------------------------------------------------------------------
(* The theorems.                                                            *)

Booted == BootTypes /\ Migrated /\ Seeded
Life == Booted /\ Flags /\ Led /\ Where /\ Accounted

LEMMA InitLife ==
    ASSUME Init
    PROVE  Life
<1>a. /\ mode \in Modes
      /\ pc = [i \in Replicas |-> "off"] /\ known = [i \in Replicas |-> {}]
      /\ todo = [i \in Replicas |-> <<>>] /\ repos = {}
      /\ cancelled = FALSE /\ term = FALSE /\ starting = "no" /\ ready = FALSE /\ closed = FALSE
  BY Zenon DEF Init
<1>b. /\ act = [a \in Actors |-> Off] /\ buffer = <<>> /\ writer = 0
      /\ id = [e \in Events |-> 0] /\ lastId = 0 /\ n = 0
      /\ fate = [e \in Events |-> "none"] /\ work = 0
  BY Zenon DEF Init
<1>c. 0 \in Nat /\ MaxWork \in Nat /\ 0 \in 0..MaxWork /\ 0 <= MaxWork
  BY ConstantsAssumption
<1>d. PICK k \in 0..1 : schema = 1..k
  BY Zenon DEF Init
<1>1. BootTypes
  <2>1. schema \subseteq Nat \ {0}
    BY <1>d
  <2>2. << >> \in Seq(Range(Seeds))
    OBVIOUS
  <2>3. pc \in [Replicas -> Pcs]
    BY <1>a, Zenon DEF Pcs
  <2>4. /\ known \in [Replicas -> SUBSET Nat] /\ todo \in [Replicas -> Seq(Range(Seeds))]
        /\ repos \subseteq Range(Seeds)
    BY <1>a, <2>2, Zenon
  <2> QED
    BY <2>1, <2>3, <2>4, Zenon DEF BootTypes
<1>2. Migrated
  <2>1. k \in Nat
    OBVIOUS
  <2>2. \A i \in Replicas : pc[i] # "migrate"
    BY <1>a, Zenon
  <2> QED
    BY <1>d, <2>1, <2>2, Zenon DEF Migrated
<1>3. Seeded
  <2>1. \A i \in Replicas : pc[i] = "off"
    BY <1>a, Zenon
  <2> QED
    BY <1>a, <2>1, Zenon DEF Seeded
<1>4. Flags /\ Led
  BY <1>a, Zenon DEF Flags, Led
<1>5. << >> \in Seq(Events) /\ Len(<< >>) <= BufferSize /\ DOMAIN << >> = {}
  BY ConstantsAssumption
<1>6. AuditTypes
  <2>1. act \in [Actors -> {Off, Rest, Busy} \union Events]
    BY <1>b, Zenon
  <2>2. fate \in [Events -> Fates]
    BY <1>b, Zenon DEF Fates
  <2>3. id \in [Events -> Nat]
    BY <1>b, <1>c, Zenon
  <2> QED
    BY <1>b, <1>c, <1>5, <2>1, <2>2, <2>3, Zenon DEF AuditTypes
<1>7. \A e \in Events : fate[e] = "none" /\ id[e] = 0 /\ e # 0 /\ e # Off /\ e > 0
  BY <1>b, EventNumbers, Zenon
<1>8. Range(buffer) = {} /\ \A a \in Actors : act[a] = Off
  BY <1>b, <1>5, Zenon DEF Range
<1>9. Placed
  <2> SUFFICES ASSUME NEW e \in Events PROVE Place(e, fate[e], act, buffer, writer, id[e])
    BY Zenon DEF Placed
  <2> QED
    BY <1>7, <1>8, <1>b, Zenon DEF Place
<1>10. HeldOnce
  <2>1. \A a \in Actors : ~(act[a] > 0)
    BY <1>8, EventNumbers, Zenon
  <2> QED
    BY <1>5, <1>7, <1>b, <2>1, Zenon DEF HeldOnce
<1>11. Quiet
  <2>1. Self \in Replicas /\ pc[Self] = "off"
    BY <1>a, Zenon DEF Replicas
  <2> QED
    BY <1>a, <1>b, <1>8, <2>1, Zenon DEF Quiet
<1>12. Worked
  <2>1. Due([a \in Actors |-> 0], act, n, work)
    BY <1>8, EventNumbers, Zenon DEF Due
  <2>2. [a \in Actors |-> 0] \in [Actors -> Nat] /\ 0 <= 0
    BY <1>c
  <2> QED
    BY <2>1, <2>2, <1>b, <1>c, Zenon DEF Worked
<1>13. InOrder
  <2>1. OvertakenInHand
    BY <1>7, Zenon DEF OvertakenInHand, Overtaken
  <2>2. SentInOrder
    BY <1>5, <1>b, Zenon DEF SentInOrder
  <2>3. Numbered /\ ListedByTime
    BY <1>7, <1>b DEF Numbered, ListedByTime
  <2> QED
    BY <2>1, <2>2, <2>3, Zenon DEF InOrder
<1>14. BufferedIsFlushed /\ RefusedOnlyLate
  BY <1>7, Zenon DEF BufferedIsFlushed, RefusedOnlyLate
<1> QED
  BY <1>1, <1>2, <1>3, <1>4, <1>6, <1>9, <1>10, <1>11, <1>12, <1>13, <1>14, Zenon
     DEF Life, Booted, Where, Accounted

LEMMA NextLife ==
    ASSUME Life, [Next]_vars
    PROVE  Life'
<1>a. /\ BootTypes /\ Migrated /\ Seeded /\ Flags /\ Led /\ Where /\ Quiet /\ Worked /\ InOrder
      /\ BufferedIsFlushed /\ RefusedOnlyLate
  BY Zenon DEF Life, Booted, Accounted
<1>1. Migrated' /\ schema' \subseteq Nat \ {0} /\ known' \in [Replicas -> SUBSET Nat]
  BY <1>a, MigratedStep, Zenon
<1>2. /\ Seeded' /\ pc' \in [Replicas -> Pcs] /\ repos' \subseteq Range(Seeds)
      /\ todo' \in [Replicas -> Seq(Range(Seeds))]
  BY <1>a, SeededStep, Zenon
<1>3. BootTypes'
  BY <1>1, <1>2, Zenon DEF BootTypes
<1>4. starting \in {"no", "live", "stale"}
  BY <1>a, Zenon DEF Flags
<1>5. Led'
  BY <1>a, <1>4, LedStep, Zenon
<1>6. Flags' /\ Where' /\ Quiet' /\ Worked' /\ InOrder'
  BY <1>a, FlagsStep, WhereStep, QuietStep, WorkedStep, InOrderStep, Zenon
<1>7. BufferedIsFlushed' /\ RefusedOnlyLate'
  BY <1>a, CausesStep, Zenon
<1>8. HeldOnce'
  BY <1>6, Zenon DEF Where
<1> QED
  BY <1>1, <1>2, <1>3, <1>5, <1>6, <1>7, <1>8, Zenon DEF Life, Booted, Accounted

\* The invariant of the whole process, of its start (migrate, SeedDefaults), its terms
\* (startLeading, stopLeading) and its audit events (Recorder, Server.Run).
THEOREM LifeInvariant == Spec => []Life
BY InitLife, NextLife, PTL DEF Spec

\* However many replicas of whatever versions start on the database at once, crash and
\* start again, the migrations applied are the first ones, and a replica that has started
\* has seen every default repository, groups with their members (migrate, SeedDefaults).
THEOREM StartsComplete == Spec => []StartedIsComplete
<1>1. Life => StartedIsComplete
  <2> SUFFICES ASSUME Life PROVE SchemaIsPrefix /\ SeedsAreThere
    BY Zenon DEF StartedIsComplete
  <2>1. PICK k \in Nat : schema = 1..k
    BY Zenon DEF Life, Booted, Migrated
  <2>2. SchemaIsPrefix
    BY <2>1 DEF SchemaIsPrefix
  <2>3. SeedsAreThere
    <3>1. repos \subseteq Range(Seeds)
      BY Zenon DEF Life, Booted, BootTypes
    <3>2. "deleted" \notin excused =>
             /\ \A i \in Replicas : pc[i] = "up" => Range(Seeds) \subseteq repos
             /\ \A r \in repos : Members[r] \subseteq repos
      BY Zenon DEF Life, Booted, Seeded
    <3> QED
      BY <3>1, <3>2, Zenon DEF SeedsAreThere
  <2> QED
    BY <2>2, <2>3, Zenon
<1> QED
  BY <1>1, LifeInvariant, PTL

\* On a shared volume only the leader answers ready, but for the stopLeading that overtakes
\* its startLeading (handleReadyz, SetReady).
THEOREM ReadyLeads == Spec => []ReadyOnlyLeading
<1>1. Life => ReadyOnlyLeading
  BY Zenon DEF Life, Led, ReadyOnlyLeading
<1> QED
  BY <1>1, LifeInvariant, PTL

\* For every size of the channel and any number of handlers, an audit event is in one place,
\* is lost or refused only with a cause, and is listed in the order of the stamps but for
\* the events that were in hand together (Recorder.Record, Recorder.Close, Server.Run).
THEOREM EventsAreAccounted == Spec => []EventsAccounted
<1>1. Life => EventsAccounted
  <2> SUFFICES ASSUME Life PROVE EventsAccounted
    OBVIOUS
  <2>1. BootTypes /\ Flags /\ AuditTypes /\ Placed
    BY Zenon DEF Life, Booted, Where
  <2>2. {cancelled, term, ready, closed} \subseteq BOOLEAN
    BY <2>1, Zenon DEF Flags
  <2>3. TypeOK
    BY <2>1, <2>2, Zenon DEF TypeOK, BootTypes, Flags, AuditTypes, Placed, Place
  <2>4. BufferedIsFlushed /\ RefusedOnlyLate /\ ListedByTime
    BY Zenon DEF Life, Accounted, InOrder
  <2> QED
    BY <2>3, <2>4, Zenon DEF EventsAccounted
<1> QED
  BY <1>1, LifeInvariant, PTL
=============================================================================
