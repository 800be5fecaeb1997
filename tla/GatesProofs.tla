----------------------------- MODULE GatesProofs -----------------------------
(***************************************************************************)
(* The gates, for every set of clients, administrators, names and versions: *)
(* what is served was allowed and asked for, and the decisions on record    *)
(* are decisions about the repository that has the name.                    *)
(*                                                                          *)
(* The invariant says of every request what the gates behind it have seen   *)
(* at some time of it, and which gates are ahead; of every name, that its   *)
(* decisions are those of its repository unless a wipe is still to come.    *)
(* A step of a client is proved for its request and for the tables, a step  *)
(* of an administrator for the tables.                                      *)
(***************************************************************************)
EXTENDS Gates, TLAPS

-----------------------------------------------------------------------------
(* The invariants.                                                          *)

\* A group that is stored, or that a call is about to store, has members (ValidateGroupMembers).
RowsFit ==
    \A n \in Names : \A r \in repos[n] :
        r.id < nextId /\ (r.type = "group" => Cfg(r).members # <<>>)
Fits(k) ==
    k.pc = "writeConfig" =>
        /\ k.cfg # {} /\ k.id < nextId
        /\ \A g \in k.cfg : \A r \in repos[k.name] :
              r.id = k.id /\ r.type = "group" => Configs[g].members # <<>>
GroupsHaveMembers == RowsFit /\ \A x \in Admins : Fits(adm[x])

\* A call has the argument its next statement takes.
CallsCarry ==
    \A x \in Admins :
        /\ adm[x].pc = "upsertDecision" => adm[x].arg \in {"approved", "rejected"}
        /\ adm[x].pc = "decide" => adm[x].arg \in {"approved", "rejected", "gone"}
        /\ adm[x].pc = "upsertDeny" => adm[x].arg \in Versions

\* A row that nobody asked for yet has raised no alarm.
AlarmsCounted ==
    \A n \in Names : \A a \in approvals[n] : a.alarms <= 1 /\ (a.count = 0 => a.alarms = 0)

\* Some call is still to wipe the approvals, or the approvals and denies, of name n.
Wiping(n, pcs) == \E x \in Admins : adm[x].name = n /\ adm[x].pc \in pcs

\* What is on record for a name was decided for the repository that has it now, and nothing
\* is on record for a name that no repository has.
DecisionsOwned ==
    \A n \in Names \ excused :
        /\ Wiping(n, {"wipeApprovals"}) \/ \A a \in approvals[n] :
              \E r \in repos[n] : a.status # "pending" => a.epoch = r.id
        /\ Wiping(n, {"wipeApprovals", "wipeDenies"}) \/ \A v \in Versions :
              denies[<<n, v>>] \subseteq {r.id : r \in repos[n]}

\* Request r is at one of the places S, or it was served.
Got(r, S) == r.pc \in S \/ (r.pc = "done" /\ r.out = "ok")
Carried(r) == CHOOSE x \in r.res : TRUE
Running == {"resolve"} \union Stages

\* The gates ahead of request r; only PyPI's index skips the last two.
Ahead(r) ==
    /\ r.pc = "deny" => \/ r.stages = <<"approval", "vuln", "license", "engine">>
                        \/ r.kind # "artifact" /\ r.stages = <<"approval", "engine">>
    /\ r.pc \in {"approval", "mark", "setMark", "pending"} =>
          \/ r.stages = <<"vuln", "license", "engine">>
          \/ r.kind # "artifact" /\ r.stages = <<"engine">>
    /\ r.pc = "vuln" => r.stages = <<"license", "engine">>
    /\ r.pc = "license" => r.stages = <<"engine">>

\* What the gates behind request r have seen is not among the facts U that held at no time
\* of the request: nothing it asked so far denied the version, the repository that is to
\* serve it was on, its approvals and its scans allowed it.
Undenied(r, U) ==
    r.kind # "config" /\ Got(r, Running \ {"put"}) =>
        \A m \in r.tried : <<"allowed", m>> \notin U \/ (m = Head(r.todo) /\ r.pc = "deny")
Resolved(r, U) ==
    Got(r, Stages) => /\ <<"on", Head(r.todo)>> \notin U
                      /\ Carried(r).type = "proxy" \/ <<"allowed", Head(r.todo)>> \notin U
NeedsApproval(r) ==
    Carried(r).type = "proxy" /\ Cfg(Carried(r)).approval = "enforce" /\ ~Cfg(Carried(r)).auto
Approved(r, U) ==
    r.kind # "config" /\ Got(r, {"vuln", "license", "engine"}) /\ NeedsApproval(r) =>
        <<"approved", Head(r.todo)>> \notin U
\* A policy that takes the given action found nothing against the version.
Clean(action, table, U) ==
    /\ action = "block" => <<"notBad", table>> \notin U
    /\ action = "strict" => <<"good", table>> \notin U
Scanned(r, U) ==
    r.kind = "artifact" /\ ~r.failed /\ Got(r, {"license", "engine"}) =>
        Carried(r).type # "proxy" \/ Clean(Cfg(Carried(r)).vuln, "scan", U)
Licensed(r, U) ==
    r.kind = "artifact" /\ ~r.failed /\ Got(r, {"engine"}) =>
        Carried(r).type # "proxy" \/ Clean(Cfg(Carried(r)).license, "license", U)
Behind(r, U) ==
    Undenied(r, U) /\ Resolved(r, U) /\ Approved(r, U) /\ Scanned(r, U) /\ Licensed(r, U)

\* Request r of client c came in by a name the client may read, and asks for it or, of a
\* group, for its members; f is the format of the repositories.
Entered(c, r, f) ==
    /\ r.pc \in Running => r.todo # <<>> /\ (r.via \/ r.todo = <<r.target>>)
    /\ r.pc \in Stages => r.res # {}
    /\ r.version = NoVersion <=> r.kind # "artifact"
    /\ r.via => c \in Readers[r.target]
    /\ Got(r, Stages) \/ r.out = "created" =>
          r.via \/ (c \in Readers[r.target] /\ \A allowed \in Cfg(Carried(r)).acl : c \in allowed)
    /\ f = "npm" => r.link \subseteq {r.target}

Requests == \A c \in Clients : Ahead(req[c]) /\ Behind(req[c], unseen[c]) /\ Entered(c, req[c], format)

\* The inductive invariant.
GatesInv ==
    TypeOK /\ GroupsHaveMembers /\ CallsCarry /\ AlarmsCounted /\ DecisionsOwned /\ Requests

-----------------------------------------------------------------------------
(* Requests as they are written.                                            *)

Retried(r) == [r EXCEPT !.pc = "resolve", !.todo = Tail(@), !.res = {}]
Answered(r, out) == [r EXCEPT !.pc = "done", !.out = out]
Served200(r, link) == [r EXCEPT !.pc = "done", !.out = "ok", !.link = link]
Passing(r) == [r EXCEPT !.pc = Head(r.stages), !.stages = Tail(@)]
Failing(r) == [r EXCEPT !.pc = Head(r.stages), !.stages = Tail(@), !.failed = TRUE]
Turned(r, pc) == [r EXCEPT !.pc = pc]
Found(r, n, row, s) ==
    [[r EXCEPT !.tried = @ \union {n}] EXCEPT !.res = {row}, !.pc = Head(s), !.stages = Tail(s)]

\* Two requests for the same thing, from the same repositories.
Alike(s, r) ==
    /\ s.target = r.target /\ s.todo = r.todo /\ s.tried = r.tried /\ s.via = r.via /\ s.res = r.res
    /\ s.kind = r.kind /\ s.version = r.version

\* The fields of a request.
LEMMA RequestFields ==
    ASSUME NEW r \in Request
    PROVE  /\ r.pc \in Stages \union {"idle", "resolve", "done"} /\ r.target \in Names
           /\ r.todo \in Seq(Names) /\ r.tried \in SUBSET Names /\ r.via \in BOOLEAN
           /\ r.res \in SUBSET Repository /\ r.kind \in Kinds
           /\ r.version \in Versions \union {NoVersion} /\ r.stages \in Seq(Stages)
           /\ r.out \in Answers /\ r.link \in SUBSET Names /\ r.failed \in BOOLEAN
BY Zenon DEF Request

\* The first and the rest of a sequence.
LEMMA TailOf ==
    ASSUME NEW S, NEW t \in Seq(S), t # <<>>
    PROVE  Head(t) \in S /\ Tail(t) \in Seq(S) /\ Len(Tail(t)) = Len(t) - 1
OBVIOUS

\* The gates that follow a gate.
LEMMA NextGates ==
    /\ Head(<<"approval", "vuln", "license", "engine">>) = "approval"
    /\ Tail(<<"approval", "vuln", "license", "engine">>) = <<"vuln", "license", "engine">>
    /\ Head(<<"approval", "engine">>) = "approval" /\ Tail(<<"approval", "engine">>) = <<"engine">>
    /\ Head(<<"vuln", "license", "engine">>) = "vuln"
    /\ Tail(<<"vuln", "license", "engine">>) = <<"license", "engine">>
    /\ Head(<<"license", "engine">>) = "license" /\ Tail(<<"license", "engine">>) = <<"engine">>
    /\ Head(<<"engine">>) = "engine" /\ Tail(<<"engine">>) = <<>>
OBVIOUS

\* The answer to a request, or the next member.
LEMMA AnswerWrites ==
    ASSUME NEW r \in Request, NEW out \in Answers
    PROVE  /\ Answered(r, out) \in Request /\ Alike(Answered(r, out), r)
           /\ Answered(r, out).pc = "done" /\ Answered(r, out).out = out
           /\ Answered(r, out).link = r.link
BY RequestFields, Zenon DEF Answered, Request, Alike

\* A group goes on to its next member with the request it was asked (grouped).
LEMMA RetryWrites ==
    ASSUME NEW r \in Request, Len(r.todo) > 1
    PROVE  LET s == Retried(r) IN
           /\ s \in Request /\ s.pc = "resolve" /\ s.todo # <<>> /\ s.target = r.target
           /\ s.tried = r.tried /\ s.via = r.via /\ s.kind = r.kind /\ s.version = r.version
           /\ s.out = r.out /\ s.link = r.link
<1>1. r.todo \in Seq(Names)
  BY Zenon DEF Request
<1>2. Tail(r.todo) \in Seq(Names) /\ Tail(r.todo) # <<>>
  <2>1. r.todo # <<>> /\ Len(r.todo) \in Nat
    BY <1>1
  <2>2. Tail(r.todo) \in Seq(Names) /\ Len(Tail(r.todo)) = Len(r.todo) - 1
    BY <1>1, <2>1, TailOf, Zenon
  <2>3. \A k, m \in Nat : k > 1 /\ m = k - 1 => m # 0
    OBVIOUS
  <2>4. Len(Tail(r.todo)) \in Nat /\ Len(<<>>) = 0
    BY <2>2
  <2> QED
    BY <2>1, <2>2, <2>3, <2>4, Zenon
<1>3. Retried(r) \in Request
  BY <1>2, Zenon DEF Retried, Request
<1>4. Retried(r).todo = Tail(r.todo)
  BY Zenon DEF Retried, Request
<1> QED
  BY <1>2, <1>3, <1>4, Zenon DEF Retried, Request

\* A gate lets a request pass: it goes on with the gates ahead of it.
LEMMA PassWrites ==
    ASSUME NEW r \in Request, Ahead(r),
           r.pc \in {"deny", "approval", "mark", "pending", "vuln", "license"},
           NEW s \in {Passing(r), Failing(r)}
    PROVE  /\ s \in Request /\ Alike(s, r) /\ Ahead(s) /\ s.link = r.link /\ s.out = r.out
           /\ r.pc = "deny" => s.pc = "approval"
           /\ r.pc \in {"approval", "mark", "pending"} =>
                 s.pc = "vuln" \/ (r.kind # "artifact" /\ s.pc = "engine")
           /\ r.pc = "vuln" => s.pc = "license"
           /\ r.pc = "license" => s.pc = "engine"
           /\ s.failed \/ s.failed = r.failed
           /\ s = Passing(r) => s.failed = r.failed
           /\ s = Failing(r) => s.failed = TRUE
<1>1. ASSUME NEW h \in Stages, NEW t \in Seq(Stages), Head(r.stages) = h, Tail(r.stages) = t
      PROVE  /\ s \in Request /\ Alike(s, r) /\ s.link = r.link /\ s.out = r.out
             /\ s.pc = h /\ s.stages = t
             /\ s.failed \/ s.failed = r.failed
             /\ s = Passing(r) => s.failed = r.failed
             /\ s = Failing(r) => s.failed = TRUE
  <2>1. CASE s = Passing(r)
    <3>1. s \in Request /\ s.failed = r.failed /\ s.pc = h /\ s.stages = t
      BY <1>1, <2>1, Zenon DEF Passing, Request
    <3>2. Alike(s, r) /\ s.link = r.link /\ s.out = r.out
      BY <1>1, <2>1, Zenon DEF Passing, Request, Alike
    <3>3. s = Failing(r) => s.failed = TRUE
      BY <1>1, Zenon DEF Failing, Request
    <3> QED
      BY <3>1, <3>2, <3>3, Zenon
  <2>2. CASE s = Failing(r)
    <3>1. s \in Request /\ s.failed = TRUE /\ s.pc = h /\ s.stages = t
      BY <1>1, <2>2, Zenon DEF Failing, Request
    <3>2. Alike(s, r) /\ s.link = r.link /\ s.out = r.out
      BY <1>1, <2>2, Zenon DEF Failing, Request, Alike
    <3>3. s = Passing(r) => s.failed = r.failed
      BY <1>1, Zenon DEF Passing, Request
    <3> QED
      BY <3>1, <3>2, <3>3, Zenon
  <2> QED
    BY <2>1, <2>2, Zenon
<1>3. /\ <<"vuln", "license", "engine">> \in Seq(Stages) /\ <<"license", "engine">> \in Seq(Stages)
      /\ <<"engine">> \in Seq(Stages) /\ <<>> \in Seq(Stages)
      /\ "approval" \in Stages /\ "vuln" \in Stages /\ "license" \in Stages /\ "engine" \in Stages
  BY DEF Stages
<1>4. CASE r.pc = "deny"
  BY <1>1, <1>3, NextGates, <1>4, ZenonT(40) DEF Ahead, Alike
<1>5. CASE r.pc \in {"approval", "mark", "pending"}
  BY <1>1, <1>3, NextGates, <1>5, ZenonT(40) DEF Ahead, Alike
<1>6. CASE r.pc = "vuln"
  BY <1>1, <1>3, NextGates, <1>6, Zenon DEF Ahead, Alike
<1>7. CASE r.pc = "license"
  BY <1>1, <1>3, NextGates, <1>7, Zenon DEF Ahead, Alike
<1> QED
  BY <1>4, <1>5, <1>6, <1>7, Zenon

-----------------------------------------------------------------------------
(* What a move of a request keeps.                                          *)

\* The places a request can be at.
LEMMA Places ==
    /\ Running = {"resolve", "deny", "approval", "mark", "setMark", "pending", "vuln", "license",
                  "engine", "put"}
    /\ "done" \notin Running /\ "done" \notin Stages /\ "idle" \notin Running /\ "idle" \notin Stages
    /\ "resolve" \notin Stages
BY Zenon DEF Running, Stages

\* Fewer facts are missing, no more is asked.
LEMMA BehindShrinks ==
    ASSUME NEW r, NEW U, NEW V \in SUBSET U, Behind(r, U)
    PROVE  Behind(r, V)
<1>1. \A f : f \notin U => f \notin V
  OBVIOUS
<1>2. Undenied(r, V)
  BY <1>1, Zenon DEF Behind, Undenied
<1>3. Resolved(r, V) /\ Approved(r, V)
  BY <1>1, Zenon DEF Behind, Resolved, Approved
<1>4. Scanned(r, V) /\ Licensed(r, V)
  BY <1>1, Zenon DEF Behind, Scanned, Licensed, Clean
<1> QED
  BY <1>2, <1>3, <1>4, Zenon DEF Behind

\* A request that is answered without being served.
LEMMA AnswerSound ==
    ASSUME NEW c, NEW f, NEW r \in Request, NEW out \in {"miss", "refused", "created"}, NEW V,
           Entered(c, r, f), r.pc \in Running, out = "created" => r.pc = "put"
    PROVE  LET s == Answered(r, out) IN
           s \in Request /\ Ahead(s) /\ Behind(s, V) /\ Entered(c, s, f)
<1> DEFINE s == Answered(r, out)
<1>1. out \in Answers /\ out # "ok"
  BY Zenon DEF Answers
<1>2. s \in Request /\ Alike(s, r) /\ s.pc = "done" /\ s.out = out /\ s.link = r.link
  BY <1>1, AnswerWrites, Zenon
<1> HIDE DEF s
<1>3. Ahead(s)
  BY <1>2, Zenon DEF Ahead
<1>4. \A S : "done" \notin S => ~Got(s, S)
  BY <1>1, <1>2, Zenon DEF Got
<1>5. Behind(s, V)
  BY <1>4, Places, Zenon DEF Behind, Undenied, Resolved, Approved, Scanned, Licensed
<1>6. out = "created" => Got(r, Stages)
  BY Zenon DEF Got, Stages
<1>7. s.pc \notin Running /\ s.pc \notin Stages
  BY <1>2, Places, Zenon
<1>8. ~Got(s, Stages) /\ Carried(s) = Carried(r)
  BY <1>2, <1>4, Places, Zenon DEF Carried, Alike
<1>9. Entered(c, s, f)
  BY <1>2, <1>6, <1>7, <1>8, Zenon DEF Entered, Alike
<1> QED
  BY <1>2, <1>3, <1>5, <1>9, Zenon DEF s

\* A request that goes on with the next member.
LEMMA RetrySound ==
    ASSUME NEW c, NEW f, NEW r \in Request, NEW U, NEW V \in SUBSET U,
           Behind(r, U), Entered(c, r, f), r.pc \in {"resolve", "engine"}, r.via, Len(r.todo) > 1
    PROVE  LET s == Retried(r) IN
           s \in Request /\ Ahead(s) /\ Behind(s, V) /\ Entered(c, s, f)
<1> DEFINE s == Retried(r)
<1>1. /\ s \in Request /\ s.pc = "resolve" /\ s.todo # <<>> /\ s.target = r.target
      /\ s.tried = r.tried /\ s.via = r.via /\ s.kind = r.kind /\ s.version = r.version
      /\ s.out = r.out /\ s.link = r.link
  BY RetryWrites, Zenon
<1> HIDE DEF s
<1>2. Ahead(s)
  BY <1>1, Zenon DEF Ahead
<1>3. \A S : "resolve" \notin S => ~Got(s, S)
  BY <1>1, Zenon DEF Got
<1>4. Got(r, Running \ {"put"}) /\ r.pc # "deny"
  BY Places, Zenon DEF Got
<1>5. Undenied(s, V)
  BY <1>1, <1>4, Zenon DEF Undenied, Behind
<1>6. Behind(s, V)
  BY <1>3, <1>5, Places, Zenon DEF Behind, Resolved, Approved, Scanned, Licensed
<1>7. ~Got(s, Stages) /\ s.pc \notin Stages
  BY <1>1, <1>3, Places, Zenon
<1>8. Entered(c, s, f)
  BY <1>1, <1>7, Zenon DEF Entered
<1> QED
  BY <1>1, <1>2, <1>6, <1>8, Zenon DEF s

\* A request that goes from one gate to another keeps what it has seen, if the gate it leaves
\* has seen what it asks for.
LEMMA OnwardSound ==
    ASSUME NEW r \in Request, NEW s \in Request, NEW U, NEW V \in SUBSET U,
           Behind(r, U), Alike(s, r), r.pc \in Stages \ {"put"}, s.pc \in Stages \ {"deny", "put"},
           s.failed \/ s.failed = r.failed,
           r.pc = "deny" => <<"allowed", Head(r.todo)>> \notin V,
           \/ s.pc \notin {"vuln", "license", "engine"} \/ r.pc \in {"vuln", "license", "engine"}
           \/ r.kind = "config" \/ ~NeedsApproval(r) \/ <<"approved", Head(r.todo)>> \notin V,
           \/ s.pc \notin {"license", "engine"} \/ r.pc \in {"license", "engine"}
           \/ r.kind # "artifact" \/ s.failed
           \/ Carried(r).type # "proxy" \/ Clean(Cfg(Carried(r)).vuln, "scan", V),
           \/ s.pc # "engine" \/ r.pc = "engine" \/ r.kind # "artifact" \/ s.failed
           \/ Carried(r).type # "proxy" \/ Clean(Cfg(Carried(r)).license, "license", V)
    PROVE  Behind(s, V)
<1>1. /\ s.todo = r.todo /\ s.tried = r.tried /\ s.kind = r.kind /\ Carried(s) = Carried(r)
      /\ NeedsApproval(s) <=> NeedsApproval(r)
  BY Zenon DEF Alike, Carried, NeedsApproval
<1>2. \A f : f \notin U => f \notin V
  OBVIOUS
<1>3. \A S : r.pc \in S => Got(r, S)
  BY Zenon DEF Got
<1>4. s.pc # "done" /\ s.pc # "deny" /\ \A S : Got(s, S) => s.pc \in S
  BY Places, Zenon DEF Got
<1>5. Undenied(s, V)
  <2>1. r.pc \in Running \ {"put"} /\ r.pc \in Stages
    BY Zenon DEF Running
  <2>2. ASSUME r.kind # "config", NEW m \in r.tried PROVE <<"allowed", m>> \notin V
    BY <1>2, <1>3, <2>1, <2>2, Zenon DEF Behind, Undenied
  <2> QED
    BY <1>1, <2>2, Zenon DEF Undenied
<1>6. Resolved(s, V)
  BY <1>1, <1>2, <1>3, Zenon DEF Behind, Resolved
<1>7. Approved(s, V)
  <2>1. r.kind # "config" /\ r.pc \in {"vuln", "license", "engine"} /\ NeedsApproval(r) =>
           <<"approved", Head(r.todo)>> \notin V
    BY <1>2, <1>3, Zenon DEF Behind, Approved
  <2> QED
    BY <1>1, <1>4, <2>1, Zenon DEF Approved
<1>8. Scanned(s, V)
  <2>1. r.kind = "artifact" /\ r.pc \in {"license", "engine"} /\ ~r.failed =>
           Carried(r).type # "proxy" \/ Clean(Cfg(Carried(r)).vuln, "scan", V)
    BY <1>2, <1>3, Zenon DEF Behind, Scanned, Clean
  <2> QED
    BY <1>1, <1>4, <2>1, Zenon DEF Scanned
<1>9. Licensed(s, V)
  <2>1. r.kind = "artifact" /\ r.pc = "engine" /\ ~r.failed =>
           Carried(r).type # "proxy" \/ Clean(Cfg(Carried(r)).license, "license", V)
    BY <1>2, <1>3, Zenon DEF Behind, Licensed, Clean
  <2> QED
    BY <1>1, <1>4, <2>1, Zenon DEF Licensed
<1> QED
  BY <1>5, <1>6, <1>7, <1>8, <1>9, Zenon DEF Behind

\* Going from one gate to another, a request stays what came in.
LEMMA OnwardEntered ==
    ASSUME NEW c, NEW f, NEW r \in Request, NEW s \in Request, Entered(c, r, f), Alike(s, r),
           r.pc \in Stages, s.pc \in Stages, s.out = r.out, s.link = r.link
    PROVE  Entered(c, s, f)
<1>1. Got(r, Stages) /\ r.pc \in Running /\ Carried(s) = Carried(r)
  BY Zenon DEF Got, Running, Carried, Alike
<1> QED
  BY <1>1, Zenon DEF Entered, Alike

-----------------------------------------------------------------------------
(* The steps of a request.                                                  *)

\* A fact that holds after a step is among the missing ones no more.
LEMMA Seen ==
    ASSUME Next, NEW c \in Clients, req[c].pc # "idle"
    PROVE  /\ unseen'[c] \in SUBSET unseen[c]
           /\ \A n : (\A r \in repos'[n] : ~r.disabled) => <<"on", n>> \notin unseen'[c]
           /\ \A n : \/ req'[c].version = NoVersion \/ denies'[<<n, req'[c].version>>] = {}
                     \/ \A r \in repos'[n] : r.type # "proxy"
                     => <<"allowed", n>> \notin unseen'[c]
           /\ \A n : (\E a \in approvals'[n] : a.status = "approved") =>
                        <<"approved", n>> \notin unseen'[c]
           /\ req'[c].version # NoVersion =>
                 /\ scans'[req'[c].version] # "bad" => <<"notBad", "scan">> \notin unseen'[c]
                 /\ scans'[req'[c].version] = "good" => <<"good", "scan">> \notin unseen'[c]
                 /\ licenses'[req'[c].version] # "bad" => <<"notBad", "license">> \notin unseen'[c]
                 /\ licenses'[req'[c].version] = "good" => <<"good", "license">> \notin unseen'[c]
<1>1. unseen'[c] = IF req'[c].pc = "idle" THEN {} ELSE {f \in unseen[c] : ~True(c, f)'}
  BY Zenon DEF Next
<1>2. \A f : True(c, f)' => f \notin unseen'[c]
  BY <1>1, Zenon
<1>3. ASSUME NEW n PROVE /\ <<"on", n>>[1] = "on" /\ <<"on", n>>[2] = n
                         /\ <<"allowed", n>>[1] = "allowed" /\ <<"allowed", n>>[2] = n
                         /\ <<"approved", n>>[1] = "approved" /\ <<"approved", n>>[2] = n
                         /\ <<"notBad", n>>[1] = "notBad" /\ <<"notBad", n>>[2] = n
                         /\ <<"good", n>>[1] = "good" /\ <<"good", n>>[2] = n
  OBVIOUS
<1>4. ASSUME NEW n, \A r \in repos'[n] : ~r.disabled PROVE True(c, <<"on", n>>)'
  BY <1>3, <1>4, Zenon DEF True
<1>5. ASSUME NEW n, \/ req'[c].version = NoVersion \/ denies'[<<n, req'[c].version>>] = {}
                    \/ \A r \in repos'[n] : r.type # "proxy"
      PROVE  True(c, <<"allowed", n>>)'
  BY <1>3, <1>5, Zenon DEF True
<1>6. ASSUME NEW n, \E a \in approvals'[n] : a.status = "approved"
      PROVE  True(c, <<"approved", n>>)'
  BY <1>3, <1>6, Zenon DEF True
<1>7. ASSUME req'[c].version # NoVersion
      PROVE  /\ scans'[req'[c].version] # "bad" => True(c, <<"notBad", "scan">>)'
             /\ scans'[req'[c].version] = "good" => True(c, <<"good", "scan">>)'
             /\ licenses'[req'[c].version] # "bad" => True(c, <<"notBad", "license">>)'
             /\ licenses'[req'[c].version] = "good" => True(c, <<"good", "license">>)'
  BY <1>3, <1>7, Zenon DEF True
<1> QED
  BY <1>1, <1>2, <1>4, <1>5, <1>6, <1>7, Zenon

\* What is known of the request of client c.
Sound(c) ==
    /\ req[c] \in Request /\ Ahead(req[c]) /\ Behind(req[c], unseen[c])
    /\ Entered(c, req[c], format)

\* An answer that is not a document.
LEMMA AnswerStep ==
    ASSUME req \in [Clients -> Request], NEW c \in Clients, Sound(c),
           NEW out \in {"miss", "refused", "created"}, Answer(c, out),
           req[c].pc \in Running, out = "created" => req[c].pc = "put",
           out = "miss" => req[c].pc \in {"resolve", "engine"},
           unseen'[c] \in SUBSET unseen[c], format' = format
    PROVE  Sound(c)'
<1>1. req[c] \in Request /\ Behind(req[c], unseen[c]) /\ Entered(c, req[c], format)
  BY Zenon DEF Sound
<1>2. CASE req[c].via /\ out = "miss" /\ Len(req[c].todo) > 1
  <2>1. req'[c] = Retried(req[c])
    BY <1>2, Zenon DEF Answer, Set, Retried
  <2>2. LET s == Retried(req[c]) IN
        s \in Request /\ Ahead(s) /\ Behind(s, unseen'[c]) /\ Entered(c, s, format)
    BY <1>1, <1>2, RetrySound, Zenon
  <2> QED
    BY <2>1, <2>2, Zenon DEF Sound
<1>3. CASE ~(req[c].via /\ out = "miss" /\ Len(req[c].todo) > 1)
  <2>1. req'[c] = Answered(req[c], out)
    BY <1>3, Zenon DEF Answer, Set, Answered
  <2>2. LET s == Answered(req[c], out) IN
        s \in Request /\ Ahead(s) /\ Behind(s, unseen'[c]) /\ Entered(c, s, format)
    BY <1>1, AnswerSound, Zenon
  <2> QED
    BY <2>1, <2>2, Zenon DEF Sound
<1> QED
  BY <1>2, <1>3, Zenon

\* The gates of a handler.
LEMMA HandlerGates ==
    ASSUME NEW k \in Kinds
    PROVE  \/ k # "upload" /\ Handler(k) = <<"deny", "approval", "vuln", "license", "engine">>
           \/ k = "index" /\ Handler(k) = <<"deny", "approval", "engine">>
           \/ k = "upload" /\ Handler(k) = <<"put">>
           \/ k = "config" /\ Handler(k) = <<"engine">>
BY Zenon DEF Handler, HandleMaven, HandleNpm, HandleGo, HandleCargo, HandlePyPI, AllGates, Kinds

\* The first of them, and the others.
LEMMA FirstGate ==
    ASSUME NEW k \in Kinds
    PROVE  LET h == Head(Handler(k))   t == Tail(Handler(k)) IN
           /\ h \in Stages /\ t \in Seq(Stages)
           /\ \/ h = "deny" /\ t = <<"approval", "vuln", "license", "engine">>
              \/ h = "deny" /\ k # "artifact" /\ t = <<"approval", "engine">>
              \/ h = "put"
              \/ h = "engine" /\ k = "config"
<1>1. /\ Head(<<"deny", "approval", "vuln", "license", "engine">>) = "deny"
      /\ Tail(<<"deny", "approval", "vuln", "license", "engine">>) =
            <<"approval", "vuln", "license", "engine">>
      /\ Head(<<"deny", "approval", "engine">>) = "deny"
      /\ Tail(<<"deny", "approval", "engine">>) = <<"approval", "engine">>
      /\ Head(<<"put">>) = "put" /\ Tail(<<"put">>) = <<>>
      /\ Head(<<"engine">>) = "engine" /\ Tail(<<"engine">>) = <<>>
  OBVIOUS
<1>2. /\ "deny" \in Stages /\ "put" \in Stages /\ "engine" \in Stages
      /\ <<"approval", "vuln", "license", "engine">> \in Seq(Stages)
      /\ <<"approval", "engine">> \in Seq(Stages) /\ <<>> \in Seq(Stages)
  BY DEF Stages
<1> QED
  BY <1>1, <1>2, HandlerGates, Zenon

\* The repository or member is resolved.
LEMMA FoundSound ==
    ASSUME NEW c, NEW r \in Request, NEW U, NEW V \in SUBSET U, NEW row \in Repository,
           Behind(r, U), Entered(c, r, format), r.pc = "resolve",
           <<"on", Head(r.todo)>> \notin V,
           row.type = "proxy" \/ <<"allowed", Head(r.todo)>> \notin V,
           Authorize(c, Head(r.todo), r.via), IpAllowed(c, Cfg(row), r.via)
    PROVE  LET s == Found(r, Head(r.todo), row, Handler(r.kind)) IN
           s \in Request /\ Ahead(s) /\ Behind(s, V) /\ Entered(c, s, format)
<1> DEFINE n == Head(r.todo)
           s == Found(r, n, row, Handler(r.kind))
           h == Head(Handler(r.kind))
           t == Tail(Handler(r.kind))
<1>a. r.pc \in Running
  BY Places, Zenon
<1>b. r.todo # <<>> /\ r.todo \in Seq(Names) /\ r.kind \in Kinds /\ r.tried \in SUBSET Names
  BY <1>a, RequestFields, Zenon DEF Entered
<1>c. n \in Names
  BY <1>b, TailOf, Zenon
<1>d. /\ h \in Stages /\ t \in Seq(Stages)
      /\ \/ h = "deny" /\ t = <<"approval", "vuln", "license", "engine">>
         \/ h = "deny" /\ r.kind # "artifact" /\ t = <<"approval", "engine">>
         \/ h = "put"
         \/ h = "engine" /\ r.kind = "config"
  BY <1>b, FirstGate, Zenon
<1> HIDE DEF n, h, t
<1>1. s \in Request /\ s.pc = h /\ s.stages = t /\ s.res = {row} /\ s.tried = r.tried \union {n}
  BY <1>b, <1>c, <1>d, Zenon DEF Found, Request, h, t
<1>2. /\ s.todo = r.todo /\ s.kind = r.kind /\ s.target = r.target /\ s.via = r.via
      /\ s.version = r.version /\ s.out = r.out /\ s.link = r.link
  BY Zenon DEF Found, Request
<1>3. Carried(s) = row /\ n = Head(s.todo)
  BY <1>1, <1>2, Zenon DEF Carried, n
<1> HIDE DEF s
<1>4. Ahead(s)
  BY <1>1, <1>2, <1>d, Zenon DEF Ahead
<1>5. Got(r, Running \ {"put"}) /\ r.pc # "deny"
  BY Places, Zenon DEF Got
<1>6. Undenied(s, V)
  <2>1. r.kind # "config" => \A m \in r.tried : <<"allowed", m>> \notin V
    BY <1>5, Zenon DEF Behind, Undenied
  <2>2. r.kind = "config" \/ h = "deny" \/ ~Got(s, Running \ {"put"})
    BY <1>1, <1>d, Zenon DEF Got, Stages
  <2> QED
    BY <1>1, <1>2, <1>3, <2>1, <2>2, Zenon DEF Undenied
<1>7. Resolved(s, V)
  BY <1>3, Zenon DEF Resolved, n
<1>8. /\ r.kind = "config" \/ ~Got(s, {"vuln", "license", "engine"})
      /\ r.kind = "config" \/ ~Got(s, {"license", "engine"})
      /\ r.kind = "config" \/ ~Got(s, {"engine"})
  BY <1>1, <1>d, Zenon DEF Got, Stages
<1>9. Behind(s, V)
  BY <1>2, <1>6, <1>7, <1>8, Zenon DEF Behind, Approved, Scanned, Licensed
<1>10. r.via \/ (c \in Readers[r.target] /\ \A allowed \in Cfg(row).acl : c \in allowed)
  <2>1. r.via \/ r.todo = <<r.target>>
    BY <1>a, Zenon DEF Entered
  <2>2. Head(<<r.target>>) = r.target
    OBVIOUS
  <2> QED
    BY <2>1, <2>2, Zenon DEF Authorize, IpAllowed
<1>11. Entered(c, s, format)
  BY <1>1, <1>2, <1>3, <1>10, <1>a, Zenon DEF Entered
<1> QED
  BY <1>1, <1>4, <1>9, <1>11, Zenon DEF s, n

\* A gate lets the request of client c pass, having seen what it asks for.
LEMMA PassStep ==
    ASSUME NEW c \in Clients, Sound(c),
           req[c].pc \in {"deny", "approval", "mark", "pending", "vuln", "license"},
           req'[c] \in {Passing(req[c]), Failing(req[c])},
           unseen'[c] \in SUBSET unseen[c], format' = format,
           req[c].pc = "deny" => <<"allowed", Member(c)>> \notin unseen'[c],
           req[c].pc \in {"approval", "mark", "pending"} =>
              ~NeedsApproval(req[c]) \/ <<"approved", Member(c)>> \notin unseen'[c],
           req[c].pc = "vuln" =>
              \/ req[c].kind # "artifact" \/ req'[c] = Failing(req[c])
              \/ Res(c).type # "proxy" \/ Clean(Cfg(Res(c)).vuln, "scan", unseen'[c]),
           req[c].pc = "license" =>
              \/ req[c].kind # "artifact" \/ req'[c] = Failing(req[c])
              \/ Res(c).type # "proxy" \/ Clean(Cfg(Res(c)).license, "license", unseen'[c])
    PROVE  Sound(c)'
<1> DEFINE r == req[c]
           s == req'[c]
           V == unseen'[c]
<1>1. /\ r \in Request /\ Ahead(r) /\ Behind(r, unseen[c]) /\ Entered(c, r, format)
      /\ Head(r.todo) = Member(c) /\ Carried(r) = Res(c)
  BY Zenon DEF Sound, Carried, Res, Member
<1>2. /\ s \in Request /\ Alike(s, r) /\ Ahead(s) /\ s.link = r.link /\ s.out = r.out
      /\ r.pc = "deny" => s.pc = "approval"
      /\ r.pc \in {"approval", "mark", "pending"} =>
            s.pc = "vuln" \/ (r.kind # "artifact" /\ s.pc = "engine")
      /\ r.pc = "vuln" => s.pc = "license"
      /\ r.pc = "license" => s.pc = "engine"
      /\ s.failed \/ s.failed = r.failed
      /\ s = Failing(r) => s.failed = TRUE
  BY <1>1, PassWrites, ZenonT(40)
<1> HIDE DEF s, r, V
<1>3. r.pc \in Stages \ {"put"} /\ s.pc \in Stages \ {"deny", "put"} /\ r.pc \in Stages /\ s.pc \in Stages
  BY <1>2, Zenon DEF Stages, r
<1>4. r.pc = "deny" => <<"allowed", Head(r.todo)>> \notin V
  BY <1>1, Zenon DEF r, V
<1>5. \/ s.pc \notin {"vuln", "license", "engine"} \/ r.pc \in {"vuln", "license", "engine"}
      \/ r.kind = "config" \/ ~NeedsApproval(r) \/ <<"approved", Head(r.todo)>> \notin V
  <2>1. r.pc \in {"approval", "mark", "pending"} =>
           ~NeedsApproval(r) \/ <<"approved", Head(r.todo)>> \notin V
    BY <1>1, Zenon DEF r, V
  <2>2. r.pc \in {"deny", "approval", "mark", "pending", "vuln", "license"}
    BY Zenon DEF r
  <2> QED
    BY <1>2, <2>1, <2>2, Zenon
<1>6. \/ s.pc \notin {"license", "engine"} \/ r.pc \in {"license", "engine"}
      \/ r.kind # "artifact" \/ s.failed
      \/ Carried(r).type # "proxy" \/ Clean(Cfg(Carried(r)).vuln, "scan", V)
  <2>1. r.pc = "vuln" =>
           \/ r.kind # "artifact" \/ s = Failing(r)
           \/ Carried(r).type # "proxy" \/ Clean(Cfg(Carried(r)).vuln, "scan", V)
    BY <1>1, Zenon DEF r, s, V
  <2>2. r.pc \in {"deny", "approval", "mark", "pending", "vuln", "license"}
    BY Zenon DEF r
  <2> QED
    BY <1>2, <2>1, <2>2, Zenon
<1>7. \/ s.pc # "engine" \/ r.pc = "engine" \/ r.kind # "artifact" \/ s.failed
      \/ Carried(r).type # "proxy" \/ Clean(Cfg(Carried(r)).license, "license", V)
  <2>1. r.pc = "license" =>
           \/ r.kind # "artifact" \/ s = Failing(r)
           \/ Carried(r).type # "proxy" \/ Clean(Cfg(Carried(r)).license, "license", V)
    BY <1>1, Zenon DEF r, s, V
  <2>2. r.pc \in {"deny", "approval", "mark", "pending", "vuln", "license"}
    BY Zenon DEF r
  <2> QED
    BY <1>2, <2>1, <2>2, Zenon
<1>8. V \in SUBSET unseen[c]
  BY DEF V
<1>9. Behind(s, V)
  BY <1>1, <1>2, <1>3, <1>4, <1>5, <1>6, <1>7, <1>8, OnwardSound, Zenon
<1>10. Entered(c, s, format)
  BY <1>1, <1>2, <1>3, OnwardEntered, Zenon
<1> QED
  BY <1>2, <1>9, <1>10, Zenon DEF Sound, s, V

\* A step within the approval gate.
LEMMA TurnStep ==
    ASSUME NEW c \in Clients, Sound(c), NEW pc \in {"mark", "setMark", "pending"},
           req[c].pc \in {"approval", "mark", "setMark"}, req'[c] = Turned(req[c], pc),
           unseen'[c] \in SUBSET unseen[c], format' = format
    PROVE  Sound(c)'
<1> DEFINE r == req[c]
           s == req'[c]
<1>1. r \in Request /\ Ahead(r) /\ Behind(r, unseen[c]) /\ Entered(c, r, format)
  BY Zenon DEF Sound
<1>2. pc \in Stages \union {"idle", "resolve", "done"}
  BY Zenon DEF Stages
<1>3. /\ s \in Request /\ Alike(s, r) /\ s.link = r.link /\ s.out = r.out /\ s.pc = pc
      /\ s.failed = r.failed /\ s.stages = r.stages
  BY <1>1, <1>2, ZenonT(40) DEF Turned, Request, Alike
<1> HIDE DEF s
<1>4. Ahead(s)
  BY <1>1, <1>3, Zenon DEF Ahead, Alike
<1>5. /\ r.pc \in Stages \ {"put"} /\ s.pc \in Stages \ {"deny", "put"} /\ r.pc \in Stages
      /\ s.pc \in Stages /\ r.pc # "deny" /\ s.pc \notin {"vuln", "license", "engine"}
      /\ s.pc \notin {"license", "engine"} /\ s.pc # "engine"
  BY <1>3, Zenon DEF Stages
<1>6. Behind(s, unseen'[c])
  BY <1>1, <1>3, <1>5, OnwardSound, Zenon
<1>7. Entered(c, s, format)
  BY <1>1, <1>3, <1>5, OnwardEntered, Zenon
<1> QED
  BY <1>3, <1>4, <1>6, <1>7, Zenon DEF Sound, s

\* A configuration that is stored.
LEMMA CfgType ==
    ASSUME NEW r, r.cfg \in DOMAIN Configs
    PROVE  Cfg(r).members \in Seq(Names)
<1>1. Configs[r.cfg] \in Config
  BY ConstantsAssumption, Zenon
<1> QED
  BY <1>1, Zenon DEF Config, Cfg

\* No request.
LEMMA NoRequestFields ==
    /\ NoRequest \in Request /\ NoRequest.pc = "idle" /\ NoRequest.via = FALSE
    /\ NoRequest.kind = "index" /\ NoRequest.version = NoVersion /\ NoRequest.out = "none"
    /\ NoRequest.link = {} /\ NoRequest.tried = {}
<1>1. NoRequest.target \in Names
  BY ConstantsAssumption, Zenon DEF NoRequest
<1>2. <<>> \in Seq(Names) /\ <<>> \in Seq(Stages)
  OBVIOUS
<1>3. NoRequest \in Request
  BY <1>1, <1>2, Zenon DEF NoRequest, Request, Stages, Kinds, Answers
<1> QED
  BY <1>3, Zenon DEF NoRequest

\* A request that begins.
LEMMA BeginStep ==
    ASSUME TypeOK, GroupsHaveMembers, NEW c \in Clients, NEW n \in Names, NEW k \in Kinds,
           NEW v \in Versions \union {NoVersion}, Begin(c, n, k, v)
    PROVE  Sound(c)'
<1> DEFINE group == {x \in repos[n] : x.type = "group"}
           todo == IF group = {} THEN <<n>> ELSE Cfg(CHOOSE x \in group : TRUE).members
           r == [NoRequest EXCEPT !.pc = "resolve", !.target = n, !.kind = k, !.version = v,
                    !.todo = todo]
           refused == [r EXCEPT !.pc = "done", !.out = "refused"]
           fanned == [r EXCEPT !.via = TRUE]
           s == req'[c]
<1>1. /\ v = NoVersion <=> k # "artifact"
      /\ format' = format
      /\ s = IF group = {} THEN r ELSE Grouped(c, r, k)
  BY Zenon DEF Begin, Set, TypeOK
<1>2. todo \in Seq(Names) /\ todo # <<>> /\ (group = {} => todo = <<n>>)
  <2>1. CASE group = {}
    BY <2>1
  <2>2. CASE group # {}
    <3>1. PICK g \in repos[n] : g.type = "group" /\ g = CHOOSE x \in group : TRUE
      BY <2>2, Zenon
    <3>2. g \in Repository /\ Cfg(g).members # <<>>
      BY <3>1, ZenonT(40) DEF TypeOK, GroupsHaveMembers, RowsFit
    <3>3. g.cfg \in DOMAIN Configs
      BY <3>2, Zenon DEF Repository
    <3> QED
      BY <2>2, <3>1, <3>2, <3>3, CfgType, Zenon DEF todo
  <2> QED
    BY <2>1, <2>2, Zenon
<1> HIDE DEF todo
<1>6. /\ r \in Request /\ r.pc = "resolve" /\ r.target = n /\ r.kind = k /\ r.version = v
      /\ r.todo = todo /\ r.tried = {} /\ r.via = FALSE /\ r.out = "none" /\ r.link = {}
  BY <1>2, NoRequestFields, Zenon DEF Request
<1> HIDE DEF r
<1>7. /\ refused \in Request /\ refused.pc = "done" /\ refused.target = n /\ refused.kind = k
      /\ refused.version = v /\ refused.via = FALSE /\ refused.out = "refused" /\ refused.link = {}
  BY <1>6, Zenon DEF Request, Answers
<1>8. /\ fanned \in Request /\ fanned.pc = "resolve" /\ fanned.target = n /\ fanned.kind = k
      /\ fanned.version = v /\ fanned.todo = todo /\ fanned.tried = {} /\ fanned.via = TRUE
      /\ fanned.out = "none" /\ fanned.link = {}
  BY <1>6, Zenon DEF Request
<1> HIDE DEF refused, fanned
<1>9. /\ s \in Request /\ s.target = n /\ s.kind = k /\ s.version = v /\ s.link = {}
      /\ \/ s.pc = "done" /\ s.out = "refused" /\ s.via = FALSE
         \/ /\ s.pc = "resolve" /\ s.out = "none" /\ s.tried = {} /\ s.todo = todo
            /\ \/ s.via = FALSE /\ group = {}
               \/ s.via = TRUE /\ c \in Readers[n]
  <2>1. CASE group = {}
    BY <1>1, <1>6, <2>1, Zenon
  <2>2. CASE group # {} /\ s = refused
    BY <1>7, <2>2, Zenon
  <2>3. CASE group # {} /\ s = fanned /\ c \in Readers[n]
    BY <1>8, <2>3, Zenon
  <2>4. group = {} \/ s = refused \/ (s = fanned /\ c \in Readers[n])
    BY <1>1, <1>6, Zenon DEF Grouped, refused, fanned, Authorize
  <2> QED
    BY <2>1, <2>2, <2>3, <2>4, Zenon
<1> HIDE DEF s, group
<1>10. Ahead(s)
  BY <1>9, Zenon DEF Ahead
<1>11. \A S : "resolve" \notin S /\ "done" \notin S => ~Got(s, S)
  BY <1>9, Zenon DEF Got
<1>12. ASSUME NEW V PROVE Behind(s, V)
  <2>1. Undenied(s, V)
    BY <1>9, Zenon DEF Undenied, Got, Running, Stages
  <2>2. ~Got(s, Stages) /\ ~Got(s, {"vuln", "license", "engine"}) /\ ~Got(s, {"license", "engine"})
        /\ ~Got(s, {"engine"})
    BY <1>11, Zenon DEF Stages
  <2> QED
    BY <2>1, <2>2, Zenon DEF Behind, Resolved, Approved, Scanned, Licensed
<1>13. Entered(c, s, format)
  <2>1. ~Got(s, Stages) /\ s.pc \notin Stages /\ s.out # "created"
    BY <1>9, <1>11, Zenon DEF Stages
  <2>2. s.pc \in Running => s.pc = "resolve"
    BY <1>9, Places, Zenon
  <2> QED
    BY <1>1, <1>2, <1>9, <2>1, <2>2, Zenon DEF Entered
<1> QED
  BY <1>1, <1>9, <1>10, <1>12, <1>13, Zenon DEF Sound, s

\* Nothing is asked of a client that has no request.
LEMMA IdleSound ==
    ASSUME NEW c \in Clients, NEW V, NEW f
    PROVE  Ahead(NoRequest) /\ Behind(NoRequest, V) /\ Entered(c, NoRequest, f)
<1> DEFINE s == NoRequest
<1>1. /\ s.pc = "idle" /\ s.via = FALSE /\ s.kind = "index" /\ s.version = NoVersion
      /\ s.out = "none" /\ s.link = {}
  BY NoRequestFields, Zenon
<1> HIDE DEF s
<1>2. Ahead(s)
  BY <1>1, Zenon DEF Ahead
<1>3. \A S : "idle" \notin S => ~Got(s, S)
  BY <1>1, Zenon DEF Got
<1>4. /\ ~Got(s, Running \ {"put"}) /\ ~Got(s, Stages) /\ ~Got(s, {"vuln", "license", "engine"})
      /\ ~Got(s, {"license", "engine"}) /\ ~Got(s, {"engine"}) /\ s.pc \notin Running /\ s.pc \notin Stages
  BY <1>1, <1>3, Places, Zenon
<1>5. Behind(s, V)
  BY <1>4, Zenon DEF Behind, Undenied, Resolved, Approved, Scanned, Licensed
<1>6. Entered(c, s, f)
  BY <1>1, <1>4, Zenon DEF Entered
<1> QED
  BY <1>2, <1>5, <1>6, Zenon DEF s

\* The client is idle again.
LEMMA ReplyStep ==
    ASSUME TypeOK, NEW c \in Clients, Reply(c)
    PROVE  Sound(c)'
<1>1. req'[c] = NoRequest
  BY Zenon DEF Reply, Set, TypeOK
<1> QED
  BY <1>1, NoRequestFields, IdleSound, Zenon DEF Sound

\* The repository or the member is looked up.
LEMMA ResolveStep ==
    ASSUME TypeOK, Next, NEW c \in Clients, Sound(c), Resolve(c)
    PROVE  Sound(c)'
<1> DEFINE r == req[c]
           n == Head(r.todo)
           V == unseen'[c]
<1>1. /\ r.pc = "resolve" /\ r.pc # "idle" /\ r.pc \in Running /\ r.pc # "put"
      /\ r.pc \in {"resolve", "engine"} /\ format' = format /\ repos' = repos
      /\ req \in [Clients -> Request]
  BY Places, Zenon DEF Resolve, Quiet, TypeOK, tables
<1>2. V \in SUBSET unseen[c]
  BY <1>1, Seen, Zenon
<1>3. CASE Answer(c, "miss")
  BY <1>1, <1>2, <1>3, AnswerStep, Zenon
<1>4. CASE Answer(c, "refused")
  BY <1>1, <1>2, <1>4, AnswerStep, Zenon
<1>5. ASSUME NEW row \in repos[n], ~Offline(row), IpAllowed(c, Cfg(row), r.via), Authorize(c, n, r.via),
             req'[c] = Found(r, n, row, Handler(r.kind))
      PROVE  Sound(c)'
  <2>1. r \in Request /\ Behind(r, unseen[c]) /\ Entered(c, r, format)
    BY Zenon DEF Sound
  <2>2. n \in Names
    BY <1>1, <2>1, RequestFields, TailOf, Zenon DEF Entered
  <2>3. row \in Repository /\ \A x \in repos[n] : x = row
    BY <1>5, <2>2, ZenonT(60) DEF TypeOK
  <2>4. <<"on", n>> \notin V
    BY <1>1, <1>5, <2>3, Seen, Zenon DEF Offline
  <2>5. row.type = "proxy" \/ <<"allowed", n>> \notin V
    BY <1>1, <2>3, Seen, Zenon
  <2> HIDE DEF V
  <2>6. LET s == Found(r, Head(r.todo), row, Handler(r.kind)) IN
        s \in Request /\ Ahead(s) /\ Behind(s, V) /\ Entered(c, s, format)
    BY <1>1, <1>2, <1>5, <2>1, <2>3, <2>4, <2>5, FoundSound, Zenon
  <2> QED
    BY <1>1, <1>5, <2>6, Zenon DEF Sound, V
<1>6. \/ Answer(c, "miss") \/ Answer(c, "refused")
      \/ \E row \in repos[n] :
            /\ ~Offline(row) /\ IpAllowed(c, Cfg(row), r.via) /\ Authorize(c, n, r.via)
            /\ req'[c] = Found(r, n, row, Handler(r.kind))
  BY <1>1, Zenon DEF Resolve, Set, Found
<1> QED
  BY <1>3, <1>4, <1>5, <1>6, Zenon

\* What every step of a request that is running gives.
LEMMA GateFacts ==
    ASSUME TypeOK, Next, NEW c \in Clients, Sound(c), req[c].pc \in Stages
    PROVE  /\ req \in [Clients -> Request] /\ req[c].pc \in Running /\ req[c].pc # "idle"
           /\ unseen'[c] \in SUBSET unseen[c] /\ req[c] \in Request
           /\ Res(c) \in Repository /\ Member(c) \in Names /\ Res(c) = Carried(req[c])
           /\ Res(c).type = "proxy" \/ <<"allowed", Member(c)>> \notin unseen'[c]
<1>1. /\ req \in [Clients -> Request] /\ req[c].pc \in Running /\ req[c].pc # "idle"
      /\ req[c] \in Request
  BY Places, Zenon DEF TypeOK, Running
<1>2. unseen'[c] \in SUBSET unseen[c]
  BY <1>1, Seen, Zenon
<1>3. Res(c) \in Repository
  <2>1. req[c].res # {} /\ req[c].res \in SUBSET Repository
    BY <1>1, RequestFields, Zenon DEF Sound, Entered
  <2> QED
    BY <2>1, Zenon DEF Res
<1>4. Member(c) \in Names
  <2>1. req[c].todo # <<>> /\ req[c].todo \in Seq(Names)
    BY <1>1, RequestFields, Zenon DEF Sound, Entered
  <2> QED
    BY <2>1, TailOf, Zenon DEF Member
<1>5. Res(c) = Carried(req[c])
  BY Zenon DEF Res, Carried
<1>6. Res(c).type = "proxy" \/ <<"allowed", Member(c)>> \notin unseen[c]
  BY <1>5, Zenon DEF Sound, Behind, Resolved, Got, Member
<1> QED
  BY <1>1, <1>2, <1>3, <1>4, <1>5, <1>6, Zenon

\* A request that passes a gate is asked for as before.
LEMMA PassedVersion ==
    ASSUME req \in [Clients -> Request], NEW c \in Clients, Pass(c)
    PROVE  req'[c] = Passing(req[c]) /\ req'[c].version = req[c].version
<1>1. req'[c] = Passing(req[c]) /\ req[c] \in Request
  BY Zenon DEF Pass, Set, Passing
<1> QED
  BY <1>1, Zenon DEF Passing, Request

\* The version is asked for among the denies.
LEMMA DenyStep ==
    ASSUME TypeOK, Next, NEW c \in Clients, Sound(c), DenyGate(c)
    PROVE  Sound(c)'
<1>1. /\ req[c].pc = "deny" /\ format' = format /\ repos' = repos /\ denies' = denies
      /\ req[c].pc \in Stages
      /\ req[c].pc \in {"deny", "approval", "mark", "pending", "vuln", "license"}
      /\ req[c].pc \notin {"approval", "mark", "pending"} /\ req[c].pc # "vuln"
      /\ req[c].pc # "license"
  BY Zenon DEF DenyGate, Quiet, tables, Stages
<1>2. /\ req \in [Clients -> Request] /\ req[c].pc \in Running /\ req[c].pc # "idle"
      /\ unseen'[c] \in SUBSET unseen[c] /\ req[c] \in Request
      /\ Res(c).type = "proxy" \/ <<"allowed", Member(c)>> \notin unseen'[c]
  BY <1>1, GateFacts, Zenon
<1>3. CASE Answer(c, "refused")
  BY <1>1, <1>2, <1>3, AnswerStep, Zenon
<1>4. CASE /\ Pass(c)
           /\ \/ Res(c).type # "proxy" \/ req[c].version = NoVersion
              \/ denies[<<Member(c), req[c].version>>] = {}
  <2>1. req'[c] = Passing(req[c]) /\ req'[c].version = req[c].version
    BY <1>2, <1>4, PassedVersion, Zenon
  <2>2. <<"allowed", Member(c)>> \notin unseen'[c]
    BY <1>1, <1>2, <1>4, <2>1, Seen, Zenon
  <2> QED
    BY <1>1, <1>2, <2>1, <2>2, PassStep, Zenon
<1> QED
  BY <1>3, <1>4, Zenon DEF DenyGate

\* The approval is asked for.
LEMMA ApprovalStep ==
    ASSUME TypeOK, Next, NEW c \in Clients, Sound(c), ApprovalGate(c)
    PROVE  Sound(c)'
<1>1. /\ req[c].pc = "approval" /\ format' = format /\ approvals' = approvals
      /\ req[c].pc \in Stages /\ req[c].pc \in {"approval", "mark", "setMark"}
      /\ req[c].pc \in {"deny", "approval", "mark", "pending", "vuln", "license"}
      /\ req[c].pc # "deny" /\ req[c].pc # "vuln" /\ req[c].pc # "license"
      /\ "mark" \in {"mark", "setMark", "pending"}
  BY Zenon DEF ApprovalGate, Quiet, tables, Stages
<1>2. /\ req \in [Clients -> Request] /\ req[c].pc \in Running /\ req[c].pc # "idle"
      /\ unseen'[c] \in SUBSET unseen[c] /\ req[c] \in Request /\ Res(c) = Carried(req[c])
  BY <1>1, GateFacts, Zenon
<1>3. CASE Answer(c, "refused")
  BY <1>1, <1>2, <1>3, AnswerStep, Zenon
<1>4. CASE Set(c, [req[c] EXCEPT !.pc = "mark"])
  <2>1. req'[c] = Turned(req[c], "mark")
    BY <1>2, <1>4, Zenon DEF Set, Turned
  <2> QED
    BY <1>1, <1>2, <2>1, TurnStep, Zenon
<1>5. CASE /\ Pass(c)
           /\ \/ Res(c).type # "proxy" \/ Cfg(Res(c)).approval # "enforce" \/ Cfg(Res(c)).auto
              \/ \E a \in approvals[Member(c)] : a.status = "approved"
  <2>1. req'[c] = Passing(req[c])
    BY <1>2, <1>5, PassedVersion, Zenon
  <2>2. ~NeedsApproval(req[c]) \/ <<"approved", Member(c)>> \notin unseen'[c]
    BY <1>1, <1>2, <1>5, Seen, Zenon DEF NeedsApproval
  <2> QED
    BY <1>1, <1>2, <2>1, <2>2, PassStep, Zenon
<1>6. "off" # "enforce"
  OBVIOUS
<1> QED
  BY <1>3, <1>4, <1>5, <1>6, Zenon DEF ApprovalGate

\* The end of the approval gate.
LEMMA VerdictStep ==
    ASSUME TypeOK, Next, NEW c \in Clients, Sound(c), req[c].pc \in {"mark", "pending"},
           Verdict(c), format' = format
    PROVE  Sound(c)'
<1>1. /\ req[c].pc \in Stages
      /\ req[c].pc \in {"deny", "approval", "mark", "pending", "vuln", "license"}
      /\ req[c].pc # "deny" /\ req[c].pc # "vuln" /\ req[c].pc # "license"
  BY Zenon DEF Stages
<1>2. /\ req \in [Clients -> Request] /\ req[c].pc \in Running
      /\ unseen'[c] \in SUBSET unseen[c] /\ Res(c) = Carried(req[c])
  BY <1>1, GateFacts, Zenon
<1>3. CASE Answer(c, "refused")
  BY <1>1, <1>2, <1>3, AnswerStep, Zenon
<1>4. CASE Pass(c) /\ Cfg(Res(c)).approval = "audit"
  <2>1. req'[c] = Passing(req[c])
    BY <1>2, <1>4, PassedVersion, Zenon
  <2>2. ~NeedsApproval(req[c])
    BY <1>2, <1>4, Zenon DEF NeedsApproval
  <2> QED
    BY <1>1, <1>2, <2>1, <2>2, PassStep, Zenon
<1> QED
  BY <1>3, <1>4, Zenon DEF Verdict

\* The debounce of the approval gate passes or refuses as the gate itself does
\* (approvalGate).
LEMMA MarkStep ==
    ASSUME TypeOK, Next, NEW c \in Clients, Sound(c), MarkGate(c) \/ SetMark(c) \/ Pending(c)
    PROVE  Sound(c)'
<1>1. format' = format
  BY Zenon DEF MarkGate, SetMark, Pending, Quiet
<1>2. /\ req[c].pc \in {"mark", "setMark"} =>
            req[c].pc \in Stages /\ req[c].pc \in {"approval", "mark", "setMark"}
      /\ "pending" \in {"mark", "setMark", "pending"} /\ "setMark" \in {"mark", "setMark", "pending"}
  BY Zenon DEF Stages
<1>3. CASE Verdict(c) /\ req[c].pc \in {"mark", "pending"}
  BY <1>1, <1>3, VerdictStep, Zenon
<1>4. ASSUME NEW pc \in {"mark", "setMark", "pending"}, Set(c, [req[c] EXCEPT !.pc = pc]),
             req[c].pc \in {"mark", "setMark"}
      PROVE  Sound(c)'
  <2>1. req \in [Clients -> Request] /\ unseen'[c] \in SUBSET unseen[c]
    BY <1>2, <1>4, GateFacts, Zenon
  <2>2. req'[c] = Turned(req[c], pc)
    BY <1>4, <2>1, Zenon DEF Set, Turned
  <2> QED
    BY <1>1, <1>2, <1>4, <2>1, <2>2, TurnStep, Zenon
<1> QED
  BY <1>2, <1>3, <1>4, Zenon DEF MarkGate, SetMark, Pending

\* A finding lets pass only what is clean.
LEMMA VulnStep ==
    ASSUME TypeOK, Next, NEW c \in Clients, Sound(c), VulnGate(c)
    PROVE  Sound(c)'
<1> DEFINE action == Cfg(Res(c)).vuln
           v == req[c].version
<1>1. /\ req[c].pc = "vuln" /\ format' = format /\ scans' = scans /\ req[c].pc \in Stages
      /\ req[c].pc \in {"deny", "approval", "mark", "pending", "vuln", "license"}
      /\ req[c].pc \notin {"approval", "mark", "pending"} /\ req[c].pc # "deny"
      /\ req[c].pc # "license"
  BY Zenon DEF VulnGate, Quiet, tables, Stages
<1>2. /\ req \in [Clients -> Request] /\ req[c].pc \in Running /\ req[c].pc # "idle"
      /\ unseen'[c] \in SUBSET unseen[c] /\ req[c] \in Request
  BY <1>1, GateFacts, Zenon
<1>3. v = NoVersion <=> req[c].kind # "artifact"
  BY Zenon DEF Sound, Entered
<1>4. CASE Answer(c, "refused")
  BY <1>1, <1>2, <1>4, AnswerStep, Zenon
<1>5. CASE Set(c, [req[c] EXCEPT !.pc = Head(req[c].stages), !.stages = Tail(@), !.failed = TRUE])
  <2>1. req'[c] = Failing(req[c])
    BY <1>2, <1>5, Zenon DEF Set, Failing
  <2> QED
    BY <1>1, <1>2, <2>1, PassStep, Zenon
<1>6. CASE /\ Pass(c)
           /\ \/ Res(c).type # "proxy" \/ action = "off" \/ v = NoVersion \/ action = "warn"
              \/ scans[v] = "good" \/ (scans[v] = "none" /\ action # "strict")
  <2>1. req'[c] = Passing(req[c]) /\ req'[c].version = v
    BY <1>2, <1>6, PassedVersion, Zenon
  <2>2. \/ req[c].kind # "artifact" \/ Res(c).type # "proxy" \/ Clean(action, "scan", unseen'[c])
    <3>1. CASE v # NoVersion /\ scans[v] = "good"
      BY <1>1, <1>2, <2>1, <3>1, Seen, Zenon DEF Clean
    <3>2. CASE v # NoVersion /\ scans[v] = "none" /\ action # "strict"
      BY <1>1, <1>2, <2>1, <3>2, Seen, Zenon DEF Clean
    <3>3. CASE action \in {"off", "warn"}
      BY <3>3, Zenon DEF Clean
    <3> QED
      BY <1>3, <1>6, <3>1, <3>2, <3>3, Zenon
  <2> QED
    BY <1>1, <1>2, <2>1, <2>2, PassStep, Zenon
<1> QED
  BY <1>4, <1>5, <1>6, Zenon DEF VulnGate, Finding

\* The licence gate lets a version through only past a licence it allows (licenseGate).
LEMMA LicenseStep ==
    ASSUME TypeOK, Next, NEW c \in Clients, Sound(c), LicenseGate(c)
    PROVE  Sound(c)'
<1> DEFINE action == Cfg(Res(c)).license
           v == req[c].version
<1>1. /\ req[c].pc = "license" /\ format' = format /\ licenses' = licenses /\ req[c].pc \in Stages
      /\ req[c].pc \in {"deny", "approval", "mark", "pending", "vuln", "license"}
      /\ req[c].pc \notin {"approval", "mark", "pending"} /\ req[c].pc # "deny"
      /\ req[c].pc # "vuln"
  BY Zenon DEF LicenseGate, Quiet, tables, Stages
<1>2. /\ req \in [Clients -> Request] /\ req[c].pc \in Running /\ req[c].pc # "idle"
      /\ unseen'[c] \in SUBSET unseen[c] /\ req[c] \in Request
  BY <1>1, GateFacts, Zenon
<1>3. v = NoVersion <=> req[c].kind # "artifact"
  BY Zenon DEF Sound, Entered
<1>4. CASE Answer(c, "refused")
  BY <1>1, <1>2, <1>4, AnswerStep, Zenon
<1>5. CASE Set(c, [req[c] EXCEPT !.pc = Head(req[c].stages), !.stages = Tail(@), !.failed = TRUE])
  <2>1. req'[c] = Failing(req[c])
    BY <1>2, <1>5, Zenon DEF Set, Failing
  <2> QED
    BY <1>1, <1>2, <2>1, PassStep, Zenon
<1>6. CASE /\ Pass(c)
           /\ \/ Res(c).type # "proxy" \/ action = "off" \/ v = NoVersion \/ action = "warn"
              \/ licenses[v] = "good" \/ (licenses[v] = "none" /\ action # "strict")
  <2>1. req'[c] = Passing(req[c]) /\ req'[c].version = v
    BY <1>2, <1>6, PassedVersion, Zenon
  <2>2. \/ req[c].kind # "artifact" \/ Res(c).type # "proxy" \/ Clean(action, "license", unseen'[c])
    <3>1. CASE v # NoVersion /\ licenses[v] = "good"
      BY <1>1, <1>2, <2>1, <3>1, Seen, Zenon DEF Clean
    <3>2. CASE v # NoVersion /\ licenses[v] = "none" /\ action # "strict"
      BY <1>1, <1>2, <2>1, <3>2, Seen, Zenon DEF Clean
    <3>3. CASE action \in {"off", "warn"}
      BY <3>3, Zenon DEF Clean
    <3> QED
      BY <1>3, <1>6, <3>1, <3>2, <3>3, Zenon
  <2> QED
    BY <1>1, <1>2, <2>1, <2>2, PassStep, Zenon
<1> QED
  BY <1>4, <1>5, <1>6, Zenon DEF LicenseGate, Finding

\* A document is served.
LEMMA EngineStep ==
    ASSUME TypeOK, Next, NEW c \in Clients, Sound(c), Engine(c)
    PROVE  Sound(c)'
<1> DEFINE r == req[c]
           link == Link(c, Member(c))
           s == req'[c]
           V == unseen'[c]
<1>1. r.pc = "engine" /\ format' = format /\ r.pc \in Stages /\ r.pc \in {"resolve", "engine"}
  BY Zenon DEF Engine, Quiet, Stages
<1>2. /\ req \in [Clients -> Request] /\ r.pc \in Running /\ r.pc # "put"
      /\ V \in SUBSET unseen[c] /\ r \in Request /\ Member(c) \in Names
  BY <1>1, GateFacts, Zenon
<1>3. CASE Answer(c, "refused")
  BY <1>1, <1>2, <1>3, AnswerStep, Zenon
<1>4. CASE Answer(c, "miss")
  BY <1>1, <1>2, <1>4, AnswerStep, Zenon
<1>5. CASE Set(c, [req[c] EXCEPT !.pc = "done", !.out = "ok", !.link = Link(c, Member(c))])
  <2>1. s = Served200(r, link)
    BY <1>2, <1>5, Zenon DEF Set, Served200
  <2>2. Behind(r, unseen[c]) /\ Entered(c, r, format)
    BY Zenon DEF Sound
  <2>3. Behind(r, V)
    BY <1>2, <2>2, BehindShrinks, Zenon
  <2>4. link \in SUBSET Names
    BY <1>2, RequestFields, Zenon DEF Link, ServingRepoName
  <2>5. format = "npm" => link \subseteq {r.target}
    <3>1. r.via \/ Member(c) = r.target
      <4>1. r.via \/ r.todo = <<r.target>>
        BY <1>2, <2>2, Zenon DEF Entered
      <4>2. Head(<<r.target>>) = r.target
        OBVIOUS
      <4> QED
        BY <4>1, <4>2, Zenon DEF Member
    <3> QED
      BY <3>1, Zenon DEF Link, ServingRepoName
  <2> HIDE DEF link, V
  <2>6. /\ s \in Request /\ s.pc = "done" /\ s.out = "ok" /\ s.link = link /\ s.failed = r.failed
        /\ Alike(s, r)
    BY <1>2, <2>1, <2>4, ZenonT(60) DEF Served200, Request, Alike, Answers
  <2> HIDE DEF s
  <2>7. Ahead(s)
    BY <2>6, Zenon DEF Ahead
  <2>8. /\ Got(r, Running \ {"put"}) /\ Got(r, Stages) /\ Got(r, {"vuln", "license", "engine"})
        /\ Got(r, {"license", "engine"}) /\ Got(r, {"engine"}) /\ r.pc # "deny"
    BY <1>1, Places, Zenon DEF Got
  <2>9. /\ s.todo = r.todo /\ s.tried = r.tried /\ s.kind = r.kind /\ Carried(s) = Carried(r)
        /\ NeedsApproval(s) <=> NeedsApproval(r)
    BY <2>6, Zenon DEF Alike, Carried, NeedsApproval
  <2>10. Undenied(s, V) /\ Resolved(s, V) /\ Approved(s, V)
    BY <2>3, <2>8, <2>9, Zenon DEF Behind, Undenied, Resolved, Approved
  <2>11. Scanned(s, V) /\ Licensed(s, V)
    BY <2>3, <2>6, <2>8, <2>9, Zenon DEF Behind, Scanned, Licensed
  <2>12. Entered(c, s, format)
    BY <2>2, <2>5, <2>6, <2>8, <2>9, Places, Zenon DEF Entered, Alike
  <2> QED
    BY <1>1, <2>6, <2>7, <2>10, <2>11, <2>12, Zenon DEF Sound, Behind, s, V
<1> QED
  BY <1>3, <1>4, <1>5, Zenon DEF Engine

\* A hosted upload is answered and serves nothing (the handlers of PUT).
LEMMA PutStep ==
    ASSUME TypeOK, Next, NEW c \in Clients, Sound(c), Put(c)
    PROVE  Sound(c)'
<1>1. req[c].pc = "put" /\ format' = format /\ req[c].pc \in Stages
  BY Zenon DEF Put, Quiet, Stages
<1>2. /\ req \in [Clients -> Request] /\ req[c].pc \in Running /\ unseen'[c] \in SUBSET unseen[c]
  BY <1>1, GateFacts, Zenon
<1>3. Answer(c, "created") \/ Answer(c, "refused")
  BY Zenon DEF Put
<1> QED
  BY <1>1, <1>2, <1>3, AnswerStep, Zenon

\* A step of the client keeps what is known of its request.
LEMMA ClientStep ==
    ASSUME TypeOK, GroupsHaveMembers, Next, NEW c \in Clients, Sound(c), RequestStep(c)
    PROVE  Sound(c)'
<1>1. ASSUME NEW w \in Wanted, NEW v \in Versions \union {NoVersion}, Begin(c, w[1], w[2], v)
      PROVE  Sound(c)'
  <2>1. w[1] \in Names /\ w[2] \in Kinds
    BY ConstantsAssumption, Zenon
  <2> QED
    BY <1>1, <2>1, BeginStep, Zenon
<1> QED
  BY <1>1, ResolveStep, DenyStep, ApprovalStep, MarkStep, VulnStep, LicenseStep, EngineStep,
     PutStep, ReplyStep, Zenon DEF RequestStep

\* A step that is not the client's keeps it, too.
LEMMA OtherStep ==
    ASSUME Next, NEW c \in Clients, Sound(c), req'[c] = req[c], format' = format
    PROVE  Sound(c)'
<1>1. CASE req[c].pc # "idle"
  BY <1>1, Seen, BehindShrinks, Zenon DEF Sound
<1>2. CASE req[c].pc = "idle"
  <2>1. unseen'[c] = {}
    BY <1>2, Zenon DEF Next
  <2>2. {} \in SUBSET unseen[c]
    BY Zenon
  <2> QED
    BY <2>1, <2>2, BehindShrinks, Zenon DEF Sound
<1> QED
  BY <1>1, <1>2, Zenon

-----------------------------------------------------------------------------
(* The tables and the calls of the administration API.                      *)

ReposOK ==
    /\ repos \in [Names -> SUBSET Repository] /\ nextId \in 1..(MaxIds + 1)
    /\ \A n \in Names : \A r, s \in repos[n] : r = s
ApprovalsOK ==
    approvals \in [Names -> SUBSET Row] /\ \A n \in Names : \A a, b \in approvals[n] : a = b
DeniesOK ==
    /\ denies \in [Names \X Versions -> SUBSET (0..MaxIds)]
    /\ \A d \in Names \X Versions : \A i, j \in denies[d] : i = j
RestOK ==
    /\ format \in Formats /\ scans \in [Versions -> Results] /\ licenses \in [Versions -> Results]
    /\ marks \subseteq Names /\ excused \subseteq Names
CallsOK == adm \in [Admins -> AdminCall] /\ CallsCarry
WorkOK == work \in 0..MaxWork
Tables ==
    /\ ReposOK /\ ApprovalsOK /\ DeniesOK /\ RestOK /\ CallsOK /\ WorkOK
    /\ GroupsHaveMembers /\ AlarmsCounted /\ DecisionsOwned

\* The invariant in parts.
LEMMA GatesInvParts ==
    GatesInv <=> Tables /\ req \in [Clients -> Request] /\ \A c \in Clients : Sound(c)
<1>1. TypeOK <=> /\ ReposOK /\ ApprovalsOK /\ DeniesOK /\ RestOK /\ adm \in [Admins -> AdminCall]
                 /\ WorkOK /\ req \in [Clients -> Request]
  BY Zenon DEF TypeOK, ReposOK, ApprovalsOK, DeniesOK, RestOK, WorkOK
<1>2. req \in [Clients -> Request] => (Requests <=> \A c \in Clients : Sound(c))
  BY Zenon DEF Requests, Sound
<1> QED
  BY <1>1, <1>2, Zenon DEF GatesInv, Tables, CallsOK

\* One more call or request.
LEMMA Worked ==
    ASSUME WorkOK, work < MaxWork, work' = work + 1
    PROVE  WorkOK'
BY ConstantsAssumption DEF WorkOK

\* The fields of a call.
LEMMA CallFields ==
    ASSUME NEW k \in AdminCall
    PROVE  /\ k.pc \in Calls /\ k.name \in Names /\ k.id \in 0..MaxIds
           /\ k.cfg \in SUBSET DOMAIN Configs
           /\ k.arg \in {"none", "gone", "approved", "rejected"} \union Versions
BY Zenon DEF AdminCall

\* No call.
LEMMA NoCallFields == NoCall \in AdminCall /\ NoCall.pc = "idle"
<1>1. NoCall.name \in Names
  BY ConstantsAssumption, Zenon DEF NoCall
<1>2. 0 \in 0..MaxIds
  BY ConstantsAssumption
<1>3. NoCall \in AdminCall
  BY <1>1, <1>2, Zenon DEF NoCall, AdminCall, Calls
<1> QED
  BY <1>3, Zenon DEF NoCall

\* Ids of repositories are ids of calls.
LEMMA RowIds ==
    ASSUME ReposOK, NEW n \in Names, NEW r \in repos[n]
    PROVE  r \in Repository /\ r.id \in 0..MaxIds /\ r.id \in 1..MaxIds /\ r.type \in Types
           /\ r.cfg \in DOMAIN Configs /\ r.disabled \in BOOLEAN
<1>1. r \in Repository
  BY Zenon DEF ReposOK
<1>2. r.id \in 1..MaxIds /\ r.type \in Types /\ r.cfg \in DOMAIN Configs /\ r.disabled \in BOOLEAN
  BY <1>1, Zenon DEF Repository
<1>3. r.id \in 0..MaxIds
  BY <1>2, ConstantsAssumption
<1> QED
  BY <1>1, <1>2, <1>3, Zenon

\* A call begins.
LEMMA Calling ==
    ASSUME Tables, NEW x \in Admins, NEW n \in Names, NEW id \in 0..MaxIds,
           NEW pc \in {"upsertDecision", "decide", "approveAll", "upsertDeny", "writeConfig"},
           NEW arg \in {"none", "gone", "approved", "rejected"} \union Versions,
           NEW cfg \in SUBSET DOMAIN Configs, Call(x, pc, n, id, arg, cfg),
           pc \in {"upsertDecision", "decide"} => arg \in {"approved", "rejected"},
           pc = "upsertDeny" => arg \in Versions,
           pc = "writeConfig" =>
              /\ cfg # {} /\ id < nextId
              /\ \A g \in cfg : \A r \in repos[n] :
                    r.id = id /\ r.type = "group" => Configs[g].members # <<>>
    PROVE  Tables'
<1> DEFINE k == [pc |-> pc, name |-> n, id |-> id, arg |-> arg, cfg |-> cfg]
<1>1. /\ adm[x].pc = "idle" /\ work < MaxWork /\ work' = work + 1
      /\ adm' = [adm EXCEPT ![x] = k] /\ UNCHANGED <<format, tables, req>>
  BY Zenon DEF Call
<1>2. UNCHANGED <<format, repos, nextId, approvals, denies, scans, licenses, marks, excused>>
  BY <1>1, Zenon DEF tables
<1>3. adm \in [Admins -> AdminCall]
  BY Zenon DEF Tables, CallsOK
<1>4. pc \in Calls
  BY Zenon DEF Calls
<1>5. k \in AdminCall /\ k.pc = pc /\ k.arg = arg /\ k.name = n /\ k.id = id /\ k.cfg = cfg
  BY <1>4, Zenon DEF AdminCall
<1> HIDE DEF k
<1>6. adm' \in [Admins -> AdminCall] /\ adm'[x] = k /\ \A y \in Admins : y # x => adm'[y] = adm[y]
  BY <1>1, <1>3, <1>5, Zenon
<1>7. ReposOK' /\ ApprovalsOK' /\ DeniesOK' /\ RestOK' /\ AlarmsCounted'
  BY <1>2, Zenon DEF Tables, ReposOK, ApprovalsOK, DeniesOK, RestOK, AlarmsCounted
<1>8. WorkOK'
  BY <1>1, Worked, Zenon DEF Tables
<1>9. CallsCarry'
  BY <1>5, <1>6, Zenon DEF Tables, CallsOK, CallsCarry
<1>10. GroupsHaveMembers'
  <2>1. RowsFit'
    BY <1>2, Zenon DEF Tables, GroupsHaveMembers, RowsFit
  <2>2. Fits(adm[x])'
    BY <1>2, <1>5, <1>6, Zenon DEF Fits
  <2>3. ASSUME NEW y \in Admins, y # x PROVE Fits(adm[y])'
    <3>1. Fits(adm[y]) /\ adm'[y] = adm[y]
      BY <1>6, <2>3, Zenon DEF Tables, GroupsHaveMembers
    <3> QED
      BY <1>2, <3>1, Zenon DEF Fits
  <2> QED
    BY <2>1, <2>2, <2>3, Zenon DEF GroupsHaveMembers
<1>11. DecisionsOwned'
  <2>1. \A m : /\ Wiping(m, {"wipeApprovals"}) => Wiping(m, {"wipeApprovals"})'
               /\ Wiping(m, {"wipeApprovals", "wipeDenies"}) => Wiping(m, {"wipeApprovals", "wipeDenies"})'
    BY <1>1, <1>6, Zenon DEF Wiping
  <2> QED
    BY <1>2, <2>1, Zenon DEF Tables, DecisionsOwned
<1> QED
  BY <1>6, <1>7, <1>8, <1>9, <1>10, <1>11, Zenon DEF Tables, CallsOK

\* A call ends, and the repositories stay.
LEMMA Returning ==
    ASSUME Tables, NEW x \in Admins, Return(x)
    PROVE  /\ CallsOK' /\ WorkOK' /\ format' = format /\ req' = req
           /\ adm'[x].pc = "idle" /\ \A y \in Admins : y # x => adm'[y] = adm[y]
           /\ repos' = repos /\ nextId' = nextId => GroupsHaveMembers'
           /\ \A m : adm[x].pc # "wipeApprovals" /\ Wiping(m, {"wipeApprovals"}) =>
                        Wiping(m, {"wipeApprovals"})'
           /\ \A m : adm[x].pc \notin {"wipeApprovals", "wipeDenies"}
                     /\ Wiping(m, {"wipeApprovals", "wipeDenies"}) =>
                        Wiping(m, {"wipeApprovals", "wipeDenies"})'
<1>1. adm \in [Admins -> AdminCall] /\ adm' = [adm EXCEPT ![x] = NoCall] /\ format' = format
      /\ req' = req /\ work' = work
  BY Zenon DEF Tables, CallsOK, Return
<1>2. adm' \in [Admins -> AdminCall] /\ adm'[x].pc = "idle" /\ \A y \in Admins : y # x => adm'[y] = adm[y]
  BY <1>1, NoCallFields, Zenon
<1>3. CallsCarry'
  BY <1>2, Zenon DEF Tables, CallsOK, CallsCarry
<1>4. WorkOK'
  BY <1>1, Zenon DEF Tables, WorkOK
<1>5. ASSUME repos' = repos, nextId' = nextId PROVE GroupsHaveMembers'
  <2>1. RowsFit'
    BY <1>5, Zenon DEF Tables, GroupsHaveMembers, RowsFit
  <2>2. Fits(adm[x])'
    BY <1>2, Zenon DEF Fits
  <2>3. ASSUME NEW y \in Admins, y # x PROVE Fits(adm[y])'
    <3>1. Fits(adm[y]) /\ adm'[y] = adm[y]
      BY <1>2, <2>3, Zenon DEF Tables, GroupsHaveMembers
    <3> QED
      BY <1>5, <3>1, Zenon DEF Fits
  <2> QED
    BY <2>1, <2>2, <2>3, Zenon DEF GroupsHaveMembers
<1>6. \A m : adm[x].pc # "wipeApprovals" /\ Wiping(m, {"wipeApprovals"}) => Wiping(m, {"wipeApprovals"})'
  BY <1>2, Zenon DEF Wiping
<1>7. \A m : adm[x].pc \notin {"wipeApprovals", "wipeDenies"} /\ Wiping(m, {"wipeApprovals", "wipeDenies"}) =>
                Wiping(m, {"wipeApprovals", "wipeDenies"})'
  BY <1>2, Zenon DEF Wiping
<1> QED
  BY <1>1, <1>2, <1>3, <1>4, <1>5, <1>6, <1>7, Zenon DEF CallsOK

\* The row of one name is written among the approvals.
LEMMA ApprovalsWritten ==
    ASSUME Tables, NEW n \in Names, NEW S \in SUBSET Row, \A a, b \in S : a = b,
           \A a \in S : a.alarms <= 1 /\ (a.count = 0 => a.alarms = 0),
           approvals' = [approvals EXCEPT ![n] = S],
           excused' \in {excused, excused \union {n}},
           UNCHANGED <<format, repos, denies, scans, licenses, marks>>,
           \/ n \in excused' \/ Wiping(n, {"wipeApprovals"})'
           \/ \A a \in S : \E r \in repos[n] : a.status # "pending" => a.epoch = r.id,
           \A m \in Names \ {n} : Wiping(m, {"wipeApprovals"}) => Wiping(m, {"wipeApprovals"})',
           \A m \in Names : Wiping(m, {"wipeApprovals", "wipeDenies"}) =>
                              Wiping(m, {"wipeApprovals", "wipeDenies"})'
    PROVE  ApprovalsOK' /\ DeniesOK' /\ RestOK' /\ AlarmsCounted' /\ DecisionsOwned'
<1>1. approvals \in [Names -> SUBSET Row]
  BY Zenon DEF Tables, ApprovalsOK
<1>2. /\ approvals' \in [Names -> SUBSET Row] /\ approvals'[n] = S
      /\ \A m \in Names \ {n} : approvals'[m] = approvals[m]
  BY <1>1, Zenon
<1>3. ApprovalsOK'
  BY <1>2, Zenon DEF Tables, ApprovalsOK
<1>4. AlarmsCounted'
  BY <1>2, Zenon DEF Tables, AlarmsCounted
<1>5. DeniesOK' /\ RestOK'
  BY Zenon DEF Tables, DeniesOK, RestOK
<1>6. ASSUME NEW m \in Names \ excused'
      PROVE  /\ Wiping(m, {"wipeApprovals"})' \/ \A a \in approvals'[m] :
                    \E r \in repos'[m] : a.status # "pending" => a.epoch = r.id
             /\ Wiping(m, {"wipeApprovals", "wipeDenies"})' \/ \A v \in Versions :
                    denies'[<<m, v>>] \subseteq {r.id : r \in repos'[m]}
  <2>1. m \in Names \ excused
    BY <1>6, Zenon
  <2>2. Wiping(m, {"wipeApprovals", "wipeDenies"})' \/ \A v \in Versions :
           denies'[<<m, v>>] \subseteq {r.id : r \in repos'[m]}
    BY <2>1, Zenon DEF Tables, DecisionsOwned
  <2>3. CASE m = n
    BY <1>2, <1>6, <2>2, <2>3, Zenon
  <2>4. CASE m # n
    BY <1>2, <2>1, <2>2, <2>4, ZenonT(40) DEF Tables, DecisionsOwned
  <2> QED
    BY <2>3, <2>4, Zenon
<1> QED
  BY <1>3, <1>4, <1>5, <1>6, Zenon DEF DecisionsOwned

\* The lookups of the calls that have two statements.
LEMMA LookupStep ==
    ASSUME Tables, NEW x \in Admins,
           \/ CreateApproval(x) \/ GetApproval(x) \/ ApproveAll(x) \/ CreateVersionDeny(x)
           \/ UpdateRepository(x)
    PROVE  Tables'
<1>0. ReposOK /\ ApprovalsOK /\ RowsFit
  BY Zenon DEF Tables, GroupsHaveMembers
<1>a. {} \in SUBSET DOMAIN Configs
  OBVIOUS
<1>1. CASE CreateApproval(x)
  <2>1. PICK n \in Names, s \in {"approved", "rejected"} : \E r \in repos[n] :
           Call(x, "upsertDecision", n, r.id, s, {})
    BY <1>1, Zenon DEF CreateApproval
  <2>2. PICK r \in repos[n] : Call(x, "upsertDecision", n, r.id, s, {})
    BY <2>1, Zenon
  <2>3. r.id \in 0..MaxIds
    BY <1>0, RowIds, Zenon
  <2> QED
    BY <1>a, <2>2, <2>3, Calling, Zenon
<1>2. CASE GetApproval(x)
  <2>1. PICK n \in Names, s \in {"approved", "rejected"} : \E a \in approvals[n] :
           Call(x, "decide", n, a.epoch, s, {})
    BY <1>2, Zenon DEF GetApproval
  <2>2. PICK a \in approvals[n] : Call(x, "decide", n, a.epoch, s, {})
    BY <2>1, Zenon
  <2>3. a.epoch \in 0..MaxIds
    <3>1. a \in Row
      BY <1>0, Zenon DEF ApprovalsOK
    <3> QED
      BY <3>1, Zenon DEF Row
  <2> QED
    BY <1>a, <2>2, <2>3, Calling, Zenon
<1>3. CASE ApproveAll(x)
  <2>1. PICK n \in Names : \E r \in repos[n] : Call(x, "approveAll", n, r.id, "none", {})
    BY <1>3, Zenon DEF ApproveAll
  <2>2. PICK r \in repos[n] : Call(x, "approveAll", n, r.id, "none", {})
    BY <2>1, Zenon
  <2>3. r.id \in 0..MaxIds
    BY <1>0, RowIds, Zenon
  <2> QED
    BY <1>a, <2>2, <2>3, Calling, Zenon
<1>4. CASE CreateVersionDeny(x)
  <2>1. PICK n \in Names, v \in Versions : \E r \in repos[n] :
           Call(x, "upsertDeny", n, r.id, v, {})
    BY <1>4, Zenon DEF CreateVersionDeny
  <2>2. PICK r \in repos[n] : Call(x, "upsertDeny", n, r.id, v, {})
    BY <2>1, Zenon
  <2>3. r.id \in 0..MaxIds
    BY <1>0, RowIds, Zenon
  <2> QED
    BY <1>a, <2>2, <2>3, Calling, Zenon
<1>5. CASE UpdateRepository(x)
  <2>1. PICK b \in Blueprints : \E r \in repos[b.name] :
           /\ r.type = b.type
           /\ b.type = "group" => ValidateGroupMembers(Cfg(b).members)
           /\ Call(x, "writeConfig", b.name, r.id, "none", {b.cfg})
    BY <1>5, Zenon DEF UpdateRepository
  <2>2. PICK r \in repos[b.name] :
           /\ r.type = b.type
           /\ b.type = "group" => Cfg(b).members # <<>>
           /\ Call(x, "writeConfig", b.name, r.id, "none", {b.cfg})
    BY <2>1, Zenon DEF ValidateGroupMembers
  <2>3. b.name \in Names /\ {b.cfg} \in SUBSET DOMAIN Configs
    BY ConstantsAssumption, Zenon
  <2>4. r.id \in 0..MaxIds /\ r.id < nextId
    BY <1>0, <2>3, RowIds, Zenon DEF RowsFit
  <2>5. \A g \in {b.cfg} : \A s \in repos[b.name] :
           s.id = r.id /\ s.type = "group" => Configs[g].members # <<>>
    <3>1. \A s \in repos[b.name] : s = r
      BY <1>0, <2>3, Zenon DEF ReposOK
    <3> QED
      BY <2>2, <3>1, Zenon DEF Cfg
  <2>6. {b.cfg} # {}
    OBVIOUS
  <2> QED
    BY <2>2, <2>3, <2>4, <2>5, <2>6, Calling, Zenon
<1> QED
  BY <1>1, <1>2, <1>3, <1>4, <1>5, Zenon

\* A statement that writes rows of a name for repository id: the repository has it, or the
\* name is excused.
LEMMA Excused ==
    ASSUME NEW n, NEW id, excused' = Excuse(n, id)
    PROVE  /\ excused' \in {excused, excused \union {n}}
           /\ n \in excused' \/ \E r \in repos[n] : r.id = id
BY Zenon DEF Excuse

\* A count that stays at 2.
LEMMA Saturates ==
    /\ \A k \in 0..2 : Saturate(k) \in 0..2 /\ Saturate(k) # 0
    /\ Saturate(0) = 1 /\ 0 \in 0..2 /\ 1 \in 0..2 /\ 0 <= 1 /\ 1 <= 1 /\ 1 # 0
BY DEF Saturate

\* The fields of a row, and a row that is decided.
LEMMA RowFields ==
    ASSUME NEW a \in Row
    PROVE  /\ a.status \in {"pending", "approved", "rejected"} /\ a.count \in 0..2
           /\ a.epoch \in 0..MaxIds /\ a.alarms \in 0..2
BY Zenon DEF Row

Decided(a, s, id) == [a EXCEPT !.status = s, !.epoch = id]

\* A decided row is still a row, now of the repository the decision was for.
LEMMA DecidedRow ==
    ASSUME NEW a \in Row, NEW s \in {"approved", "rejected"}, NEW id \in 0..MaxIds
    PROVE  /\ Decided(a, s, id) \in Row /\ Decided(a, s, id).epoch = id
           /\ Decided(a, s, id).count = a.count /\ Decided(a, s, id).alarms = a.alarms
BY Zenon DEF Row, Decided

\* A decision is stored for the repository that was looked up.
LEMMA DecisionStep ==
    ASSUME Tables, NEW x \in Admins, UpsertDecision(x)
    PROVE  Tables'
<1> DEFINE n == adm[x].name
           s == adm[x].arg
           id == adm[x].id
           new == [status |-> s, count |-> 0, epoch |-> id, alarms |-> 0]
           decided(a) == Decided(a, s, id)
           S == IF approvals[n] = {} THEN {new} ELSE {decided(a) : a \in approvals[n]}
<1>1. /\ adm[x].pc = "upsertDecision" /\ excused' = Excuse(n, id) /\ Return(x)
      /\ UNCHANGED <<repos, nextId, denies, scans, licenses, marks>>
      /\ approvals' = [approvals EXCEPT ![n] = S]
  <2>1. approvals \in [Names -> SUBSET Row] /\ adm[x] \in AdminCall
    BY Zenon DEF Tables, ApprovalsOK, CallsOK
  <2>2. n \in Names
    BY <2>1, CallFields, Zenon
  <2> QED
    BY <2>1, <2>2, Zenon DEF UpsertDecision, Decided
<1>2. n \in Names /\ id \in 0..MaxIds /\ s \in {"approved", "rejected"}
  BY <1>1, CallFields, Zenon DEF Tables, CallsOK, CallsCarry
<1>3. /\ CallsOK' /\ WorkOK' /\ format' = format /\ GroupsHaveMembers' /\ ReposOK'
      /\ \A m : Wiping(m, {"wipeApprovals"}) => Wiping(m, {"wipeApprovals"})'
      /\ \A m : Wiping(m, {"wipeApprovals", "wipeDenies"}) => Wiping(m, {"wipeApprovals", "wipeDenies"})'
  BY <1>1, Returning, Zenon DEF Tables, ReposOK
<1> HIDE DEF n, s, id
<1>4. new \in Row /\ new.epoch = id /\ new.count = 0 /\ new.alarms = 0
  BY <1>2, Saturates, Zenon DEF Row
<1>5. ASSUME NEW a \in approvals[n]
      PROVE  /\ decided(a) \in Row /\ decided(a).epoch = id
             /\ decided(a).alarms <= 1 /\ (decided(a).count = 0 => decided(a).alarms = 0)
  <2>1. a \in Row /\ a.alarms <= 1 /\ (a.count = 0 => a.alarms = 0)
    BY <1>2, Zenon DEF Tables, ApprovalsOK, AlarmsCounted
  <2>2. /\ decided(a) \in Row /\ decided(a).epoch = id
        /\ decided(a).count = a.count /\ decided(a).alarms = a.alarms
    BY <1>2, <2>1, DecidedRow, ZenonT(60)
  <2> QED
    BY <2>1, <2>2, Zenon
<1>6. \A a, b \in approvals[n] : a = b
  BY <1>2, Zenon DEF Tables, ApprovalsOK
<1> HIDE DEF new, decided
<1>7. /\ S \in SUBSET Row /\ \A a, b \in S : a = b
      /\ \A a \in S : a.alarms <= 1 /\ (a.count = 0 => a.alarms = 0)
      /\ \A a \in S : a.epoch = id
  BY <1>4, <1>5, <1>6, Saturates, Zenon
<1> HIDE DEF S
<1>8. /\ excused' \in {excused, excused \union {n}}
      /\ n \in excused' \/ \A a \in S : \E r \in repos[n] : a.status # "pending" => a.epoch = r.id
  <2>1. /\ excused' \in {excused, excused \union {n}}
        /\ n \in excused' \/ \E r \in repos[n] : r.id = id
    BY <1>1, Excused, Zenon
  <2> QED
    BY <1>7, <2>1, Zenon
<1>9. ApprovalsOK' /\ DeniesOK' /\ RestOK' /\ AlarmsCounted' /\ DecisionsOwned'
  BY <1>1, <1>2, <1>3, <1>7, <1>8, ApprovalsWritten, Zenon
<1> QED
  BY <1>3, <1>9, Zenon DEF Tables

\* A decision about a row that was looked up.
LEMMA DecideStep ==
    ASSUME Tables, NEW x \in Admins, DecideApproval(x)
    PROVE  Tables'
<1> DEFINE n == adm[x].name
           s == adm[x].arg
           id(a) == IF repos[n] = {} THEN a.epoch ELSE (CHOOSE r \in repos[n] : TRUE).id
           decided(a) == Decided(a, s, id(a))
           S == IF s = "gone" THEN approvals[n] ELSE {decided(a) : a \in approvals[n]}
<1>1. /\ adm[x].pc = "decide" /\ Return(x)
      /\ UNCHANGED <<repos, nextId, denies, scans, licenses, marks, excused>>
      /\ approvals' = [approvals EXCEPT ![n] = S]
  <2>1. approvals \in [Names -> SUBSET Row] /\ adm[x] \in AdminCall
    BY Zenon DEF Tables, ApprovalsOK, CallsOK
  <2>2. n \in Names
    BY <2>1, CallFields, Zenon
  <2> QED
    BY <2>1, <2>2, Zenon DEF DecideApproval, Decided
<1>2. n \in Names /\ s \in {"approved", "rejected", "gone"}
  BY <1>1, CallFields, Zenon DEF Tables, CallsOK, CallsCarry
<1>3. /\ CallsOK' /\ WorkOK' /\ format' = format /\ GroupsHaveMembers' /\ ReposOK'
      /\ \A m : Wiping(m, {"wipeApprovals"}) => Wiping(m, {"wipeApprovals"})'
      /\ \A m : Wiping(m, {"wipeApprovals", "wipeDenies"}) => Wiping(m, {"wipeApprovals", "wipeDenies"})'
  BY <1>1, Returning, Zenon DEF Tables, ReposOK
<1> HIDE DEF n, s
<1>4. \A a \in approvals[n] : a \in Row /\ a.alarms <= 1 /\ (a.count = 0 => a.alarms = 0)
  BY <1>2, Zenon DEF Tables, ApprovalsOK, AlarmsCounted
<1>5. ASSUME NEW a \in approvals[n], s # "gone"
      PROVE  /\ decided(a) \in Row /\ decided(a).epoch = id(a)
             /\ decided(a).alarms <= 1 /\ (decided(a).count = 0 => decided(a).alarms = 0)
  <2>1. id(a) \in 0..MaxIds
    <3>1. ASSUME repos[n] # {} PROVE (CHOOSE r \in repos[n] : TRUE).id \in 0..MaxIds
      BY <1>2, <3>1, RowIds, Zenon DEF Tables
    <3> QED
      BY <1>4, <3>1, RowFields, Zenon
  <2> HIDE DEF id
  <2>2. s \in {"approved", "rejected"} /\ a \in Row
    BY <1>2, <1>4, <1>5, Zenon
  <2>3. /\ decided(a) \in Row /\ decided(a).epoch = id(a)
        /\ decided(a).count = a.count /\ decided(a).alarms = a.alarms
    BY <2>1, <2>2, DecidedRow, ZenonT(40)
  <2> QED
    BY <1>4, <2>3, Zenon
<1>6. \A a, b \in approvals[n] : a = b
  BY <1>2, Zenon DEF Tables, ApprovalsOK
<1>7. repos[n] # {} => \E r \in repos[n] : \A a : id(a) = r.id
  BY Zenon
<1>8. n \in excused \/ Wiping(n, {"wipeApprovals"}) \/ \A a \in approvals[n] :
         \E r \in repos[n] : a.status # "pending" => a.epoch = r.id
  BY <1>2, Zenon DEF Tables, DecisionsOwned
<1> HIDE DEF id, decided
<1>9. /\ S \in SUBSET Row /\ \A a, b \in S : a = b
      /\ \A a \in S : a.alarms <= 1 /\ (a.count = 0 => a.alarms = 0)
  BY <1>4, <1>5, <1>6, Zenon
<1>10. n \in excused \/ Wiping(n, {"wipeApprovals"}) \/ \A a \in S :
         \E r \in repos[n] : a.status # "pending" => a.epoch = r.id
  <2>1. CASE s = "gone"
    BY <1>8, <2>1, Zenon
  <2>2. CASE s # "gone" /\ approvals[n] = {}
    BY <2>2, Zenon
  <2>3. CASE s # "gone" /\ repos[n] # {}
    BY <1>5, <1>7, <2>3, Zenon
  <2> QED
    BY <1>8, <2>1, <2>2, <2>3, Zenon
<1> HIDE DEF S
<1>11. excused' \in {excused, excused \union {n}} /\ excused' = excused
  BY <1>1, Zenon
<1>12. ApprovalsOK' /\ DeniesOK' /\ RestOK' /\ AlarmsCounted' /\ DecisionsOwned'
  BY <1>1, <1>2, <1>3, <1>9, <1>10, <1>11, ApprovalsWritten, ZenonT(40)
<1> QED
  BY <1>3, <1>12, Zenon DEF Tables

\* All pending rows of a name are approved.
LEMMA ApproveAllStep ==
    ASSUME Tables, NEW x \in Admins, ApproveAllPending(x)
    PROVE  Tables'
<1>0. PICK n, id : n = adm[x].name /\ id = adm[x].id
  BY Zenon
<1> DEFINE settled(a) == IF a.status = "pending" THEN Decided(a, "approved", id) ELSE a
           S == {settled(a) : a \in approvals[n]}
<1>1. /\ adm[x].pc = "approveAll" /\ excused' = Excuse(n, id) /\ Return(x)
      /\ UNCHANGED <<repos, nextId, denies, scans, licenses, marks>>
      /\ approvals' = [approvals EXCEPT ![n] = S]
  <2>1. approvals \in [Names -> SUBSET Row] /\ adm[x] \in AdminCall
    BY Zenon DEF Tables, ApprovalsOK, CallsOK
  <2>2. n \in Names
    BY <1>0, <2>1, CallFields, Zenon
  <2> QED
    BY <1>0, <2>1, <2>2, Zenon DEF ApproveAllPending, Decided
<1>2. n \in Names /\ id \in 0..MaxIds
  BY <1>0, CallFields, Zenon DEF Tables, CallsOK
<1>3. /\ CallsOK' /\ WorkOK' /\ format' = format /\ GroupsHaveMembers' /\ ReposOK'
      /\ \A m : Wiping(m, {"wipeApprovals"}) => Wiping(m, {"wipeApprovals"})'
      /\ \A m : Wiping(m, {"wipeApprovals", "wipeDenies"}) => Wiping(m, {"wipeApprovals", "wipeDenies"})'
  BY <1>1, Returning, Zenon DEF Tables, ReposOK
<1>4. \A a \in approvals[n] : a \in Row /\ a.alarms <= 1 /\ (a.count = 0 => a.alarms = 0)
  BY <1>2, Zenon DEF Tables, ApprovalsOK, AlarmsCounted
<1>5. ASSUME NEW a \in approvals[n]
      PROVE  /\ settled(a) \in Row /\ settled(a).alarms <= 1
             /\ settled(a).count = 0 => settled(a).alarms = 0
             /\ settled(a).epoch = id \/ (settled(a) = a /\ a.status # "pending")
  <2>1. /\ Decided(a, "approved", id) \in Row /\ Decided(a, "approved", id).epoch = id
        /\ Decided(a, "approved", id).count = a.count /\ Decided(a, "approved", id).alarms = a.alarms
    BY <1>2, <1>4, DecidedRow, Zenon
  <2> QED
    BY <1>4, <2>1, Zenon
<1>6. \A a, b \in approvals[n] : a = b
  BY <1>2, Zenon DEF Tables, ApprovalsOK
<1>7. n \in excused \/ Wiping(n, {"wipeApprovals"}) \/ \A a \in approvals[n] :
         \E r \in repos[n] : a.status # "pending" => a.epoch = r.id
  BY <1>2, Zenon DEF Tables, DecisionsOwned
<1> HIDE DEF settled
<1>8. /\ S \in SUBSET Row /\ \A a, b \in S : a = b
      /\ \A a \in S : a.alarms <= 1 /\ (a.count = 0 => a.alarms = 0)
      /\ \A a \in S : a.epoch = id \/ (a \in approvals[n] /\ a.status # "pending")
  BY <1>5, <1>6, Zenon
<1> HIDE DEF S
<1>9. /\ excused' \in {excused, excused \union {n}}
      /\ n \in excused' \/ \E r \in repos[n] : r.id = id
  BY <1>1, Excused, Zenon
<1>10. \/ n \in excused' \/ Wiping(n, {"wipeApprovals"})'
       \/ \A a \in S : \E r \in repos[n] : a.status # "pending" => a.epoch = r.id
  <2>1. n \in excused => n \in excused'
    BY <1>9, Zenon
  <2> QED
    BY <1>3, <1>7, <1>8, <1>9, <2>1, Zenon
<1>11. ApprovalsOK' /\ DeniesOK' /\ RestOK' /\ AlarmsCounted' /\ DecisionsOwned'
  BY <1>1, <1>2, <1>3, <1>8, <1>9, <1>10, ApprovalsWritten, Zenon
<1> QED
  BY <1>3, <1>11, Zenon DEF Tables

\* A row that one more request asked for.
Counted(a) == [a EXCEPT !.count = Saturate(@), !.alarms = IF a.count = 0 THEN Saturate(@) ELSE @]

\* Counting a request keeps the decision, and raises the alarm with the first one only.
LEMMA CountedRow ==
    ASSUME NEW a \in Row, a.alarms <= 1, a.count = 0 => a.alarms = 0
    PROVE  /\ Counted(a) \in Row /\ Counted(a).alarms <= 1 /\ Counted(a).count # 0
           /\ Counted(a).status = a.status /\ Counted(a).epoch = a.epoch
<1>1. a.count \in 0..2 /\ a.alarms \in 0..2
  BY RowFields, Zenon
<1>2. /\ Saturate(a.count) \in 0..2 /\ Saturate(a.alarms) \in 0..2 /\ Saturate(a.count) # 0
      /\ a.count = 0 => Saturate(a.alarms) <= 1
  BY <1>1, Saturates, Zenon
<1> DEFINE k == IF a.count = 0 THEN Saturate(a.alarms) ELSE a.alarms
<1>3. k \in 0..2 /\ k <= 1
  BY <1>1, <1>2, Zenon
<1>4. Counted(a) = [a EXCEPT !.count = Saturate(a.count), !.alarms = k]
  BY Zenon DEF Counted
<1> HIDE DEF k
<1>5. /\ Counted(a) \in Row /\ Counted(a).alarms = k /\ Counted(a).count = Saturate(a.count)
      /\ Counted(a).status = a.status /\ Counted(a).epoch = a.epoch
  BY <1>2, <1>3, <1>4, Zenon DEF Row
<1> QED
  BY <1>2, <1>3, <1>5, Zenon

\* The row of a name after one more request for repository id.
LEMMA Upserted ==
    ASSUME Tables, NEW n \in Names, NEW id \in 0..MaxIds
    PROVE  LET S == UpsertPending(n, id) IN
           /\ S \in SUBSET Row /\ \A a, b \in S : a = b
           /\ \A a \in S : a.alarms <= 1 /\ (a.count = 0 => a.alarms = 0)
           /\ \A a \in S : \/ a.status = "pending"
                           \/ \E b \in approvals[n] : b.status = a.status /\ b.epoch = a.epoch
<1> DEFINE new == [status |-> "pending", count |-> 1, epoch |-> id, alarms |-> 1]
           one(a) == IF a.status = "approved" THEN a ELSE Counted(a)
           S == UpsertPending(n, id)
<1>1. new \in Row /\ new.status = "pending" /\ new.alarms = 1 /\ new.count = 1
  BY Saturates, Zenon DEF Row
<1>2. \A a \in approvals[n] : a \in Row /\ a.alarms <= 1 /\ (a.count = 0 => a.alarms = 0)
  BY Zenon DEF Tables, ApprovalsOK, AlarmsCounted
<1>3. \A a, b \in approvals[n] : a = b
  BY Zenon DEF Tables, ApprovalsOK
<1>4. ASSUME NEW a \in approvals[n]
      PROVE  /\ one(a) \in Row /\ one(a).alarms <= 1 /\ (one(a).count = 0 => one(a).alarms = 0)
             /\ one(a).status = a.status /\ one(a).epoch = a.epoch
  <2>1. /\ Counted(a) \in Row /\ Counted(a).alarms <= 1 /\ Counted(a).count # 0
        /\ Counted(a).status = a.status /\ Counted(a).epoch = a.epoch
    BY <1>2, CountedRow, Zenon
  <2> QED
    BY <1>2, <2>1, Zenon
<1>5. S = IF approvals[n] = {} THEN {new} ELSE {one(a) : a \in approvals[n]}
  BY Zenon DEF UpsertPending, Counted
<1> HIDE DEF new, one, S
<1>6. /\ S \in SUBSET Row /\ \A a, b \in S : a = b
      /\ \A a \in S : a.alarms <= 1 /\ (a.count = 0 => a.alarms = 0)
  BY <1>1, <1>3, <1>4, <1>5, Saturates, Zenon
<1>7. \A a \in S : \/ a.status = "pending"
                   \/ \E b \in approvals[n] : b.status = a.status /\ b.epoch = a.epoch
  BY <1>1, <1>4, <1>5, ZenonT(60)
<1> QED
  BY <1>6, <1>7, Zenon DEF S

\* A client's step writes its request, and the tables in SetMark and Pending only.
LEMMA ClientWrites ==
    ASSUME NEW c \in Clients, RequestStep(c)
    PROVE  /\ \E s : Set(c, s)
           /\ UNCHANGED <<format, repos, nextId, denies, scans, licenses, adm>>
           /\ work' = work \/ (work < MaxWork /\ work' = work + 1)
           /\ UNCHANGED <<approvals, excused, marks>> \/ SetMark(c) \/ Pending(c)
<1>1. \A out : Answer(c, out) => \E s : Set(c, s)
  BY Zenon DEF Answer
<1>2. Pass(c) => \E s : Set(c, s)
  BY Zenon DEF Pass
<1>3. Verdict(c) => \E s : Set(c, s)
  BY <1>1, <1>2, Zenon DEF Verdict
<1>4. \A action, result : Finding(c, action, result) => \E s : Set(c, s)
  BY <1>1, <1>2, Zenon DEF Finding
<1>5. ASSUME NEW n, NEW k, NEW v, Begin(c, n, k, v)
      PROVE  /\ \E s : Set(c, s)
             /\ UNCHANGED <<format, repos, nextId, denies, scans, licenses, adm>>
             /\ work < MaxWork /\ work' = work + 1 /\ UNCHANGED <<approvals, excused, marks>>
  BY <1>5, Zenon DEF Begin, tables
<1>6. ASSUME \/ Resolve(c) \/ DenyGate(c) \/ ApprovalGate(c) \/ MarkGate(c) \/ VulnGate(c)
             \/ LicenseGate(c) \/ Engine(c) \/ Put(c) \/ Reply(c)
      PROVE  (\E s : Set(c, s)) /\ Quiet
  <2>1. CASE Resolve(c)
    BY <1>1, <2>1, Zenon DEF Resolve
  <2>2. CASE DenyGate(c)
    BY <1>1, <1>2, <2>2, Zenon DEF DenyGate
  <2>3. CASE ApprovalGate(c)
    BY <1>1, <1>2, <2>3, Zenon DEF ApprovalGate
  <2>4. CASE MarkGate(c)
    BY <1>3, <2>4, Zenon DEF MarkGate
  <2>5. CASE VulnGate(c)
    BY <1>2, <1>4, <2>5, Zenon DEF VulnGate
  <2>6. CASE LicenseGate(c)
    BY <1>2, <1>4, <2>6, Zenon DEF LicenseGate
  <2>7. CASE Engine(c) \/ Put(c) \/ Reply(c)
    BY <1>1, <2>7, Zenon DEF Engine, Put, Reply
  <2> QED
    BY <1>6, <2>1, <2>2, <2>3, <2>4, <2>5, <2>6, <2>7, Zenon
<1>7. Quiet => UNCHANGED <<format, repos, nextId, denies, scans, licenses, adm, work, approvals, excused, marks>>
  BY Zenon DEF Quiet, tables
<1>8. CASE SetMark(c)
  BY <1>8, Zenon DEF SetMark
<1>9. CASE Pending(c)
  BY <1>3, <1>9, Zenon DEF Pending
<1> QED
  BY <1>5, <1>6, <1>7, <1>8, <1>9, Zenon DEF RequestStep

\* A step of a request keeps the tables, and the requests of other clients.
LEMMA ClientTables ==
    ASSUME Tables, req \in [Clients -> Request], NEW c \in Clients, Sound(c), RequestStep(c)
    PROVE  /\ Tables' /\ format' = format /\ DOMAIN req' = Clients
           /\ \A d \in Clients : d # c => req'[d] = req[d]
           /\ req' = [d \in Clients |-> req'[d]]
<1>1. PICK s : Set(c, s)
  BY ClientWrites, Zenon
<1>2. /\ req' = [req EXCEPT ![c] = s] /\ DOMAIN req' = Clients /\ req' = [d \in Clients |-> req'[d]]
      /\ \A d \in Clients : d # c => req'[d] = req[d]
  BY <1>1, Zenon DEF Set
<1>3. /\ UNCHANGED <<format, repos, nextId, denies, scans, licenses, adm>>
      /\ work' = work \/ (work < MaxWork /\ work' = work + 1)
      /\ UNCHANGED <<approvals, excused, marks>> \/ SetMark(c) \/ Pending(c)
  BY ClientWrites, Zenon
<1>4. ReposOK' /\ DeniesOK' /\ CallsOK' /\ WorkOK' /\ GroupsHaveMembers'
  <2>1. ReposOK' /\ DeniesOK' /\ CallsOK'
    BY <1>3, Zenon DEF Tables, ReposOK, DeniesOK, CallsOK, CallsCarry
  <2>2. WorkOK'
    BY <1>3, Worked, Zenon DEF Tables, WorkOK
  <2>3. RowsFit'
    BY <1>3, Zenon DEF Tables, GroupsHaveMembers, RowsFit
  <2>4. ASSUME NEW y \in Admins PROVE Fits(adm[y])'
    <3>1. Fits(adm[y]) /\ adm'[y] = adm[y]
      BY <1>3, Zenon DEF Tables, GroupsHaveMembers
    <3> QED
      BY <1>3, <3>1, Zenon DEF Fits
  <2> QED
    BY <2>1, <2>2, <2>3, <2>4, Zenon DEF GroupsHaveMembers
<1>5. \A m, pcs : Wiping(m, pcs)' <=> Wiping(m, pcs)
  BY <1>3, Zenon DEF Wiping
<1>6. CASE UNCHANGED <<approvals, excused>>
  <2>1. ApprovalsOK' /\ AlarmsCounted'
    BY <1>6, Zenon DEF Tables, ApprovalsOK, AlarmsCounted
  <2>2. DecisionsOwned'
    BY <1>3, <1>5, <1>6, Zenon DEF Tables, DecisionsOwned
  <2>3. marks' \subseteq Names
    <3>1. CASE SetMark(c)
      <4>1. req[c].pc \in Stages /\ req[c].pc \in Running /\ req[c] \in Request
        BY <3>1, Zenon DEF SetMark, Running, Stages
      <4>2. Member(c) \in Names
        BY <4>1, RequestFields, TailOf, Zenon DEF Sound, Entered, Member
      <4> QED
        BY <3>1, <4>2, Zenon DEF SetMark, Tables, RestOK
    <3>2. CASE Pending(c) \/ UNCHANGED marks
      BY <3>2, Zenon DEF Pending, Tables, RestOK
    <3> QED
      BY <1>3, <3>1, <3>2, Zenon
  <2>4. RestOK'
    BY <1>3, <1>6, <2>3, Zenon DEF Tables, RestOK
  <2> QED
    BY <1>2, <1>3, <1>4, <2>1, <2>2, <2>4, Zenon DEF Tables
<1>7. CASE /\ req[c].pc = "pending" /\ marks' = marks
           /\ approvals' = [approvals EXCEPT ![Member(c)] = UpsertPending(Member(c), Res(c).id)]
           /\ excused' = Excuse(Member(c), Res(c).id)
  <2>0. PICK n, id : n = Member(c) /\ id = Res(c).id
    BY Zenon
  <2> DEFINE S == UpsertPending(n, id)
  <2>1. req[c].pc \in Stages /\ req[c].pc \in Running /\ req[c] \in Request
    BY <1>7, Zenon DEF Running, Stages
  <2>2. n \in Names
    BY <2>0, <2>1, RequestFields, TailOf, Zenon DEF Sound, Entered, Member
  <2>3. id \in 0..MaxIds
    <3>1. req[c].res # {} /\ req[c].res \in SUBSET Repository
      BY <2>1, RequestFields, Zenon DEF Sound, Entered
    <3>2. Res(c) \in Repository
      BY <3>1, Zenon DEF Res
    <3>3. id \in 1..MaxIds
      BY <2>0, <3>2, Zenon DEF Repository
    <3> QED
      BY <3>3, ConstantsAssumption
  <2>4. /\ S \in SUBSET Row /\ \A a, b \in S : a = b
        /\ \A a \in S : a.alarms <= 1 /\ (a.count = 0 => a.alarms = 0)
        /\ \A a \in S : \/ a.status = "pending"
                        \/ \E b \in approvals[n] : b.status = a.status /\ b.epoch = a.epoch
    BY <2>2, <2>3, Upserted, Zenon
  <2> HIDE DEF S
  <2>5. /\ approvals' = [approvals EXCEPT ![n] = S] /\ excused' = Excuse(n, id)
        /\ UNCHANGED <<format, repos, denies, scans, licenses, marks>>
    BY <1>3, <1>7, <2>0, Zenon DEF S
  <2>6. /\ excused' \in {excused, excused \union {n}}
        /\ n \in excused' \/ \E r \in repos[n] : r.id = id
    BY <2>5, Excused, Zenon
  <2>7. \/ n \in excused' \/ Wiping(n, {"wipeApprovals"})'
        \/ \A a \in S : \E r \in repos[n] : a.status # "pending" => a.epoch = r.id
    <3>1. n \in excused => n \in excused'
      BY <2>6, Zenon
    <3>2. n \in excused \/ Wiping(n, {"wipeApprovals"}) \/ \A a \in approvals[n] :
             \E r \in repos[n] : a.status # "pending" => a.epoch = r.id
      BY <2>2, Zenon DEF Tables, DecisionsOwned
    <3>3. ASSUME NEW a \in S, n \notin excused', ~Wiping(n, {"wipeApprovals"})
          PROVE  \E r \in repos[n] : a.status # "pending" => a.epoch = r.id
      <4>1. CASE a.status = "pending"
        BY <2>6, <3>3, <4>1, Zenon
      <4>2. CASE a.status # "pending"
        <5>1. PICK b \in approvals[n] : b.status = a.status /\ b.epoch = a.epoch
          BY <2>4, <4>2, Zenon
        <5> QED
          BY <3>1, <3>2, <3>3, <4>2, <5>1, Zenon
      <4> QED
        BY <4>1, <4>2, Zenon
    <3> QED
      BY <1>5, <3>3, Zenon
  <2>8. ApprovalsOK' /\ DeniesOK' /\ RestOK' /\ AlarmsCounted' /\ DecisionsOwned'
    BY <1>5, <2>2, <2>4, <2>5, <2>6, <2>7, ApprovalsWritten, Zenon
  <2> QED
    BY <1>2, <1>3, <1>4, <2>8, Zenon DEF Tables
<1> QED
  BY <1>3, <1>6, <1>7, Zenon DEF SetMark, Pending

\* Denies of one name are written.
LEMMA DeniesWritten ==
    ASSUME Tables, NEW n \in Names,
           denies' \in [Names \X Versions -> SUBSET (0..MaxIds)],
           \A d \in Names \X Versions : \A i, j \in denies'[d] : i = j,
           \A m \in Names, v \in Versions : m # n => denies'[<<m, v>>] = denies[<<m, v>>],
           excused' \in {excused, excused \union {n}},
           UNCHANGED <<format, repos, approvals, scans, licenses, marks>>,
           \/ n \in excused' \/ Wiping(n, {"wipeApprovals", "wipeDenies"})'
           \/ \A v \in Versions : denies'[<<n, v>>] \subseteq {r.id : r \in repos[n]},
           \A m \in Names : Wiping(m, {"wipeApprovals"}) => Wiping(m, {"wipeApprovals"})',
           \A m \in Names \ {n} : Wiping(m, {"wipeApprovals", "wipeDenies"}) =>
                                  Wiping(m, {"wipeApprovals", "wipeDenies"})'
    PROVE  ApprovalsOK' /\ DeniesOK' /\ RestOK' /\ AlarmsCounted' /\ DecisionsOwned'
<1>1. ApprovalsOK' /\ AlarmsCounted' /\ RestOK'
  BY Zenon DEF Tables, ApprovalsOK, AlarmsCounted, RestOK
<1>2. DeniesOK'
  BY Zenon DEF DeniesOK
<1>3. ASSUME NEW m \in Names \ excused'
      PROVE  /\ Wiping(m, {"wipeApprovals"})' \/ \A a \in approvals'[m] :
                    \E r \in repos'[m] : a.status # "pending" => a.epoch = r.id
             /\ Wiping(m, {"wipeApprovals", "wipeDenies"})' \/ \A v \in Versions :
                    denies'[<<m, v>>] \subseteq {r.id : r \in repos'[m]}
  <2>1. m \in Names \ excused
    BY <1>3, Zenon
  <2>2. Wiping(m, {"wipeApprovals"})' \/ \A a \in approvals'[m] :
           \E r \in repos'[m] : a.status # "pending" => a.epoch = r.id
    BY <2>1, ZenonT(40) DEF Tables, DecisionsOwned
  <2>3. CASE m = n
    BY <1>3, <2>2, <2>3, Zenon
  <2>4. CASE m # n
    <3>1. \A v \in Versions : denies'[<<m, v>>] = denies[<<m, v>>]
      BY <2>1, <2>4, Zenon
    <3> QED
      BY <2>1, <2>2, <2>4, <3>1, Zenon DEF Tables, DecisionsOwned
  <2> QED
    BY <2>3, <2>4, Zenon
<1> QED
  BY <1>1, <1>2, <1>3, Zenon DEF DecisionsOwned

\* A deny is stored for the repository that was looked up.
LEMMA DenyWriteStep ==
    ASSUME Tables, NEW x \in Admins, UpsertVersionDeny(x)
    PROVE  Tables'
<1>0. PICK n, id, v : n = adm[x].name /\ id = adm[x].id /\ v = adm[x].arg
  BY Zenon
<1>1. /\ adm[x].pc = "upsertDeny" /\ excused' = Excuse(n, id) /\ Return(x)
      /\ UNCHANGED <<repos, nextId, approvals, scans, licenses, marks>>
      /\ denies' = [denies EXCEPT ![<<n, v>>] = {id}]
  BY <1>0, Zenon DEF UpsertVersionDeny
<1>2. n \in Names /\ id \in 0..MaxIds /\ v \in Versions
  BY <1>0, <1>1, CallFields, Zenon DEF Tables, CallsOK, CallsCarry
<1>3. /\ CallsOK' /\ WorkOK' /\ format' = format /\ GroupsHaveMembers' /\ ReposOK'
      /\ \A m : Wiping(m, {"wipeApprovals"}) => Wiping(m, {"wipeApprovals"})'
      /\ \A m : Wiping(m, {"wipeApprovals", "wipeDenies"}) => Wiping(m, {"wipeApprovals", "wipeDenies"})'
  BY <1>1, Returning, Zenon DEF Tables, ReposOK
<1>4. denies \in [Names \X Versions -> SUBSET (0..MaxIds)]
      /\ \A d \in Names \X Versions : \A i, j \in denies[d] : i = j
  BY Zenon DEF Tables, DeniesOK
<1>5. <<n, v>> \in Names \X Versions
  BY <1>2, Zenon
<1>6. /\ denies' \in [Names \X Versions -> SUBSET (0..MaxIds)]
      /\ \A d \in Names \X Versions : d # <<n, v>> => denies'[d] = denies[d]
      /\ denies'[<<n, v>>] = {id}
  BY <1>1, <1>2, <1>4, <1>5, ZenonT(60)
<1>7. \A d \in Names \X Versions : \A i, j \in denies'[d] : i = j
  <2>1. \A d \in Names \X Versions : denies'[d] = {id} \/ denies'[d] = denies[d]
    BY <1>6, Zenon
  <2>2. \A i, j \in {id} : i = j
    OBVIOUS
  <2> QED
    BY <1>4, <2>1, <2>2, ZenonT(40)
<1>8. /\ \A m \in Names, w \in Versions : m # n => denies'[<<m, w>>] = denies[<<m, w>>]
      /\ \A w \in Versions : w # v => denies'[<<n, w>>] = denies[<<n, w>>]
  <2>1. \A m, w : <<m, w>> = <<n, v>> => m = n /\ w = v
    OBVIOUS
  <2>2. \A m \in Names, w \in Versions : <<m, w>> \in Names \X Versions
    OBVIOUS
  <2> QED
    BY <1>2, <1>6, <2>1, <2>2, Zenon
<1>9. /\ excused' \in {excused, excused \union {n}}
      /\ n \in excused' \/ \E r \in repos[n] : r.id = id
  BY <1>1, Excused, Zenon
<1>10. \/ n \in excused' \/ Wiping(n, {"wipeApprovals", "wipeDenies"})'
       \/ \A w \in Versions : denies'[<<n, w>>] \subseteq {r.id : r \in repos[n]}
  <2>1. n \in excused => n \in excused'
    BY <1>9, Zenon
  <2>2. n \in excused \/ Wiping(n, {"wipeApprovals", "wipeDenies"}) \/ \A w \in Versions :
           denies[<<n, w>>] \subseteq {r.id : r \in repos[n]}
    BY <1>2, Zenon DEF Tables, DecisionsOwned
  <2>3. n \in excused' \/ denies'[<<n, v>>] \subseteq {r.id : r \in repos[n]}
    BY <1>6, <1>9, Zenon
  <2> QED
    BY <1>3, <1>8, <2>1, <2>2, <2>3, Zenon
<1>11. ApprovalsOK' /\ DeniesOK' /\ RestOK' /\ AlarmsCounted' /\ DecisionsOwned'
  BY <1>1, <1>2, <1>3, <1>6, <1>7, <1>8, <1>9, <1>10, DeniesWritten, Zenon
<1> QED
  BY <1>3, <1>11, Zenon DEF Tables

\* The calls stay as they are, the repositories, too.
LEMMA SameCalls ==
    ASSUME Tables, adm' = adm, work < MaxWork, work' = work + 1
    PROVE  /\ CallsOK' /\ WorkOK' /\ \A m, pcs : Wiping(m, pcs)' <=> Wiping(m, pcs)
           /\ repos' = repos /\ nextId' = nextId => GroupsHaveMembers' /\ ReposOK'
<1>1. CallsOK'
  BY Zenon DEF Tables, CallsOK, CallsCarry
<1>2. WorkOK'
  BY Worked, Zenon DEF Tables
<1>3. \A m, pcs : Wiping(m, pcs)' <=> Wiping(m, pcs)
  BY Zenon DEF Wiping
<1>4. ASSUME repos' = repos, nextId' = nextId PROVE GroupsHaveMembers' /\ ReposOK'
  <2>1. RowsFit' /\ ReposOK'
    BY <1>4, Zenon DEF Tables, GroupsHaveMembers, RowsFit, ReposOK
  <2>2. ASSUME NEW y \in Admins PROVE Fits(adm[y])'
    <3>1. Fits(adm[y]) /\ adm'[y] = adm[y]
      BY Zenon DEF Tables, GroupsHaveMembers
    <3> QED
      BY <1>4, <3>1, Zenon DEF Fits
  <2> QED
    BY <2>1, <2>2, Zenon DEF GroupsHaveMembers
<1> QED
  BY <1>1, <1>2, <1>3, <1>4, Zenon

\* A deny is deleted.
LEMMA DenyDeleteStep ==
    ASSUME Tables, NEW x \in Admins, DeleteVersionDeny(x)
    PROVE  Tables'
<1>1. /\ work < MaxWork /\ work' = work + 1
      /\ UNCHANGED <<format, repos, nextId, approvals, scans, licenses, marks, excused, req, adm>>
  BY Zenon DEF DeleteVersionDeny
<1>2. PICK d \in Names \X Versions : denies' = [denies EXCEPT ![d] = {}]
  BY Zenon DEF DeleteVersionDeny
<1>3. /\ CallsOK' /\ WorkOK' /\ GroupsHaveMembers' /\ ReposOK'
      /\ \A m, pcs : Wiping(m, pcs)' <=> Wiping(m, pcs)
  BY <1>1, SameCalls, Zenon
<1>4. ApprovalsOK' /\ AlarmsCounted' /\ RestOK'
  BY <1>1, Zenon DEF Tables, ApprovalsOK, AlarmsCounted, RestOK
<1>5. denies \in [Names \X Versions -> SUBSET (0..MaxIds)]
      /\ \A e \in Names \X Versions : \A i, j \in denies[e] : i = j
  BY Zenon DEF Tables, DeniesOK
<1>6. /\ denies' \in [Names \X Versions -> SUBSET (0..MaxIds)]
      /\ \A e \in Names \X Versions : denies'[e] = {} \/ denies'[e] = denies[e]
  BY <1>2, <1>5, Zenon
<1>7. DeniesOK'
  BY <1>5, <1>6, Zenon DEF DeniesOK
<1>8. \A m \in Names, v \in Versions : denies'[<<m, v>>] \subseteq denies[<<m, v>>]
  <2>1. \A m \in Names, w \in Versions : <<m, w>> \in Names \X Versions
    OBVIOUS
  <2> QED
    BY <1>6, <2>1, Zenon
<1>9. DecisionsOwned'
  <2>1. ASSUME NEW m \in Names \ excused
        PROVE  /\ Wiping(m, {"wipeApprovals"}) \/ \A a \in approvals[m] :
                      \E r \in repos[m] : a.status # "pending" => a.epoch = r.id
               /\ Wiping(m, {"wipeApprovals", "wipeDenies"}) \/ \A v \in Versions :
                      denies'[<<m, v>>] \subseteq {r.id : r \in repos[m]}
    BY <1>8, <2>1, Zenon DEF Tables, DecisionsOwned
  <2> QED
    BY <1>1, <1>3, <2>1, Zenon DEF DecisionsOwned
<1> QED
  BY <1>3, <1>4, <1>7, <1>9, Zenon DEF Tables

\* Results and marks.
LEMMA ResultStep ==
    ASSUME Tables, StoreResult
    PROVE  Tables'
<1>1. /\ work < MaxWork /\ work' = work + 1
      /\ UNCHANGED <<format, repos, nextId, approvals, denies, marks, excused, req, adm>>
  BY Zenon DEF StoreResult
<1>2. /\ CallsOK' /\ WorkOK' /\ GroupsHaveMembers' /\ ReposOK'
      /\ \A m, pcs : Wiping(m, pcs)' <=> Wiping(m, pcs)
  BY <1>1, SameCalls, Zenon
<1>3. ApprovalsOK' /\ AlarmsCounted' /\ DeniesOK'
  BY <1>1, Zenon DEF Tables, ApprovalsOK, AlarmsCounted, DeniesOK
<1>4. scans' \in [Versions -> Results] /\ licenses' \in [Versions -> Results]
  <2>1. PICK v \in Versions, r \in {"good", "bad"} :
           \/ scans' = [scans EXCEPT ![v] = r] /\ licenses' = licenses
           \/ licenses' = [licenses EXCEPT ![v] = r] /\ scans' = scans
    BY Zenon DEF StoreResult
  <2>2. r \in Results
    BY Zenon DEF Results
  <2> QED
    BY <2>1, <2>2, Zenon DEF Tables, RestOK
<1>5. RestOK'
  BY <1>1, <1>4, Zenon DEF Tables, RestOK
<1>6. DecisionsOwned'
  BY <1>1, <1>2, Zenon DEF Tables, DecisionsOwned
<1> QED
  BY <1>2, <1>3, <1>5, <1>6, Zenon DEF Tables

\* A debounce mark that expires changes nothing the decisions rest on.
LEMMA ExpiryStep ==
    ASSUME Tables, MarkExpires
    PROVE  Tables'
<1>1. /\ UNCHANGED <<format, repos, nextId, approvals, denies, scans, licenses, excused, req, adm, work>>
      /\ \E n \in marks : marks' = marks \ {n}
  BY Zenon DEF MarkExpires
<1>2. ReposOK' /\ ApprovalsOK' /\ DeniesOK' /\ WorkOK' /\ AlarmsCounted'
  BY <1>1, Zenon DEF Tables, ReposOK, ApprovalsOK, DeniesOK, WorkOK, AlarmsCounted
<1>3. RestOK'
  BY <1>1, Zenon DEF Tables, RestOK
<1>4. CallsOK'
  BY <1>1, Zenon DEF Tables, CallsOK, CallsCarry
<1>5. GroupsHaveMembers'
  <2>1. RowsFit'
    BY <1>1, Zenon DEF Tables, GroupsHaveMembers, RowsFit
  <2>2. ASSUME NEW y \in Admins PROVE Fits(adm[y])'
    <3>1. Fits(adm[y]) /\ adm'[y] = adm[y]
      BY <1>1, Zenon DEF Tables, GroupsHaveMembers
    <3> QED
      BY <1>1, <3>1, Zenon DEF Fits
  <2> QED
    BY <2>1, <2>2, Zenon DEF GroupsHaveMembers
<1>6. DecisionsOwned'
  <2>1. \A m, pcs : Wiping(m, pcs)' <=> Wiping(m, pcs)
    BY <1>1, Zenon DEF Wiping
  <2> QED
    BY <1>1, <2>1, Zenon DEF Tables, DecisionsOwned
<1> QED
  BY <1>2, <1>3, <1>4, <1>5, <1>6, Zenon DEF Tables

\* Rows with the same ids and types.
SameIds(S, T) ==
    /\ \A s \in S : \E r \in T : s.id = r.id /\ s.type = r.type
    /\ \A r \in T : \E s \in S : s.id = r.id /\ s.type = r.type

\* Rows with the same ids are rows of the same repositories.
LEMMA SameIdsAgree ==
    ASSUME NEW S, NEW T, SameIds(S, T)
    PROVE  {r.id : r \in T} \subseteq {s.id : s \in S}
<1>1. ASSUME NEW r \in T PROVE r.id \in {s.id : s \in S}
  <2>1. PICK s \in S : s.id = r.id
    BY Zenon DEF SameIds
  <2> QED
    BY <2>1, Zenon
<1> QED
  BY <1>1, Zenon

\* What a call is about to store still fits a repository that kept its id and its type.
LEMMA SameIdsFit ==
    ASSUME NEW k, SameIds(repos'[k.name], repos[k.name]), Fits(k), nextId' = nextId
    PROVE  Fits(k)'
<1>1. SUFFICES ASSUME k.pc = "writeConfig"
               PROVE  /\ k.cfg # {} /\ k.id < nextId'
                      /\ \A g \in k.cfg : \A s \in repos'[k.name] :
                            s.id = k.id /\ s.type = "group" => Configs[g].members # <<>>
  BY Zenon DEF Fits
<1>2. k.cfg # {} /\ k.id < nextId'
  BY <1>1, Zenon DEF Fits
<1>3. ASSUME NEW g \in k.cfg, NEW s \in repos'[k.name], s.id = k.id, s.type = "group"
      PROVE  Configs[g].members # <<>>
  <2>1. PICK r \in repos[k.name] : s.id = r.id /\ s.type = r.type
    BY Zenon DEF SameIds
  <2> QED
    BY <1>1, <1>3, <2>1, Zenon DEF Fits
<1> QED
  BY <1>2, <1>3, Zenon

\* The row of a name is written, and has the id and the type it had.
LEMMA SameRow ==
    ASSUME Tables, NEW n \in Names, NEW S \in SUBSET Repository,
           \A s, t \in S : s = t, SameIds(S, repos[n]),
           \A s \in S : s.type = "group" => Cfg(s).members # <<>>,
           repos' = [repos EXCEPT ![n] = S], nextId' = nextId,
           UNCHANGED <<format, approvals, denies, scans, licenses, marks, excused>>,
           \A m \in Names : Wiping(m, {"wipeApprovals"}) => Wiping(m, {"wipeApprovals"})',
           \A m \in Names : Wiping(m, {"wipeApprovals", "wipeDenies"}) =>
                            Wiping(m, {"wipeApprovals", "wipeDenies"})',
           CallsOK',
           \A y \in Admins : adm'[y].pc = "writeConfig" => adm'[y] = adm[y]
    PROVE  /\ ReposOK' /\ ApprovalsOK' /\ DeniesOK' /\ RestOK' /\ GroupsHaveMembers' /\ AlarmsCounted'
           /\ DecisionsOwned'
<1>1. repos \in [Names -> SUBSET Repository]
  BY Zenon DEF Tables, ReposOK
<1>2. /\ repos' \in [Names -> SUBSET Repository] /\ repos'[n] = S
      /\ \A m \in Names : m # n => repos'[m] = repos[m]
  BY <1>1, Zenon
<1>3. ReposOK'
  BY <1>2, Zenon DEF Tables, ReposOK
<1>4. ApprovalsOK' /\ DeniesOK' /\ RestOK' /\ AlarmsCounted'
  BY Zenon DEF Tables, ApprovalsOK, DeniesOK, RestOK, AlarmsCounted
<1>5. ASSUME NEW m \in Names PROVE SameIds(repos'[m], repos[m])
  <2>1. CASE m = n
    BY <1>2, <2>1, Zenon
  <2>2. CASE m # n
    <3>1. repos'[m] = repos[m]
      BY <1>2, <2>2, Zenon
    <3> QED
      BY <3>1, Zenon DEF SameIds
  <2> QED
    BY <2>1, <2>2, Zenon
<1>6. RowsFit'
  <2>1. ASSUME NEW m \in Names, NEW s \in repos'[m]
        PROVE  s.id < nextId' /\ (s.type = "group" => Cfg(s).members # <<>>)
    <3>0. SameIds(repos'[m], repos[m])
      BY <1>5, Zenon
    <3>1. PICK r \in repos[m] : s.id = r.id
      BY <3>0, Zenon DEF SameIds
    <3>2. s.id < nextId
      BY <3>1, Zenon DEF Tables, GroupsHaveMembers, RowsFit
    <3>3. s.type = "group" => Cfg(s).members # <<>>
      BY <1>2, <2>1, Zenon DEF Tables, GroupsHaveMembers, RowsFit
    <3> QED
      BY <3>2, <3>3, Zenon
  <2> QED
    BY <2>1, Zenon DEF RowsFit
<1>7. ASSUME NEW y \in Admins PROVE Fits(adm[y])'
  <2>1. SUFFICES ASSUME adm'[y].pc = "writeConfig" PROVE Fits(adm[y])'
    BY Zenon DEF Fits
  <2>2. PICK k : k = adm[y]
    BY Zenon
  <2>3. adm'[y] = k /\ Fits(k) /\ k.name \in Names
    BY <2>1, <2>2, CallFields, Zenon DEF Tables, GroupsHaveMembers, CallsOK
  <2>4. Fits(k)'
    BY <1>5, <2>3, SameIdsFit, Zenon
  <2> QED
    BY <2>3, <2>4, Zenon DEF Fits
<1>8. DecisionsOwned'
  <2>1. ASSUME NEW m \in Names \ excused
        PROVE  /\ Wiping(m, {"wipeApprovals"}) \/ \A a \in approvals[m] :
                      \E s \in repos'[m] : a.status # "pending" => a.epoch = s.id
               /\ Wiping(m, {"wipeApprovals", "wipeDenies"}) \/ \A v \in Versions :
                      denies[<<m, v>>] \subseteq {s.id : s \in repos'[m]}
    <3>0. SameIds(repos'[m], repos[m])
      BY <1>5, Zenon
    <3>1. Wiping(m, {"wipeApprovals"}) \/ \A a \in approvals[m] :
             \E r \in repos[m] : a.status # "pending" => a.epoch = r.id
      BY Zenon DEF Tables, DecisionsOwned
    <3>2. Wiping(m, {"wipeApprovals", "wipeDenies"}) \/ \A v \in Versions :
             denies[<<m, v>>] \subseteq {r.id : r \in repos[m]}
      BY Zenon DEF Tables, DecisionsOwned
    <3>3. {r.id : r \in repos[m]} \subseteq {s.id : s \in repos'[m]}
      BY <3>0, SameIdsAgree, Zenon
    <3>4. Wiping(m, {"wipeApprovals", "wipeDenies"}) \/ \A v \in Versions :
             denies[<<m, v>>] \subseteq {s.id : s \in repos'[m]}
      BY <3>2, <3>3, Zenon
    <3>5. Wiping(m, {"wipeApprovals"}) \/ \A a \in approvals[m] :
             \E s \in repos'[m] : a.status # "pending" => a.epoch = s.id
      <4>1. ASSUME NEW a, NEW r \in repos[m], a.status # "pending" => a.epoch = r.id
            PROVE  \E s \in repos'[m] : a.status # "pending" => a.epoch = s.id
        <5>1. PICK s \in repos'[m] : s.id = r.id
          BY <3>0, Zenon DEF SameIds
        <5> QED
          BY <4>1, <5>1, Zenon
      <4> QED
        BY <3>1, <4>1, Zenon
    <3> QED
      BY <3>4, <3>5, Zenon
  <2>2. \A m \in Names \ excused : m \in Names
    OBVIOUS
  <2> QED
    BY <2>1, <2>2, Zenon DEF DecisionsOwned
<1> QED
  BY <1>3, <1>4, <1>6, <1>7, <1>8, Zenon DEF GroupsHaveMembers

\* A repository is switched on or off.
LEMMA DisableStep ==
    ASSUME Tables, NEW x \in Admins, SetRepositoryDisabled(x)
    PROVE  Tables'
<1>1. PICK n \in Names : \E r \in repos[n] : repos' = [repos EXCEPT ![n] = {[r EXCEPT !.disabled = ~@]}]
  BY Zenon DEF SetRepositoryDisabled
<1>2. PICK r \in repos[n] : repos' = [repos EXCEPT ![n] = {[r EXCEPT !.disabled = ~@]}]
  BY <1>1, Zenon
<1>3. /\ work < MaxWork /\ work' = work + 1
      /\ UNCHANGED <<format, nextId, approvals, denies, scans, licenses, marks, excused, req, adm>>
  BY Zenon DEF SetRepositoryDisabled
<1>4. /\ CallsOK' /\ WorkOK' /\ \A m, pcs : Wiping(m, pcs)' <=> Wiping(m, pcs)
  BY <1>3, SameCalls, Zenon
<1>5. ReposOK /\ RowsFit
  BY Zenon DEF Tables, GroupsHaveMembers
<1>6. r \in Repository /\ r.disabled \in BOOLEAN /\ (r.type = "group" => Cfg(r).members # <<>>)
  BY <1>5, RowIds, Zenon DEF RowsFit
<1> DEFINE s == [r EXCEPT !.disabled = ~@]
<1>7. s \in Repository /\ s.id = r.id /\ s.type = r.type /\ s.cfg = r.cfg
  <2>1. (~r.disabled) \in BOOLEAN
    OBVIOUS
  <2> QED
    BY <1>6, <2>1, Zenon DEF Repository
<1>8. \A t \in repos[n] : t = r
  BY <1>5, Zenon DEF ReposOK
<1>9. s.type = "group" => Cfg(s).members # <<>>
  BY <1>6, <1>7, Zenon DEF Cfg
<1> HIDE DEF s
<1>10. PICK S : S = {s}
  BY Zenon
<1>11. /\ S \in SUBSET Repository /\ \A t, u \in S : t = u
       /\ SameIds(S, repos[n])
       /\ \A t \in S : t.type = "group" => Cfg(t).members # <<>>
  BY <1>7, <1>8, <1>9, <1>10, Zenon DEF SameIds
<1>12. repos' = [repos EXCEPT ![n] = S]
  BY <1>2, <1>10, Zenon DEF s
<1>13. /\ ReposOK' /\ ApprovalsOK' /\ DeniesOK' /\ RestOK' /\ GroupsHaveMembers' /\ AlarmsCounted'
       /\ DecisionsOwned'
  BY <1>3, <1>4, <1>11, <1>12, SameRow, Zenon
<1> QED
  BY <1>4, <1>13, Zenon DEF Tables

\* A configuration is written.
LEMMA ConfigStep ==
    ASSUME Tables, NEW x \in Admins, UpdateRepositoryConfig(x)
    PROVE  Tables'
<1>1. PICK n, id, g : n = adm[x].name /\ id = adm[x].id /\ g = CHOOSE h \in adm[x].cfg : TRUE
  BY Zenon
<1> DEFINE written(r) == IF r.id = id THEN [r EXCEPT !.cfg = g] ELSE r
           S == {written(r) : r \in repos[n]}
<1>2. adm[x] \in AdminCall /\ n \in Names /\ repos \in [Names -> SUBSET Repository]
  BY <1>1, CallFields, Zenon DEF Tables, CallsOK, ReposOK
<1>3. /\ adm[x].pc = "writeConfig" /\ Return(x)
      /\ UNCHANGED <<nextId, approvals, denies, scans, licenses, marks, excused>>
      /\ repos' = [repos EXCEPT ![n] = S]
  BY <1>1, <1>2, Zenon DEF UpdateRepositoryConfig
<1>4. /\ CallsOK' /\ WorkOK' /\ format' = format
      /\ adm'[x].pc = "idle" /\ \A y \in Admins : y # x => adm'[y] = adm[y]
      /\ \A m : Wiping(m, {"wipeApprovals"}) => Wiping(m, {"wipeApprovals"})'
      /\ \A m : Wiping(m, {"wipeApprovals", "wipeDenies"}) => Wiping(m, {"wipeApprovals", "wipeDenies"})'
  BY <1>3, Returning, Zenon
<1>5. /\ g \in DOMAIN Configs
      /\ \A r \in repos[n] : r.id = id /\ r.type = "group" => Configs[g].members # <<>>
  <2>1. Fits(adm[x])
    BY Zenon DEF Tables, GroupsHaveMembers
  <2>2. g \in adm[x].cfg /\ adm[x].cfg \in SUBSET DOMAIN Configs
    BY <1>1, <1>2, <1>3, <2>1, CallFields, Zenon DEF Fits
  <2> QED
    BY <1>1, <1>3, <2>1, <2>2, Zenon DEF Fits
<1>6. ASSUME NEW r \in repos[n]
      PROVE  /\ written(r) \in Repository /\ written(r).id = r.id /\ written(r).type = r.type
             /\ written(r).type = "group" => Cfg(written(r)).members # <<>>
  <2>1. r \in Repository /\ (r.type = "group" => Cfg(r).members # <<>>)
    BY <1>2, Zenon DEF Tables, GroupsHaveMembers, RowsFit
  <2>2. CASE r.id # id
    BY <2>1, <2>2, Zenon
  <2>3. CASE r.id = id
    <3>1. /\ written(r) \in Repository /\ written(r).id = r.id /\ written(r).type = r.type
          /\ written(r).cfg = g
      BY <1>5, <2>1, <2>3, Zenon DEF Repository
    <3> QED
      BY <1>5, <2>3, <3>1, Zenon DEF Cfg
  <2> QED
    BY <2>2, <2>3, Zenon
<1>7. \A r, t \in repos[n] : r = t
  BY <1>2, Zenon DEF Tables, ReposOK
<1> HIDE DEF written
<1>8. /\ S \in SUBSET Repository /\ \A t, u \in S : t = u
      /\ SameIds(S, repos[n])
      /\ \A t \in S : t.type = "group" => Cfg(t).members # <<>>
  BY <1>6, <1>7, Zenon DEF SameIds
<1> HIDE DEF S
<1>9. \A y \in Admins : adm'[y].pc = "writeConfig" => adm'[y] = adm[y]
  BY <1>4, Zenon
<1>10. /\ ReposOK' /\ ApprovalsOK' /\ DeniesOK' /\ RestOK' /\ GroupsHaveMembers' /\ AlarmsCounted'
       /\ DecisionsOwned'
  BY <1>2, <1>3, <1>4, <1>8, <1>9, SameRow, Zenon
<1> QED
  BY <1>4, <1>10, Zenon DEF Tables

\* A repository is created where there was none: nothing is on record for its name.
LEMMA CreateStep ==
    ASSUME Tables, NEW x \in Admins, CreateRepository(x)
    PROVE  Tables'
<1>1. PICK b \in Blueprints :
         /\ repos[b.name] = {}
         /\ b.type = "group" => Cfg(b).members # <<>>
         /\ repos' = [repos EXCEPT ![b.name] =
               {[id |-> nextId, type |-> b.type, disabled |-> FALSE, cfg |-> b.cfg]}]
  BY Zenon DEF CreateRepository, ValidateGroupMembers
<1>2. /\ work < MaxWork /\ work' = work + 1 /\ nextId <= MaxIds /\ nextId' = nextId + 1
      /\ UNCHANGED <<format, approvals, denies, scans, licenses, marks, excused, req, adm>>
  BY Zenon DEF CreateRepository
<1>3. b.name \in Names /\ b.type \in Types /\ b.cfg \in DOMAIN Configs
  BY ConstantsAssumption, Zenon
<1>4. PICK n, s : n = b.name /\ s = [id |-> nextId, type |-> b.type, disabled |-> FALSE, cfg |-> b.cfg]
  BY Zenon
<1>5. /\ nextId \in 1..MaxIds /\ nextId' \in 1..(MaxIds + 1)
      /\ \A i \in 0..MaxIds : i < nextId => i < nextId' /\ i # nextId
      /\ nextId < nextId'
  <2>1. nextId \in 1..(MaxIds + 1)
    BY Zenon DEF Tables, ReposOK
  <2> QED
    BY <1>2, <2>1, ConstantsAssumption
<1>6. /\ s \in Repository /\ s.id = nextId /\ s.type = b.type /\ s.cfg = b.cfg
  BY <1>3, <1>4, <1>5, Zenon DEF Repository
<1>7. s.type = "group" => Cfg(s).members # <<>>
  BY <1>1, <1>6, Zenon DEF Cfg
<1>8. /\ repos \in [Names -> SUBSET Repository] /\ RowsFit
      /\ \A m \in Names : \A r, t \in repos[m] : r = t
  BY Zenon DEF Tables, ReposOK, GroupsHaveMembers
<1>9. /\ n \in Names /\ repos[n] = {} /\ repos' = [repos EXCEPT ![n] = {s}]
  BY <1>1, <1>3, <1>4, Zenon
<1>10. /\ repos' \in [Names -> SUBSET Repository] /\ repos'[n] = {s}
       /\ \A m \in Names : m # n => repos'[m] = repos[m]
  BY <1>6, <1>8, <1>9, Zenon
<1>11. ReposOK'
  <2>1. \A r, t \in {s} : r = t
    OBVIOUS
  <2>2. \A m \in Names : repos'[m] = {s} \/ repos'[m] = repos[m]
    BY <1>10, Zenon
  <2>3. \A m \in Names : \A r, t \in repos'[m] : r = t
    BY <1>8, <2>1, <2>2, Zenon
  <2> QED
    BY <1>5, <1>10, <2>3, Zenon DEF ReposOK
<1>12. /\ CallsOK' /\ WorkOK' /\ \A m, pcs : Wiping(m, pcs)' <=> Wiping(m, pcs)
  BY <1>2, SameCalls, Zenon
<1>13. ApprovalsOK' /\ DeniesOK' /\ RestOK' /\ AlarmsCounted'
  BY <1>2, Zenon DEF Tables, ApprovalsOK, DeniesOK, RestOK, AlarmsCounted
<1>14. RowsFit'
  <2>1. ASSUME NEW m \in Names, NEW r \in repos'[m]
        PROVE  r.id < nextId' /\ (r.type = "group" => Cfg(r).members # <<>>)
    <3>1. CASE m = n
      BY <1>5, <1>6, <1>7, <1>10, <2>1, <3>1, Zenon
    <3>2. CASE m # n
      <4>1. r \in repos[m] /\ ReposOK
        BY <1>10, <2>1, <3>2, Zenon DEF Tables
      <4>2. r.id \in 0..MaxIds
        BY <4>1, RowIds, Zenon
      <4> QED
        BY <1>5, <1>8, <4>1, <4>2, Zenon DEF RowsFit
    <3> QED
      BY <3>1, <3>2, Zenon
  <2> QED
    BY <2>1, Zenon DEF RowsFit
<1>15. ASSUME NEW y \in Admins PROVE Fits(adm[y])'
  <2>1. PICK k : k = adm[y]
    BY Zenon
  <2>2. adm'[y] = k /\ Fits(k) /\ k.name \in Names /\ k.id \in 0..MaxIds
    BY <1>2, <2>1, CallFields, Zenon DEF Tables, GroupsHaveMembers, CallsOK
  <2>3. CASE k.name = n
    BY <1>5, <1>6, <1>10, <2>2, <2>3, Zenon DEF Fits
  <2>4. CASE k.name # n
    BY <1>5, <1>10, <2>2, <2>4, Zenon DEF Fits
  <2> QED
    BY <2>3, <2>4, Zenon
<1>16. DecisionsOwned'
  <2>1. ASSUME NEW m \in Names \ excused
        PROVE  /\ Wiping(m, {"wipeApprovals"}) \/ \A a \in approvals[m] :
                      \E r \in repos'[m] : a.status # "pending" => a.epoch = r.id
               /\ Wiping(m, {"wipeApprovals", "wipeDenies"}) \/ \A v \in Versions :
                      denies[<<m, v>>] \subseteq {r.id : r \in repos'[m]}
    <3>1. /\ Wiping(m, {"wipeApprovals"}) \/ \A a \in approvals[m] :
                \E r \in repos[m] : a.status # "pending" => a.epoch = r.id
          /\ Wiping(m, {"wipeApprovals", "wipeDenies"}) \/ \A v \in Versions :
                denies[<<m, v>>] \subseteq {r.id : r \in repos[m]}
      BY Zenon DEF Tables, DecisionsOwned
    <3>2. repos[m] = {} \/ repos'[m] = repos[m]
      BY <1>9, <1>10, Zenon
    <3> QED
      BY <3>1, <3>2, Zenon
  <2> QED
    BY <1>2, <1>12, <2>1, Zenon DEF DecisionsOwned
<1> QED
  BY <1>11, <1>12, <1>13, <1>14, <1>15, <1>16, Zenon DEF Tables, GroupsHaveMembers

\* A repository is deleted: its deletion is still to wipe what is on record for the name.
LEMMA DeleteStep ==
    ASSUME Tables, NEW x \in Admins, DeleteRepository(x)
    PROVE  Tables'
<1>1. PICK n \in Names : \E r \in repos[n] :
         /\ adm[x].pc = "idle" /\ work < MaxWork /\ work' = work + 1
         /\ repos' = [repos EXCEPT ![n] = {}]
         /\ adm' = [adm EXCEPT ![x] = [NoCall EXCEPT !.pc = "wipeApprovals", !.name = n, !.id = r.id]]
         /\ UNCHANGED <<format, nextId, approvals, denies, scans, licenses, marks, excused, req>>
  BY Zenon DEF DeleteRepository
<1>2. PICK r \in repos[n] :
         /\ adm[x].pc = "idle" /\ work < MaxWork /\ work' = work + 1
         /\ repos' = [repos EXCEPT ![n] = {}]
         /\ adm' = [adm EXCEPT ![x] = [NoCall EXCEPT !.pc = "wipeApprovals", !.name = n, !.id = r.id]]
         /\ UNCHANGED <<format, nextId, approvals, denies, scans, licenses, marks, excused, req>>
  BY <1>1, Zenon
<1> DEFINE k == [NoCall EXCEPT !.pc = "wipeApprovals", !.name = n, !.id = r.id]
<1>3. k \in AdminCall /\ k.pc = "wipeApprovals" /\ k.name = n
  <2>1. r.id \in 0..MaxIds
    BY RowIds, Zenon DEF Tables
  <2> QED
    BY <2>1, NoCallFields, Zenon DEF AdminCall, Calls
<1> HIDE DEF k
<1>4. adm \in [Admins -> AdminCall] /\ repos \in [Names -> SUBSET Repository]
      /\ adm' = [adm EXCEPT ![x] = k]
  BY <1>2, Zenon DEF Tables, CallsOK, ReposOK, k
<1>5. /\ adm' \in [Admins -> AdminCall] /\ adm'[x] = k
      /\ \A y \in Admins : y # x => adm'[y] = adm[y]
  BY <1>3, <1>4, Zenon
<1>6. /\ repos' \in [Names -> SUBSET Repository] /\ repos'[n] = {}
      /\ \A m \in Names : m # n => repos'[m] = repos[m]
  BY <1>2, <1>4, Zenon
<1>7. ReposOK'
  BY <1>2, <1>6, Zenon DEF Tables, ReposOK
<1>8. ApprovalsOK' /\ DeniesOK' /\ RestOK' /\ AlarmsCounted'
  BY <1>2, Zenon DEF Tables, ApprovalsOK, DeniesOK, RestOK, AlarmsCounted
<1>9. CallsOK'
  BY <1>3, <1>5, Zenon DEF Tables, CallsOK, CallsCarry
<1>10. WorkOK'
  BY <1>2, Worked, Zenon DEF Tables
<1>11. RowsFit'
  BY <1>2, <1>6, Zenon DEF Tables, GroupsHaveMembers, RowsFit
<1>12. ASSUME NEW y \in Admins PROVE Fits(adm[y])'
  <2>1. CASE y = x
    BY <1>3, <1>5, <2>1, Zenon DEF Fits
  <2>2. CASE y # x
    <3>1. PICK j : j = adm[y]
      BY Zenon
    <3>2. adm'[y] = j /\ Fits(j) /\ j.name \in Names
      BY <1>4, <1>5, <2>2, <3>1, CallFields, Zenon DEF Tables, GroupsHaveMembers
    <3>3. repos'[j.name] = {} \/ repos'[j.name] = repos[j.name]
      BY <1>6, <3>2, Zenon
    <3> QED
      BY <1>2, <3>2, <3>3, Zenon DEF Fits
  <2> QED
    BY <2>1, <2>2, Zenon
<1>13. /\ Wiping(n, {"wipeApprovals"})' /\ Wiping(n, {"wipeApprovals", "wipeDenies"})'
       /\ \A m : Wiping(m, {"wipeApprovals"}) => Wiping(m, {"wipeApprovals"})'
       /\ \A m : Wiping(m, {"wipeApprovals", "wipeDenies"}) => Wiping(m, {"wipeApprovals", "wipeDenies"})'
  BY <1>2, <1>3, <1>5, Zenon DEF Wiping
<1>14. DecisionsOwned'
  <2>1. ASSUME NEW m \in Names \ excused
        PROVE  /\ Wiping(m, {"wipeApprovals"})' \/ \A a \in approvals[m] :
                      \E q \in repos'[m] : a.status # "pending" => a.epoch = q.id
               /\ Wiping(m, {"wipeApprovals", "wipeDenies"})' \/ \A v \in Versions :
                      denies[<<m, v>>] \subseteq {q.id : q \in repos'[m]}
    <3>1. CASE m = n
      BY <1>13, <3>1, Zenon
    <3>2. CASE m # n
      <4>1. repos'[m] = repos[m]
        BY <1>6, <3>2, Zenon
      <4> QED
        BY <1>13, <4>1, Zenon DEF Tables, DecisionsOwned
    <3> QED
      BY <3>1, <3>2, Zenon
  <2> QED
    BY <1>2, <2>1, Zenon DEF DecisionsOwned
<1> QED
  BY <1>7, <1>8, <1>9, <1>10, <1>11, <1>12, <1>14, Zenon DEF Tables, GroupsHaveMembers

\* The approvals of a deleted repository are wiped, or the name is excused.
LEMMA WipeApprovalsStep ==
    ASSUME Tables, NEW x \in Admins, WipeApprovals(x)
    PROVE  Tables'
<1>0. PICK n : n = adm[x].name
  BY Zenon
<1>1. /\ adm[x].pc = "wipeApprovals"
      /\ UNCHANGED <<format, repos, nextId, denies, scans, licenses, marks, req, work>>
  BY Zenon DEF WipeApprovals
<1>2. adm \in [Admins -> AdminCall] /\ adm[x] \in AdminCall /\ CallsCarry /\ n \in Names
  BY <1>0, CallFields, Zenon DEF Tables, CallsOK
<1>3. "wipeDenies" \in Calls
  BY Zenon DEF Calls
<1> DEFINE onward(y) == [adm[y] EXCEPT !.pc = "wipeDenies"]
           gone(y) == [adm[y] EXCEPT !.arg = "gone"]
<1>4. ASSUME NEW y \in Admins
      PROVE  /\ onward(y) \in AdminCall /\ onward(y).pc = "wipeDenies" /\ onward(y).name = adm[y].name
             /\ gone(y) \in AdminCall /\ gone(y).pc = adm[y].pc /\ gone(y).name = adm[y].name
             /\ gone(y).arg = "gone"
  <2>1. adm[y] \in AdminCall
    BY <1>2, Zenon
  <2> QED
    BY <1>3, <2>1, Zenon DEF AdminCall
<1>5. /\ adm' \in [Admins -> AdminCall] /\ adm'[x].pc = "wipeDenies" /\ adm'[x].name = n
      /\ \A y \in Admins : y # x =>
            \/ adm'[y] = adm[y]
            \/ adm'[y].pc = "decide" /\ adm[y].pc = "decide" /\ adm'[y].arg = "gone"
  <2>1. \/ adm' = [adm EXCEPT ![x] = onward(x)]
        \/ adm' = [y \in Admins |-> IF y = x THEN onward(y)
                       ELSE IF adm[y].pc = "decide" /\ adm[y].name = n THEN gone(y) ELSE adm[y]]
    BY <1>0, <1>2, Zenon DEF WipeApprovals
  <2> HIDE DEF onward, gone
  <2>2. CASE adm' = [adm EXCEPT ![x] = onward(x)]
    BY <1>0, <1>2, <1>4, <2>2, Zenon
  <2>3. CASE adm' = [y \in Admins |-> IF y = x THEN onward(y)
                       ELSE IF adm[y].pc = "decide" /\ adm[y].name = n THEN gone(y) ELSE adm[y]]
    <3>1. \A y \in Admins : adm'[y] = IF y = x THEN onward(y)
                       ELSE IF adm[y].pc = "decide" /\ adm[y].name = n THEN gone(y) ELSE adm[y]
      BY <2>3, Zenon
    <3>2. \A y \in Admins : adm'[y] \in AdminCall
      BY <1>2, <1>4, <3>1, Zenon
    <3>3. adm' = [y \in Admins |-> adm'[y]]
      BY <2>3, Zenon
    <3>4. adm' \in [Admins -> AdminCall]
      BY <3>2, <3>3, Zenon
    <3> QED
      BY <1>0, <1>4, <3>1, <3>4, Zenon
  <2> QED
    BY <2>1, <2>2, <2>3, Zenon
<1> HIDE DEF onward, gone
<1>6. CallsOK'
  BY <1>2, <1>5, Zenon DEF CallsOK, CallsCarry
<1>7. ReposOK' /\ DeniesOK' /\ WorkOK'
  BY <1>1, Zenon DEF Tables, ReposOK, DeniesOK, WorkOK
<1>8. RowsFit'
  BY <1>1, Zenon DEF Tables, GroupsHaveMembers, RowsFit
<1>9. ASSUME NEW y \in Admins PROVE Fits(adm[y])'
  <2>1. CASE adm'[y].pc # "writeConfig"
    BY <2>1, Zenon DEF Fits
  <2>2. CASE adm'[y] = adm[y]
    <3>1. Fits(adm[y])
      BY Zenon DEF Tables, GroupsHaveMembers
    <3> QED
      BY <1>1, <2>2, <3>1, Zenon DEF Fits
  <2> QED
    BY <1>5, <2>1, <2>2, Zenon
<1>10. /\ \A m \in Names \ {n} : Wiping(m, {"wipeApprovals"}) => Wiping(m, {"wipeApprovals"})'
       /\ \A m \in Names : Wiping(m, {"wipeApprovals", "wipeDenies"}) =>
                           Wiping(m, {"wipeApprovals", "wipeDenies"})'
  <2>1. ASSUME NEW m, NEW y \in Admins, adm[y].name = m, adm[y].pc \in {"wipeApprovals", "wipeDenies"}
        PROVE  adm'[y].name = m /\ adm'[y].pc \in {"wipeApprovals", "wipeDenies"}
               /\ (y = x \/ adm'[y].pc = adm[y].pc)
    BY <1>0, <1>5, <2>1, Zenon
  <2> QED
    BY <1>0, <2>1, Zenon DEF Wiping
<1>11. CASE approvals' = [approvals EXCEPT ![n] = {}] /\ excused' = excused
  <2>1. {} \in SUBSET Row /\ \A a, b \in {} : a = b
    OBVIOUS
  <2>2. \A a \in {} : FALSE
    OBVIOUS
  <2>3. excused' \in {excused, excused \union {n}}
    BY <1>11, Zenon
  <2>4. ApprovalsOK' /\ DeniesOK' /\ RestOK' /\ AlarmsCounted' /\ DecisionsOwned'
    BY <1>1, <1>2, <1>10, <1>11, <2>1, <2>2, <2>3, ApprovalsWritten, Zenon
  <2> QED
    BY <1>6, <1>7, <1>8, <1>9, <2>4, Zenon DEF Tables, GroupsHaveMembers
<1>12. CASE approvals' = approvals /\ excused' = excused \union {n}
  <2>1. ApprovalsOK' /\ AlarmsCounted' /\ RestOK'
    BY <1>1, <1>2, <1>12, Zenon DEF Tables, ApprovalsOK, AlarmsCounted, RestOK
  <2>2. \A m \in Names \ excused' : m \in Names \ {n} /\ m \in Names \ excused
    BY <1>12, Zenon
  <2>3. DecisionsOwned'
    BY <1>1, <1>10, <1>12, <2>2, Zenon DEF Tables, DecisionsOwned
  <2> QED
    BY <1>6, <1>7, <1>8, <1>9, <2>1, <2>3, Zenon DEF Tables, GroupsHaveMembers
<1> QED
  BY <1>0, <1>11, <1>12, Zenon DEF WipeApprovals

\* ... and so are its denies.
LEMMA WipeDeniesStep ==
    ASSUME Tables, NEW x \in Admins, WipeDenies(x)
    PROVE  Tables'
<1>0. PICK n : n = adm[x].name
  BY Zenon
<1>1. /\ adm[x].pc = "wipeDenies" /\ Return(x)
      /\ UNCHANGED <<repos, nextId, approvals, scans, licenses, marks>>
  BY Zenon DEF WipeDenies
<1>2. n \in Names
  BY <1>0, CallFields, Zenon DEF Tables, CallsOK
<1>3. /\ CallsOK' /\ WorkOK' /\ format' = format /\ GroupsHaveMembers' /\ ReposOK'
      /\ \A y \in Admins : y # x => adm'[y] = adm[y]
      /\ \A m : Wiping(m, {"wipeApprovals"}) => Wiping(m, {"wipeApprovals"})'
  BY <1>1, Returning, Zenon DEF Tables, ReposOK
<1>4. \A m \in Names \ {n} : Wiping(m, {"wipeApprovals", "wipeDenies"}) =>
                             Wiping(m, {"wipeApprovals", "wipeDenies"})'
  BY <1>0, <1>3, Zenon DEF Wiping
<1>5. /\ denies \in [Names \X Versions -> SUBSET (0..MaxIds)]
      /\ \A d \in Names \X Versions : \A i, j \in denies[d] : i = j
  BY Zenon DEF Tables, DeniesOK
<1>6. \A m \in Names, v \in Versions :
         <<m, v>> \in Names \X Versions /\ <<m, v>>[1] = m
  OBVIOUS
<1>7. CASE denies' = [d \in DOMAIN denies |-> IF d[1] = n THEN {} ELSE denies[d]] /\ excused' = excused
  <2>1. denies' = [d \in Names \X Versions |-> IF d[1] = n THEN {} ELSE denies[d]]
    BY <1>5, <1>7, Zenon
  <2>2. /\ denies' \in [Names \X Versions -> SUBSET (0..MaxIds)]
        /\ \A d \in Names \X Versions : denies'[d] = {} \/ denies'[d] = denies[d]
    <3>1. \A d \in Names \X Versions : denies'[d] = IF d[1] = n THEN {} ELSE denies[d]
      BY <2>1, Zenon
    <3>2. \A d \in Names \X Versions : (IF d[1] = n THEN {} ELSE denies[d]) \in SUBSET (0..MaxIds)
      BY <1>5, Zenon
    <3> QED
      BY <2>1, <3>1, <3>2, Zenon
  <2>3. \A d \in Names \X Versions : \A i, j \in denies'[d] : i = j
    BY <1>5, <2>2, Zenon
  <2>4. ASSUME NEW m \in Names, NEW v \in Versions
        PROVE  denies'[<<m, v>>] = IF m = n THEN {} ELSE denies[<<m, v>>]
    BY <1>6, <2>1, Zenon
  <2>5. /\ \A m \in Names, v \in Versions : m # n => denies'[<<m, v>>] = denies[<<m, v>>]
        /\ \A v \in Versions : denies'[<<n, v>>] \subseteq {r.id : r \in repos[n]}
    BY <1>2, <2>4, Zenon
  <2>6. excused' \in {excused, excused \union {n}}
    BY <1>7, Zenon
  <2>7. ApprovalsOK' /\ DeniesOK' /\ RestOK' /\ AlarmsCounted' /\ DecisionsOwned'
    BY <1>1, <1>2, <1>3, <1>4, <2>2, <2>3, <2>5, <2>6, DeniesWritten, ZenonT(40)
  <2> QED
    BY <1>3, <2>7, Zenon DEF Tables
<1>8. CASE denies' = denies /\ excused' = excused \union {n}
  <2>1. n \in excused' /\ excused' \in {excused, excused \union {n}}
    BY <1>8, Zenon
  <2>2. ApprovalsOK' /\ DeniesOK' /\ RestOK' /\ AlarmsCounted' /\ DecisionsOwned'
    BY <1>1, <1>2, <1>3, <1>4, <1>5, <1>8, <2>1, DeniesWritten, Zenon
  <2> QED
    BY <1>3, <2>2, Zenon DEF Tables
<1> QED
  BY <1>0, <1>7, <1>8, Zenon DEF WipeDenies

-----------------------------------------------------------------------------
(* The invariant, and what it gives.                                        *)

\* The invariant holds at first.
LEMMA GatesInit == Init => GatesInv
<1> SUFFICES ASSUME Init PROVE Tables /\ req \in [Clients -> Request] /\ \A c \in Clients : Sound(c)
  BY GatesInvParts, Zenon
<1> DEFINE row(i) == [id |-> i, type |-> Founding[i].type, disabled |-> FALSE, cfg |-> Founding[i].cfg]
           at(n) == {j \in DOMAIN Founding : Founding[j].name = n}
<1>1. /\ repos = [n \in Names |-> {row(i) : i \in at(n)}] /\ nextId = Len(Founding) + 1
      /\ marks = {} /\ excused = {} /\ work = 0 /\ format \in Formats
      /\ scans = [v \in Versions |-> "none"] /\ licenses = [v \in Versions |-> "none"]
      /\ req = [c \in Clients |-> NoRequest] /\ adm = [x \in Admins |-> NoCall]
      /\ unseen = [c \in Clients |-> {}]
  BY Zenon DEF Init
<1>2. /\ nextId \in 1..(MaxIds + 1)
      /\ \A i \in DOMAIN Founding : /\ i \in 1..MaxIds /\ i < nextId /\ i \in 0..MaxIds
                                    /\ Founding[i] \in [name : Names, type : Types, cfg : DOMAIN Configs]
  <2>1. PICK T : T = [name : Names, type : Types, cfg : DOMAIN Configs]
    BY Zenon
  <2>2. Founding \in Seq(T) /\ MaxIds \in Nat /\ Len(Founding) <= MaxIds /\ nextId = Len(Founding) + 1
    BY <1>1, <2>1, ConstantsAssumption, Zenon
  <2>3. nextId \in 1..(MaxIds + 1)
    BY <2>2
  <2>4. \A i \in DOMAIN Founding : i \in 1..MaxIds /\ i < nextId /\ i \in 0..MaxIds /\ Founding[i] \in T
    BY <2>2
  <2> QED
    BY <2>1, <2>3, <2>4, Zenon
<1>3. ASSUME NEW i \in DOMAIN Founding
      PROVE  /\ row(i) \in Repository /\ row(i).id = i /\ row(i).type = Founding[i].type
             /\ row(i).cfg = Founding[i].cfg
  BY <1>2, Zenon DEF Repository
<1> HIDE DEF row
<1>4. ReposOK
  <2>1. \A n \in Names : repos[n] = {row(i) : i \in at(n)}
    BY <1>1, Zenon
  <2>2. \A n \in Names : repos[n] \in SUBSET Repository
    <3>1. ASSUME NEW n \in Names, NEW r \in repos[n] PROVE r \in Repository
      <4>1. PICK i \in at(n) : r = row(i)
        BY <2>1, <3>1, Zenon
      <4>2. i \in DOMAIN Founding
        BY Zenon
      <4> QED
        BY <1>3, <4>1, <4>2, Zenon
    <3> QED
      BY <3>1, Zenon
  <2>3. \A n \in Names : \A i, j \in at(n) : i = j
    BY ConstantsAssumption, Zenon
  <2>4. \A n \in Names : \A r, s \in repos[n] : r = s
    <3>1. ASSUME NEW n \in Names, NEW r \in repos[n], NEW s \in repos[n] PROVE r = s
      <4>1. PICK i \in at(n) : r = row(i)
        BY <2>1, <3>1, Zenon
      <4>2. PICK j \in at(n) : s = row(j)
        BY <2>1, <3>1, Zenon
      <4>3. i = j
        BY <2>3, Zenon
      <4> QED
        BY <4>1, <4>2, <4>3, Zenon
    <3> QED
      BY <3>1, Zenon
  <2>5. repos \in [Names -> SUBSET Repository]
    BY <1>1, <2>1, <2>2, Zenon
  <2> QED
    BY <1>2, <2>4, <2>5, Zenon DEF ReposOK
<1>5. ASSUME NEW n \in Names, NEW r \in repos[n]
      PROVE  \E i \in DOMAIN Founding : r = row(i) /\ r \in Repository /\ r.id = i /\ r.id < nextId
                /\ r.id \in 0..MaxIds /\ r.type = Founding[i].type /\ r.cfg = Founding[i].cfg
  <2>1. PICK i \in DOMAIN Founding : r = row(i)
    BY <1>1, <1>5, Zenon
  <2> QED
    BY <1>2, <1>3, <2>1, Zenon
<1>6. RowsFit
  <2>1. ASSUME NEW n \in Names, NEW r \in repos[n]
        PROVE  r.id < nextId /\ (r.type = "group" => Cfg(r).members # <<>>)
    <3>1. PICK i \in DOMAIN Founding : r.id < nextId /\ r.type = Founding[i].type /\ r.cfg = Founding[i].cfg
      BY <1>5, <2>1, Zenon
    <3>2. Founding[i].type = "group" => Cfg(Founding[i]).members # <<>>
      BY ConstantsAssumption, Zenon
    <3> QED
      BY <3>1, <3>2, Zenon DEF Cfg
  <2> QED
    BY <2>1, Zenon DEF RowsFit
<1>7. PICK A, D \in SUBSET {n \in Names : \E r \in repos[n] : r.type = "proxy"} :
        /\ approvals = [n \in Names |-> {[status |-> "approved", count |-> 1, alarms |-> 1,
                                         epoch |-> r.id] : r \in IF n \in A THEN repos[n] ELSE {}}]
        /\ denies = [p \in Names \X Versions |-> {r.id : r \in IF p[1] \in D THEN repos[p[1]] ELSE {}}]
  BY Zenon DEF Init
<1> DEFINE approved(r) == [status |-> "approved", count |-> 1, alarms |-> 1, epoch |-> r.id]
<1>8. ASSUME NEW n \in Names, NEW a \in approvals[n]
      PROVE  \E r \in repos[n] : a = approved(r) /\ a \in Row /\ a.alarms <= 1 /\ a.count # 0 /\ a.epoch = r.id
  <2>1. PICK r \in repos[n] : a = approved(r)
    <3>1. approvals[n] = {approved(r) : r \in IF n \in A THEN repos[n] ELSE {}}
      BY <1>7, Zenon
    <3> QED
      BY <1>8, <3>1, Zenon
  <2>2. r.id \in 0..MaxIds
    BY <1>5, <1>8, Zenon
  <2>3. a \in Row /\ a.alarms = 1 /\ a.count = 1 /\ a.epoch = r.id
    BY <2>1, <2>2, Saturates, Zenon DEF Row
  <2> QED
    BY <2>1, <2>3, Saturates, Zenon
<1>9. ApprovalsOK /\ AlarmsCounted
  <2>1. \A n \in Names : approvals[n] \in SUBSET Row
    BY <1>8, Zenon
  <2>2. approvals \in [Names -> SUBSET Row]
    <3>1. approvals = [n \in Names |-> approvals[n]]
      BY <1>7, Zenon
    <3> QED
      BY <2>1, <3>1, Zenon
  <2>3. \A n \in Names : \A a, b \in approvals[n] : a = b
    <3>1. ASSUME NEW n \in Names, NEW a \in approvals[n], NEW b \in approvals[n]
          PROVE  a = b
      <4>1. PICK r \in repos[n] : a = approved(r)
        BY <1>8, Zenon
      <4>2. PICK s \in repos[n] : b = approved(s)
        BY <1>8, Zenon
      <4>3. r = s
        BY <1>4, Zenon DEF ReposOK
      <4> QED
        BY <4>1, <4>2, <4>3, Zenon
    <3> QED
      BY <3>1, Zenon
  <2>4. AlarmsCounted
    BY <1>8, Zenon DEF AlarmsCounted
  <2> QED
    BY <2>2, <2>3, <2>4, Zenon DEF ApprovalsOK
<1>10. ASSUME NEW n \in Names, NEW v \in Versions
       PROVE  /\ denies[<<n, v>>] \in SUBSET (0..MaxIds) /\ \A i, j \in denies[<<n, v>>] : i = j
              /\ denies[<<n, v>>] \subseteq {r.id : r \in repos[n]}
  <2>1. <<n, v>> \in Names \X Versions /\ <<n, v>>[1] = n
    OBVIOUS
  <2>2. denies[<<n, v>>] = {r.id : r \in IF n \in D THEN repos[n] ELSE {}}
    BY <1>7, <2>1, Zenon
  <2>3. denies[<<n, v>>] \subseteq {r.id : r \in repos[n]}
    BY <2>2, Zenon
  <2>4. \A r \in repos[n] : r.id \in 0..MaxIds
    BY <1>5, Zenon
  <2>5. \A r, s \in repos[n] : r = s
    BY <1>4, Zenon DEF ReposOK
  <2> QED
    BY <2>3, <2>4, <2>5, ZenonT(40)
<1>11. DeniesOK
  <2>1. \A d \in Names \X Versions : \E n \in Names, v \in Versions : d = <<n, v>>
    OBVIOUS
  <2>2. \A d \in Names \X Versions : denies[d] \in SUBSET (0..MaxIds) /\ \A i, j \in denies[d] : i = j
    <3>1. ASSUME NEW d \in Names \X Versions
          PROVE  denies[d] \in SUBSET (0..MaxIds) /\ \A i, j \in denies[d] : i = j
      <4>1. PICK n \in Names, v \in Versions : d = <<n, v>>
        BY <2>1, Zenon
      <4> QED
        BY <1>10, <4>1, ZenonT(60)
    <3> QED
      BY <3>1, Zenon
  <2>3. denies = [d \in Names \X Versions |-> denies[d]]
    BY <1>7, Zenon
  <2> QED
    BY <2>2, <2>3, Zenon DEF DeniesOK
<1>12. RestOK
  BY <1>1, Zenon DEF RestOK, Results
<1>13. CallsOK /\ \A x \in Admins : Fits(adm[x])
  BY <1>1, NoCallFields, Zenon DEF CallsOK, CallsCarry, Fits
<1>14. WorkOK
  BY <1>1, ConstantsAssumption DEF WorkOK
<1>15. DecisionsOwned
  <2>1. \A n \in Names : \A a \in approvals[n] : \E r \in repos[n] : a.status # "pending" => a.epoch = r.id
    BY <1>8, Zenon
  <2> QED
    BY <1>10, <2>1, Zenon DEF DecisionsOwned
<1>16. req \in [Clients -> Request]
  BY <1>1, NoRequestFields, Zenon
<1>17. \A c \in Clients : Sound(c)
  BY <1>1, NoRequestFields, IdleSound, Zenon DEF Sound
<1> QED
  BY <1>4, <1>6, <1>9, <1>11, <1>12, <1>13, <1>14, <1>15, <1>16, <1>17, ZenonT(40) DEF Tables, GroupsHaveMembers

\* A step keeps the invariant.
LEMMA GatesStep == GatesInv /\ [Next]_vars => GatesInv'
<1> SUFFICES ASSUME GatesInv, [Next]_vars PROVE GatesInv'
  BY Zenon
<1>1. /\ Tables /\ req \in [Clients -> Request] /\ TypeOK /\ GroupsHaveMembers
      /\ \A c \in Clients : Sound(c)
  BY GatesInvParts, Zenon DEF GatesInv
<1>2. SUFFICES Tables' /\ req' \in [Clients -> Request] /\ \A c \in Clients : Sound(c)'
  <2>1. (Tables /\ req \in [Clients -> Request] /\ \A c \in Clients : Sound(c))' => GatesInv'
    BY GatesInvParts, PTL
  <2> QED
    BY <1>2, <2>1, Zenon
<1>3. ASSUME Next, NEW c \in Clients, RequestStep(c)
      PROVE  Tables' /\ req' \in [Clients -> Request] /\ \A d \in Clients : Sound(d)'
  <2>1. /\ Tables' /\ format' = format /\ req' = [d \in Clients |-> req'[d]]
        /\ \A d \in Clients : d # c => req'[d] = req[d]
    BY <1>1, <1>3, ClientTables, Zenon
  <2>2. Sound(c)'
    BY <1>1, <1>3, ClientStep, Zenon
  <2>3. ASSUME NEW d \in Clients, d # c PROVE Sound(d)'
    BY <1>1, <1>3, <2>1, <2>3, OtherStep, Zenon
  <2>4. \A d \in Clients : Sound(d)'
    BY <2>2, <2>3, Zenon
  <2>5. \A d \in Clients : req'[d] \in Request
    BY <2>4, Zenon DEF Sound
  <2> QED
    BY <2>1, <2>4, <2>5, Zenon
<1>4. ASSUME Next, Tables', req' = req, format' = format
      PROVE  Tables' /\ req' \in [Clients -> Request] /\ \A d \in Clients : Sound(d)'
  <2>1. ASSUME NEW d \in Clients PROVE Sound(d)'
    BY <1>1, <1>4, OtherStep, Zenon
  <2> QED
    BY <1>1, <1>4, <2>1, Zenon
<1>5. ASSUME NEW x \in Admins, AdminStep(x)
      PROVE  Tables' /\ req' = req /\ format' = format
  <2>1. Tables'
    BY <1>1, <1>5, LookupStep, DecisionStep, DecideStep, ApproveAllStep, DenyWriteStep, DenyDeleteStep,
       CreateStep, ConfigStep, DisableStep, DeleteStep, WipeApprovalsStep, WipeDeniesStep, ZenonT(40)
       DEF AdminStep
  <2>2. \A pc, n, id, arg, cfg : Call(x, pc, n, id, arg, cfg) => req' = req /\ format' = format
    BY Zenon DEF Call
  <2>3. Return(x) => req' = req /\ format' = format
    BY Zenon DEF Return
  <2>4. CASE \/ CreateApproval(x) \/ GetApproval(x) \/ ApproveAll(x) \/ CreateVersionDeny(x)
             \/ UpdateRepository(x)
    BY <2>1, <2>2, <2>4, Zenon DEF CreateApproval, GetApproval, ApproveAll, CreateVersionDeny, UpdateRepository
  <2>5. CASE \/ UpsertDecision(x) \/ DecideApproval(x) \/ ApproveAllPending(x) \/ UpsertVersionDeny(x)
             \/ UpdateRepositoryConfig(x) \/ WipeDenies(x)
    BY <2>1, <2>3, <2>5, Zenon DEF UpsertDecision, DecideApproval, ApproveAllPending, UpsertVersionDeny,
       UpdateRepositoryConfig, WipeDenies
  <2>6. CASE \/ DeleteVersionDeny(x) \/ CreateRepository(x) \/ SetRepositoryDisabled(x)
             \/ DeleteRepository(x) \/ WipeApprovals(x)
    BY <2>1, <2>6, Zenon DEF DeleteVersionDeny, CreateRepository, SetRepositoryDisabled, DeleteRepository,
       WipeApprovals
  <2> QED
    BY <1>5, <2>4, <2>5, <2>6, Zenon DEF AdminStep
<1>6. ASSUME StoreResult \/ MarkExpires
      PROVE  Tables' /\ req' = req /\ format' = format
  BY <1>1, <1>6, ResultStep, ExpiryStep, Zenon DEF StoreResult, MarkExpires
<1>7. CASE Next
  <2>1. Step
    BY <1>7, Zenon DEF Next
  <2> QED
    BY <1>3, <1>4, <1>5, <1>6, <1>7, <2>1, Zenon DEF Step
<1>8. CASE UNCHANGED vars
  <2>1. /\ UNCHANGED <<format, repos, nextId, approvals, denies, scans, licenses, marks, excused, req,
                      adm, work, unseen>>
    BY <1>8, Zenon DEF vars, tables
  <2>2. Tables'
    <3>1. ReposOK' /\ ApprovalsOK' /\ DeniesOK' /\ RestOK' /\ CallsOK' /\ WorkOK' /\ AlarmsCounted'
      BY <1>1, <2>1, Zenon DEF Tables, ReposOK, ApprovalsOK, DeniesOK, RestOK, CallsOK, CallsCarry, WorkOK,
         AlarmsCounted
    <3>2. RowsFit'
      BY <1>1, <2>1, Zenon DEF GroupsHaveMembers, RowsFit
    <3>3. ASSUME NEW y \in Admins PROVE Fits(adm[y])'
      BY <1>1, <2>1, Zenon DEF GroupsHaveMembers, Fits
    <3>4. DecisionsOwned'
      BY <1>1, <2>1, Zenon DEF Tables, DecisionsOwned, Wiping
    <3> QED
      BY <3>1, <3>2, <3>3, <3>4, Zenon DEF Tables, GroupsHaveMembers
  <2>3. ASSUME NEW d \in Clients PROVE Sound(d)'
    <3>1. Sound(d) /\ req'[d] = req[d] /\ unseen'[d] = unseen[d] /\ format' = format
      BY <1>1, <2>1, Zenon
    <3> QED
      BY <3>1, Zenon DEF Sound
  <2> QED
    BY <1>1, <2>1, <2>2, <2>3, Zenon
<1> QED
  BY <1>7, <1>8, Zenon

\* The inductive invariant holds throughout, for any clients, administrators, names, versions
\* and configurations: what every gate behind a request has seen, and whose the decisions are.
THEOREM GatesInvariant == Spec => []GatesInv
<1>1. Init => GatesInv
  BY GatesInit, Zenon
<1>2. GatesInv /\ [Next]_vars => GatesInv'
  BY GatesStep, Zenon
<1> QED
  BY <1>1, <1>2, PTL DEF Spec

\* Whatever deleteRepository, a recreation, approvals and denies interleave to: the decisions
\* on record for a name were made for the repository that has it, unless one was written
\* while its repository was deleted, and every approval row raises its alarm once
\* (UpsertPendingApproval, UpsertVersionDeny, deleteRepository).
THEOREM DecisionsAreSound == Spec => []DecisionsSound
<1>1. GatesInv => DecisionsSound
  <2> SUFFICES ASSUME GatesInv PROVE DecisionsSound
    BY Zenon
  <2>1. TypeOK /\ OneAlarmPerRow
    BY Zenon DEF GatesInv, AlarmsCounted, OneAlarmPerRow
  <2>2. ASSUME NEW n \in Names, NEW r \in repos[n], n \notin excused,
               \A x \in Admins : adm[x].name = n => adm[x].pc \notin {"wipeApprovals", "wipeDenies"}
        PROVE  /\ \A a \in approvals[n] : a.status # "pending" => a.epoch = r.id
               /\ \A v \in Versions : denies[<<n, v>>] \subseteq {r.id}
    <3>1. \A s \in repos[n] : s = r
      BY <2>1, Zenon DEF TypeOK
    <3>2. ~Wiping(n, {"wipeApprovals"}) /\ ~Wiping(n, {"wipeApprovals", "wipeDenies"})
      BY <2>2, Zenon DEF Wiping
    <3>3. n \in Names \ excused
      BY <2>2, Zenon
    <3>4. /\ \A a \in approvals[n] : \E s \in repos[n] : a.status # "pending" => a.epoch = s.id
          /\ \A v \in Versions : denies[<<n, v>>] \subseteq {s.id : s \in repos[n]}
      BY <3>2, <3>3, Zenon DEF GatesInv, DecisionsOwned
    <3>5. {s.id : s \in repos[n]} \subseteq {r.id}
      BY <3>1, Zenon
    <3> QED
      BY <3>1, <3>4, <3>5, Zenon
  <2> QED
    BY <2>1, <2>2, Zenon DEF DecisionsSound, InheritedOnlyByRace
<1> QED
  BY <1>1, GatesInvariant, PTL

\* Whatever is served passed every gate that stood in its way throughout the request: no
\* version is served that was denied, unapproved under an enforcing policy, found vulnerable
\* or badly licensed all along, or whose repository was off (versionDenyGate, approvalGate,
\* vulnGate, licenseGate, resolveRepo).
THEOREM ServedIsAllowed == Spec => []ServedWasAllowed
<1>1. GatesInv => ServedWasAllowed
  <2> SUFFICES ASSUME GatesInv PROVE ServedWasAllowed
    BY Zenon
  <2>1. ASSUME NEW c \in Clients, Served(c)
        PROVE  /\ \A S : Got(req[c], S)
               /\ req[c].pc # "deny" /\ Carried(req[c]) = Res(c) /\ Head(req[c].todo) = Member(c)
               /\ Behind(req[c], unseen[c])
    BY <2>1, Zenon DEF GatesInv, Requests, Served, Got, Carried, Res, Member
  <2>2. DenyHolds
    BY <2>1, Zenon DEF DenyHolds, Gated, Behind, Undenied
  <2>3. ApprovalHolds
    BY <2>1, Zenon DEF ApprovalHolds, Gated, Behind, Approved, NeedsApproval
  <2>4. FindingsHold
    BY <2>1, Zenon DEF FindingsHold, Gated, Behind, Scanned, Licensed, Clean
  <2>5. DisabledMemberServesNothing
    BY <2>1, Zenon DEF DisabledMemberServesNothing, Behind, Resolved
  <2> QED
    BY <2>2, <2>3, <2>4, <2>5, Zenon DEF ServedWasAllowed
<1> QED
  BY <1>1, GatesInvariant, PTL

\* Whatever is served entered by a name the client may read, directly or through a group, and
\* an npm packument links back to the name it was asked for (authorize, grouped).
THEOREM ServedIsAsked == Spec => []ServedAsAsked
<1>1. GatesInv => ServedAsAsked
  <2> SUFFICES ASSUME GatesInv PROVE ServedAsAsked
    BY Zenon
  <2>1. ASSUME NEW c \in Clients PROVE Entered(c, req[c], format) /\ Carried(req[c]) = Res(c)
    BY Zenon DEF GatesInv, Requests, Carried, Res
  <2>2. EntryAuthorized
    BY <2>1, Zenon DEF EntryAuthorized, Entered, Served, Got
  <2>3. PackumentLinksBack
    BY <2>1, Zenon DEF PackumentLinksBack, Entered
  <2> QED
    BY <2>2, <2>3, Zenon DEF ServedAsAsked
<1> QED
  BY <1>1, GatesInvariant, PTL
==============================================================================
