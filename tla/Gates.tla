-------------------------------- MODULE Gates --------------------------------
(***************************************************************************)
(* How a package request is decided: the routing middleware with its group  *)
(* fan-out, the gates every format handler runs before it touches the cache *)
(* (version denies, approval, vulnerability, license), and the              *)
(* administration API that changes what the gates read while requests are   *)
(* between two of them.                                                     *)
(*                                                                          *)
(* The tables are keyed by repository name and package; the module follows  *)
(* one package.  A step is one statement of the database or one critical    *)
(* section of the mark table.  Engine.serve is ProxyCache's; here it gives  *)
(* any of its answers.  Audit records, metrics and log lines are left out.  *)
(***************************************************************************)
EXTENDS Integers, Sequences, Functions

CONSTANTS
    Clients, Admins,
    Names,             \* repository names
    Versions,          \* versions of the package
    Formats,           \* package formats, one of which all repositories have
    Configs,           \* configuration -> its record
    Blueprints,        \* [name, type, cfg]: what an administrator writes
    Wanted,            \* <<name, kind>>: what clients ask for
    Founding,          \* sequence of blueprints: the repositories there are at first
    Readers,           \* name -> clients whose principal may read it
    MaxIds, MaxWork    \* bounds: repositories ever, requests and calls together

NoVersion == "none"    \* the empty version of a metadata request

VARIABLES
    format,            \* of every repository, fixed
    repos,             \* table repositories: name -> row, {} is none
    nextId,            \* AUTOINCREMENT of repositories.id
    approvals,         \* table package_approvals: name -> row, {} is none
    denies,            \* table version_denies: <<name, version>> -> {} or {repository id}
    scans,             \* table vuln_scans: version -> result
    licenses,          \* table license_scans: version -> result
    marks,             \* reqMarks: names with a live pending mark
    excused,           \* history: names written to, or not wiped, after their deletion
    req,               \* per client: its request
    adm,               \* per administrator: the API call it is in
    work,              \* calls and requests so far
    unseen             \* history: per client, what held at no time of its request so far

tables == <<repos, nextId, approvals, denies, scans, licenses, marks, excused>>
vars == <<format, tables, req, adm, work, unseen>>

\* repoconfig.Config, as far as the gates read it.  auto: an auto-approve
\* pattern matches the package; acl: {} off, else the allowed clients.
Modes == {"off", "audit", "enforce"}
Actions == {"off", "warn", "block", "strict"}  \* strict: block, and the unscanned too
Config == [approval : Modes, auto : BOOLEAN, vuln : Actions, license : Actions,
           acl : SUBSET (SUBSET Clients), members : Seq(Names)]
Cfg(r) == Configs[r.cfg]
Types == {"proxy", "hosted", "group"}
Repository == [id : 1..MaxIds, type : Types, disabled : BOOLEAN, cfg : DOMAIN Configs]
Results == {"none", "good", "bad"}
\* epoch, alarms: history, the repository id a decision was made for and the
\* times an upsert of the row reported it as new.  request_count 2 is "more".
Row == [status : {"pending", "approved", "rejected"}, count : 0..2,
        epoch : 0..MaxIds, alarms : 0..2]
Stages == {"deny", "approval", "mark", "setMark", "pending", "vuln", "license",
           "engine", "put"}
Kinds == {"config", "index", "artifact", "upload"}
\* What a client is answered: 200, 201, 404, or any other status.
Answers == {"none", "ok", "created", "miss", "refused"}
Request == [pc : Stages \union {"idle", "resolve", "done"}, target : Names, todo : Seq(Names),
            tried : SUBSET Names, via : BOOLEAN, res : SUBSET Repository, kind : Kinds,
            version : Versions \union {NoVersion}, stages : Seq(Stages), out : Answers,
            link : SUBSET Names, failed : BOOLEAN]
Calls == {"idle", "upsertDecision", "decide", "approveAll", "upsertDeny", "writeConfig",
          "wipeApprovals", "wipeDenies"}
AdminCall == [pc : Calls, name : Names, id : 0..MaxIds, cfg : SUBSET DOMAIN Configs,
              arg : {"none", "gone", "approved", "rejected"} \union Versions]

\* The repositories at first have names of their own, and a group its members.
ASSUME ConstantsAssumption ==
    /\ Names # {} /\ MaxIds \in Nat /\ MaxWork \in Nat
    /\ \A k \in DOMAIN Configs : Configs[k] \in Config
    /\ \A b \in Blueprints : b.name \in Names /\ b.type \in Types /\ b.cfg \in DOMAIN Configs
    /\ \A w \in Wanted : w[1] \in Names /\ w[2] \in Kinds
    /\ Founding \in Seq([name : Names, type : Types, cfg : DOMAIN Configs])
    /\ Len(Founding) <= MaxIds
    /\ \A i, j \in DOMAIN Founding : Founding[i].name = Founding[j].name => i = j
    /\ \A i \in DOMAIN Founding : Founding[i].type = "group" => Cfg(Founding[i]).members # <<>>

TypeOK ==
    /\ format \in Formats
    /\ repos \in [Names -> SUBSET Repository] /\ approvals \in [Names -> SUBSET Row]
    /\ denies \in [Names \X Versions -> SUBSET (0..MaxIds)]
    \* the keys of the schema
    /\ \A n \in Names : \A r, s \in repos[n] : r = s
    /\ \A n \in Names : \A a, b \in approvals[n] : a = b
    /\ \A d \in Names \X Versions : \A i, j \in denies[d] : i = j
    /\ nextId \in 1..(MaxIds + 1)
    /\ scans \in [Versions -> Results] /\ licenses \in [Versions -> Results]
    /\ marks \subseteq Names /\ excused \subseteq Names
    /\ req \in [Clients -> Request] /\ adm \in [Admins -> AdminCall]
    /\ work \in 0..MaxWork

NoRequest == [pc |-> "idle", target |-> CHOOSE n \in Names : TRUE, todo |-> <<>>,
              tried |-> {}, via |-> FALSE, res |-> {}, kind |-> "index",
              version |-> NoVersion, stages |-> <<>>, out |-> "none",
              link |-> {}, failed |-> FALSE]
NoCall == [pc |-> "idle", name |-> CHOOSE n \in Names : TRUE, id |-> 0,
           arg |-> "none", cfg |-> {}]

\* Some time into the life of the founding repositories: their package may be
\* approved already, its versions denied.
Init ==
    /\ format \in Formats
    /\ repos = [n \in Names |->
          {[id |-> i, type |-> Founding[i].type, disabled |-> FALSE, cfg |-> Founding[i].cfg] :
              i \in {j \in DOMAIN Founding : Founding[j].name = n}}]
    /\ nextId = Len(Founding) + 1
    /\ \E a, d \in SUBSET {n \in Names : \E r \in repos[n] : r.type = "proxy"} :
          /\ approvals = [n \in Names |-> {[status |-> "approved", count |-> 1, alarms |-> 1,
                                           epoch |-> r.id] : r \in IF n \in a THEN repos[n] ELSE {}}]
          /\ denies = [p \in Names \X Versions |->
                         {r.id : r \in IF p[1] \in d THEN repos[p[1]] ELSE {}}]
    /\ scans = [v \in Versions |-> "none"] /\ licenses = [v \in Versions |-> "none"]
    /\ marks = {} /\ excused = {}
    /\ req = [c \in Clients |-> NoRequest] /\ adm = [x \in Admins |-> NoCall]
    /\ work = 0 /\ unseen = [c \in Clients |-> {}]

-----------------------------------------------------------------------------
(* The format handlers: which gates a request of a kind passes, in order.   *)

AllGates == <<"deny", "approval", "vuln", "license", "engine">>

HandleMaven(kind) == IF kind = "upload" THEN <<"put">> ELSE AllGates
HandleNpm(kind) == IF kind = "upload" THEN <<"put">> ELSE AllGates
HandleGo(kind) == IF kind = "upload" THEN <<"put">> ELSE AllGates

\* config.json is synthesised before any gate.
HandleCargo(kind) ==
    IF kind = "config" THEN <<"engine">>
    ELSE IF kind = "upload" THEN <<"put">> ELSE AllGates

\* An index passes the approval gate only.
HandlePyPI(kind) ==
    IF kind = "upload" THEN <<"put">>
    ELSE IF kind = "index" THEN <<"deny", "approval", "engine">> ELSE AllGates

Handler(kind) ==
    CASE format = "maven" -> HandleMaven(kind)
      [] format = "npm"   -> HandleNpm(kind)
      [] format = "go"    -> HandleGo(kind)
      [] format = "cargo" -> HandleCargo(kind)
      [] OTHER            -> HandlePyPI(kind)

\* Mutant: the packument is rewritten for the member.
OwnName(c, own) == own

\* servingRepoName: the group while a group fans out, else the repository.
ServingRepoName(c, own) == IF req[c].via THEN req[c].target ELSE own

\* The repository the links of a document lead to: npm's packument asks
\* servingRepoName; cargo's config.json and PyPI's index use the member's name.
Link(c, own) ==
    IF req[c].kind \notin {"index", "config"} THEN {}
    ELSE IF format = "npm" THEN {ServingRepoName(c, own)}
    ELSE IF format = "pypi" \/ req[c].kind = "config" THEN {own} ELSE {}

-----------------------------------------------------------------------------
(* Requests.                                                                *)

Set(c, r) == req' = [req EXCEPT ![c] = r]
Quiet == UNCHANGED <<format, tables, adm, work>>

\* Mutant: a member's refusal counts as a miss.
AnswerSkipping(c, out) ==
    IF req[c].via /\ out # "ok" /\ Len(req[c].todo) > 1
    THEN Set(c, [req[c] EXCEPT !.pc = "resolve", !.todo = Tail(@), !.res = {}])
    ELSE Set(c, [req[c] EXCEPT !.pc = "done", !.out = out])

\* groupWriter: while a group fans out a 404 is a miss and the next member is
\* tried; every other status is the client's.
Answer(c, out) ==
    IF req[c].via /\ out = "miss" /\ Len(req[c].todo) > 1
    THEN Set(c, [req[c] EXCEPT !.pc = "resolve", !.todo = Tail(@), !.res = {}])
    ELSE Set(c, [req[c] EXCEPT !.pc = "done", !.out = out])

\* A gate lets the request pass: the next stage of its handler.
Pass(c) == Set(c, [req[c] EXCEPT !.pc = Head(req[c].stages), !.stages = Tail(@)])

\* Mutant: the permission is asked of groups only.
AuthorizeGroups(c, n, via) == \E r \in repos[n] : r.type = "group" => c \in Readers[n]

\* Manager.authorize and ipAllowed: through a group the group alone decides.
Authorize(c, n, via) == via \/ c \in Readers[n]
IpAllowed(c, cfg, via) == via \/ \A allowed \in cfg.acl : c \in allowed

\* grouped, for a group: read-only, the group's authorization and access list.
\* A stored group has members (ValidateGroupMembers).
Grouped(c, r, k) ==
    LET g == CHOOSE x \in repos[r.target] : TRUE
    IN  IF k = "upload" THEN [r EXCEPT !.pc = "done", !.out = "refused"]
        ELSE IF ~Authorize(c, r.target, FALSE) \/ ~IpAllowed(c, Cfg(g), FALSE)
        THEN [r EXCEPT !.pc = "done", !.out = "refused"]
        ELSE [r EXCEPT !.via = TRUE]

\* A request reaches wrap: the repository is looked up, a group fans out.
Begin(c, n, k, v) ==
    LET group == {x \in repos[n] : x.type = "group"}
        r == [NoRequest EXCEPT !.pc = "resolve", !.target = n, !.kind = k, !.version = v,
                 !.todo = IF group = {} THEN <<n>> ELSE Cfg(CHOOSE x \in group : TRUE).members]
    IN  /\ req[c].pc = "idle" /\ work < MaxWork /\ work' = work + 1
        /\ v = NoVersion <=> k # "artifact"
        /\ k = "config" => format = "cargo"
        /\ Set(c, IF group = {} THEN r ELSE Grouped(c, r, k))
        /\ UNCHANGED <<format, tables, adm>>

\* Mutant: a disabled repository is resolved.
OfflineNever(r) == FALSE

\* resolveRepo's 503.
Offline(r) == r.disabled

\* resolveRepo for the repository or the member, then the handler's authorize.
Resolve(c) ==
    LET n == Head(req[c].todo)
        row == repos[n]
        tried == [req[c] EXCEPT !.tried = @ \union {n}]
    IN  /\ req[c].pc = "resolve" /\ Quiet
        /\ \/ row = {} /\ Answer(c, "miss")
           \/ Answer(c, "refused")    \* metadata error, invalid path
           \/ \E r \in row :
                IF Offline(r) THEN Answer(c, "refused")
                ELSE IF ~IpAllowed(c, Cfg(r), req[c].via) \/ ~Authorize(c, n, req[c].via)
                THEN Answer(c, "refused")
                ELSE LET s == Handler(req[c].kind)
                     IN  Set(c, [tried EXCEPT !.res = {r}, !.pc = Head(s), !.stages = Tail(s)])

\* The resolved row a request carries from gate to gate.
Res(c) == CHOOSE r \in req[c].res : TRUE
Member(c) == Head(req[c].todo)

\* Mutant: an approved package is not asked for denied versions.
DenyGateAfterApproval(c) ==
    LET n == Member(c)
    IN  /\ req[c].pc = "deny" /\ Quiet
        /\ IF Res(c).type # "proxy" \/ req[c].version = NoVersion
              \/ \E a \in approvals[n] : a.status = "approved"
           THEN Pass(c)
           ELSE IF denies[<<n, req[c].version>>] = {} THEN Pass(c)
                ELSE Answer(c, "refused")

\* versionDenyGate: a failed lookup refuses, too.
DenyGate(c) ==
    LET n == Member(c)
    IN  /\ req[c].pc = "deny" /\ Quiet
        /\ IF Res(c).type # "proxy" \/ req[c].version = NoVersion THEN Pass(c)
           ELSE \/ denies[<<n, req[c].version>>] = {} /\ Pass(c)
                \/ denies[<<n, req[c].version>>] # {} /\ Answer(c, "refused")
                \/ Answer(c, "refused")

\* Mutant: the mode decides before the status does.
ApprovalGateRejectOnly(c) ==
    LET cfg == Cfg(Res(c))
        row == approvals[Member(c)]
    IN  /\ req[c].pc = "approval" /\ Quiet
        /\ IF Res(c).type # "proxy" \/ cfg.approval = "off" \/ cfg.auto THEN Pass(c)
           ELSE IF \A a \in row : a.status # "rejected" THEN Pass(c)
           ELSE Set(c, [req[c] EXCEPT !.pc = "mark"])

\* approvalGate up to the status lookup, which fails closed only in enforce mode.
ApprovalGate(c) ==
    LET cfg == Cfg(Res(c))
        row == approvals[Member(c)]
    IN  /\ req[c].pc = "approval" /\ Quiet
        /\ IF Res(c).type # "proxy" \/ cfg.approval = "off" \/ cfg.auto THEN Pass(c)
           ELSE \/ /\ \E a \in row : a.status = "approved"
                   /\ Pass(c)
                \/ /\ \A a \in row : a.status # "approved"
                   /\ Set(c, [req[c] EXCEPT !.pc = "mark"])
                \/ IF cfg.approval = "enforce" THEN Answer(c, "refused") ELSE Pass(c)

\* The end of approvalGate: enforce refuses, audit only counts.
Verdict(c) == IF Cfg(Res(c)).approval = "audit" THEN Pass(c) ELSE Answer(c, "refused")

\* reqMarks.has and reqMarks.set are two critical sections.
MarkGate(c) ==
    /\ req[c].pc = "mark" /\ Quiet
    /\ IF Member(c) \in marks THEN Verdict(c)
       ELSE Set(c, [req[c] EXCEPT !.pc = "setMark"])

SetMark(c) ==
    /\ req[c].pc = "setMark"
    /\ marks' = marks \union {Member(c)}
    /\ Set(c, [req[c] EXCEPT !.pc = "pending"])
    /\ UNCHANGED <<format, repos, nextId, approvals, denies, scans, licenses, excused,
                   adm, work>>

\* A statement of a call that resolved repository id writes rows of name n.
Excuse(n, id) == IF \E r \in repos[n] : r.id = id THEN excused ELSE excused \union {n}

Saturate(k) == IF k < 2 THEN k + 1 ELSE 2

\* Mutant: an existing row is reported as new as well.
UpsertPendingAlways(n, id) ==
    IF approvals[n] = {}
    THEN {[status |-> "pending", count |-> 1, epoch |-> id, alarms |-> 1]}
    ELSE {[a EXCEPT !.count = Saturate(@), !.alarms = Saturate(@)] : a \in approvals[n]}

\* UpsertPendingApproval: insert, or count one more request unless approved;
\* "created", which raises the alarm, is request_count = 1.
UpsertPending(n, id) ==
    IF approvals[n] = {}
    THEN {[status |-> "pending", count |-> 1, epoch |-> id, alarms |-> 1]}
    ELSE {IF a.status = "approved" THEN a
          ELSE [a EXCEPT !.count = Saturate(@),
                         !.alarms = IF a.count = 0 THEN Saturate(@) ELSE @] :
             a \in approvals[n]}

\* The upsert, which may fail and then is only logged, and the verdict.
Pending(c) ==
    LET n == Member(c)
    IN  /\ req[c].pc = "pending"
        /\ \/ /\ approvals' = [approvals EXCEPT ![n] = UpsertPending(n, Res(c).id)]
              /\ excused' = Excuse(n, Res(c).id)
           \/ UNCHANGED <<approvals, excused>>
        /\ Verdict(c)
        /\ UNCHANGED <<format, repos, nextId, denies, scans, licenses, marks, adm, work>>

\* Mutant: a finding blocks only where the unscanned are blocked as well.
FindingStrictOnly(c, action, result) ==
    IF action # "strict" \/ result = "good" THEN Pass(c) ELSE Answer(c, "refused")

\* What vulnGate and licenseGate make of the stored result.
Finding(c, action, result) ==
    IF result = "none"
    THEN IF action = "strict" THEN Answer(c, "refused") ELSE Pass(c)
    ELSE IF result = "good" \/ action = "warn" THEN Pass(c) ELSE Answer(c, "refused")

\* vulnGate.  A failed lookup lets the request pass.
VulnGate(c) ==
    LET action == Cfg(Res(c)).vuln
    IN  /\ req[c].pc = "vuln" /\ Quiet
        /\ IF Res(c).type # "proxy" \/ action = "off" \/ req[c].version = NoVersion
           THEN Pass(c)
           ELSE \/ Finding(c, action, scans[req[c].version])
                \/ Set(c, [req[c] EXCEPT !.pc = Head(req[c].stages), !.stages = Tail(@),
                                         !.failed = TRUE])

\* licenseGate.
LicenseGate(c) ==
    LET action == Cfg(Res(c)).license
    IN  /\ req[c].pc = "license" /\ Quiet
        /\ IF Res(c).type # "proxy" \/ action = "off" \/ req[c].version = NoVersion
           THEN Pass(c)
           ELSE \/ Finding(c, action, licenses[req[c].version])
                \/ Set(c, [req[c] EXCEPT !.pc = Head(req[c].stages), !.stages = Tail(@),
                                         !.failed = TRUE])

\* Engine.serve, npmPackument, pypiSimple, cargoConfig: any answer of theirs.
Engine(c) ==
    /\ req[c].pc = "engine" /\ Quiet
    /\ \/ Set(c, [req[c] EXCEPT !.pc = "done", !.out = "ok", !.link = Link(c, Member(c))])
       \/ req[c].kind # "config" /\ Answer(c, "miss")
       \/ req[c].kind # "config" /\ Answer(c, "refused")

\* PUT and POST: only a hosted repository stores.
Put(c) ==
    /\ req[c].pc = "put" /\ Quiet
    /\ Answer(c, IF Res(c).type = "hosted" THEN "created" ELSE "refused")

Reply(c) == req[c].pc = "done" /\ Set(c, NoRequest) /\ Quiet
-----------------------------------------------------------------------------
(* The administration API: a call looks the repository or the row up in one *)
(* statement and writes in another.                                         *)

Call(x, pc, n, id, arg, cfg) ==
    /\ adm[x].pc = "idle" /\ work < MaxWork /\ work' = work + 1
    /\ adm' = [adm EXCEPT ![x] = [pc |-> pc, name |-> n, id |-> id, arg |-> arg, cfg |-> cfg]]
    /\ UNCHANGED <<format, tables, req>>
Return(x) == adm' = [adm EXCEPT ![x] = NoCall] /\ UNCHANGED <<format, req, work>>

\* createApproval: GetRepositoryByName, proxies only ...
CreateApproval(x) ==
    \E n \in Names, s \in {"approved", "rejected"} : \E r \in repos[n] :
        r.type = "proxy" /\ Call(x, "upsertDecision", n, r.id, s, {})

\* ... and UpsertApprovalDecision.
UpsertDecision(x) ==
    LET n == adm[x].name
    IN  /\ adm[x].pc = "upsertDecision"
        /\ approvals' = [approvals EXCEPT ![n] =
              IF @ = {} THEN {[status |-> adm[x].arg, count |-> 0, epoch |-> adm[x].id, alarms |-> 0]}
              ELSE {[a EXCEPT !.status = adm[x].arg, !.epoch = adm[x].id] : a \in @}]
        /\ excused' = Excuse(n, adm[x].id)
        /\ UNCHANGED <<repos, nextId, denies, scans, licenses, marks>> /\ Return(x)

\* decideApproval: GetApproval by row id ...
GetApproval(x) ==
    \E n \in Names, s \in {"approved", "rejected"} : \E a \in approvals[n] :
        Call(x, "decide", n, a.epoch, s, {})

\* ... and DecideApproval by the same id; a row that was wiped since is gone for
\* good (row ids are never reused), which wiping records in the call.
DecideApproval(x) ==
    LET n == adm[x].name
    IN  /\ adm[x].pc = "decide"
        /\ approvals' = [approvals EXCEPT ![n] =
              IF adm[x].arg = "gone" THEN @
              ELSE {[a EXCEPT !.status = adm[x].arg,
                              !.epoch = IF repos[n] = {} THEN @ ELSE (CHOOSE r \in repos[n] : TRUE).id] : a \in @}]
        /\ UNCHANGED <<repos, nextId, denies, scans, licenses, marks, excused>> /\ Return(x)

\* approveAllPending: the lookup ...
ApproveAll(x) ==
    \E n \in Names : \E r \in repos[n] :
        r.type = "proxy" /\ Call(x, "approveAll", n, r.id, "none", {})

\* ... and ApproveAllPending by name.
ApproveAllPending(x) ==
    LET n == adm[x].name
    IN  /\ adm[x].pc = "approveAll"
        /\ approvals' = [approvals EXCEPT ![n] =
              {IF a.status = "pending" THEN [a EXCEPT !.status = "approved", !.epoch = adm[x].id] ELSE a : a \in @}]
        /\ excused' = Excuse(n, adm[x].id)
        /\ UNCHANGED <<repos, nextId, denies, scans, licenses, marks>> /\ Return(x)

\* createVersionDeny: the lookup, and UpsertVersionDeny.
CreateVersionDeny(x) ==
    \E n \in Names, v \in Versions : \E r \in repos[n] :
        r.type = "proxy" /\ Call(x, "upsertDeny", n, r.id, v, {})

UpsertVersionDeny(x) ==
    LET n == adm[x].name
    IN  /\ adm[x].pc = "upsertDeny"
        /\ denies' = [denies EXCEPT ![<<n, adm[x].arg>>] = {adm[x].id}]
        /\ excused' = Excuse(n, adm[x].id)
        /\ UNCHANGED <<repos, nextId, approvals, scans, licenses, marks>> /\ Return(x)

\* deleteVersionDeny: one statement by row id.
DeleteVersionDeny(x) ==
    /\ adm[x].pc = "idle" /\ work < MaxWork /\ work' = work + 1
    /\ \E d \in Names \X Versions : denies[d] # {} /\ denies' = [denies EXCEPT ![d] = {}]
    /\ UNCHANGED <<format, repos, nextId, approvals, scans, licenses, marks, excused, req, adm>>

\* ValidateGroupMembers: at least one, no duplicates, all there, none a group.
ValidateGroupMembers(members) ==
    /\ members # <<>> /\ IsInjective(members)
    /\ \A i \in DOMAIN members : \E r \in repos[members[i]] : r.type # "group"

\* Mutant: the name is not unique.
CreateRepositoryTwice(x) ==
    /\ adm[x].pc = "idle" /\ work < MaxWork /\ work' = work + 1
    /\ nextId <= MaxIds /\ nextId' = nextId + 1
    /\ \E b \in Blueprints : repos' = [repos EXCEPT ![b.name] = @ \union
          {[id |-> nextId, type |-> b.type, disabled |-> FALSE, cfg |-> b.cfg]}]
    /\ UNCHANGED <<format, approvals, denies, scans, licenses, marks, excused, req, adm>>

\* createRepository: the name is unique, a group's members are valid.
CreateRepository(x) ==
    /\ adm[x].pc = "idle" /\ work < MaxWork /\ work' = work + 1
    /\ nextId <= MaxIds /\ nextId' = nextId + 1
    /\ \E b \in Blueprints :
          /\ repos[b.name] = {}
          /\ b.type = "group" => ValidateGroupMembers(Cfg(b).members)
          /\ repos' = [repos EXCEPT ![b.name] =
                {[id |-> nextId, type |-> b.type, disabled |-> FALSE, cfg |-> b.cfg]}]
    /\ UNCHANGED <<format, approvals, denies, scans, licenses, marks, excused, req, adm>>

\* updateRepository: read the row, validate ...
UpdateRepository(x) ==
    \E b \in Blueprints : \E r \in repos[b.name] :
        /\ r.type = b.type /\ r.cfg # b.cfg
        /\ b.type = "group" => ValidateGroupMembers(Cfg(b).members)
        /\ Call(x, "writeConfig", b.name, r.id, "none", {b.cfg})

\* ... and UpdateRepositoryConfig by id.
UpdateRepositoryConfig(x) ==
    LET n == adm[x].name
    IN  /\ adm[x].pc = "writeConfig"
        /\ repos' = [repos EXCEPT ![n] =
              {IF r.id = adm[x].id THEN [r EXCEPT !.cfg = CHOOSE g \in adm[x].cfg : TRUE] ELSE r : r \in @}]
        /\ UNCHANGED <<nextId, approvals, denies, scans, licenses, marks, excused>> /\ Return(x)

\* setRepositoryDisabled.
SetRepositoryDisabled(x) ==
    /\ adm[x].pc = "idle" /\ work < MaxWork /\ work' = work + 1
    /\ \E n \in Names : \E r \in repos[n] :
          repos' = [repos EXCEPT ![n] = {[r EXCEPT !.disabled = ~@]}]
    /\ UNCHANGED <<format, nextId, approvals, denies, scans, licenses, marks, excused, req, adm>>

\* deleteRepository: the row first ...
DeleteRepository(x) ==
    \E n \in Names : \E r \in repos[n] :
        /\ adm[x].pc = "idle" /\ work < MaxWork /\ work' = work + 1
        /\ repos' = [repos EXCEPT ![n] = {}]
        /\ adm' = [adm EXCEPT ![x] = [NoCall EXCEPT !.pc = "wipeApprovals", !.name = n, !.id = r.id]]
        /\ UNCHANGED <<format, nextId, approvals, denies, scans, licenses, marks, excused, req>>

\* Mutant: the approvals stay behind.
WipeNothing(x) ==
    /\ adm[x].pc = "wipeApprovals"
    /\ adm' = [adm EXCEPT ![x].pc = "wipeDenies"]
    /\ UNCHANGED <<format, tables, req, work>>

\* ... then DeleteApprovalsForRepo; a failure is only logged ...
WipeApprovals(x) ==
    LET n == adm[x].name
    IN  /\ adm[x].pc = "wipeApprovals"
        /\ \/ /\ approvals' = [approvals EXCEPT ![n] = {}]
              /\ adm' = [y \in Admins |->
                    IF y = x THEN [adm[y] EXCEPT !.pc = "wipeDenies"]
                    ELSE IF adm[y].pc = "decide" /\ adm[y].name = n
                    THEN [adm[y] EXCEPT !.arg = "gone"] ELSE adm[y]]
              /\ UNCHANGED excused
           \/ /\ excused' = excused \union {n}
              /\ adm' = [adm EXCEPT ![x].pc = "wipeDenies"]
              /\ UNCHANGED approvals
        /\ UNCHANGED <<format, repos, nextId, denies, scans, licenses, marks, req, work>>

\* ... and DeleteVersionDeniesForRepo.
WipeDenies(x) ==
    LET n == adm[x].name
    IN  /\ adm[x].pc = "wipeDenies"
        /\ \/ /\ denies' = [d \in DOMAIN denies |-> IF d[1] = n THEN {} ELSE denies[d]]
              /\ UNCHANGED excused
           \/ excused' = excused \union {n} /\ UNCHANGED denies
        /\ UNCHANGED <<repos, nextId, approvals, scans, licenses, marks>> /\ Return(x)

-----------------------------------------------------------------------------
(* The workers behind the gates, and time.                                  *)

\* runScan and runResolve store a result (ScanQueue models when they do).
StoreResult ==
    /\ work < MaxWork /\ work' = work + 1
    /\ \E v \in Versions, r \in {"good", "bad"} :
          \/ scans[v] # r /\ scans' = [scans EXCEPT ![v] = r] /\ UNCHANGED licenses
          \/ licenses[v] # r /\ licenses' = [licenses EXCEPT ![v] = r] /\ UNCHANGED scans
    /\ UNCHANGED <<format, repos, nextId, approvals, denies, marks, excused, req, adm>>

\* A mark reaches pendingMarkTTL.
MarkExpires ==
    /\ \E n \in marks : marks' = marks \ {n}
    /\ UNCHANGED <<format, repos, nextId, approvals, denies, scans, licenses, excused,
                   req, adm, work>>

RequestStep(c) ==
    \/ \E w \in Wanted, v \in Versions \union {NoVersion} : Begin(c, w[1], w[2], v)
    \/ Resolve(c) \/ DenyGate(c) \/ ApprovalGate(c) \/ MarkGate(c) \/ SetMark(c)
    \/ Pending(c) \/ VulnGate(c) \/ LicenseGate(c) \/ Engine(c) \/ Put(c) \/ Reply(c)

AdminStep(x) ==
    \/ CreateApproval(x) \/ UpsertDecision(x) \/ GetApproval(x) \/ DecideApproval(x)
    \/ ApproveAll(x) \/ ApproveAllPending(x) \/ CreateVersionDeny(x)
    \/ UpsertVersionDeny(x) \/ DeleteVersionDeny(x) \/ CreateRepository(x)
    \/ UpdateRepository(x) \/ UpdateRepositoryConfig(x) \/ SetRepositoryDisabled(x)
    \/ DeleteRepository(x) \/ WipeApprovals(x) \/ WipeDenies(x)

\* What the properties ask of the time of a request, and whether it holds now.
Facts == ({"allowed", "approved", "on"} \X Names) \union ({"notBad", "good"} \X {"scan", "license"})

True(c, f) ==
    LET v == req[c].version
        result == IF v = NoVersion THEN "none" ELSE IF f[2] = "scan" THEN scans[v] ELSE licenses[v]
    IN  CASE f[1] = "allowed"  -> \/ v = NoVersion \/ denies[<<f[2], v>>] = {}
                                  \/ \A r \in repos[f[2]] : r.type # "proxy"
          [] f[1] = "approved" -> \E a \in approvals[f[2]] : a.status = "approved"
          [] f[1] = "on"       -> \A r \in repos[f[2]] : ~r.disabled
          [] f[1] = "notBad"   -> result # "bad"
          [] OTHER             -> result = "good"

Step ==
    \/ \E c \in Clients : RequestStep(c)
    \/ \E x \in Admins : AdminStep(x)
    \/ StoreResult \/ MarkExpires

Next ==
    /\ Step
    /\ unseen' = [c \in Clients |->
          IF req'[c].pc = "idle" THEN {}
          ELSE {f \in IF req[c].pc = "idle" THEN Facts ELSE unseen[c] : ~True(c, f)'}]

Spec == Init /\ [][Next]_vars

-----------------------------------------------------------------------------
(* Properties.                                                              *)

Served(c) == req[c].pc = "done" /\ req[c].out = "ok"
Gated(c) == Served(c) /\ req[c].kind # "config"

\* An artifact is served only if, in the repository that serves it and in every
\* group member asked before, the version was not denied at some time of the
\* request: a deny that stands throughout is never bypassed, neither by an
\* approval, a cached copy nor the fan-out (approvalgate.go:27-36, 131).
DenyHolds ==
    \A c \in Clients : Gated(c) => \A n \in req[c].tried : <<"allowed", n>> \notin unseen[c]

\* Under an enforced approval policy a package is served only if it was approved
\* at some time of the request, whatever decisions, bulk approvals, deletions and
\* re-creations interleave with it (approvalGate).
ApprovalHolds ==
    \A c \in Clients :
        Gated(c) /\ Res(c).type = "proxy" /\ Cfg(Res(c)).approval = "enforce" /\ ~Cfg(Res(c)).auto
        => <<"approved", Member(c)>> \notin unseen[c]

\* Under a blocking policy a version with a finding is served only if at some time
\* of the request it had none, or the lookup failed; under block-unscanned, only if
\* a scan had cleared it (vulnGate, licenseGate).
FindingsHold ==
    \A c \in Clients :
        Gated(c) /\ req[c].kind = "artifact" /\ Res(c).type = "proxy" /\ ~req[c].failed =>
            /\ Cfg(Res(c)).vuln = "block" => <<"notBad", "scan">> \notin unseen[c]
            /\ Cfg(Res(c)).vuln = "strict" => <<"good", "scan">> \notin unseen[c]
            /\ Cfg(Res(c)).license = "block" => <<"notBad", "license">> \notin unseen[c]
            /\ Cfg(Res(c)).license = "strict" => <<"good", "license">> \notin unseen[c]

\* A client is served only what its own principal may read under the name it asked
\* for, from an address its access list allows: the group's permission stands in
\* for the members' (authorize, ipAllowed, grouped).
EntryAuthorized ==
    \A c \in Clients :
        Served(c) \/ req[c].out = "created" =>
            /\ c \in Readers[req[c].target]
            /\ req[c].via \/ \A allowed \in Cfg(Res(c)).acl : c \in allowed

\* A decision made for a deleted repository reaches a later one of the same name
\* only while its deletion is still wiping, if a wipe failed, or if a call that
\* had looked the old one up wrote after the deletion (deleteRepository).
InheritedOnlyByRace ==
    \A n \in Names : \A r \in repos[n] :
        n \notin excused /\ (\A x \in Admins : adm[x].name = n => adm[x].pc \notin {"wipeApprovals", "wipeDenies"})
        => /\ \A a \in approvals[n] : a.status # "pending" => a.epoch = r.id
           /\ \A v \in Versions : denies[<<n, v>>] \subseteq {r.id}

\* A row raises at most one alarm, however many requests race past the mark, and
\* whether or not a decision came before the first of them (approvalgate.go:105).
OneAlarmPerRow == \A n \in Names : \A a \in approvals[n] : a.alarms <= 1

\* npm: the links of a packument lead back to the repository the client asked,
\* the group during a fan-out (servingRepoName).
PackumentLinksBack ==
    \A c \in Clients : Served(c) /\ format = "npm" => req[c].link \subseteq {req[c].target}

\* A repository that was disabled throughout the request serves nothing, unless it
\* is a group (resolveRepo answers 503; grouped never asks).
DisabledMemberServesNothing ==
    \A c \in Clients : Served(c) => <<"on", Member(c)>> \notin unseen[c]

\* Whatever is served passed every gate in force at some time of the request: denies,
\* approvals, findings and the disabled switch, through caches, groups and races.
ServedWasAllowed == DenyHolds /\ ApprovalHolds /\ FindingsHold /\ DisabledMemberServesNothing

\* Whatever is served was asked for by one who may read it, and leads back to where
\* it was asked for (grouped).
ServedAsAsked == EntryAuthorized /\ PackumentLinksBack

\* The decisions on record are decisions about this repository, and an alarm is
\* raised once for each (UpsertPendingApproval, deleteRepository).
DecisionsSound == TypeOK /\ InheritedOnlyByRace /\ OneAlarmPerRow

\* "A disabled repository keeps its config and artifacts but stops serving the
\* package protocols (503)" (setRepositoryDisabled).
DisabledServesNothing ==
    \A c \in Clients : Served(c) => <<"on", req[c].target>> \notin unseen[c]

\* The same promise of every format: client-facing URLs lead back to the group
\* (group.go:29-33).
LinksBack == \A c \in Clients : Served(c) => req[c].link \subseteq {req[c].target}

\* "a recreated same-name repo would silently inherit its trust decisions", which
\* deleteRepository means to prevent.
NothingInherited ==
    \A n \in Names : \A r \in repos[n], a \in approvals[n] : a.status # "pending" => a.epoch = r.id
=============================================================================
