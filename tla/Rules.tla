-------------------------------- MODULE Rules --------------------------------
(***************************************************************************)
(* The pure rules that authorization, policy files, configuration and the   *)
(* store's queries rest on.  A behaviour takes one task, a call with its    *)
(* arguments.  The loops, over a pattern, over the lines of a policy and    *)
(* over a map in whatever order Go ranges, are taken step by step; the rest *)
(* is evaluated in place.                                                   *)
(* Names and patterns are sequences of characters, Star being the wildcard. *)
(***************************************************************************)
EXTENDS Integers, Sequences, FiniteSets, Functions

CONSTANTS
    Tasks           \* the calls explored, by kind: [kind, ...]

Star == "*"

\* Names and patterns are texts, and a repository's name has no star (api.go validName);
\* versions have numbers, seconds two digits.
ASSUME RulesAssumption ==
    \A t \in Tasks :
        /\ t.kind = "glob" => /\ t.pattern \in Seq(STRING) /\ t.name \in Seq(STRING)
                               /\ Star \notin Range(t.name)
        /\ t.kind = "policy" => t.lines \in Seq(Range(t.lines))
        /\ t.kind = "config" => t.c.backend \in {"fs", "s3"}
        /\ t.kind = "npm" => \A ver \in t.versions : ver.segs \in Seq(Nat)
        /\ t.kind = "time" => \A x \in {t.t, t.u} :
              x.sec \in 0..99 /\ x.frac \in Seq(0..9) /\ Len(x.frac) = 2

VARIABLES
    task,           \* the call: [kind, ...]
    loop            \* the state of its loop

ruleVars == <<task, loop>>

AllActions == {"read", "write", "delete", "approve", "audit", "admin"}

-----------------------------------------------------------------------------
(* Patterns: globMatch, matchGlob.  Indices count from 0, as in the code.    *)

\* The variables of globMatch, and the result once it returns.
At(sx, px, starIdx, sTmp) ==
    [sx |-> sx, px |-> px, starIdx |-> starIdx, sTmp |-> sTmp, res |-> "run"]

GlobStart == At(0, 0, -1, -1)

\* Mutants: on a mismatch the star gives up, takes no character more, or two more.
BacktrackNever(st) == [st EXCEPT !.res = "no"]
BacktrackStuck(st) == At(st.sTmp, st.starIdx + 1, st.starIdx, st.sTmp)
BacktrackFar(st) == At(st.sTmp + 2, st.starIdx + 1, st.starIdx, st.sTmp + 2)

\* The last star takes one character more.
Backtrack(st) == At(st.sTmp + 1, st.starIdx + 1, st.starIdx, st.sTmp + 1)

\* One round of the loop; past the name, what is left of the pattern must be stars.
GlobStep(pattern, s, st) ==
    IF st.sx < Len(s)
    THEN IF st.px < Len(pattern) /\ pattern[st.px + 1] = s[st.sx + 1]
         THEN At(st.sx + 1, st.px + 1, st.starIdx, st.sTmp)
         ELSE IF st.px < Len(pattern) /\ pattern[st.px + 1] = Star
         THEN At(st.sx, st.px + 1, st.px, st.sx)
         ELSE IF st.starIdx # -1 THEN Backtrack(st)
         ELSE [st EXCEPT !.res = "no"]
    ELSE IF st.px < Len(pattern) /\ pattern[st.px + 1] = Star
         THEN At(st.sx, st.px + 1, st.starIdx, st.sTmp)
         ELSE [st EXCEPT !.res = IF st.px = Len(pattern) THEN "yes" ELSE "no"]

GlobStates == [sx : Nat, px : Nat, starIdx : Int, sTmp : Int, res : {"run", "yes", "no"}]

GlobMatch(pattern, s) ==
    LET rounds[st \in GlobStates] ==
            IF st.res = "run" THEN rounds[GlobStep(pattern, s, st)] ELSE st.res = "yes"
    IN  rounds[GlobStart]

\* The empty name, a global check, matches "*" only.
MatchGlob(pattern, name) ==
    pattern = <<Star>> \/ (name # <<>> /\ GlobMatch(pattern, name))

-----------------------------------------------------------------------------
(* Principals.  perms, scopes: sets of [pattern, actions].                   *)

\* actionsContain, actionListContains: admin implies all.
ActionsContain(actions, action) == actions \cap {"admin", action} # {}

\* rolesAllow, scopesAllow
Allow(entries, repo, action) ==
    \E e \in entries : MatchGlob(e.pattern, repo) /\ ActionsContain(e.actions, action)

\* Principal.Can: the scopes of a token narrow its owner's roles.
Can(p, repo, action) ==
    /\ Allow(p.perms, repo, action)
    /\ p.viaToken /\ p.scopes # {} => Allow(p.scopes, repo, action)

\* Mutant: admin on some pattern is enough.
IsAdminSomewhere(p) == \E e \in p.perms : "admin" \in e.actions

IsAdmin(p) == Can(p, <<>>, "admin")

Grants(entries, action) == \E e \in entries : ActionsContain(e.actions, action)

\* Mutant: the gate asks for every repository.
CanApproveAll(p) == Can(p, <<>>, "approve")

\* CanApproveAny, the gate of the approvals API.
CanApproveAny(p) ==
    Grants(p.perms, "approve") /\ (p.viaToken /\ p.scopes # {} => Grants(p.scopes, "approve"))

\* CanAuditAny, the gate of the read-only administrative API.
CanAuditAny(p) == Grants(p.perms, "audit") /\ ~(p.viaToken /\ p.scopes # {})

\* Mutant: any role's action may be put into a token.
ValidScopesAny(scopes) == scopes # {}

\* validateTokenReq
ValidScopes(scopes) ==
    /\ scopes # {}
    /\ \A e \in scopes : e.pattern # <<>> /\ e.actions # {} /\ e.actions \subseteq {"read", "write", "delete"}

\* A principal that Resolve can return: a session or password, or an issued token.
Resolvable(p) == p.viaToken => ValidScopes(p.scopes)

-----------------------------------------------------------------------------
(* The policy file: a sequence of lines, by kind.                            *)
(*   "p" [role, action, pattern, effect]    "g" [subject, prefix, role]      *)
(* Blank lines and comments are left out; effect "deny" stands for a resource *)
(* or an effect that is refused.                                              *)

\* parsePermissionLine: "*" is admin.
LineAction(line) == IF line.action = "*" THEN "admin" ELSE line.action

\* parsePermissionLine, parseGrantLine, validRoleAction: the lines accepted.
LineOk(line) ==
    \/ /\ line.kind = "p" /\ line.role # "" /\ line.pattern # <<>>
       /\ line.effect = "allow" /\ LineAction(line) \in AllActions
    \/ line.kind = "g" /\ line.subject # "" /\ line.role # ""

\* Mutant: a later line about a role and a pattern replaces the earlier one.
AddPermissionLast(perms, line) ==
    {e \in perms : e.pattern # line.pattern}
        \union {[pattern |-> line.pattern, actions |-> {LineAction(line)}]}

\* appendUnique: one entry per role and pattern gathers the actions.
AddPermission(perms, line) ==
    LET same == {e \in perms : e.pattern = line.pattern}
    IN  (perms \ same) \union
        {[pattern |-> line.pattern, actions |-> {LineAction(line)} \union UNION {e.actions : e \in same}]}

Grant(line) == [subject |-> line.subject, role |-> line.role]

\* The variables of ParsePolicy, the lines read so far, and the result once it returns.
PolicyStart == [next |-> 0, res |-> "run", roles |-> <<>>, groupRoles |-> <<>>, userRoles |-> <<>>]

\* roleActions[role], nil before the role's first line.
Permissions(roles, role) == IF role \in DOMAIN roles THEN roles[role] ELSE {}

\* One round of the loop; a bare subject is a user.
AddLine(st, line) ==
    LET read == [st EXCEPT !.next = @ + 1]
    IN  IF line.kind = "p"
        THEN [read EXCEPT !.roles = [r \in DOMAIN @ \union {line.role} |->
                 IF r = line.role THEN AddPermission(Permissions(st.roles, r), line) ELSE st.roles[r]]]
        ELSE IF line.prefix = "group"
        THEN [read EXCEPT !.groupRoles = Append(@, Grant(line))]
        ELSE [read EXCEPT !.userRoles = Append(@, Grant(line))]

-----------------------------------------------------------------------------
(* Timestamps: [sec, frac], frac the digits of the fraction of a second.     *)

Before(t, u) == t.sec < u.sec \/ (t.sec = u.sec /\ (t.frac[1] < u.frac[1]
                                  \/ (t.frac[1] = u.frac[1] /\ t.frac[2] < u.frac[2])))

\* RFC3339Nano drops the trailing zeros of the fraction, and the dot with them.
Fraction(frac) ==
    IF frac[2] # 0 THEN frac ELSE IF frac[1] # 0 THEN <<frac[1]>> ELSE <<>>

\* Character codes: digits 48.., "." 46, "Z" 90.
Dot == 46
Zulu == 90
Digit(d) == 48 + d

\* Mutant: seconds without a leading zero.
SecondsBare(sec) == IF sec < 10 THEN <<Digit(sec)>> ELSE <<Digit(sec \div 10), Digit(sec % 10)>>

Seconds(sec) == <<Digit(sec \div 10), Digit(sec % 10)>>

\* nowRFC3339
Text(t) ==
    LET digits == Fraction(t.frac)
    IN  Seconds(t.sec)
        \o (IF digits = <<>> THEN <<>> ELSE <<Dot>> \o [i \in DOMAIN digits |-> Digit(digits[i])])
        \o <<Zulu>>

\* SQLite compares TEXT byte by byte.
TextLess(a, b) ==
    \E i \in 1..Len(b) :
        /\ \A j \in 1..(i - 1) : j <= Len(a) /\ a[j] = b[j]
        /\ i > Len(a) \/ a[i] < b[i]

-----------------------------------------------------------------------------
(* npm's dist-tag: highestStableVersion over a map, in any order.  A version *)
(* is [segs, suffix, v]: its numbers, "-" or "+" in it, a leading "v".       *)

\* parseSemver
Stable(ver) == ~ver.suffix /\ Len(ver.segs) = 3

\* Mutant: the last number decides alone.
HigherByPatch(n, best) == n[3] > best[3]

Higher(n, best) ==
    \/ n[1] > best[1]
    \/ n[1] = best[1] /\ (n[2] > best[2] \/ (n[2] = best[2] /\ n[3] > best[3]))

\* The body of the range loop; {} is "".
BestAfter(best, ver) ==
    IF Stable(ver) /\ \A b \in best : Higher(ver.segs, b.segs) THEN {ver} ELSE best

-----------------------------------------------------------------------------
(* Configuration: [backend, ha, replication, leaderURL, pod], leaderURL and   *)
(* pod saying whether a fixed leader URL and the pod's name are set.          *)

\* Mutant: replication is accepted without leader election.
ValidateAlone(c) == ~(c.backend = "s3" /\ c.replication)

\* Config.validate, of the settings that name a topology.
Validate(c) ==
    /\ ~(c.backend = "s3" /\ c.replication)
    /\ c.replication => c.ha

\* run(): the elector exists, and where it is called without a nil check.
HasElector(c) == c.ha
LabelRouting(c) == c.replication \/ (c.backend = "s3" /\ c.ha)
CallsElector(c) == c.ha \/ (c.replication /\ ~c.leaderURL) \/ (LabelRouting(c) /\ c.pod)

\* haMode
HaMode(c) ==
    IF c.replication THEN "replication" ELSE IF c.backend = "s3" THEN "object-storage"
    ELSE IF c.ha THEN "shared-volume" ELSE "single"

-----------------------------------------------------------------------------
(* Behaviours.                                                              *)

Start(t) ==
    IF t.kind = "glob" THEN GlobStart ELSE IF t.kind = "policy" THEN PolicyStart
    ELSE IF t.kind = "npm" THEN [todo |-> t.versions, best |-> {}] ELSE [res |-> "none"]

RulesInit == task \in Tasks /\ loop = Start(task)

\* Mutant: a star that is tried again takes no character more.
MatchStuck ==
    /\ task.kind = "glob" /\ loop.res = "run"
    /\ LET st == GlobStep(task.pattern, task.name, loop)
       IN  loop' = IF st.starIdx = loop.starIdx /\ st.sTmp # loop.sTmp THEN BacktrackStuck(loop) ELSE st
    /\ UNCHANGED task

Match ==
    /\ task.kind = "glob" /\ loop.res = "run"
    /\ loop' = GlobStep(task.pattern, task.name, loop)
    /\ UNCHANGED task

RangeVersions ==
    /\ task.kind = "npm"
    /\ \E v \in loop.todo : loop' = [todo |-> loop.todo \ {v}, best |-> BestAfter(loop.best, v)]
    /\ UNCHANGED task

\* ParsePolicy: one bad line refuses the whole text; at the end the policy is built.
ReadLine ==
    /\ task.kind = "policy" /\ loop.res = "run"
    /\ IF loop.next = Len(task.lines) THEN loop' = [loop EXCEPT !.res = "yes"]
       ELSE IF LineOk(task.lines[loop.next + 1]) THEN loop' = AddLine(loop, task.lines[loop.next + 1])
       ELSE loop' = [loop EXCEPT !.res = "no"]
    /\ UNCHANGED task

RulesNext == Match \/ RangeVersions \/ ReadLine
RulesSpec == RulesInit /\ [][RulesNext]_ruleVars /\ WF_ruleVars(RulesNext)

-----------------------------------------------------------------------------
(* Properties.                                                              *)

\* The states of the loops.  The indices of globMatch stay in the name and the
\* pattern, and a recorded star is a star of the pattern before px (authz.go).
RulesTypeOK ==
    /\ task.kind = "policy" => loop.next \in 0..Len(task.lines) /\ loop.res \in {"run", "yes", "no"}
    /\ task.kind = "npm" => loop.todo \subseteq task.versions /\ loop.best \subseteq task.versions
    /\ task.kind = "glob" =>
        /\ loop.sx \in 0..Len(task.name) /\ loop.px \in 0..Len(task.pattern)
        /\ loop.res \in {"run", "yes", "no"}
        /\ \/ loop.starIdx = -1 /\ loop.sTmp = -1
           \/ /\ loop.starIdx \in 0..(loop.px - 1) /\ loop.sTmp \in 0..loop.sx
              /\ task.pattern[loop.starIdx + 1] = Star

\* A pattern matches a name when the name can be cut into one piece for each
\* character of the pattern: that character, or any piece for a star.
Piece(pattern, s, cut, i) ==
    IF pattern[i] = Star THEN cut[i] >= cut[i - 1]
    ELSE cut[i] = cut[i - 1] + 1 /\ s[cut[i]] = pattern[i]

Cuts(pattern, s) ==
    \E cut \in [0..Len(pattern) -> 0..Len(s)] :
        /\ cut[0] = 0 /\ cut[Len(pattern)] = Len(s)
        /\ \A i \in 1..Len(pattern) : Piece(pattern, s, cut, i)

\* Two-pointer matching with backtracking to the last star only answers as the
\* definition does, "'*' matches any run of characters" (authz.go matchGlob).
GlobIsCuts ==
    task.kind = "glob" /\ loop.res # "run" => (loop.res = "yes" <=> Cuts(task.pattern, task.name))

\* globMatch's backtracking ends.
GlobEnds == <>(task.kind = "glob" => loop.res # "run")

\* globMatch stays inside its texts and answers as the definition does (authz.go).
GlobAnswers == RulesTypeOK /\ GlobIsCuts

\* A principal that IsAdmin may do everything on every repository, by its roles
\* and through its token, although the check is made on the empty repository.
AdminEverywhere ==
    task.kind = "can" /\ IsAdmin(task.p) => \A repo \in task.repos, a \in AllActions : Can(task.p, repo, a)

\* A principal on an issued token decides no approval, reads no administrative
\* surface and is no administrator, whatever its owner's roles (CanApproveAny:
\* "Token-scoped principals never qualify", authz.go).
TokenNeverDecides ==
    task.kind = "can" /\ Resolvable(task.p) /\ task.p.viaToken =>
        /\ ~CanApproveAny(task.p) /\ ~CanAuditAny(task.p) /\ ~IsAdmin(task.p)
        /\ \A repo \in task.repos, a \in {"approve", "audit", "admin"} : ~Can(task.p, repo, a)

\* RequireApprover and RequireAuditor turn nobody away who may approve or audit
\* some repository: the gate looks at actions without patterns.
GatesAdmit ==
    task.kind = "can" /\ Resolvable(task.p) =>
        \A repo \in task.repos :
            /\ Can(task.p, repo, "approve") => CanApproveAny(task.p)
            /\ Can(task.p, repo, "audit") => CanAuditAny(task.p)

\* The gates before the handlers, the checks in them and the scopes of tokens agree
\* (RequireAdmin, RequireApprover, RequireAuditor, Principal.Can).
GatesAgree == AdminEverywhere /\ TokenNeverDecides /\ GatesAdmit

\* The roles the lines declare; where the lines for groups and those for users are.
PolicyRoles(lines) == {lines[n].role : n \in {m \in DOMAIN lines : lines[m].kind = "p"}}
GroupPlaces(lines) == {n \in DOMAIN lines : lines[n].kind = "g" /\ lines[n].prefix = "group"}
UserPlaces(lines) == {n \in DOMAIN lines : lines[n].kind = "g" /\ lines[n].prefix # "group"}

LineAllows(line, role, repo, action) ==
    /\ line.kind = "p" /\ line.role = role
    /\ MatchGlob(line.pattern, repo) /\ line.action \in {action, "admin", "*"}

\* The grants are those of the lines at the given places, in order.
KeptInOrder(grants, lines, places) ==
    \E at \in [1..Len(grants) -> places] :
        /\ \A i, j \in 1..Len(grants) : i < j => at[i] < at[j]
        /\ \A n \in places : \E i \in 1..Len(grants) : at[i] = n
        /\ \A i \in 1..Len(grants) : grants[i] = Grant(lines[at[i]])

\* A policy text is accepted if every line is, and then means its lines: it declares
\* their roles, a role allows an action on a repository exactly when one of its lines
\* does, wherever it stands, and every grant is kept, in order, for a group or for a
\* user (policy.go ParsePolicy).
PolicyMeansItsLines ==
    task.kind = "policy" /\ loop.res # "run" =>
        /\ loop.res = "yes" <=> \A n \in DOMAIN task.lines : LineOk(task.lines[n])
        /\ loop.res = "yes" =>
            /\ DOMAIN loop.roles = PolicyRoles(task.lines)
            /\ \A role \in DOMAIN loop.roles, repo \in task.repos, a \in AllActions :
                  Allow(loop.roles[role], repo, a) <=>
                  \E n \in DOMAIN task.lines : LineAllows(task.lines[n], role, repo, a)
            /\ KeptInOrder(loop.groupRoles, task.lines, GroupPlaces(task.lines))
            /\ KeptInOrder(loop.userRoles, task.lines, UserPlaces(task.lines))

\* An accepted configuration never calls the elector it did not build, and the
\* mode it reports names its topology (main.go run, haMode).
AcceptedRuns ==
    task.kind = "config" /\ Validate(task.c) =>
        /\ CallsElector(task.c) => HasElector(task.c)
        /\ HaMode(task.c) = "object-storage" <=> task.c.backend = "s3"
        /\ HaMode(task.c) = "single" <=> ~task.c.ha /\ task.c.backend = "fs"

\* What the operator's files say and start-up accepts is what runs (ParsePolicy, validate).
AcceptedMeansItself == PolicyMeansItsLines /\ AcceptedRuns

\* Comparing stored times as text (ListExpiredArtifacts, EvictLRU) goes wrong only
\* between two instants of one second: "lexicographic order matches chronological
\* order" (artifact.go) holds from one second to the next.
MisorderedWithinSecond ==
    task.kind = "time" /\ task.t.sec # task.u.sec =>
        (TextLess(Text(task.t), Text(task.u)) <=> Before(task.t, task.u))

\* Precedence of versions: the first number that differs decides.
Beats(n, m) == \E i \in 1..3 : n[i] > m[i] /\ \A j \in 1..(i - 1) : n[j] = m[j]

\* In whatever order the map is ranged, latest is a stable version that no stable
\* version beats, and it is missing only when there is none (npm.go).
HighestIsHighest ==
    task.kind = "npm" /\ loop.todo = {} =>
        /\ loop.best = {} <=> \A ver \in task.versions : ~Stable(ver)
        /\ \A b \in loop.best : Stable(b) /\ \A ver \in task.versions : Stable(ver) => ~Beats(ver.segs, b.segs)

=============================================================================
