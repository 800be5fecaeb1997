------------------------------- MODULE Access -------------------------------
(***************************************************************************)
(* Accounts and RBAC: password login with lockout, OIDC login with synced   *)
(* roles, tokens, the administration calls on users, roles, permissions and *)
(* group mappings, and what every replica does to those tables when it      *)
(* starts: bootstrap the first administrator and reconcile the declarative  *)
(* policy.                                                                  *)
(*                                                                          *)
(* Every operator below is one statement or transaction on the database;    *)
(* calls that read first and write later keep what they read in login, call *)
(* or boot.  Rows are keyed by name; a user row has the id that tokens and   *)
(* later statements refer to.  managed is 0 (interactive), 1 (policy) or 2   *)
(* (synced at login).  Repository patterns are left to module Rules.         *)
(***************************************************************************)
EXTENDS Integers, FiniteSets, Sequences, Functions

CONSTANTS
    Users, Root,            \* usernames; the bootstrap administrator's
    Roles, Groups,
    Policies, PolicyOf,     \* policy files: [roles, perms, grants, maps, locals]
    Requests,               \* of updateUser: the fields present, in the handler's order
    Replicas, Logins, Admins,
    MaxFailed,              \* MaxFailedLogins
    MaxWork                 \* bound: calls, restarts and faults

Administrator == "administrator"
Actions == {"read", "admin"}

Changes == {"disable", "enable", "lockout", "no lockout", "unlock"}
Policy == [enabled : BOOLEAN, roles : SUBSET Roles, perms : SUBSET (Roles \X Actions),
           grants : SUBSET (Users \X Roles), maps : SUBSET (Groups \X Roles), locals : SUBSET Users]

\* Users is finite.  A policy file gives permissions to the roles it declares; of a group
\* that it maps twice, maps has the last one.
ASSUME ConstantsAssumption ==
    /\ Root \in Users /\ Administrator \in Roles
    /\ \A S \in SUBSET Users : Cardinality(S) \in Nat
    /\ Requests \subseteq Seq(Changes) \ {<<>>}
    /\ PolicyOf \in [Policies -> Policy]
    /\ \A p \in Policies : /\ \A q \in PolicyOf[p].perms : q[1] \in PolicyOf[p].roles
                           /\ \A v, w \in PolicyOf[p].maps : v[1] = w[1] => v = w
    /\ MaxFailed \in Nat \ {0} /\ MaxWork \in Nat

VARIABLES
    users,      \* username -> {} or {row}
    nextId,     \* AUTOINCREMENT
    roles,      \* role name -> {} or {managed}
    perms,      \* role_permissions: <<role, action, managed>>
    grants,     \* user_roles: <<user, role, managed>>
    maps,       \* oidc_group_mappings: <<group, role, managed>>
    tokens,     \* user ids that tokens belong to
    login,      \* per login attempt: what it has read
    call,       \* per administrator: the rest of the call
    boot,       \* per replica: its place in the start-up
    policy,     \* the mounted policy file
    applied,    \* history: the policy reconciled last, {} if none
    work,
    excused     \* history: causes that took place, see the properties

db == <<users, nextId, roles, perms, grants, maps, tokens>>
vars == <<db, login, call, boot, policy, applied, work, excused>>

Idle == [op |-> "idle"]
External == work < MaxWork /\ work' = work + 1

Has(u) == users[u] # {}
Row(u) == CHOOSE r \in users[u] : TRUE
HasId(u, id) == \E r \in users[u] : r.id = id
NewRow(id, source) ==
    [id |-> id, source |-> source, disabled |-> FALSE, lockout |-> FALSE, failed |-> 0,
     locked |-> FALSE]

Account == [id : Nat, source : {"local", "oidc"}, disabled : BOOLEAN, lockout : BOOLEAN,
            failed : Nat, locked : BOOLEAN]
Login == {Idle} \union [op : {"verify"}, user : Users, row : Account]
                \union [op : {"sync"}, user : Users, groups : SUBSET Groups, row : Account]
Call ==
    {Idle} \union [op : {"insert"}, user : Users, roles : SUBSET Roles]
           \union [op : {"lockout", "assign"}, user : Users, roles : SUBSET Roles, id : Nat]
           \union [op : {"update"}, actor : Users, user : Users, id : Nat,
                   source : {"local", "oidc"}, todo : Seq(Changes) \ {<<>>}]
           \union [op : {"token"}, user : Users, id : Nat]
           \union [op : {"permission"}, role : Roles, action : Actions]
           \union [op : {"remove"}, user : Users, id : Nat, role : Roles]
           \union [op : {"drop"}, role : Roles] \union [op : {"unmap"}, group : Groups]
BootPcs == {"down", "create", "role", "createRole", "perm", "assign", "reconcile", "up"}
Causes == {"late success", "revoked", "stale check", "bootstrapped", "interrupted", "withdrawn"}

TypeOK ==
    /\ users \in [Users -> SUBSET Account] /\ nextId \in Nat
    /\ \A u \in Users : \A r, s \in users[u] : r = s /\ r.id < nextId
    /\ roles \in [Roles -> {{}, {0}, {1}}]
    /\ perms \subseteq Roles \X Actions \X {0, 1}
    /\ grants \subseteq Users \X Roles \X {0, 1, 2} /\ maps \subseteq Groups \X Roles \X {0, 1}
    \* the keys and foreign keys of the schema
    /\ \A p \in perms : roles[p[1]] # {}
    /\ \A g \in grants : Has(g[1]) /\ roles[g[2]] # {}
    /\ \A m \in maps : roles[m[2]] # {}
    /\ \A g, h \in grants : g[1] = h[1] /\ g[2] = h[2] => g = h
    /\ \A m, n \in maps : m[1] = n[1] => m = n
    /\ tokens \subseteq Nat /\ policy \in Policies /\ applied \subseteq Policies
    /\ login \in [Logins -> Login] /\ call \in [Admins -> Call] /\ boot \in [Replicas -> BootPcs]
    /\ work \in 0..MaxWork /\ excused \subseteq Causes

\* A new database, or running replicas whose administrator has set up an account and a role.
Init ==
    /\ \/ /\ users = [u \in Users |-> {}] /\ nextId = 1 /\ roles = [r \in Roles |-> {}]
          /\ perms = {} /\ grants = {} /\ policy \in Policies /\ boot = [i \in Replicas |-> "down"]
       \/ /\ \E id \in Injection(Users, 1..Cardinality(Users)) :
                id[Root] = 1 /\ users = [u \in Users |-> {[NewRow(id[u], "local") EXCEPT !.lockout = u # Root]}]
          /\ nextId = Cardinality(Users) + 1 /\ roles = [r \in Roles |-> {0}]
          /\ perms = {<<r, IF r = Administrator THEN "admin" ELSE "read", 0>> : r \in Roles}
          /\ grants = {<<Root, Administrator, 0>>}
          /\ policy \in {p \in Policies : ~PolicyOf[p].enabled} /\ boot = [i \in Replicas |-> "up"]
    /\ maps = {} /\ tokens = {}
    /\ login = [l \in Logins |-> Idle] /\ call = [a \in Admins |-> Idle]
    /\ applied = {} /\ work = 0 /\ excused = {}

Serving == \E i \in Replicas : boot[i] = "up"

\* UPDATE users ... WHERE id = ?: nothing if the row has gone.
UpdateUser(u, id, row) ==
    users' = IF HasId(u, id) THEN [users EXCEPT ![u] = {row}] ELSE users

-----------------------------------------------------------------------------
(* Permissions of a principal.                                              *)

RoleActions(names) == {p[2] : p \in {q \in perms : q[1] \in names}}

\* buildPrincipal: the user's roles and those mapped from the session's groups.
BuildPrincipal(u, groups) ==
    RoleActions({g[2] : g \in {h \in grants : h[1] = u}} \union
                {m[2] : m \in {n \in maps : n[1] \in groups}})

-----------------------------------------------------------------------------
(* Password login.                                                          *)

\* IsProtectedAdmin
IsProtectedAdmin(u) == u = Root

\* AuthenticateLocal up to the lock check.
AuthRead(l) ==
    /\ Serving /\ login[l] = Idle /\ External
    /\ \E u \in Users :
          /\ Has(u) /\ ~Row(u).disabled /\ Row(u).source = "local"
          /\ ~Row(u).locked \/ IsProtectedAdmin(u)
          /\ login' = [login EXCEPT ![l] = [op |-> "verify", user |-> u, row |-> Row(u)]]
    /\ UNCHANGED <<db, call, boot, policy, applied, excused>>

\* Mutant: the count read at the start is written back.
RegisterStale(r, read) ==
    [r EXCEPT !.failed = read.failed + 1,
              !.locked = @ \/ (r.lockout /\ read.failed + 1 >= MaxFailed)]

\* Mutant: the counter alone locks.
RegisterUnasked(r, read) ==
    [r EXCEPT !.failed = @ + 1, !.locked = @ \/ r.failed + 1 >= MaxFailed]

\* RegisterFailedLogin: one statement on the row as it is now.
RegisterFailedLogin(r, read) ==
    [r EXCEPT !.failed = @ + 1,
              !.locked = @ \/ (r.lockout /\ r.failed + 1 >= MaxFailed)]

ResetFailedLogin(r) == [r EXCEPT !.failed = 0, !.locked = FALSE]

\* Mutant: every account counts.
CountsAll(u) == TRUE

\* The bootstrap administrator's failures are not counted.
Counts(u) == ~IsProtectedAdmin(u)

\* The password is wrong.
AuthFail(l) ==
    /\ login[l].op = "verify"
    /\ IF Counts(login[l].user)
       THEN UpdateUser(login[l].user, login[l].row.id,
                       RegisterFailedLogin(Row(login[l].user), login[l].row))
       ELSE UNCHANGED users
    /\ login' = [login EXCEPT ![l] = Idle]
    /\ UNCHANGED <<nextId, roles, perms, grants, maps, tokens, call, boot, policy, applied,
                   work, excused>>

\* Mutant: a success always writes.
ResetsAlways(row) == TRUE

\* A success writes only if the row read had something to clear.
Resets(row) == row.failed > 0 \/ row.locked

\* The password is right.
AuthSuccess(l) ==
    /\ login[l].op = "verify"
    /\ LET u == login[l].user   read == login[l].row
       IN  /\ IF Resets(read) THEN UpdateUser(u, read.id, ResetFailedLogin(Row(u)))
              ELSE UNCHANGED users
           /\ excused' = IF read.failed > 0 /\ HasId(u, read.id) /\ Row(u).locked
                         THEN excused \union {"late success"} ELSE excused
    /\ login' = [login EXCEPT ![l] = Idle]
    /\ UNCHANGED <<nextId, roles, perms, grants, maps, tokens, call, boot, policy, applied,
                   work>>

-----------------------------------------------------------------------------
(* OIDC login.                                                              *)

\* HandleCallback, EnsureUser: an existing row is taken as it is.
OIDCLogin(l) ==
    /\ Serving /\ login[l] = Idle /\ External
    /\ \E u \in Users, gs \in SUBSET Groups :
          /\ users' = IF Has(u) THEN users ELSE [users EXCEPT ![u] = {NewRow(nextId, "oidc")}]
          /\ nextId' = IF Has(u) THEN nextId ELSE nextId + 1
          /\ login' = [login EXCEPT ![l] = [op |-> "sync", user |-> u, groups |-> gs,
                                            row |-> Row(u)']]
    /\ UNCHANGED <<roles, perms, grants, maps, tokens, call, boot, policy, applied, excused>>

\* Mutant: the roles of groups the user has left stay.
SyncKeeps(u, mapped) ==
    grants \union {<<u, r, 2>> : r \in {q \in mapped : \A g \in grants : ~(g[1] = u /\ g[2] = q)}}

\* SyncOIDCGroupRoles: drop the synced roles no longer mapped, add the missing ones.
SyncOIDCGroupRoles(u, mapped) ==
    LET kept == {g \in grants : ~(g[1] = u /\ g[3] = 2 /\ g[2] \notin mapped)}
    IN  kept \union {<<u, r, 2>> : r \in {q \in mapped : \A g \in kept : ~(g[1] = u /\ g[2] = q)}}

OIDCSync(l) ==
    /\ login[l].op = "sync"
    /\ IF HasId(login[l].user, login[l].row.id)
       THEN grants' = SyncOIDCGroupRoles(login[l].user,
                          {m[2] : m \in {n \in maps : n[1] \in login[l].groups}})
       ELSE UNCHANGED grants
    /\ login' = [login EXCEPT ![l] = Idle]
    /\ excused' = IF <<Root, Administrator, 2>> \in grants \ grants'
                  THEN excused \union {"withdrawn"} ELSE excused
    /\ UNCHANGED <<users, nextId, roles, perms, maps, tokens, call, boot, policy, applied, work>>

\* The sync fails: the login goes on.
OIDCSyncFails(l) ==
    /\ login[l].op = "sync" /\ External
    /\ login' = [login EXCEPT ![l] = Idle]
    /\ UNCHANGED <<db, call, boot, policy, applied, excused>>

-----------------------------------------------------------------------------
(* Administration.  A call starts with a principal who is an administrator  *)
(* (RequireAdmin); a check that precedes a write is its first step.         *)

\* Someone may call: actor is who.
May(a, actor) ==
    /\ Serving /\ call[a] = Idle /\ External
    /\ Has(actor) /\ ~Row(actor).disabled
    /\ \E gs \in SUBSET Groups : "admin" \in BuildPrincipal(actor, gs)

Continue(a, rest) == call' = [call EXCEPT ![a] = rest]

\* createUser: the roles asked for exist.
CreateUser(a) ==
    /\ \E actor \in Users : May(a, actor)
    /\ \E u \in Users, rs \in SUBSET {r \in Roles : roles[r] # {}} :
          Cardinality(rs) <= 1 /\ Continue(a, [op |-> "insert", user |-> u, roles |-> rs])
    /\ UNCHANGED <<db, login, boot, policy, applied, excused>>

\* CreateUser of the store; a taken name is a conflict.
InsertUser(a) ==
    /\ call[a].op = "insert"
    /\ LET u == call[a].user
       IN  IF Has(u) THEN Continue(a, Idle) /\ UNCHANGED <<users, nextId>>
           ELSE /\ users' = [users EXCEPT ![u] = {NewRow(nextId, "local")}]
                /\ nextId' = nextId + 1
                /\ Continue(a, [op |-> "lockout", user |-> u, roles |-> call[a].roles, id |-> nextId])
    /\ UNCHANGED <<roles, perms, grants, maps, tokens, login, boot, policy, applied, work, excused>>

\* SetLockoutEnabled for everyone but the protected account.
EnableLockout(a) ==
    /\ call[a].op = "lockout"
    /\ LET u == call[a].user
       IN  /\ IF IsProtectedAdmin(u) THEN UNCHANGED users
              ELSE UpdateUser(u, call[a].id, [Row(u) EXCEPT !.lockout = TRUE])
           /\ Continue(a, IF HasId(u, call[a].id) THEN [call[a] EXCEPT !.op = "assign"] ELSE Idle)
    /\ UNCHANGED <<nextId, roles, perms, grants, maps, tokens, login, boot, policy, applied,
                   work, excused>>

\* Mutant: neither the key nor the foreign keys are looked at.
AssignUnchecked(u, r) == grants \union {<<u, r, 0>>}

\* AssignRole: ON CONFLICT DO NOTHING; a missing user or role is an error.
Assign(u, r) ==
    IF Has(u) /\ roles[r] # {} /\ \A g \in grants : ~(g[1] = u /\ g[2] = r)
    THEN grants \union {<<u, r, 0>>} ELSE grants

AssignNewRoles(a) ==
    /\ call[a].op = "assign"
    /\ grants' = IF HasId(call[a].user, call[a].id)
                 THEN grants \union UNION {Assign(call[a].user, r) : r \in call[a].roles}
                 ELSE grants
    /\ Continue(a, Idle)
    /\ UNCHANGED <<users, nextId, roles, perms, maps, tokens, login, boot, policy, applied,
                   work, excused>>

\* Mutant: the protected account may be given lockout.
MayUpdateAny(c, change) ==
    change = "disable" => ~IsProtectedAdmin(c.user) /\ ~HasId(c.actor, c.id)

\* The checks of updateUser, on the target as it was read; isSelf reads again.
MayUpdate(c, change) ==
    /\ change = "disable" => ~IsProtectedAdmin(c.user) /\ ~HasId(c.actor, c.id)
    /\ change = "lockout" => c.source = "local" /\ ~IsProtectedAdmin(c.user)

\* SetUserDisabled, SetLockoutEnabled, ResetFailedLogin.
Changed(r, change) ==
    CASE change = "disable" -> [r EXCEPT !.disabled = TRUE]
      [] change = "enable" -> [r EXCEPT !.disabled = FALSE]
      [] change = "lockout" -> [r EXCEPT !.lockout = TRUE]
      [] change = "no lockout" -> [ResetFailedLogin(r) EXCEPT !.lockout = FALSE]
      [] change = "unlock" -> ResetFailedLogin(r)

\* updateUser: the target is read once.
UpdateRead(a) ==
    /\ \E actor, u \in Users, todo \in Requests :
          /\ May(a, actor) /\ Has(u)
          /\ Continue(a, [op |-> "update", actor |-> actor, user |-> u, id |-> Row(u).id,
                          source |-> Row(u).source, todo |-> todo])
    /\ UNCHANGED <<db, login, boot, policy, applied, excused>>

\* Field by field, each checked and written; a refusal keeps what was written before it.
UpdateWrite(a) ==
    /\ call[a].op = "update"
    /\ LET c == call[a]   change == Head(c.todo)
       IN  IF MayUpdate(c, change)
           THEN /\ UpdateUser(c.user, c.id, Changed(Row(c.user), change))
                /\ Continue(a, IF Len(c.todo) = 1 \/ ~HasId(c.user, c.id) THEN Idle
                               ELSE [c EXCEPT !.todo = Tail(@)])
           ELSE Continue(a, Idle) /\ UNCHANGED users
    /\ UNCHANGED <<nextId, roles, perms, grants, maps, tokens, login, boot, policy, applied,
                   work, excused>>

\* Mutant: the tokens stay.
OwnedAfterKeeps(id) == tokens

\* ON DELETE CASCADE from users to tokens.
OwnedAfter(id) == tokens \ {id}

\* deleteUser
DeleteUser(a) ==
    /\ \E actor, u \in Users :
          /\ May(a, actor) /\ Has(u) /\ u # actor
          /\ users' = [users EXCEPT ![u] = {}]
          /\ grants' = {g \in grants : g[1] # u} /\ tokens' = OwnedAfter(Row(u).id)
    /\ excused' = excused \union {"revoked"}
    /\ UNCHANGED <<nextId, roles, perms, maps, login, call, boot, policy, applied>>

\* createToken, createUserToken: the owner is read, the token stored later.
TokenRead(a) ==
    /\ Serving /\ call[a] = Idle /\ External
    /\ \E u \in Users : Has(u) /\ Continue(a, [op |-> "token", user |-> u, id |-> Row(u).id])
    /\ UNCHANGED <<db, login, boot, policy, applied, excused>>

TokenWrite(a) ==
    /\ call[a].op = "token"
    /\ tokens' = IF HasId(call[a].user, call[a].id) THEN tokens \union {call[a].id} ELSE tokens
    /\ Continue(a, Idle)
    /\ UNCHANGED <<users, nextId, roles, perms, grants, maps, login, boot, policy, applied,
                   work, excused>>

\* deleteToken, deleteUserToken
DeleteToken(a) ==
    /\ Serving /\ call[a] = Idle /\ External
    /\ \E id \in tokens : tokens' = tokens \ {id}
    /\ UNCHANGED <<users, nextId, roles, perms, grants, maps, login, call, boot, policy, applied,
                   excused>>

\* assignRole
AssignRole(a) ==
    /\ \E actor, u \in Users, r \in Roles : May(a, actor) /\ grants' = Assign(u, r)
    /\ UNCHANGED <<users, nextId, roles, perms, maps, tokens, login, call, boot, policy,
                   applied, excused>>

\* createGroupMapping: an existing mapping is pointed at the role, managed or not.
CreateGroupMapping(a) ==
    /\ \E actor \in Users, g \in Groups, r \in Roles :
          /\ May(a, actor) /\ roles[r] # {}
          /\ maps' = {m \in maps : m[1] # g} \union
                     {<<g, r, IF \E m \in maps : m[1] = g /\ m[3] = 1 THEN 1 ELSE 0>>}
    /\ UNCHANGED <<users, nextId, roles, perms, grants, tokens, login, call, boot, policy,
                   applied, excused>>

\* createRole, then AddPermission.
CreateRole(a) ==
    /\ \E actor \in Users, r \in Roles, act \in Actions :
          /\ May(a, actor) /\ roles[r] = {}
          /\ roles' = [roles EXCEPT ![r] = {0}]
          /\ Continue(a, [op |-> "permission", role |-> r, action |-> act])
    /\ UNCHANGED <<users, nextId, perms, grants, maps, tokens, login, boot, policy, applied, excused>>

\* addPermission: not on a managed role.
PermissionCheck(a) ==
    /\ \E actor \in Users, r \in Roles, act \in Actions :
          /\ May(a, actor) /\ roles[r] = {0}
          /\ Continue(a, [op |-> "permission", role |-> r, action |-> act])
    /\ UNCHANGED <<db, login, boot, policy, applied, excused>>

AddPermission(a) ==
    /\ call[a].op = "permission"
    /\ perms' = IF roles[call[a].role] = {} THEN perms
                ELSE perms \union {<<call[a].role, call[a].action, 0>>}
    /\ Continue(a, Idle)
    /\ UNCHANGED <<users, nextId, roles, grants, maps, tokens, login, boot, policy, applied,
                   work, excused>>

\* deletePermission
DeletePermission(a) ==
    /\ \E actor \in Users, p \in perms : May(a, actor) /\ p[3] = 0 /\ perms' = perms \ {p}
    /\ excused' = excused \union {"revoked"}
    /\ UNCHANGED <<users, nextId, roles, grants, maps, tokens, login, call, boot, policy, applied>>

\* removeRole, deleteRole, deleteGroupMapping: refused for what is managed.
RemoveCheck(a) ==
    /\ \E actor \in Users : May(a, actor)
    /\ \/ \E g \in grants : g[3] = 0 /\ Continue(a, [op |-> "remove", user |-> g[1],
                                                 id |-> Row(g[1]).id, role |-> g[2]])
       \/ \E r \in Roles : roles[r] = {0} /\ Continue(a, [op |-> "drop", role |-> r])
       \/ \E m \in maps : m[3] = 0 /\ Continue(a, [op |-> "unmap", group |-> m[1]])
    /\ UNCHANGED <<db, login, boot, policy, applied, excused>>

\* A row became managed between the check and the delete.
Late(managed) == IF managed THEN {"stale check", "revoked"} ELSE {"revoked"}

RemoveRole(a) ==
    /\ call[a].op = "remove"
    /\ LET gone == {g \in grants : g[1] = call[a].user /\ g[2] = call[a].role
                                   /\ HasId(g[1], call[a].id)}
       IN  grants' = grants \ gone /\ excused' = excused \union Late(\E g \in gone : g[3] # 0)
    /\ Continue(a, Idle)
    /\ UNCHANGED <<users, nextId, roles, perms, maps, tokens, login, boot, policy, applied, work>>

\* The calls that go on once the ids of these roles and mappings mean nothing.
Forget(goneRoles, goneGroups) ==
    [b \in Admins |->
        IF \/ call[b].op \in {"permission", "remove", "drop"} /\ call[b].role \in goneRoles
           \/ call[b].op = "unmap" /\ call[b].group \in goneGroups
        THEN Idle
        ELSE IF call[b].op \in {"insert", "lockout", "assign"}
             THEN [call[b] EXCEPT !.roles = @ \ goneRoles] ELSE call[b]]

MappedTo(gone) == {m[1] : m \in {n \in maps : n[2] \in gone}}

\* ON DELETE CASCADE to permissions, grants and mappings.
DeleteRole(a) ==
    /\ call[a].op = "drop"
    /\ LET gone == {call[a].role}
       IN  /\ roles' = [r \in Roles |-> IF r \in gone THEN {} ELSE roles[r]]
           /\ perms' = {p \in perms : p[1] \notin gone}
           /\ grants' = {g \in grants : g[2] \notin gone}
           /\ maps' = {m \in maps : m[2] \notin gone}
           /\ call' = Forget(gone, MappedTo(gone))
    /\ excused' = excused \union Late(roles[call[a].role] = {1})
    /\ UNCHANGED <<users, nextId, tokens, login, boot, policy, applied, work>>

DeleteGroupMapping(a) ==
    /\ call[a].op = "unmap"
    /\ maps' = {m \in maps : m[1] # call[a].group}
    /\ excused' = excused \union Late(\E m \in maps : m[1] = call[a].group /\ m[3] = 1)
    /\ call' = Forget({}, {call[a].group})
    /\ UNCHANGED <<users, nextId, roles, perms, grants, tokens, login, boot, policy, applied, work>>

-----------------------------------------------------------------------------
(* Start-up of a replica: BootstrapAdmin, then ReconcileRBAC.               *)

Goto(i, pc) == boot' = [boot EXCEPT ![i] = pc]

\* CountUsers
BootCount(i) ==
    /\ boot[i] = "down"
    /\ Goto(i, IF \A u \in Users : ~Has(u) THEN "create" ELSE "reconcile")
    /\ UNCHANGED <<db, login, call, policy, applied, work, excused>>

\* A UNIQUE error means that another replica won.
BootCreate(i) ==
    /\ boot[i] = "create"
    /\ IF Has(Root) THEN Goto(i, "reconcile") /\ UNCHANGED <<users, nextId, excused>>
       ELSE /\ users' = [users EXCEPT ![Root] = {NewRow(nextId, "local")}] /\ nextId' = nextId + 1
            /\ Goto(i, "role") /\ excused' = excused \union {"bootstrapped"}
    /\ UNCHANGED <<roles, perms, grants, maps, tokens, login, call, policy, applied, work>>

\* GetRoleByName: a role that is there is taken as it is, with or without the permission.
BootRole(i) ==
    /\ boot[i] = "role"
    /\ IF roles[Administrator] = {} THEN Goto(i, "createRole") /\ UNCHANGED excused
       ELSE /\ Goto(i, "assign")
            /\ excused' = IF "admin" \in RoleActions({Administrator}) THEN excused
                          ELSE excused \union {"withdrawn"}
    /\ UNCHANGED <<db, login, call, policy, applied, work>>

\* A UNIQUE error here ends the process.
BootCreateRole(i) ==
    /\ boot[i] = "createRole"
    /\ IF roles[Administrator] = {}
       THEN roles' = [roles EXCEPT ![Administrator] = {0}] /\ Goto(i, "perm") /\ UNCHANGED excused
       ELSE Goto(i, "down") /\ excused' = excused \union {"interrupted"} /\ UNCHANGED roles
    /\ UNCHANGED <<users, nextId, perms, grants, maps, tokens, login, call, policy, applied, work>>

BootPermission(i) ==
    /\ boot[i] = "perm"
    /\ IF roles[Administrator] # {}
       THEN perms' = perms \union {<<Administrator, "admin", 0>>} /\ Goto(i, "assign") /\ UNCHANGED excused
       ELSE Goto(i, "down") /\ excused' = excused \union {"interrupted"} /\ UNCHANGED perms
    /\ UNCHANGED <<users, nextId, roles, grants, maps, tokens, login, call, policy, applied, work>>

\* Mutant: the assignment is left to the policy.
BootGrantsNone == grants

\* AssignRole
BootGrants == Assign(Root, Administrator)

BootAssign(i) ==
    /\ boot[i] = "assign"
    /\ IF Has(Root) /\ roles[Administrator] # {}
       THEN grants' = BootGrants /\ Goto(i, "reconcile") /\ UNCHANGED excused
       ELSE Goto(i, "down") /\ excused' = excused \union {"interrupted"} /\ UNCHANGED grants
    /\ UNCHANGED <<users, nextId, roles, perms, maps, tokens, login, call, policy, applied, work>>

\* ensureManagedUsers: accounts and subjects of grants that are missing, in some order.
EnsureUsers(d) ==
    LET new == {u \in d.locals \union {g[1] : g \in d.grants} : ~Has(u)}
    IN  /\ \E id \in Injection(new, nextId..(nextId + Cardinality(new) - 1)) :
              users' = [u \in Users |->
                  IF u \in new THEN {NewRow(id[u], IF u \in d.locals THEN "local" ELSE "oidc")}
                  ELSE users[u]]
        /\ nextId' = nextId + Cardinality(new)

\* Mutant: roles that left the policy stay.
ReconciledRolesKept(d) == [r \in Roles |-> IF r \in d.roles THEN {1} ELSE roles[r]]

\* Upsert the policy's roles, deleteManagedRolesExcept.
ReconciledRoles(d) ==
    [r \in Roles |-> IF r \in d.roles THEN {1} ELSE IF roles[r] = {1} THEN {} ELSE roles[r]]

\* Mutant: synced rows are dropped with the managed ones.
RebuildAll(rows, desired, gone) ==
    {w \in rows : w[3] = 0 /\ w[2] \notin gone /\ <<w[1], w[2]>> \notin desired}
        \union {<<w[1], w[2], 1>> : w \in desired}

\* DELETE ... WHERE managed = 1, then insert the policy's; a row with its key is adopted.
RebuildGrants(rows, desired, gone) ==
    {w \in rows : w[3] # 1 /\ w[2] \notin gone /\ <<w[1], w[2]>> \notin desired}
        \union {<<w[1], w[2], 1>> : w \in desired}

RebuildMaps(desired, gone) ==
    {m \in maps : m[3] # 1 /\ m[2] \notin gone /\ m[1] \notin {w[1] : w \in desired}}
        \union {<<w[1], w[2], 1>> : w \in desired}

\* A grant or mapping that names a role neither in the policy nor in the table.
Dangling(d) ==
    \E w \in d.grants \union d.maps : ReconciledRoles(d)[w[2]] = {}

\* One transaction.
ApplyManagedRBAC(d) ==
    LET gone == {r \in Roles : roles[r] # {} /\ ReconciledRoles(d)[r] = {}}
    IN  /\ EnsureUsers(d)
        /\ roles' = ReconciledRoles(d)
        /\ perms' = {p \in perms : p[3] = 0 /\ p[1] \notin gone}
                        \union {<<p[1], p[2], 1>> : p \in d.perms}
        /\ grants' = RebuildGrants(grants, d.grants, gone)
        /\ maps' = RebuildMaps(d.maps, gone)
        /\ call' = Forget(gone, MappedTo(gone))
        /\ UNCHANGED tokens

\* The policy takes back what an earlier one gave the bootstrap administrator.
Withdraws(d) ==
    \/ roles[Administrator] = {1} /\ Administrator \notin d.roles
    \/ <<Administrator, "admin", 1>> \in perms /\ <<Administrator, "admin">> \notin d.perms
    \/ <<Root, Administrator, 1>> \in grants /\ <<Root, Administrator>> \notin d.grants

\* ReconcileRBAC: no file, nothing to do; an error ends the process.
BootReconcile(i) ==
    /\ boot[i] = "reconcile"
    /\ LET d == PolicyOf[policy]
       IN  IF ~d.enabled THEN Goto(i, "up") /\ UNCHANGED <<db, call, applied, excused>>
           ELSE IF Dangling(d) THEN Goto(i, "down") /\ UNCHANGED <<db, call, applied, excused>>
           ELSE /\ ApplyManagedRBAC(d) /\ applied' = {policy} /\ Goto(i, "up")
                /\ excused' = IF Withdraws(d) THEN excused \union {"withdrawn"} ELSE excused
    /\ UNCHANGED <<login, policy, work>>

\* The process ends at any moment; with the last one the calls in progress end.
Crash(i) ==
    /\ boot[i] # "down" /\ External /\ Goto(i, "down")
    /\ excused' = IF boot[i] \in {"role", "createRole", "perm", "assign"}
                  THEN excused \union {"interrupted"} ELSE excused
    /\ IF Serving' THEN UNCHANGED <<login, call>>
       ELSE login' = [l \in Logins |-> Idle] /\ call' = [a \in Admins |-> Idle]
    /\ UNCHANGED <<db, policy, applied>>

\* The operator mounts another policy.
ChangePolicy ==
    /\ External /\ policy' \in Policies \ {policy}
    /\ UNCHANGED <<db, login, call, boot, applied, excused>>

Boot(i) ==
    \/ BootCount(i) \/ BootCreate(i) \/ BootRole(i) \/ BootCreateRole(i)
    \/ BootPermission(i) \/ BootAssign(i) \/ BootReconcile(i)

Administer(a) ==
    \/ CreateUser(a) \/ InsertUser(a) \/ EnableLockout(a) \/ AssignNewRoles(a)
    \/ UpdateRead(a) \/ UpdateWrite(a) \/ DeleteUser(a) \/ TokenRead(a) \/ TokenWrite(a) \/ DeleteToken(a)
    \/ AssignRole(a) \/ CreateGroupMapping(a) \/ CreateRole(a) \/ PermissionCheck(a)
    \/ AddPermission(a) \/ DeletePermission(a) \/ RemoveCheck(a) \/ RemoveRole(a)
    \/ DeleteRole(a) \/ DeleteGroupMapping(a)

Next ==
    \/ \E l \in Logins : AuthRead(l) \/ AuthFail(l) \/ AuthSuccess(l) \/ OIDCLogin(l)
                           \/ OIDCSync(l) \/ OIDCSyncFails(l)
    \/ \E a \in Admins : Administer(a)
    \/ \E i \in Replicas : Boot(i) \/ Crash(i)
    \/ ChangePolicy

Spec == Init /\ [][Next]_vars

-----------------------------------------------------------------------------
(* Properties.                                                              *)

SameRow(u) == users[u] # {} /\ users'[u] # {} /\ Row(u).id = Row(u)'.id

\* RegisterFailedLogin, SetLockoutEnabled: a locked account has opted into lockout and
\* has failed as often as it takes, whatever ran in between.
LockedWasEarned ==
    \A u \in Users : \A r \in users[u] : r.locked => r.lockout /\ r.failed >= MaxFailed

\* RegisterFailedLogin counts in the database: of two failures that overlap, neither
\* is lost, and the count goes back only to zero.
FailuresAddUp ==
    [][\A u \in Users : SameRow(u) => Row(u)'.failed >= Row(u).failed \/ Row(u)'.failed = 0]_vars

\* AuthenticateLocal: "refused once locked ... until an admin unlocks it"; otherwise only
\* a login that had read the row before it was locked unlocks it.
UnlockedOnlyByAdminOrLateSuccess ==
    [][\A u \in Users : SameRow(u) /\ Row(u).locked /\ ~Row(u)'.locked =>
          (\E a \in Admins : call[a].op = "update") \/ "late success" \in excused']_vars

\* IsProtectedAdmin: nothing is counted against the bootstrap administrator, however
\* the account came to be.
ProtectedIsExempt == \A r \in users[Root] : r.failed = 0 /\ ~r.lockout

\* DeleteUser cascades: no token outlives its owner, even one whose creation was under
\* way when the owner was deleted.
TokensHaveOwners == tokens \subseteq {r.id : r \in UNION {users[u] : u \in Users}}

\* ApplyManagedRBAC is authoritative: until the next reconciliation the managed roles
\* and permissions are the policy's, and no managed grant or mapping is foreign to it,
\* unless an API call had checked the row before the policy took it over.
PolicyHolds ==
    \A p \in applied : LET d == PolicyOf[p] IN
        \/ "stale check" \in excused
        \/ /\ {r \in Roles : roles[r] = {1}} = d.roles
           /\ {<<q[1], q[2]>> : q \in {x \in perms : x[3] = 1}} = d.perms
           /\ {<<g[1], g[2]>> : g \in {x \in grants : x[3] = 1}} \subseteq d.grants
           /\ {m[1] : m \in {x \in maps : x[3] = 1}} \subseteq {w[1] : w \in d.maps}

\* ApplyManagedRBAC: "Unmanaged rows are never touched": what was made interactively or
\* at login survives a reconciliation, adopted at most, as long as its role does.
UnmanagedKept ==
    [][\A i \in Replicas : boot[i] = "reconcile" /\ boot'[i] = "up" =>
          /\ \A r \in Roles : roles[r] = {0} => roles'[r] # {}
          /\ \A p \in perms : p[3] = 0 /\ roles'[p[1]] # {} => p \in perms'
          /\ \A g \in grants : g[3] # 1 /\ roles'[g[2]] # {} =>
                \E h \in grants' : h[1] = g[1] /\ h[2] = g[2]
          /\ \A m \in maps : m[3] = 0 /\ roles'[m[2]] # {} => \E n \in maps' : n[1] = m[1]]_vars

\* SyncOIDCGroupRoles: after a login the stored roles give what the session's groups
\* give, and no synced role is left of a group the user is no longer in.
SyncTracksGroups ==
    [][\A l \in Logins : login[l].op = "sync" /\ login'[l] = Idle /\ work' = work =>
          \A u \in {login[l].user}, gs \in {login[l].groups} :
              HasId(u, login[l].row.id) =>
                  /\ BuildPrincipal(u, {})' = BuildPrincipal(u, gs)'
                  /\ \A g \in grants' : g[1] = u /\ g[3] = 2 =>
                        \E m \in maps : m[1] \in gs /\ m[2] = g[2]]_vars

\* BootstrapAdmin: the account it creates has the administrator's permissions once the
\* replicas run, unless a start was interrupted half-way, the API took them away, or they
\* were a policy's or a login's to give: a role that was there without the permission, a
\* role, permission or grant that the next policy or login takes back.
BootstrapCompletes ==
    /\ "bootstrapped" \in excused /\ \A i \in Replicas : boot[i] = "up"
    => \/ "admin" \in BuildPrincipal(Root, {})
       \/ excused \cap {"interrupted", "revoked", "withdrawn"} # {}

\* What the rows of the database say of each other holds between any two steps:
\* types and foreign keys, owners of tokens, causes of locks, the exempt account.
RowsAgree == TypeOK /\ TokensHaveOwners /\ LockedWasEarned /\ ProtectedIsExempt

\* What a step may do to the lock columns: failures add up, and a lock goes only by an
\* administrator or a login that was under way (AuthenticateLocal).
LocksMoveByCause == FailuresAddUp /\ UnlockedOnlyByAdminOrLateSuccess

\* What reconciliation and login may do to roles, grants and mappings of other origin
\* (ApplyManagedRBAC, SyncOIDCGroupRoles).
OriginsKept == UnmanagedKept /\ SyncTracksGroups
=============================================================================
