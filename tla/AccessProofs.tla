---------------------------- MODULE AccessProofs ----------------------------
(***************************************************************************)
(* Proofs about Access: the invariants of the account and RBAC tables, what *)
(* a step may do to locks and to rows of other origin, and the bootstrap of *)
(* the first administrator, for any users, roles, groups, policies,         *)
(* requests and replicas.                                                   *)
(*                                                                          *)
(* AccessInv is inductive.  Its conjuncts are the account table (AccountsOK,*)
(* with the lock columns), the role, permission, grant and mapping tables   *)
(* with their keys (TablesOK), the owners of tokens (TokensOK), what logins *)
(* and calls under way have read (SessionsOK), the rows that a policy        *)
(* manages (ManagedOK) and how far the bootstrap has come (Completing).      *)
(* There is a lemma for each: every step keeps it.                           *)
(***************************************************************************)
EXTENDS Access, TLAPS

-----------------------------------------------------------------------------
(* The invariants.                                                          *)

\* The users table: at most one row per name, ids below the AUTOINCREMENT counter, locks
\* earned (RegisterFailedLogin), the bootstrap administrator exempt (IsProtectedAdmin).
AccountsOK ==
    /\ users \in [Users -> SUBSET Account] /\ nextId \in Nat
    /\ \A u \in Users : \A r, s \in users[u] : r = s /\ r.id < nextId
    /\ LockedWasEarned /\ ProtectedIsExempt

\* The role, permission, grant and mapping tables with their keys and foreign keys.
TablesOK ==
    /\ roles \in [Roles -> {{}, {0}, {1}}]
    /\ perms \subseteq Roles \X Actions \X {0, 1}
    /\ grants \subseteq Users \X Roles \X {0, 1, 2} /\ maps \subseteq Groups \X Roles \X {0, 1}
    /\ \A p \in perms : roles[p[1]] # {}
    /\ \A g \in grants : Has(g[1]) /\ roles[g[2]] # {}
    /\ \A m \in maps : roles[m[2]] # {}
    /\ \A g, h \in grants : g[1] = h[1] /\ g[2] = h[2] => g = h
    /\ \A m, n \in maps : m[1] = n[1] => m = n

\* Every token belongs to the id of a user row (ON DELETE CASCADE).
TokensOK == \A t \in tokens : t \in Nat /\ \E u \in Users : HasId(u, t)

\* A login that is checking a password has read an unlocked row.
SessionsOK ==
    /\ login \in [Logins -> Login] /\ call \in [Admins -> Call]
    /\ \A l \in Logins : login[l].op = "verify" => ~login[l].row.locked

\* The policy file, the replicas' places in the start-up, the bound, the causes.
RestOK ==
    /\ policy \in Policies /\ applied \subseteq Policies /\ boot \in [Replicas -> BootPcs]
    /\ work \in 0..MaxWork /\ excused \subseteq Causes

\* The managed rows are the policy d's: PolicyHolds row by row.
ManagedRows(d) ==
    /\ \A r \in Roles : roles[r] = {1} <=> r \in d.roles
    /\ \A q \in perms : q[3] = 1 => <<q[1], q[2]>> \in d.perms
    /\ \A w \in d.perms : <<w[1], w[2], 1>> \in perms
    /\ \A g \in grants : g[3] = 1 => <<g[1], g[2]>> \in d.grants
    /\ \A m \in maps : m[3] = 1 => \E w \in d.maps : w[1] = m[1]
\* Of the policy reconciled last, unless a stale check let a managed row go.
ManagedOK == \A p \in applied : "stale check" \in excused \/ ManagedRows(PolicyOf[p])

\* The administrator's role has the permission.
RoleAdmin == \E p \in perms : p[1] = Administrator /\ p[2] = "admin"
\* The bootstrap account has the role.
RootAdmin == \E g \in grants : g[1] = Root /\ g[2] = Administrator

\* Until the bootstrap account has what it takes, the replica that made it is under way.
Completing ==
    "bootstrapped" \in excused =>
        \/ excused \cap {"interrupted", "revoked", "withdrawn"} # {}
        \/ RoleAdmin /\ RootAdmin
        \/ \E i \in Replicas : \/ boot[i] \in {"role", "createRole", "perm"}
                               \/ boot[i] = "assign" /\ RoleAdmin

\* The inductive invariant.
AccessInv ==
    AccountsOK /\ TablesOK /\ TokensOK /\ SessionsOK /\ RestOK /\ ManagedOK /\ Completing

-----------------------------------------------------------------------------
(* Accounts.                                                                *)

\* Row(u), the row a handler has read, is the only one of that name.
LEMMA RowOf ==
    ASSUME AccountsOK, NEW u \in Users, NEW r \in users[u]
    PROVE  Row(u) = r /\ users[u] = {r} /\ r \in Account /\ r.id < nextId
<1>1. /\ \A s, t \in users[u] : s = t /\ s.id < nextId
      /\ users[u] \in SUBSET Account
  BY Zenon DEF AccountsOK
<1>2. Row(u) \in users[u]
  BY Zenon DEF Row
<1> QED
  BY <1>1, <1>2, Zenon

\* The types of the columns of a user row.
LEMMA AccountFields ==
    ASSUME NEW r \in Account
    PROVE  /\ r.id \in Nat /\ r.failed \in Nat /\ r.source \in {"local", "oidc"}
           /\ r.disabled \in BOOLEAN /\ r.lockout \in BOOLEAN /\ r.locked \in BOOLEAN
BY Zenon DEF Account

\* Why a lock may go: an administrator's update is under way, or a login was.
Unlocking == (\E a \in Admins : call[a].op = "update") \/ "late success" \in excused'

\* What a statement may make of a row r of user u.
Moved(u, r, s) ==
    /\ s \in Account /\ s.id = r.id
    /\ s.failed >= r.failed \/ s.failed = 0
    /\ s.locked => s.lockout /\ s.failed >= MaxFailed
    /\ u = Root => s.failed = 0 /\ ~s.lockout
    /\ r.locked /\ ~s.locked => Unlocking

\* What a row of user u is like between two steps.
Sane(u, r) ==
    /\ r \in Account
    /\ r.locked => r.lockout /\ r.failed >= MaxFailed
    /\ u = Root => r.failed = 0 /\ ~r.lockout

\* Every row of a table that is AccountsOK is sane.
LEMMA RowsSane ==
    ASSUME AccountsOK, NEW u \in Users, NEW r \in users[u]
    PROVE  Sane(u, r)
BY Zenon DEF AccountsOK, LockedWasEarned, ProtectedIsExempt, Sane

\* RegisterFailedLogin: the failure is added, and locks who has asked for lockout and
\* has failed often enough.
LEMMA RegisterMoves ==
    ASSUME NEW u, NEW r, NEW read, Sane(u, r), u # Root
    PROVE  Moved(u, r, RegisterFailedLogin(r, read))
<1> DEFINE s == RegisterFailedLogin(r, read)
<1>1. /\ r \in Account /\ r.failed \in Nat /\ r.lockout \in BOOLEAN /\ r.locked \in BOOLEAN
      /\ r.locked => r.lockout /\ r.failed >= MaxFailed
  BY AccountFields, Zenon DEF Sane
<1>2. r.failed + 1 \in Nat /\ r.failed + 1 >= r.failed
      /\ (r.failed >= MaxFailed => r.failed + 1 >= MaxFailed)
  BY <1>1, ConstantsAssumption
<1>3. (r.locked \/ (r.lockout /\ r.failed + 1 >= MaxFailed)) \in BOOLEAN
  OBVIOUS
<1>4. /\ s \in Account /\ s.id = r.id /\ s.failed = r.failed + 1 /\ s.lockout = r.lockout
      /\ s.locked = (r.locked \/ (r.lockout /\ r.failed + 1 >= MaxFailed))
  BY <1>1, <1>2, <1>3, Zenon DEF RegisterFailedLogin, Account
<1> HIDE DEF s
<1>5. s.failed >= r.failed /\ (s.locked => s.lockout /\ s.failed >= MaxFailed) /\ ~(r.locked /\ ~s.locked)
  BY <1>1, <1>2, <1>4, Zenon
<1> QED
  BY <1>4, <1>5, Zenon DEF Moved, s

\* ResetFailedLogin: no failures and no lock, for a row whose lock has a reason to go.
LEMMA ResetMoves ==
    ASSUME NEW u, NEW r, Sane(u, r), r.locked => Unlocking
    PROVE  /\ Moved(u, r, ResetFailedLogin(r)) /\ ~ResetFailedLogin(r).locked
           /\ ResetFailedLogin(r).failed = 0 /\ ResetFailedLogin(r).lockout = r.lockout
           /\ ResetFailedLogin(r) \in Account /\ ResetFailedLogin(r).id = r.id
<1> DEFINE s == ResetFailedLogin(r)
<1>1. r \in Account /\ 0 \in Nat
  BY DEF Sane
<1>2. /\ s \in Account /\ s.id = r.id /\ s.failed = 0 /\ s.lockout = r.lockout /\ s.locked = FALSE
  BY <1>1, Zenon DEF ResetFailedLogin, Account
<1> HIDE DEF s
<1>3. Moved(u, r, s)
  BY <1>2, Zenon DEF Sane, Moved
<1> QED
  BY <1>2, <1>3, Zenon DEF s

\* A row whose lock columns stay, but for lockout, which only others than the bootstrap
\* administrator are given.
LEMMA FlagMoves ==
    ASSUME NEW u, NEW r, NEW s, Sane(u, r), s \in Account, s.id = r.id, s.failed = r.failed,
           s.locked = r.locked, s.lockout = r.lockout \/ (s.lockout /\ u # Root)
    PROVE  Moved(u, r, s)
<1>1. r.failed \in Nat
  BY AccountFields, Zenon DEF Sane
<1>2. s.failed >= r.failed
  BY <1>1
<1> QED
  BY <1>2, Zenon DEF Sane, Moved

\* updateUser writes a field it may write.
LEMMA ChangeMoves ==
    ASSUME NEW u, NEW r, Sane(u, r), NEW change \in Changes, change = "lockout" => u # Root, Unlocking
    PROVE  Moved(u, r, Changed(r, change))
<1>0. r \in Account /\ TRUE \in BOOLEAN /\ FALSE \in BOOLEAN
  BY Zenon DEF Sane
<1>1. CASE change = "disable"
  <2> DEFINE s == [r EXCEPT !.disabled = TRUE]
  <2>1. s \in Account /\ s.id = r.id /\ s.failed = r.failed /\ s.locked = r.locked /\ s.lockout = r.lockout
    BY <1>0, Zenon DEF Account
  <2>2. Changed(r, change) = s
    BY <1>1, Zenon DEF Changed
  <2> HIDE DEF s
  <2> QED
    BY <2>1, <2>2, FlagMoves, Zenon
<1>2. CASE change = "enable"
  <2> DEFINE s == [r EXCEPT !.disabled = FALSE]
  <2>1. s \in Account /\ s.id = r.id /\ s.failed = r.failed /\ s.locked = r.locked /\ s.lockout = r.lockout
    BY <1>0, Zenon DEF Account
  <2>2. Changed(r, change) = s
    BY <1>2, Zenon DEF Changed
  <2> HIDE DEF s
  <2> QED
    BY <2>1, <2>2, FlagMoves, Zenon
<1>3. CASE change = "lockout"
  <2> DEFINE s == [r EXCEPT !.lockout = TRUE]
  <2>1. s \in Account /\ s.id = r.id /\ s.failed = r.failed /\ s.locked = r.locked /\ s.lockout
    BY <1>0, Zenon DEF Account
  <2>2. Changed(r, change) = s
    BY <1>3, Zenon DEF Changed
  <2> HIDE DEF s
  <2> QED
    BY <1>3, <2>1, <2>2, FlagMoves, Zenon
<1>4. CASE change = "no lockout"
  <2> DEFINE q == ResetFailedLogin(r)
             s == [q EXCEPT !.lockout = FALSE]
  <2>1. q \in Account /\ q.id = r.id /\ ~q.locked /\ q.failed = 0
    BY ResetMoves, Zenon
  <2>2. Changed(r, change) = s
    BY <1>4, Zenon DEF Changed
  <2> HIDE DEF q
  <2>3. s \in Account /\ s.id = r.id /\ s.failed = 0 /\ ~s.locked /\ ~s.lockout
    BY <1>0, <2>1, Zenon DEF Account
  <2> HIDE DEF s
  <2> QED
    BY <2>2, <2>3, Zenon DEF Moved
<1>5. CASE change = "unlock"
  <2>1. Changed(r, change) = ResetFailedLogin(r)
    BY <1>5, Zenon DEF Changed
  <2> QED
    BY <2>1, ResetMoves, Zenon
<1> QED
  BY <1>1, <1>2, <1>3, <1>4, <1>5, Zenon DEF Changes

\* What a step may do to the account of user u, other than delete it.
AccountStep(u) ==
    \/ users'[u] = users[u]
    \/ \E r \in users[u] : \E s : users'[u] = {s} /\ Moved(u, r, s)
    \/ /\ users[u] = {}
       /\ \E id \in Nat, source \in {"local", "oidc"} :
             users'[u] = {NewRow(id, source)} /\ nextId <= id /\ id < nextId'

\* What a step may do to the users table: AccountStep for every user, or the row goes.
AccountsMove ==
    /\ DOMAIN users' = Users /\ users' = [u \in Users |-> users'[u]]
    /\ nextId' \in Nat /\ nextId <= nextId'
    /\ \A u \in Users : AccountStep(u) \/ users'[u] = {}
\* The same for a step that deletes nobody.
AccountsStep == AccountsMove /\ \A u \in Users : AccountStep(u)

\* NewRow, as CreateUser and EnsureUser insert it, has no failures and no lock.
LEMMA NewRows ==
    ASSUME NEW id \in Nat, NEW source \in {"local", "oidc"}
    PROVE  LET r == NewRow(id, source) IN
           r \in Account /\ r.id = id /\ r.failed = 0 /\ ~r.lockout /\ ~r.locked
<1>1. 0 \in Nat /\ FALSE \in BOOLEAN
  OBVIOUS
<1> QED
  BY <1>1, Zenon DEF NewRow, Account

\* A step that moves the accounts like that keeps AccountsOK.
LEMMA AccountsKept ==
    ASSUME AccountsOK, AccountsMove
    PROVE  AccountsOK'
<1>1. ASSUME NEW u \in Users
      PROVE  /\ users'[u] \in SUBSET Account
             /\ \A r, s \in users'[u] : r = s /\ r.id < nextId'
             /\ \A r \in users'[u] : Sane(u, r)
  <2>0. nextId \in Nat /\ nextId' \in Nat /\ nextId <= nextId'
    BY Zenon DEF AccountsOK, AccountsMove
  <2>1. CASE users'[u] = users[u]
    <3>1. /\ users[u] \in SUBSET Account /\ \A r \in users[u] : Sane(u, r)
          /\ \A r, s \in users[u] : r = s /\ r.id < nextId
      BY RowsSane, Zenon DEF AccountsOK
    <3>2. \A r \in users[u] : r.id < nextId'
      <4> SUFFICES ASSUME NEW r \in users[u] PROVE r.id < nextId'
        BY Zenon
      <4>1. r.id \in Nat /\ r.id < nextId
        BY <3>1, AccountFields, Zenon
      <4> QED
        BY <2>0, <4>1
    <3> QED
      BY <2>1, <3>1, <3>2, Zenon
  <2>2. CASE \E r \in users[u] : \E s : users'[u] = {s} /\ Moved(u, r, s)
    <3>1. PICK r, s : r \in users[u] /\ users'[u] = {s} /\ Moved(u, r, s)
      BY <2>2, Zenon
    <3>2. s \in Account /\ s.id = r.id /\ Sane(u, s) /\ r.id < nextId /\ r.id \in Nat
      BY <3>1, RowOf, AccountFields, Zenon DEF Moved, Sane
    <3>3. s.id < nextId'
      BY <2>0, <3>2
    <3> QED
      BY <3>1, <3>2, <3>3, Zenon
  <2>3. CASE \E id \in Nat, source \in {"local", "oidc"} :
                users'[u] = {NewRow(id, source)} /\ nextId <= id /\ id < nextId'
    <3>1. PICK id \in Nat, source \in {"local", "oidc"} :
             users'[u] = {NewRow(id, source)} /\ id < nextId'
      BY <2>3, Zenon
    <3>2. PICK r : r = NewRow(id, source)
      BY Zenon
    <3>3. r \in Account /\ r.id = id /\ r.failed = 0 /\ ~r.lockout /\ ~r.locked
      BY <3>2, NewRows, Zenon
    <3> QED
      BY <3>1, <3>2, <3>3, Zenon DEF Sane
  <2>4. CASE users'[u] = {}
    BY <2>4, Zenon
  <2> QED
    BY <2>1, <2>2, <2>3, <2>4, Zenon DEF AccountsMove, AccountStep
<1>2. users' \in [Users -> SUBSET Account]
  <2>1. users' = [u \in Users |-> users'[u]]
    BY Zenon DEF AccountsMove
  <2>2. \A u \in Users : users'[u] \in SUBSET Account
    BY <1>1, Zenon
  <2> QED
    BY <2>1, <2>2, Zenon
<1>3. LockedWasEarned' /\ ProtectedIsExempt'
  <2>1. Root \in Users
    BY ConstantsAssumption, Zenon
  <2> QED
    BY <1>1, <2>1, Zenon DEF Sane, LockedWasEarned, ProtectedIsExempt
<1> QED
  BY <1>1, <1>2, <1>3, Zenon DEF AccountsOK, AccountsMove

\* Unless a user is deleted, an id that is in the table stays there under its name.
LEMMA IdsStay ==
    ASSUME AccountsOK, AccountsStep
    PROVE  \A u \in Users : /\ \A t : HasId(u, t) => HasId(u, t)'
                            /\ users[u] # {} => users'[u] # {}
<1> SUFFICES ASSUME NEW u \in Users, NEW r \in users[u] PROVE \E s \in users'[u] : s.id = r.id
  BY ZenonT(60) DEF HasId
<1>1. AccountStep(u)
  BY Zenon DEF AccountsStep
<1>2. CASE \E q \in users[u] : \E s : users'[u] = {s} /\ Moved(u, q, s)
  <2>1. PICK q, s : q \in users[u] /\ users'[u] = {s} /\ Moved(u, q, s)
    BY <1>2, Zenon
  <2>2. q = r
    BY <2>1, Zenon DEF AccountsOK
  <2> QED
    BY <2>1, <2>2, Zenon DEF Moved
<1> QED
  BY <1>1, <1>2, Zenon DEF AccountStep

\* The types of what a call under way carries, by operation.
LEMMA CallFields ==
    ASSUME NEW c \in Call
    PROVE  /\ c.op = "insert" => c.user \in Users /\ c.roles \in SUBSET Roles
           /\ c.op \in {"lockout", "assign"} =>
                 c.user \in Users /\ c.roles \in SUBSET Roles /\ c.id \in Nat
           /\ c.op = "update" =>
                 /\ c.actor \in Users /\ c.user \in Users /\ c.id \in Nat
                 /\ c.source \in {"local", "oidc"} /\ c.todo \in Seq(Changes) \ {<<>>}
           /\ c.op = "token" => c.user \in Users /\ c.id \in Nat
           /\ c.op = "permission" => c.role \in Roles /\ c.action \in Actions
           /\ c.op = "remove" => c.user \in Users /\ c.id \in Nat /\ c.role \in Roles
           /\ c.op = "drop" => c.role \in Roles
           /\ c.op = "unmap" => c.group \in Groups
<1>1. CASE c = Idle
  BY <1>1, Zenon DEF Idle
<1>2. CASE c \in [op : {"insert"}, user : Users, roles : SUBSET Roles]
  BY <1>2, Zenon
<1>3. CASE c \in [op : {"lockout", "assign"}, user : Users, roles : SUBSET Roles, id : Nat]
  BY <1>3, Zenon
<1>4. CASE c \in [op : {"update"}, actor : Users, user : Users, id : Nat,
                  source : {"local", "oidc"}, todo : Seq(Changes) \ {<<>>}]
  BY <1>4, Zenon
<1>5. CASE c \in [op : {"token"}, user : Users, id : Nat]
  BY <1>5, Zenon
<1>6. CASE c \in [op : {"permission"}, role : Roles, action : Actions]
  BY <1>6, Zenon
<1>7. CASE c \in [op : {"remove"}, user : Users, id : Nat, role : Roles]
  BY <1>7, Zenon
<1>8. CASE c \in [op : {"drop"}, role : Roles]
  BY <1>8, Zenon
<1>9. CASE c \in [op : {"unmap"}, group : Groups]
  BY <1>9, Zenon
<1> QED
  BY <1>1, <1>2, <1>3, <1>4, <1>5, <1>6, <1>7, <1>8, <1>9, Zenon DEF Call

\* The types of what a login under way has read.
LEMMA LoginFields ==
    ASSUME NEW k \in Login
    PROVE  /\ k.op \in {"verify", "sync"} => k.user \in Users /\ k.row \in Account
           /\ k.op = "sync" => k.groups \in SUBSET Groups
<1>1. CASE k = Idle
  BY <1>1, Zenon DEF Idle
<1>2. CASE k \in [op : {"verify"}, user : Users, row : Account]
  BY <1>2, Zenon
<1>3. CASE k \in [op : {"sync"}, user : Users, groups : SUBSET Groups, row : Account]
  BY <1>3, Zenon
<1> QED
  BY <1>1, <1>2, <1>3, Zenon DEF Login

-----------------------------------------------------------------------------
(* Every step moves the accounts as AccountsStep says.                      *)

\* A step that leaves the users table alone moves the accounts as it may.
LEMMA SameAccounts ==
    ASSUME AccountsOK, UNCHANGED <<users, nextId>>
    PROVE  AccountsStep
<1>1. nextId \in Nat
  BY Zenon DEF AccountsOK
<1>2. nextId <= nextId
  BY <1>1
<1> QED
  BY <1>1, <1>2, Zenon DEF AccountsOK, AccountsStep, AccountsMove, AccountStep

\* UPDATE users ... WHERE id = ?: a row that may be moved is, and the others stay.
LEMMA Updates ==
    ASSUME AccountsOK, NEW u \in Users, NEW id, NEW row, UpdateUser(u, id, row), nextId' = nextId,
           \A r \in users[u] : r.id = id => Moved(u, r, row)
    PROVE  AccountsStep
<1>1. CASE HasId(u, id)
  <2>1. users' = [users EXCEPT ![u] = {row}]
    BY <1>1, Zenon DEF UpdateUser
  <2>2. PICK r \in users[u] : r.id = id
    BY <1>1, Zenon DEF HasId
  <2>3. /\ DOMAIN users' = Users /\ users' = [v \in Users |-> users'[v]] /\ users'[u] = {row}
        /\ \A v \in Users : v # u => users'[v] = users[v]
    BY <2>1, Zenon DEF AccountsOK
  <2>4. nextId \in Nat
    BY Zenon DEF AccountsOK
  <2>5. nextId <= nextId'
    BY <2>4
  <2>6. Moved(u, r, row)
    BY <2>2, Zenon
  <2>7. ASSUME NEW v \in Users PROVE AccountStep(v)
    <3>1. CASE v = u
      BY <2>3, <2>6, <3>1, Zenon DEF AccountStep
    <3>2. CASE v # u
      BY <2>3, <3>2, Zenon DEF AccountStep
    <3> QED
      BY <3>1, <3>2, Zenon
  <2> QED
    BY <2>3, <2>4, <2>5, <2>7, Zenon DEF AccountsStep, AccountsMove
<1>2. CASE ~HasId(u, id)
  BY <1>2, SameAccounts, Zenon DEF UpdateUser
<1> QED
  BY <1>1, <1>2, Zenon

\* INSERT INTO users: a name without a row gets one with the next id.
LEMMA Inserts ==
    ASSUME AccountsOK, NEW u \in Users, users[u] = {}, NEW source \in {"local", "oidc"},
           users' = [users EXCEPT ![u] = {NewRow(nextId, source)}], nextId' = nextId + 1
    PROVE  AccountsStep
<1>1. nextId \in Nat
  BY Zenon DEF AccountsOK
<1>2. nextId' \in Nat /\ nextId <= nextId' /\ nextId <= nextId /\ nextId < nextId'
  BY <1>1
<1>3. /\ DOMAIN users' = Users /\ users' = [v \in Users |-> users'[v]]
      /\ users'[u] = {NewRow(nextId, source)}
      /\ \A v \in Users : v # u => users'[v] = users[v]
  BY Zenon DEF AccountsOK
<1> QED
  BY <1>1, <1>2, <1>3, Zenon DEF AccountsStep, AccountsMove, AccountStep

\* AuthenticateLocal: the failure counts for everyone but the bootstrap administrator.
LEMMA FailAccounts ==
    ASSUME AccessInv, NEW l \in Logins, AuthFail(l)
    PROVE  AccountsStep
<1>1. PICK u, row : u = login[l].user /\ row = login[l].row
  OBVIOUS
<1>2. u \in Users /\ nextId' = nextId /\ AccountsOK
  <2>1. login[l] \in Login /\ login[l].op = "verify" /\ nextId' = nextId
    BY Zenon DEF AccessInv, SessionsOK, AuthFail
  <2> QED
    BY <1>1, <2>1, LoginFields, Zenon DEF AccessInv
<1>3. CASE Counts(u)
  <2>1. UpdateUser(u, row.id, RegisterFailedLogin(Row(u), row))
    BY <1>1, <1>3, Zenon DEF AuthFail
  <2>2. ASSUME NEW r \in users[u] PROVE Moved(u, r, RegisterFailedLogin(Row(u), row))
    <3>1. Row(u) = r /\ Sane(u, r) /\ u # Root
      BY <1>2, <1>3, RowOf, RowsSane, Zenon DEF Counts, IsProtectedAdmin
    <3> QED
      BY <3>1, RegisterMoves, Zenon
  <2> QED
    BY <1>2, <2>1, <2>2, Updates, Zenon
<1>4. CASE ~Counts(u)
  <2>1. users' = users
    BY <1>1, <1>4, Zenon DEF AuthFail
  <2> QED
    BY <1>2, <2>1, SameAccounts, Zenon
<1> QED
  BY <1>3, <1>4, Zenon

\* AuthenticateLocal: a success clears the row; if that unlocks it, the login had read it
\* with failures on record and without the lock.
LEMMA SuccessAccounts ==
    ASSUME AccessInv, NEW l \in Logins, AuthSuccess(l)
    PROVE  AccountsStep
<1>1. PICK u, read : u = login[l].user /\ read = login[l].row
  OBVIOUS
<1>2. u \in Users /\ nextId' = nextId /\ AccountsOK /\ ~read.locked
  <2>1. login[l] \in Login /\ login[l].op = "verify" /\ nextId' = nextId /\ ~login[l].row.locked
    BY Zenon DEF AccessInv, SessionsOK, AuthSuccess
  <2> QED
    BY <1>1, <2>1, LoginFields, Zenon DEF AccessInv
<1>3. CASE Resets(read)
  <2>1. /\ UpdateUser(u, read.id, ResetFailedLogin(Row(u))) /\ read.failed > 0
        /\ HasId(u, read.id) /\ Row(u).locked => "late success" \in excused'
    BY <1>1, <1>2, <1>3, Zenon DEF AuthSuccess, Resets
  <2>2. ASSUME NEW r \in users[u], r.id = read.id PROVE Moved(u, r, ResetFailedLogin(Row(u)))
    <3>1. Row(u) = r /\ Sane(u, r)
      BY <1>2, RowOf, RowsSane, Zenon
    <3>2. r.locked => Unlocking
      BY <2>1, <2>2, <3>1, Zenon DEF HasId, Unlocking
    <3> QED
      BY <3>1, <3>2, ResetMoves, Zenon
  <2> QED
    BY <1>2, <2>1, <2>2, Updates, Zenon
<1>4. CASE ~Resets(read)
  <2>1. users' = users
    BY <1>1, <1>4, Zenon DEF AuthSuccess
  <2> QED
    BY <1>2, <2>1, SameAccounts, Zenon
<1> QED
  BY <1>3, <1>4, Zenon

\* createUser turns lockout on for everyone but the bootstrap administrator.
LEMMA LockoutAccounts ==
    ASSUME AccessInv, NEW a \in Admins, EnableLockout(a)
    PROVE  AccountsStep
<1>1. PICK u, id : u = call[a].user /\ id = call[a].id
  OBVIOUS
<1>2. u \in Users /\ nextId' = nextId /\ AccountsOK
  <2>1. call[a] \in Call /\ call[a].op = "lockout" /\ nextId' = nextId
    BY Zenon DEF AccessInv, SessionsOK, EnableLockout
  <2> QED
    BY <1>1, <2>1, CallFields, Zenon DEF AccessInv
<1>3. CASE u # Root
  <2>1. UpdateUser(u, id, [Row(u) EXCEPT !.lockout = TRUE])
    BY <1>1, <1>3, Zenon DEF EnableLockout, IsProtectedAdmin
  <2>2. ASSUME NEW r \in users[u] PROVE Moved(u, r, [Row(u) EXCEPT !.lockout = TRUE])
    <3>1. Row(u) = r /\ Sane(u, r) /\ r \in Account
      BY <1>2, RowOf, RowsSane, Zenon
    <3> DEFINE s == [r EXCEPT !.lockout = TRUE]
    <3>2. s \in Account /\ s.id = r.id /\ s.failed = r.failed /\ s.locked = r.locked /\ s.lockout
      BY <3>1, Zenon DEF Account
    <3>3. [Row(u) EXCEPT !.lockout = TRUE] = s
      BY <3>1, Zenon
    <3> HIDE DEF s
    <3> QED
      BY <1>3, <3>1, <3>2, <3>3, FlagMoves, Zenon
  <2> QED
    BY <1>2, <2>1, <2>2, Updates, Zenon
<1>4. CASE u = Root
  <2>1. users' = users
    BY <1>1, <1>4, Zenon DEF EnableLockout, IsProtectedAdmin
  <2> QED
    BY <1>2, <2>1, SameAccounts, Zenon
<1> QED
  BY <1>3, <1>4, Zenon

\* updateUser: one field, checked on the row as it was read, written to the row as it is.
LEMMA UpdateAccounts ==
    ASSUME AccessInv, NEW a \in Admins, UpdateWrite(a)
    PROVE  AccountsStep
<1>1. PICK c, change : c = call[a] /\ change = Head(c.todo)
  OBVIOUS
<1>2. c \in Call /\ c.op = "update" /\ nextId' = nextId /\ AccountsOK
  BY <1>1, Zenon DEF AccessInv, SessionsOK, UpdateWrite
<1>3. c.user \in Users /\ c.todo \in Seq(Changes) /\ c.todo # <<>>
  BY <1>2, CallFields, Zenon
<1>4. change \in Changes
  <2>1. PICK t : t = c.todo
    BY Zenon
  <2>2. t \in Seq(Changes) /\ t # <<>>
    BY <1>3, <2>1
  <2>3. Head(t) \in Changes
    BY <2>2
  <2> QED
    BY <1>1, <2>1, <2>3
<1>5. CASE MayUpdate(c, change)
  <2>1. UpdateUser(c.user, c.id, Changed(Row(c.user), change))
    BY <1>1, <1>5, Zenon DEF UpdateWrite
  <2>2. change = "lockout" => c.user # Root
    BY <1>5, Zenon DEF MayUpdate, IsProtectedAdmin
  <2>3. Unlocking
    BY <1>1, <1>2, Zenon DEF Unlocking
  <2>4. ASSUME NEW r \in users[c.user] PROVE Moved(c.user, r, Changed(Row(c.user), change))
    <3>1. Row(c.user) = r /\ Sane(c.user, r)
      BY <1>2, <1>3, RowOf, RowsSane, Zenon
    <3> QED
      BY <1>4, <2>2, <2>3, <3>1, ChangeMoves, Zenon
  <2> QED
    BY <1>2, <1>3, <2>1, <2>4, Updates, Zenon
<1>6. CASE ~MayUpdate(c, change)
  <2>1. users' = users
    BY <1>1, <1>6, Zenon DEF UpdateWrite
  <2> QED
    BY <1>2, <2>1, SameAccounts, Zenon
<1> QED
  BY <1>5, <1>6, Zenon

\* ensureManagedUsers makes rows for those who have none.
LEMMA EnsureAccounts ==
    ASSUME AccountsOK, NEW d \in Policy, EnsureUsers(d)
    PROVE  /\ AccountsStep
           /\ \A u \in d.locals : users'[u] # {}
           /\ \A g \in d.grants : users'[g[1]] # {}
           /\ \A u \in Users : users[u] # {} => users'[u] = users[u]
<1> DEFINE new == {u \in d.locals \union {g[1] : g \in d.grants} : ~Has(u)}
           n == Cardinality(new)
<1>1. d.locals \in SUBSET Users /\ d.grants \in SUBSET (Users \X Roles)
  BY Zenon DEF Policy
<1>2. \A g \in d.grants : g[1] \in Users
  BY <1>1
<1>3. new \in SUBSET Users
  BY <1>1, <1>2, Zenon
<1>4. n \in Nat /\ nextId \in Nat
  BY <1>3, ConstantsAssumption, Zenon DEF AccountsOK
<1>5. /\ nextId' = nextId + n
      /\ \E id \in Injection(new, nextId..(nextId + n - 1)) :
            users' = [u \in Users |->
                IF u \in new THEN {NewRow(id[u], IF u \in d.locals THEN "local" ELSE "oidc")}
                ELSE users[u]]
  BY Zenon DEF EnsureUsers
<1>6. \A u \in Users : u \in new <=> users[u] = {} /\ u \in d.locals \union {g[1] : g \in d.grants}
  BY Zenon DEF Has
<1> HIDE DEF n, new
<1>7. PICK id \in Injection(new, nextId..(nextId + n - 1)) :
         users' = [u \in Users |->
                IF u \in new THEN {NewRow(id[u], IF u \in d.locals THEN "local" ELSE "oidc")}
                ELSE users[u]]
  BY <1>5, Zenon
<1>8. id \in [new -> nextId..(nextId + n - 1)]
  BY Zenon DEF Injection
<1>9. nextId' \in Nat /\ nextId <= nextId'
  BY <1>4, <1>5
<1>10. ASSUME NEW u \in new PROVE id[u] \in Nat /\ nextId <= id[u] /\ id[u] < nextId'
  <2>1. id[u] \in nextId..(nextId + n - 1)
    BY <1>8, Zenon
  <2> QED
    BY <1>4, <1>5, <2>1
<1>11. DOMAIN users' = Users /\ users' = [u \in Users |-> users'[u]]
  BY <1>7, Zenon
<1>12. ASSUME NEW u \in Users PROVE AccountStep(u)
  <2>1. CASE u \in new
    <3>1. PICK source \in {"local", "oidc"} : users'[u] = {NewRow(id[u], source)}
      BY <1>7, <2>1, Zenon
    <3>2. id[u] \in Nat /\ nextId <= id[u] /\ id[u] < nextId' /\ users[u] = {}
      BY <1>6, <1>10, <2>1, Zenon
    <3> QED
      BY <3>1, <3>2, Zenon DEF AccountStep
  <2>2. CASE u \notin new
    BY <1>7, <2>2, Zenon DEF AccountStep
  <2> QED
    BY <2>1, <2>2, Zenon
<1>13. ASSUME NEW u \in Users, u \in d.locals \union {g[1] : g \in d.grants} PROVE users'[u] # {}
  <2>1. CASE u \in new
    <3>1. users'[u] = {NewRow(id[u], IF u \in d.locals THEN "local" ELSE "oidc")}
      BY <1>7, <2>1, Zenon
    <3> QED
      BY <3>1, Zenon
  <2>2. CASE u \notin new
    <3>1. users'[u] = users[u] /\ users[u] # {}
      BY <1>6, <1>7, <1>13, <2>2, Zenon
    <3> QED
      BY <3>1, Zenon
  <2> QED
    BY <2>1, <2>2, Zenon
<1>14. ASSUME NEW u \in Users, users[u] # {} PROVE users'[u] = users[u]
  BY <1>6, <1>7, <1>14, Zenon
<1> QED
  BY <1>1, <1>2, <1>9, <1>11, <1>12, <1>13, <1>14, Zenon DEF AccountsStep, AccountsMove

\* Every step moves the accounts as AccountsMove says, and only deleteUser removes one.
LEMMA NextAccounts ==
    ASSUME AccessInv, Next
    PROVE  AccountsMove /\ (AccountsStep \/ \E a \in Admins : DeleteUser(a))
<1>0. AccountsOK
  BY Zenon DEF AccessInv
<1>1. ASSUME NEW l \in Logins, AuthRead(l) \/ OIDCSync(l) \/ OIDCSyncFails(l) PROVE AccountsStep
  <2>1. UNCHANGED <<users, nextId>>
    BY <1>1, Zenon DEF AuthRead, OIDCSync, OIDCSyncFails, db
  <2> QED
    BY <1>0, <2>1, SameAccounts, Zenon
<1>2. ASSUME NEW l \in Logins, OIDCLogin(l) PROVE AccountsStep
  <2>1. PICK u \in Users :
           /\ users' = IF Has(u) THEN users ELSE [users EXCEPT ![u] = {NewRow(nextId, "oidc")}]
           /\ nextId' = IF Has(u) THEN nextId ELSE nextId + 1
    BY <1>2, Zenon DEF OIDCLogin
  <2>2. CASE Has(u)
    <3>1. UNCHANGED <<users, nextId>>
      BY <2>1, <2>2, Zenon
    <3> QED
      BY <1>0, <3>1, SameAccounts, Zenon
  <2>3. CASE ~Has(u)
    <3>1. /\ users' = [users EXCEPT ![u] = {NewRow(nextId, "oidc")}] /\ nextId' = nextId + 1
          /\ users[u] = {} /\ "oidc" \in {"local", "oidc"}
      BY <2>1, <2>3, Zenon DEF Has
    <3> QED
      BY <1>0, <3>1, Inserts, Zenon
  <2> QED
    BY <2>2, <2>3, Zenon
<1>3. ASSUME NEW a \in Admins, InsertUser(a) PROVE AccountsStep
  <2>1. PICK u : u = call[a].user
    BY Zenon
  <2>2. u \in Users
    <3>1. call[a] \in Call /\ call[a].op = "insert"
      BY <1>3, Zenon DEF AccessInv, SessionsOK, InsertUser
    <3> QED
      BY <2>1, <3>1, CallFields, Zenon
  <2>3. CASE Has(u)
    <3>1. UNCHANGED <<users, nextId>>
      BY <1>3, <2>1, <2>3, Zenon DEF InsertUser
    <3> QED
      BY <1>0, <3>1, SameAccounts, Zenon
  <2>4. CASE ~Has(u)
    <3>1. /\ users' = [users EXCEPT ![u] = {NewRow(nextId, "local")}] /\ nextId' = nextId + 1
          /\ users[u] = {} /\ "local" \in {"local", "oidc"}
      BY <1>3, <2>1, <2>4, Zenon DEF Has, InsertUser
    <3> QED
      BY <1>0, <2>2, <3>1, Inserts, Zenon
  <2> QED
    BY <2>3, <2>4, Zenon
<1>4. ASSUME NEW a \in Admins, \/ CreateUser(a) \/ AssignNewRoles(a) \/ UpdateRead(a) \/ TokenRead(a)
                               \/ TokenWrite(a) \/ DeleteToken(a) \/ AssignRole(a)
                               \/ CreateGroupMapping(a) \/ CreateRole(a)
      PROVE  AccountsStep
  <2>1. UNCHANGED <<users, nextId>>
    BY <1>4, Zenon DEF CreateUser, AssignNewRoles, UpdateRead, TokenRead, TokenWrite, DeleteToken,
       AssignRole, CreateGroupMapping, CreateRole, db
  <2> QED
    BY <1>0, <2>1, SameAccounts, Zenon
<1>5. ASSUME NEW a \in Admins, \/ PermissionCheck(a) \/ AddPermission(a) \/ DeletePermission(a)
                               \/ RemoveCheck(a) \/ RemoveRole(a) \/ DeleteRole(a)
                               \/ DeleteGroupMapping(a)
      PROVE  AccountsStep
  <2>1. UNCHANGED <<users, nextId>>
    BY <1>5, Zenon DEF PermissionCheck, AddPermission, DeletePermission, RemoveCheck, RemoveRole,
       DeleteRole, DeleteGroupMapping, db
  <2> QED
    BY <1>0, <2>1, SameAccounts, Zenon
<1>6. ASSUME NEW i \in Replicas, \/ BootCount(i) \/ BootRole(i) \/ BootCreateRole(i)
                                 \/ BootPermission(i) \/ BootAssign(i) \/ Crash(i)
      PROVE  AccountsStep
  <2>1. UNCHANGED <<users, nextId>>
    BY <1>6, Zenon DEF BootCount, BootRole, BootCreateRole, BootPermission, BootAssign, Crash, db
  <2> QED
    BY <1>0, <2>1, SameAccounts, Zenon
<1>7. ASSUME NEW i \in Replicas, BootCreate(i) PROVE AccountsStep
  <2>1. CASE Has(Root)
    <3>1. UNCHANGED <<users, nextId>>
      BY <1>7, <2>1, Zenon DEF BootCreate
    <3> QED
      BY <1>0, <3>1, SameAccounts, Zenon
  <2>2. CASE ~Has(Root)
    <3>1. /\ users' = [users EXCEPT ![Root] = {NewRow(nextId, "local")}] /\ nextId' = nextId + 1
          /\ users[Root] = {} /\ "local" \in {"local", "oidc"} /\ Root \in Users
      BY <1>7, <2>2, ConstantsAssumption, Zenon DEF Has, BootCreate
    <3> QED
      BY <1>0, <3>1, Inserts, Zenon
  <2> QED
    BY <2>1, <2>2, Zenon
<1>8. ASSUME NEW i \in Replicas, BootReconcile(i) PROVE AccountsStep
  <2>1. PICK d : d = PolicyOf[policy]
    BY Zenon
  <2>2. d \in Policy
    BY <2>1, ConstantsAssumption, Zenon DEF AccessInv, RestOK
  <2>3. UNCHANGED <<users, nextId>> \/ EnsureUsers(d)
    BY <1>8, <2>1, Zenon DEF BootReconcile, ApplyManagedRBAC, db
  <2> QED
    BY <1>0, <2>2, <2>3, SameAccounts, EnsureAccounts, Zenon
<1>9. ASSUME ChangePolicy PROVE AccountsStep
  <2>1. UNCHANGED <<users, nextId>>
    BY <1>9, Zenon DEF ChangePolicy, db
  <2> QED
    BY <1>0, <2>1, SameAccounts, Zenon
<1>10. ASSUME NEW a \in Admins, DeleteUser(a) PROVE AccountsMove
  <2>1. PICK u \in Users : users' = [users EXCEPT ![u] = {}] /\ nextId' = nextId
    BY <1>10, Zenon DEF DeleteUser
  <2>2. nextId \in Nat /\ users \in [Users -> SUBSET Account]
    BY <1>0, Zenon DEF AccountsOK
  <2>3. nextId <= nextId'
    BY <2>1, <2>2
  <2>4. /\ DOMAIN users' = Users /\ users' = [v \in Users |-> users'[v]]
        /\ \A v \in Users : users'[v] = users[v] \/ users'[v] = {}
    BY <2>1, <2>2, Zenon
  <2> QED
    BY <2>1, <2>2, <2>3, <2>4, Zenon DEF AccountsMove, AccountStep
<1>11. ASSUME AccountsStep PROVE AccountsMove
  BY <1>11, Zenon DEF AccountsStep
<1>12. ASSUME NEW l \in Logins, AuthFail(l) \/ AuthSuccess(l) PROVE AccountsStep
  BY <1>12, FailAccounts, SuccessAccounts, Zenon
<1>13. ASSUME NEW a \in Admins, EnableLockout(a) \/ UpdateWrite(a) PROVE AccountsStep
  BY <1>13, LockoutAccounts, UpdateAccounts, Zenon
<1>14. ASSUME NEW a \in Admins, Administer(a) PROVE AccountsStep \/ DeleteUser(a)
  BY <1>3, <1>4, <1>5, <1>13, <1>14, Zenon DEF Administer
<1>15. ASSUME NEW i \in Replicas, Boot(i) \/ Crash(i) PROVE AccountsStep
  BY <1>6, <1>7, <1>8, <1>15, Zenon DEF Boot
<1> QED
  BY <1>1, <1>2, <1>9, <1>10, <1>11, <1>12, <1>14, <1>15, Zenon DEF Next

\* AuthenticateLocal, SetLockoutEnabled: in a step that moves the accounts like that
\* failures add up or go back to zero, and a lock goes only for a reason.
LEMMA LocksStep ==
    ASSUME AccountsOK, AccountsMove, NEW u \in Users, SameRow(u)
    PROVE  /\ Row(u)'.failed >= Row(u).failed \/ Row(u)'.failed = 0
           /\ Row(u).locked /\ ~Row(u)'.locked => Unlocking
<1>1. AccountStep(u) /\ users'[u] # {} /\ users[u] # {} /\ Row(u).id = Row(u)'.id
  BY Zenon DEF AccountsMove, SameRow
<1>2. PICK r \in users[u] : TRUE
  BY <1>1, Zenon
<1>3. Row(u) = r /\ users[u] = {r} /\ r \in Account
  BY RowOf, Zenon
<1>4. CASE users'[u] = users[u]
  <2>1. Row(u)' = Row(u) /\ r.failed \in Nat
    BY <1>3, <1>4, AccountFields, Zenon DEF Row
  <2>2. r.failed >= r.failed
    BY <2>1
  <2> QED
    BY <1>3, <2>1, <2>2, Zenon
<1>5. CASE \E q \in users[u] : \E s : users'[u] = {s} /\ Moved(u, q, s)
  <2>1. PICK s : users'[u] = {s} /\ Moved(u, r, s)
    BY <1>3, <1>5, Zenon
  <2>2. Row(u)' = s
    BY <2>1, Zenon DEF Row
  <2> QED
    BY <1>3, <2>1, <2>2, Zenon DEF Moved
<1> QED
  BY <1>1, <1>4, <1>5, Zenon DEF AccountStep

-----------------------------------------------------------------------------
(* Roles, permissions, grants and mappings.                                 *)

\* Roles are absent, interactive or managed.
RolesOK == roles \in [Roles -> {{}, {0}, {1}}]
\* Permissions belong to roles that are there.
PermsOK ==
    perms \subseteq Roles \X Actions \X {0, 1} /\ \A p \in perms : roles[p[1]] # {}
\* Grants join users and roles that are there, one row for each pair.
GrantsOK ==
    /\ grants \subseteq Users \X Roles \X {0, 1, 2}
    /\ \A g \in grants : users[g[1]] # {} /\ roles[g[2]] # {}
    /\ \A g, h \in grants : g[1] = h[1] /\ g[2] = h[2] => g = h
\* A group is mapped to one role, which is there.
MapsOK ==
    /\ maps \subseteq Groups \X Roles \X {0, 1} /\ \A m \in maps : roles[m[2]] # {}
    /\ \A m, n \in maps : m[1] = n[1] => m = n

\* TablesOK table by table.
LEMMA TablesParts == TablesOK <=> RolesOK /\ PermsOK /\ GrantsOK /\ MapsOK
BY Zenon DEF TablesOK, RolesOK, PermsOK, GrantsOK, MapsOK, Has

\* The types of the columns of permissions, grants and mappings.
LEMMA TableFields ==
    ASSUME TablesOK
    PROVE  /\ \A p \in perms : p[1] \in Roles /\ p[2] \in Actions /\ p[3] \in {0, 1}
           /\ \A g \in grants : g[1] \in Users /\ g[2] \in Roles /\ g[3] \in {0, 1, 2}
           /\ \A m \in maps : m[1] \in Groups /\ m[2] \in Roles /\ m[3] \in {0, 1}
BY DEF TablesOK

\* Every role that is there stays.
RolesStay == \A r \in Roles : roles[r] # {} => roles'[r] # {}
\* Every account that is there stays.
UsersStay == \A u \in Users : users[u] # {} => users'[u] # {}

\* Permissions that go, their roles staying, break nothing.
LEMMA FewerPerms ==
    ASSUME PermsOK, perms' \subseteq perms, \A p \in perms' : roles'[p[1]] # {}
    PROVE  PermsOK'
BY Zenon DEF PermsOK

\* Mappings that go, their roles staying, break nothing.
LEMMA FewerMaps ==
    ASSUME MapsOK, maps' \subseteq maps, \A m \in maps' : roles'[m[2]] # {}
    PROVE  MapsOK'
BY Zenon DEF MapsOK

\* Grants that come with keys none of those that stay has keep the grants' key.
LEMMA GrantsFrom ==
    ASSUME GrantsOK, NEW K, NEW S, grants' = K \union S, K \subseteq grants,
           S \subseteq Users \X Roles \X {0, 1, 2},
           \A g \in K \union S : users'[g[1]] # {} /\ roles'[g[2]] # {},
           \A g, h \in S : g[1] = h[1] /\ g[2] = h[2] => g = h,
           \A g \in K, h \in S : ~(g[1] = h[1] /\ g[2] = h[2])
    PROVE  GrantsOK'
<1>1. ASSUME NEW g \in grants', NEW h \in grants', g[1] = h[1], g[2] = h[2] PROVE g = h
  <2>1. (g \in K \/ g \in S) /\ (h \in K \/ h \in S)
    BY <1>1, Zenon
  <2>2. CASE g \in K /\ h \in K
    BY <1>1, <2>2, Zenon DEF GrantsOK
  <2>3. CASE g \in S /\ h \in S
    BY <1>1, <2>3, Zenon
  <2> QED
    BY <1>1, <2>1, <2>2, <2>3, Zenon
<1>2. grants' \subseteq Users \X Roles \X {0, 1, 2}
  BY Zenon DEF GrantsOK
<1>3. \A g \in grants' : users'[g[1]] # {} /\ roles'[g[2]] # {}
  BY Zenon
<1> QED
  BY <1>1, <1>2, <1>3, Zenon DEF GrantsOK

\* Grants that go, their users and roles staying, break nothing.
LEMMA FewerGrants ==
    ASSUME GrantsOK, grants' \subseteq grants,
           \A g \in grants' : users'[g[1]] # {} /\ roles'[g[2]] # {}
    PROVE  GrantsOK'
BY Zenon DEF GrantsOK

\* A table that does not change stays right while the roles and accounts it names stay.
LEMMA TablesStay ==
    ASSUME TablesOK, RolesStay
    PROVE  /\ perms' = perms => PermsOK'
           /\ maps' = maps => MapsOK'
           /\ grants' = grants /\ UsersStay => GrantsOK'
<1>1. /\ \A p \in perms : p[1] \in Roles /\ roles[p[1]] # {}
      /\ \A g \in grants : /\ g[1] \in Users /\ g[2] \in Roles
                           /\ users[g[1]] # {} /\ roles[g[2]] # {}
      /\ \A m \in maps : m[2] \in Roles /\ roles[m[2]] # {}
  BY TableFields, Zenon DEF TablesOK, Has
<1>2. PermsOK /\ GrantsOK /\ MapsOK
  BY TablesParts, Zenon
<1>3. ASSUME perms' = perms PROVE PermsOK'
  BY <1>1, <1>2, <1>3, FewerPerms, Zenon DEF RolesStay
<1>4. ASSUME maps' = maps PROVE MapsOK'
  BY <1>1, <1>2, <1>4, FewerMaps, Zenon DEF RolesStay
<1>5. ASSUME grants' = grants, UsersStay PROVE GrantsOK'
  BY <1>1, <1>2, <1>5, FewerGrants, Zenon DEF RolesStay, UsersStay
<1> QED
  BY <1>3, <1>4, <1>5, Zenon

\* A step on accounts alone that deletes nobody keeps the other tables right.
LEMMA SameTables ==
    ASSUME TablesOK, UsersStay, UNCHANGED <<roles, perms, grants, maps>>
    PROVE  TablesOK'
<1>1. RolesStay /\ RolesOK'
  BY Zenon DEF RolesStay, TablesOK, RolesOK
<1>2. PermsOK' /\ MapsOK' /\ GrantsOK'
  BY <1>1, TablesStay, Zenon
<1>3. RolesOK' /\ PermsOK' /\ GrantsOK' /\ MapsOK' => TablesOK'
  BY TablesParts, PTL
<1> QED
  BY <1>1, <1>2, <1>3, Zenon

\* A step on grants alone keeps the other tables right.
LEMMA GrantsChange ==
    ASSUME TablesOK, GrantsOK', UNCHANGED <<roles, perms, maps>>
    PROVE  TablesOK'
<1>1. RolesStay /\ RolesOK'
  BY Zenon DEF RolesStay, TablesOK, RolesOK
<1>2. PermsOK' /\ MapsOK'
  BY <1>1, TablesStay, Zenon
<1>3. RolesOK' /\ PermsOK' /\ GrantsOK' /\ MapsOK' => TablesOK'
  BY TablesParts, PTL
<1> QED
  BY <1>1, <1>2, <1>3, Zenon

\* createUser's AssignRole for the roles it was asked for keeps keys and foreign keys:
\* it adds a pair only if it is missing and both rows are there.
LEMMA AssignGrants ==
    ASSUME TablesOK, NEW u \in Users, NEW rs \in SUBSET Roles, UsersStay,
           grants' = grants \union UNION {Assign(u, r) : r \in rs}, UNCHANGED <<roles, perms, maps>>
    PROVE  TablesOK'
<1> DEFINE new == {r \in rs : Has(u) /\ roles[r] # {} /\ \A g \in grants : ~(g[1] = u /\ g[2] = r)}
           S == {<<u, r, 0>> : r \in new}
<1>1. grants' = grants \union S
  <2>1. ASSUME NEW r \in rs PROVE Assign(u, r) = grants \union {<<u, q, 0>> : q \in {r} \cap new}
    <3>1. CASE r \in new
      BY <3>1, Zenon DEF Assign
    <3>2. CASE r \notin new
      BY <2>1, <3>2, Zenon DEF Assign
    <3> QED
      BY <3>1, <3>2, Zenon
  <2>2. ASSUME NEW g PROVE g \in grants' <=> g \in grants \union S
    <3>1. ASSUME g \in S PROVE g \in grants'
      <4>1. PICK r \in new : g = <<u, r, 0>>
        BY <3>1, Zenon
      <4>2. g \in Assign(u, r) /\ r \in rs
        BY <2>1, <4>1, Zenon
      <4> QED
        BY <4>2, Zenon
    <3>2. ASSUME g \in grants', g \notin grants PROVE g \in S
      <4>1. PICK r \in rs : g \in Assign(u, r)
        BY <3>2, Zenon
      <4>2. g \in {<<u, q, 0>> : q \in {r} \cap new}
        <5>1. Assign(u, r) = grants \union {<<u, q, 0>> : q \in {r} \cap new}
          BY <2>1, Zenon
        <5> QED
          BY <3>2, <4>1, <5>1, Zenon
      <4> QED
        BY <4>2, Zenon
    <3> QED
      BY <3>1, <3>2, Zenon
  <2> QED
    BY <2>2, Zenon
<1>2. /\ S \subseteq Users \X Roles \X {0, 1, 2}
      /\ \A g \in S : g[1] = u /\ g[2] \in new /\ g = <<u, g[2], 0>>
  BY DEF S
<1>3. GrantsOK /\ (\A g \in grants : g[1] \in Users /\ users[g[1]] # {} /\ roles[g[2]] # {})
  BY TablesParts, TableFields, Zenon DEF GrantsOK
<1>4. \A r \in new : users[u] # {} /\ roles[r] # {} /\ \A g \in grants : ~(g[1] = u /\ g[2] = r)
  BY Zenon DEF Has
<1> HIDE DEF S, new
<1>5. \A g \in grants \union S : users'[g[1]] # {} /\ roles'[g[2]] # {}
  BY <1>2, <1>3, <1>4, Zenon DEF UsersStay
<1>6. /\ \A g, h \in S : g[1] = h[1] /\ g[2] = h[2] => g = h
      /\ \A g \in grants, h \in S : ~(g[1] = h[1] /\ g[2] = h[2])
  BY <1>2, <1>4, Zenon
<1>7. GrantsOK'
  BY <1>1, <1>2, <1>3, <1>5, <1>6, GrantsFrom, Zenon
<1> QED
  BY <1>7, GrantsChange, Zenon

\* The same for assignRole and the bootstrap, with one role.
LEMMA AssignOne ==
    ASSUME TablesOK, NEW u \in Users, NEW r \in Roles, UsersStay,
           grants' = Assign(u, r), UNCHANGED <<roles, perms, maps>>
    PROVE  TablesOK'
<1>1. grants \subseteq Assign(u, r)
  BY Zenon DEF Assign
<1>2. UNION {Assign(u, q) : q \in {r}} = Assign(u, r)
  BY Zenon
<1>3. grants' = grants \union UNION {Assign(u, q) : q \in {r}} /\ {r} \in SUBSET Roles
  BY <1>1, <1>2, Zenon
<1> QED
  BY <1>3, AssignGrants, Zenon

\* SyncOIDCGroupRoles keeps keys and foreign keys: what it adds is missing, and the
\* mapped roles are there.
LEMMA SyncTables ==
    ASSUME TablesOK, UsersStay, NEW u \in Users, users[u] # {}, NEW gs,
           grants' = SyncOIDCGroupRoles(u, {m[2] : m \in {n \in maps : n[1] \in gs}}),
           UNCHANGED <<roles, perms, maps>>
    PROVE  TablesOK'
<1> DEFINE mapped == {m[2] : m \in {n \in maps : n[1] \in gs}}
           kept == {g \in grants : ~(g[1] = u /\ g[3] = 2 /\ g[2] \notin mapped)}
           new == {q \in mapped : \A g \in kept : ~(g[1] = u /\ g[2] = q)}
           S == {<<u, r, 2>> : r \in new}
<1>1. grants' = kept \union S /\ kept \subseteq grants
  BY Zenon DEF SyncOIDCGroupRoles
<1>2. \A q \in mapped : q \in Roles /\ roles[q] # {}
  BY TableFields, Zenon DEF TablesOK
<1>3. /\ \A q \in new : q \in Roles /\ roles[q] # {}
      /\ \A q \in new : \A g \in kept : ~(g[1] = u /\ g[2] = q)
  BY <1>2, Zenon
<1> HIDE DEF mapped, kept, new
<1>4. /\ S \subseteq Users \X Roles \X {0, 1, 2}
      /\ \A g \in S : g[1] = u /\ g[2] \in new /\ g = <<u, g[2], 2>>
  BY <1>3 DEF S
<1>5. GrantsOK /\ (\A g \in grants : g[1] \in Users /\ users[g[1]] # {} /\ roles[g[2]] # {})
  BY TablesParts, TableFields, Zenon DEF GrantsOK
<1> HIDE DEF S
<1>6. \A g \in kept \union S : users'[g[1]] # {} /\ roles'[g[2]] # {}
  BY <1>1, <1>3, <1>4, <1>5, Zenon DEF UsersStay
<1>7. /\ \A g, h \in S : g[1] = h[1] /\ g[2] = h[2] => g = h
      /\ \A g \in kept, h \in S : ~(g[1] = h[1] /\ g[2] = h[2])
  BY <1>3, <1>4, Zenon
<1>8. GrantsOK'
  BY <1>1, <1>4, <1>5, <1>6, <1>7, GrantsFrom, Zenon
<1> QED
  BY <1>8, GrantsChange, Zenon

\* AddPermission keeps the foreign key: the role is there.
LEMMA PermTables ==
    ASSUME TablesOK, UsersStay, NEW r \in Roles, NEW act \in Actions, roles[r] # {},
           perms' = perms \union {<<r, act, 0>>}, UNCHANGED <<roles, grants, maps>>
    PROVE  TablesOK'
<1>1. RolesStay /\ RolesOK' /\ PermsOK
  BY TablesParts, Zenon DEF RolesStay, TablesOK, RolesOK
<1>2. GrantsOK' /\ MapsOK'
  BY <1>1, TablesStay, Zenon
<1>3. <<r, act, 0>> \in Roles \X Actions \X {0, 1} /\ <<r, act, 0>>[1] = r
  OBVIOUS
<1>4. PermsOK'
  BY <1>1, <1>3, Zenon DEF PermsOK
<1>5. RolesOK' /\ PermsOK' /\ GrantsOK' /\ MapsOK' => TablesOK'
  BY TablesParts, PTL
<1> QED
  BY <1>1, <1>2, <1>4, <1>5, Zenon

\* CreateRole keeps the rows of the other roles right.
LEMMA RoleTables ==
    ASSUME TablesOK, UsersStay, NEW r \in Roles, roles[r] = {},
           roles' = [roles EXCEPT ![r] = {0}], UNCHANGED <<perms, grants, maps>>
    PROVE  TablesOK'
<1>1. RolesStay /\ RolesOK'
  BY Zenon DEF RolesStay, TablesOK, RolesOK
<1>2. PermsOK' /\ GrantsOK' /\ MapsOK'
  BY <1>1, TablesStay, Zenon
<1>5. RolesOK' /\ PermsOK' /\ GrantsOK' /\ MapsOK' => TablesOK'
  BY TablesParts, PTL
<1> QED
  BY <1>1, <1>2, <1>5, Zenon

\* Deleting permissions, grants or mappings of users and roles that stay breaks nothing.
LEMMA RowsGo ==
    ASSUME TablesOK, UNCHANGED roles, perms' \subseteq perms, grants' \subseteq grants,
           maps' \subseteq maps, \A g \in grants' : users'[g[1]] # {}
    PROVE  TablesOK'
<1>1. RolesOK' /\ PermsOK /\ GrantsOK /\ MapsOK
  BY TablesParts, Zenon DEF TablesOK, RolesOK
<1>2. /\ \A p \in perms' : roles'[p[1]] # {}
      /\ \A g \in grants' : users'[g[1]] # {} /\ roles'[g[2]] # {}
      /\ \A m \in maps' : roles'[m[2]] # {}
  BY Zenon DEF TablesOK
<1>3. PermsOK' /\ GrantsOK' /\ MapsOK'
  BY <1>1, <1>2, FewerPerms, FewerGrants, FewerMaps, Zenon
<1>5. RolesOK' /\ PermsOK' /\ GrantsOK' /\ MapsOK' => TablesOK'
  BY TablesParts, PTL
<1> QED
  BY <1>1, <1>3, <1>5, Zenon

\* DeleteRole cascades: permissions, grants and mappings of the role go with it.
LEMMA DropTables ==
    ASSUME TablesOK, UsersStay, NEW gone,
           roles' = [r \in Roles |-> IF r \in gone THEN {} ELSE roles[r]],
           perms' = {p \in perms : p[1] \notin gone}, grants' = {g \in grants : g[2] \notin gone},
           maps' = {m \in maps : m[2] \notin gone}
    PROVE  TablesOK'
<1>1. RolesOK' /\ PermsOK /\ GrantsOK /\ MapsOK
  <2>1. ASSUME NEW r \in Roles PROVE roles'[r] \in {{}, {0}, {1}}
    BY Zenon DEF TablesOK
  <2>2. roles' \in [Roles -> {{}, {0}, {1}}]
    BY <2>1, Zenon
  <2> QED
    BY <2>2, TablesParts, Zenon DEF RolesOK
<1>2. /\ \A p \in perms : p[1] \in Roles /\ roles[p[1]] # {}
      /\ \A g \in grants : /\ g[1] \in Users /\ g[2] \in Roles
                           /\ users[g[1]] # {} /\ roles[g[2]] # {}
      /\ \A m \in maps : m[2] \in Roles /\ roles[m[2]] # {}
  BY TableFields, Zenon DEF TablesOK, Has
<1>3. \A r \in Roles : r \notin gone => roles'[r] = roles[r]
  BY Zenon
<1>4. /\ perms' \subseteq perms /\ \A p \in perms' : roles'[p[1]] # {}
      /\ grants' \subseteq grants /\ \A g \in grants' : users'[g[1]] # {} /\ roles'[g[2]] # {}
      /\ maps' \subseteq maps /\ \A m \in maps' : roles'[m[2]] # {}
  BY <1>2, <1>3, Zenon DEF UsersStay
<1>5. PermsOK' /\ GrantsOK' /\ MapsOK'
  BY <1>1, <1>4, FewerPerms, FewerGrants, FewerMaps, Zenon
<1>6. RolesOK' /\ PermsOK' /\ GrantsOK' /\ MapsOK' => TablesOK'
  BY TablesParts, PTL
<1> QED
  BY <1>1, <1>5, <1>6, Zenon

\* createGroupMapping replaces the mapping of the group: one row per group stays.
LEMMA MappingTables ==
    ASSUME TablesOK, UsersStay, NEW g \in Groups, NEW r \in Roles, roles[r] # {}, NEW k \in {0, 1},
           maps' = {m \in maps : m[1] # g} \union {<<g, r, k>>}, UNCHANGED <<roles, perms, grants>>
    PROVE  TablesOK'
<1>1. RolesStay /\ RolesOK' /\ MapsOK
  BY TablesParts, Zenon DEF RolesStay, TablesOK, RolesOK
<1>2. PermsOK' /\ GrantsOK'
  BY <1>1, TablesStay, Zenon
<1>3. PICK w : w = <<g, r, k>>
  BY Zenon
<1>4. w \in Groups \X Roles \X {0, 1} /\ w[1] = g /\ w[2] = r
  BY <1>3
<1>5. maps' = {m \in maps : m[1] # g} \union {w}
  BY <1>3, Zenon
<1>6. MapsOK'
  <2>1. /\ maps' \subseteq Groups \X Roles \X {0, 1} /\ \A m \in maps' : roles'[m[2]] # {}
    BY <1>1, <1>4, <1>5, Zenon DEF MapsOK
  <2>2. \A m, n \in maps' : m[1] = n[1] => m = n
    BY <1>1, <1>4, <1>5, Zenon DEF MapsOK
  <2> QED
    BY <2>1, <2>2, Zenon DEF MapsOK
<1>7. RolesOK' /\ PermsOK' /\ GrantsOK' /\ MapsOK' => TablesOK'
  BY TablesParts, PTL
<1> QED
  BY <1>1, <1>2, <1>6, <1>7, Zenon

\* What loading a policy file ensures: permissions of declared roles, one role per group.
Proper(d) ==
    /\ d \in Policy
    /\ \A q \in d.perms : q[1] \in d.roles
    /\ \A v, w \in d.maps : v[1] = w[1] => v = w

\* The mounted policy file is a proper one.
LEMMA Mounted == ASSUME RestOK PROVE Proper(PolicyOf[policy])
BY ConstantsAssumption, Zenon DEF RestOK, Proper

\* The types of the columns of a policy's rows.
LEMMA PolicyFields ==
    ASSUME NEW d \in Policy
    PROVE  /\ d.roles \subseteq Roles /\ d.locals \subseteq Users
           /\ \A q \in d.perms : q = <<q[1], q[2]>> /\ q[1] \in Roles /\ q[2] \in Actions
           /\ \A g \in d.grants : g = <<g[1], g[2]>> /\ g[1] \in Users /\ g[2] \in Roles
           /\ \A m \in d.maps : m = <<m[1], m[2]>> /\ m[1] \in Groups /\ m[2] \in Roles
<1>1. /\ d.roles \in SUBSET Roles /\ d.locals \in SUBSET Users
      /\ d.perms \in SUBSET (Roles \X Actions) /\ d.grants \in SUBSET (Users \X Roles)
      /\ d.maps \in SUBSET (Groups \X Roles)
  BY Zenon DEF Policy
<1> QED
  BY <1>1

\* The rows a policy's pairs become, managed = 1.
Stamped(D) == {<<w[1], w[2], 1>> : w \in D}
\* Tables of pairs.
Pairs(A, B) == SUBSET (A \X B)

\* Such a row and the pair it is made of.
StampedRow(A, B, D, h) ==
    /\ h = <<h[1], h[2], 1>> /\ <<h[1], h[2]>> \in D
    /\ h[1] \in A /\ h[2] \in B

\* A row of Stamped(D) is a pair of D with managed = 1.
LEMMA Triples ==
    ASSUME NEW A, NEW B, NEW D \in Pairs(A, B), NEW h \in Stamped(D)
    PROVE  StampedRow(A, B, D, h)
<1>1. PICK w \in D : h = <<w[1], w[2], 1>>
  BY DEF Stamped
<1>2. w = <<w[1], w[2]>> /\ w[1] \in A /\ w[2] \in B
  BY DEF Pairs
<1> QED
  BY <1>1, <1>2 DEF StampedRow

\* ApplyManagedRBAC, upsert and deleteManagedRolesExcept: afterwards exactly the policy's
\* roles are managed, and a role goes only if it was managed and has left the policy.
LEMMA RolesAfter ==
    ASSUME TablesOK, NEW d \in Policy, NEW gone,
           gone = {r \in Roles : roles[r] # {} /\ ReconciledRoles(d)[r] = {}},
           roles' = ReconciledRoles(d)
    PROVE  /\ roles' \in [Roles -> {{}, {0}, {1}}]
           /\ \A r \in Roles : roles[r] # {} /\ r \notin gone => roles'[r] # {}
           /\ \A r \in d.roles : r \in Roles /\ roles'[r] = {1}
           /\ \A r \in Roles : roles'[r] = {1} => r \in d.roles
           /\ \A r \in Roles : roles[r] = {0} => r \notin gone
           /\ gone = {r \in Roles : roles[r] # {} /\ roles'[r] = {}}
<1>1. d.roles \subseteq Roles /\ roles \in [Roles -> {{}, {0}, {1}}]
  BY PolicyFields, Zenon DEF TablesOK
<1>2. \A r \in Roles : roles'[r] = IF r \in d.roles THEN {1} ELSE IF roles[r] = {1} THEN {} ELSE roles[r]
  BY Zenon DEF ReconciledRoles
<1>3. {1} # {} /\ {0} # {} /\ {0} # {1}
  <2>1. 0 # 1
    OBVIOUS
  <2> QED
    BY <2>1, Zenon
<1>4. ASSUME NEW r \in Roles
      PROVE  /\ roles'[r] \in {{}, {0}, {1}}
             /\ roles[r] # {} /\ r \notin gone => roles'[r] # {}
             /\ r \in d.roles => roles'[r] = {1}
             /\ roles'[r] = {1} => r \in d.roles
             /\ roles[r] = {0} => r \notin gone
  <2>1. roles[r] \in {{}, {0}, {1}}
    BY <1>1, Zenon
  <2>2. roles'[r] = IF r \in d.roles THEN {1} ELSE IF roles[r] = {1} THEN {} ELSE roles[r]
    BY <1>2, Zenon
  <2>3. r \in gone <=> roles[r] # {} /\ roles'[r] = {}
    BY Zenon
  <2> QED
    BY <1>3, <2>1, <2>2, <2>3, Zenon
<1>5. roles' = [r \in Roles |-> roles'[r]]
  BY Zenon DEF ReconciledRoles
<1> QED
  BY <1>1, <1>4, <1>5, Zenon

\* ApplyManagedRBAC keeps keys and foreign keys: subjects are ensured, a policy that names
\* a missing role is refused, a row with a policy's key is adopted.
LEMMA ApplyTables ==
    ASSUME AccountsOK, TablesOK, NEW d, Proper(d), ~Dangling(d), ApplyManagedRBAC(d)
    PROVE  TablesOK'
<1>1. PICK gone : gone = {r \in Roles : roles[r] # {} /\ ReconciledRoles(d)[r] = {}}
  BY Zenon
<1>2. /\ EnsureUsers(d) /\ roles' = ReconciledRoles(d) /\ d \in Policy
      /\ perms' = {p \in perms : p[3] = 0 /\ p[1] \notin gone} \union {<<p[1], p[2], 1>> : p \in d.perms}
      /\ grants' = RebuildGrants(grants, d.grants, gone) /\ maps' = RebuildMaps(d.maps, gone)
  BY <1>1, Zenon DEF ApplyManagedRBAC, Proper
<1>3. /\ \A g \in d.grants : users'[g[1]] # {}
      /\ \A u \in Users : users[u] # {} => users'[u] # {}
  BY <1>2, EnsureAccounts, Zenon
<1>4. /\ roles' \in [Roles -> {{}, {0}, {1}}]
      /\ \A r \in Roles : roles[r] # {} /\ r \notin gone => roles'[r] # {}
      /\ \A r \in d.roles : r \in Roles /\ roles'[r] = {1}
  BY <1>1, <1>2, RolesAfter, Zenon
<1>5. \A w \in d.grants \union d.maps : roles'[w[2]] # {}
  BY <1>2, Zenon DEF Dangling
<1>6. /\ d.perms \in Pairs(Roles, Actions) /\ d.grants \in Pairs(Users, Roles)
      /\ d.maps \in Pairs(Groups, Roles)
  BY <1>2, Zenon DEF Policy, Pairs
<1>7. PermsOK'
  <2> DEFINE S == Stamped(d.perms)
  <2>1. ASSUME NEW h \in S
        PROVE  h \in Roles \X Actions \X {0, 1} /\ roles'[h[1]] # {}
    <3>0. StampedRow(Roles, Actions, d.perms, h)
      BY <1>6, Triples, Zenon
    <3>1. /\ h = <<h[1], h[2], 1>> /\ <<h[1], h[2]>> \in d.perms
          /\ h[1] \in Roles /\ h[2] \in Actions
      BY <3>0 DEF StampedRow
    <3>2. PICK q \in d.perms : q = <<h[1], h[2]>>
      BY <3>1, Zenon
    <3>3. q[1] = h[1]
      BY <3>2
    <3>4. h[1] \in d.roles
      BY <3>2, <3>3, Zenon DEF Proper
    <3>5. roles'[h[1]] # {}
      BY <1>4, <3>4
    <3>6. h \in Roles \X Actions \X {0, 1}
      BY <3>1
    <3> QED
      BY <3>5, <3>6, Zenon
  <2>2. PermsOK /\ \A p \in perms : p[1] \in Roles
    BY TablesParts, TableFields, Zenon
  <2>3. ASSUME NEW p \in perms, p[1] \notin gone
        PROVE  p \in Roles \X Actions \X {0, 1} /\ roles'[p[1]] # {}
    BY <1>4, <2>2, <2>3, Zenon DEF PermsOK
  <2>4. \A p \in perms' : p \in S \/ (p \in perms /\ p[1] \notin gone)
    BY <1>2, Zenon DEF Stamped
  <2> HIDE DEF S
  <2> QED
    BY <2>1, <2>3, <2>4, Zenon DEF PermsOK
<1>8. GrantsOK'
  <2> DEFINE K == {w \in grants : w[3] # 1 /\ w[2] \notin gone /\ <<w[1], w[2]>> \notin d.grants}
             S == Stamped(d.grants)
  <2>1. grants' = K \union S /\ K \subseteq grants
    BY <1>2, Zenon DEF RebuildGrants, Stamped
  <2>2. ASSUME NEW h \in S
        PROVE  /\ h \in Users \X Roles \X {0, 1, 2} /\ h = <<h[1], h[2], 1>>
               /\ <<h[1], h[2]>> \in d.grants /\ users'[h[1]] # {} /\ roles'[h[2]] # {}
    <3>0. StampedRow(Users, Roles, d.grants, h)
      BY <1>6, Triples, Zenon
    <3>1. /\ h = <<h[1], h[2], 1>> /\ <<h[1], h[2]>> \in d.grants
          /\ h[1] \in Users /\ h[2] \in Roles
      BY <3>0 DEF StampedRow
    <3>2. PICK q \in d.grants : q = <<h[1], h[2]>>
      BY <3>1, Zenon
    <3>3. q[1] = h[1] /\ q[2] = h[2]
      BY <3>2
    <3>4. users'[h[1]] # {} /\ roles'[h[2]] # {}
      BY <1>3, <1>5, <3>2, <3>3, Zenon
    <3>5. h \in Users \X Roles \X {0, 1, 2}
      BY <3>1
    <3> QED
      BY <3>1, <3>4, <3>5, Zenon
  <2>3. GrantsOK /\ \A g \in grants : g[1] \in Users /\ g[2] \in Roles
    BY TablesParts, TableFields, Zenon
  <2>4. ASSUME NEW g \in K PROVE users'[g[1]] # {} /\ roles'[g[2]] # {}
    BY <1>3, <1>4, <2>3, Zenon DEF GrantsOK
  <2>5. \A g \in K : <<g[1], g[2]>> \notin d.grants
    BY Zenon
  <2> HIDE DEF S, K
  <2>6. /\ S \subseteq Users \X Roles \X {0, 1, 2}
        /\ \A g \in K \union S : users'[g[1]] # {} /\ roles'[g[2]] # {}
    BY <2>2, <2>4, Zenon
  <2>7. \A g, h \in S : g[1] = h[1] /\ g[2] = h[2] => g = h
    BY <2>2, Zenon
  <2>8. \A g \in K, h \in S : ~(g[1] = h[1] /\ g[2] = h[2])
    BY <2>2, <2>5, Zenon
  <2> QED
    BY <2>1, <2>3, <2>6, <2>7, <2>8, GrantsFrom, Zenon
<1>9. MapsOK'
  <2> DEFINE K == {m \in maps : m[3] # 1 /\ m[2] \notin gone /\ m[1] \notin {w[1] : w \in d.maps}}
             S == Stamped(d.maps)
  <2>1. maps' = K \union S /\ K \subseteq maps
    BY <1>2, Zenon DEF RebuildMaps, Stamped
  <2>2. ASSUME NEW h \in S
        PROVE  /\ h \in Groups \X Roles \X {0, 1} /\ h = <<h[1], h[2], 1>>
               /\ \E q \in d.maps : q = <<h[1], h[2]>> /\ q[1] = h[1] /\ q[2] = h[2]
               /\ roles'[h[2]] # {}
    <3>0. StampedRow(Groups, Roles, d.maps, h)
      BY <1>6, Triples, Zenon
    <3>1. /\ h = <<h[1], h[2], 1>> /\ <<h[1], h[2]>> \in d.maps
          /\ h[1] \in Groups /\ h[2] \in Roles
      BY <3>0 DEF StampedRow
    <3>2. PICK q \in d.maps : q = <<h[1], h[2]>>
      BY <3>1, Zenon
    <3>3. q[1] = h[1] /\ q[2] = h[2]
      BY <3>2
    <3>4. roles'[h[2]] # {}
      BY <1>5, <3>2, <3>3, Zenon
    <3>5. h \in Groups \X Roles \X {0, 1}
      BY <3>1
    <3> QED
      BY <3>1, <3>2, <3>3, <3>4, <3>5, Zenon
  <2>3. MapsOK /\ \A m \in maps : m[2] \in Roles
    BY TablesParts, TableFields, Zenon
  <2>4. ASSUME NEW m \in K PROVE roles'[m[2]] # {}
    BY <1>4, <2>3, Zenon DEF MapsOK
  <2>5. \A m \in K : \A w \in d.maps : m[1] # w[1]
    BY Zenon
  <2>6. \A v, w \in d.maps : v[1] = w[1] => v = w
    BY Zenon DEF Proper
  <2> HIDE DEF S, K
  <2>7. /\ maps' \subseteq Groups \X Roles \X {0, 1}
        /\ \A m \in maps' : roles'[m[2]] # {}
    BY <2>1, <2>2, <2>3, <2>4, Zenon DEF MapsOK
  <2>8. ASSUME NEW m \in maps', NEW n \in maps', m[1] = n[1] PROVE m = n
    <3>1. CASE m \in K /\ n \in K
      BY <2>1, <2>3, <2>8, <3>1, Zenon DEF MapsOK
    <3>2. CASE m \in S /\ n \in S
      <4>1. PICK v \in d.maps : v = <<m[1], m[2]>> /\ v[1] = m[1] /\ v[2] = m[2]
        BY <2>2, <3>2, Zenon
      <4>2. PICK w \in d.maps : w = <<n[1], n[2]>> /\ w[1] = n[1] /\ w[2] = n[2]
        BY <2>2, <3>2, Zenon
      <4>3. v = w
        BY <2>6, <2>8, <4>1, <4>2, Zenon
      <4>4. m[2] = n[2] /\ m = <<m[1], m[2], 1>> /\ n = <<n[1], n[2], 1>>
        BY <2>2, <3>2, <4>1, <4>2, <4>3, Zenon
      <4> QED
        BY <2>8, <4>4, Zenon
    <3>3. CASE m \in K /\ n \in S
      <4>1. PICK q \in d.maps : q[1] = n[1]
        BY <2>2, <3>3, Zenon
      <4> QED
        BY <2>5, <2>8, <3>3, <4>1, Zenon
    <3>4. CASE m \in S /\ n \in K
      <4>1. PICK q \in d.maps : q[1] = m[1]
        BY <2>2, <3>4, Zenon
      <4> QED
        BY <2>5, <2>8, <3>4, <4>1, Zenon
    <3> QED
      BY <2>1, <3>1, <3>2, <3>3, <3>4, Zenon
  <2> QED
    BY <2>7, <2>8, Zenon DEF MapsOK
<1>10. RolesOK'
  BY <1>4, Zenon DEF RolesOK
<1>11. RolesOK' /\ PermsOK' /\ GrantsOK' /\ MapsOK' => TablesOK'
  BY TablesParts, PTL
<1> QED
  BY <1>7, <1>8, <1>9, <1>10, <1>11, Zenon

\* Every step keeps the keys and foreign keys of roles, permissions, grants and mappings.
LEMMA NextTables ==
    ASSUME AccessInv, Next
    PROVE  TablesOK'
<1>0. AccountsOK /\ TablesOK /\ SessionsOK /\ RestOK
  BY Zenon DEF AccessInv
<1>1. ASSUME AccountsStep PROVE UsersStay
  BY <1>0, <1>1, IdsStay, Zenon DEF UsersStay
<1>2. ASSUME UNCHANGED users PROVE UsersStay
  BY <1>2, Zenon DEF UsersStay
<1>3. CASE \E a \in Admins : DeleteUser(a)
  <2>1. PICK a \in Admins : DeleteUser(a)
    BY <1>3, Zenon
  <2>2. PICK u \in Users : users' = [users EXCEPT ![u] = {}] /\ grants' = {g \in grants : g[1] # u}
    BY <2>1, Zenon DEF DeleteUser
  <2>3. UNCHANGED <<roles, perms, maps>>
    BY <2>1, Zenon DEF DeleteUser
  <2>4. \A v \in Users : v # u => users'[v] = users[v]
    BY <1>0, <2>2, Zenon DEF AccountsOK
  <2>5. \A g \in grants' : users'[g[1]] # {}
    BY <1>0, <2>2, <2>4, TableFields, Zenon DEF TablesOK, Has
  <2>6. roles' = roles /\ perms' \subseteq perms /\ grants' \subseteq grants /\ maps' \subseteq maps
    BY <2>2, <2>3, Zenon
  <2> QED
    BY <1>0, <2>5, <2>6, RowsGo, Zenon
<1> SUFFICES ASSUME UsersStay PROVE TablesOK'
  BY <1>1, <1>3, NextAccounts, Zenon
<1>4. ASSUME UNCHANGED <<roles, perms, grants, maps>> PROVE TablesOK'
  BY <1>0, <1>4, SameTables, Zenon
<1>5. ASSUME NEW l \in Logins, \/ AuthRead(l) \/ AuthFail(l) \/ AuthSuccess(l) \/ OIDCLogin(l)
                                \/ OIDCSyncFails(l)
      PROVE  TablesOK'
  <2>1. UNCHANGED <<roles, perms, grants, maps>>
    BY <1>5, Zenon DEF AuthRead, AuthFail, AuthSuccess, OIDCLogin, OIDCSyncFails, db
  <2> QED
    BY <1>4, <2>1, Zenon
<1>6. ASSUME NEW l \in Logins, OIDCSync(l) PROVE TablesOK'
  <2>1. PICK u, gs, id : u = login[l].user /\ gs = login[l].groups /\ id = login[l].row.id
    BY Zenon
  <2>2. u \in Users
    <3>1. login[l] \in Login /\ login[l].op = "sync"
      BY <1>0, <1>6, Zenon DEF SessionsOK, OIDCSync
    <3> QED
      BY <2>1, <3>1, LoginFields, Zenon
  <2>3. UNCHANGED <<roles, perms, maps>>
    BY <1>6, Zenon DEF OIDCSync
  <2>4. CASE HasId(u, id)
    <3>1. grants' = SyncOIDCGroupRoles(u, {m[2] : m \in {n \in maps : n[1] \in gs}}) /\ users[u] # {}
      BY <1>6, <2>1, <2>4, Zenon DEF OIDCSync, HasId
    <3> QED
      BY <1>0, <2>2, <2>3, <3>1, SyncTables, Zenon
  <2>5. CASE ~HasId(u, id)
    <3>1. grants' = grants
      BY <1>6, <2>1, <2>5, Zenon DEF OIDCSync
    <3> QED
      BY <1>4, <2>3, <3>1, Zenon
  <2> QED
    BY <2>4, <2>5, Zenon
<1>7. ASSUME NEW a \in Admins, \/ CreateUser(a) \/ InsertUser(a) \/ EnableLockout(a) \/ UpdateRead(a)
                               \/ UpdateWrite(a) \/ TokenRead(a) \/ TokenWrite(a) \/ DeleteToken(a)
                               \/ PermissionCheck(a) \/ RemoveCheck(a)
      PROVE  TablesOK'
  <2>1. UNCHANGED <<roles, perms, grants, maps>>
    BY <1>7, Zenon DEF CreateUser, InsertUser, EnableLockout, UpdateRead, UpdateWrite, TokenRead,
       TokenWrite, DeleteToken, PermissionCheck, RemoveCheck, db
  <2> QED
    BY <1>4, <2>1, Zenon
<1>8. ASSUME NEW a \in Admins, AssignNewRoles(a) PROVE TablesOK'
  <2>1. PICK u, rs, id : u = call[a].user /\ rs = call[a].roles /\ id = call[a].id
    BY Zenon
  <2>2. u \in Users /\ rs \in SUBSET Roles
    <3>1. call[a] \in Call /\ call[a].op \in {"lockout", "assign"}
      BY <1>0, <1>8, Zenon DEF SessionsOK, AssignNewRoles
    <3> QED
      BY <2>1, <3>1, CallFields, Zenon
  <2>3. UNCHANGED <<roles, perms, maps>>
    BY <1>8, Zenon DEF AssignNewRoles
  <2>4. CASE HasId(u, id)
    <3>1. grants' = grants \union UNION {Assign(u, r) : r \in rs}
      BY <1>8, <2>1, <2>4, Zenon DEF AssignNewRoles
    <3> QED
      BY <1>0, <2>2, <2>3, <3>1, AssignGrants, Zenon
  <2>5. CASE ~HasId(u, id)
    <3>1. grants' = grants
      BY <1>8, <2>1, <2>5, Zenon DEF AssignNewRoles
    <3> QED
      BY <1>4, <2>3, <3>1, Zenon
  <2> QED
    BY <2>4, <2>5, Zenon
<1>9. ASSUME NEW a \in Admins, AssignRole(a) PROVE TablesOK'
  <2>1. PICK u \in Users, r \in Roles : grants' = Assign(u, r)
    BY <1>9, Zenon DEF AssignRole
  <2>2. UNCHANGED <<roles, perms, maps>>
    BY <1>9, Zenon DEF AssignRole
  <2> QED
    BY <1>0, <2>1, <2>2, AssignOne, Zenon
<1>10. ASSUME NEW a \in Admins, CreateGroupMapping(a) PROVE TablesOK'
  <2>1. PICK g \in Groups, r \in Roles :
           /\ roles[r] # {}
           /\ maps' = {m \in maps : m[1] # g} \union
                      {<<g, r, IF \E m \in maps : m[1] = g /\ m[3] = 1 THEN 1 ELSE 0>>}
    BY <1>10, Zenon DEF CreateGroupMapping
  <2>2. PICK k : k = IF \E m \in maps : m[1] = g /\ m[3] = 1 THEN 1 ELSE 0
    BY Zenon
  <2>3. k \in {0, 1} /\ maps' = {m \in maps : m[1] # g} \union {<<g, r, k>>}
    BY <2>1, <2>2, Zenon
  <2>4. UNCHANGED <<roles, perms, grants>>
    BY <1>10, Zenon DEF CreateGroupMapping
  <2> QED
    BY <1>0, <2>1, <2>3, <2>4, MappingTables, Zenon
<1>11. ASSUME NEW a \in Admins, CreateRole(a) PROVE TablesOK'
  <2>1. PICK r \in Roles : roles[r] = {} /\ roles' = [roles EXCEPT ![r] = {0}]
    BY <1>11, Zenon DEF CreateRole
  <2>2. UNCHANGED <<perms, grants, maps>>
    BY <1>11, Zenon DEF CreateRole
  <2> QED
    BY <1>0, <2>1, <2>2, RoleTables, Zenon
<1>12. ASSUME NEW a \in Admins, AddPermission(a) PROVE TablesOK'
  <2>1. PICK r, act : r = call[a].role /\ act = call[a].action
    BY Zenon
  <2>2. r \in Roles /\ act \in Actions
    <3>1. call[a] \in Call /\ call[a].op = "permission"
      BY <1>0, <1>12, Zenon DEF SessionsOK, AddPermission
    <3> QED
      BY <2>1, <3>1, CallFields, Zenon
  <2>3. UNCHANGED <<roles, grants, maps>>
    BY <1>12, Zenon DEF AddPermission
  <2>4. CASE roles[r] = {}
    <3>1. perms' = perms
      BY <1>12, <2>1, <2>4, Zenon DEF AddPermission
    <3> QED
      BY <1>4, <2>3, <3>1, Zenon
  <2>5. CASE roles[r] # {}
    <3>1. perms' = perms \union {<<r, act, 0>>}
      BY <1>12, <2>1, <2>5, Zenon DEF AddPermission
    <3> QED
      BY <1>0, <2>2, <2>3, <2>5, <3>1, PermTables, Zenon
  <2> QED
    BY <2>4, <2>5, Zenon
<1>13. ASSUME NEW a \in Admins, DeletePermission(a) \/ RemoveRole(a) \/ DeleteGroupMapping(a)
       PROVE  TablesOK'
  <2>1. /\ roles' = roles /\ perms' \subseteq perms /\ grants' \subseteq grants /\ maps' \subseteq maps
    BY <1>13, Zenon DEF DeletePermission, RemoveRole, DeleteGroupMapping
  <2>2. \A g \in grants' : users'[g[1]] # {}
    BY <1>0, <2>1, TableFields, Zenon DEF TablesOK, Has, UsersStay
  <2> QED
    BY <1>0, <2>1, <2>2, RowsGo, Zenon
<1>14. ASSUME NEW a \in Admins, DeleteRole(a) PROVE TablesOK'
  <2>1. PICK gone : gone = {call[a].role}
    BY Zenon
  <2>2. /\ roles' = [r \in Roles |-> IF r \in gone THEN {} ELSE roles[r]]
        /\ perms' = {p \in perms : p[1] \notin gone}
        /\ grants' = {g \in grants : g[2] \notin gone}
        /\ maps' = {m \in maps : m[2] \notin gone}
    BY <1>14, <2>1, Zenon DEF DeleteRole
  <2> QED
    BY <1>0, <2>2, DropTables, Zenon
<1>15. ASSUME NEW i \in Replicas, BootCount(i) \/ BootCreate(i) \/ BootRole(i) \/ Crash(i) PROVE TablesOK'
  <2>1. UNCHANGED <<roles, perms, grants, maps>>
    BY <1>15, Zenon DEF BootCount, BootCreate, BootRole, Crash, db
  <2> QED
    BY <1>4, <2>1, Zenon
<1>16. Administrator \in Roles /\ Root \in Users /\ "admin" \in Actions
  BY ConstantsAssumption, Zenon DEF Actions
<1>17. ASSUME NEW i \in Replicas, BootCreateRole(i) PROVE TablesOK'
  <2>1. UNCHANGED <<perms, grants, maps>>
    BY <1>17, Zenon DEF BootCreateRole
  <2>2. \/ roles[Administrator] = {} /\ roles' = [roles EXCEPT ![Administrator] = {0}]
        \/ roles' = roles
    BY <1>17, Zenon DEF BootCreateRole
  <2> QED
    BY <1>0, <1>4, <1>16, <2>1, <2>2, RoleTables, Zenon
<1>18. ASSUME NEW i \in Replicas, BootPermission(i) PROVE TablesOK'
  <2>1. UNCHANGED <<roles, grants, maps>>
    BY <1>18, Zenon DEF BootPermission
  <2>2. \/ roles[Administrator] # {} /\ perms' = perms \union {<<Administrator, "admin", 0>>}
        \/ perms' = perms
    BY <1>18, Zenon DEF BootPermission
  <2> QED
    BY <1>0, <1>4, <1>16, <2>1, <2>2, PermTables, Zenon
<1>19. ASSUME NEW i \in Replicas, BootAssign(i) PROVE TablesOK'
  <2>1. UNCHANGED <<roles, perms, maps>>
    BY <1>19, Zenon DEF BootAssign
  <2>2. grants' = Assign(Root, Administrator) \/ grants' = grants
    BY <1>19, Zenon DEF BootAssign, BootGrants
  <2> QED
    BY <1>0, <1>4, <1>16, <2>1, <2>2, AssignOne, Zenon
<1>20. ASSUME NEW i \in Replicas, BootReconcile(i) PROVE TablesOK'
  <2>1. PICK d : d = PolicyOf[policy]
    BY Zenon
  <2>2. Proper(d)
    BY <1>0, <2>1, Mounted, Zenon
  <2>3. UNCHANGED <<roles, perms, grants, maps>> \/ (~Dangling(d) /\ ApplyManagedRBAC(d))
    BY <1>20, <2>1, Zenon DEF BootReconcile, db
  <2> QED
    BY <1>0, <1>4, <2>2, <2>3, ApplyTables, Zenon
<1>21. ASSUME ChangePolicy PROVE TablesOK'
  <2>1. UNCHANGED <<roles, perms, grants, maps>>
    BY <1>21, Zenon DEF ChangePolicy, db
  <2> QED
    BY <1>4, <2>1, Zenon
<1>22. ASSUME NEW a \in Admins, Administer(a) PROVE TablesOK'
  BY <1>3, <1>7, <1>8, <1>9, <1>10, <1>11, <1>12, <1>13, <1>14, <1>22, Zenon DEF Administer
<1>23. ASSUME NEW i \in Replicas, Boot(i) \/ Crash(i) PROVE TablesOK'
  BY <1>15, <1>17, <1>18, <1>19, <1>20, <1>23, Zenon DEF Boot
<1> QED
  BY <1>5, <1>6, <1>21, <1>22, <1>23, Zenon DEF Next

\* Every step keeps an owner for each token: DeleteUser cascades, and a token is stored
\* only while its owner's row is there.
LEMMA NextTokens ==
    ASSUME AccessInv, Next
    PROVE  TokensOK'
<1>0. AccountsOK /\ TokensOK /\ SessionsOK
  BY Zenon DEF AccessInv
<1>1. ASSUME AccountsStep, tokens' \subseteq tokens PROVE TokensOK'
  BY <1>0, <1>1, IdsStay, Zenon DEF TokensOK
<1>2. ASSUME NEW a \in Admins, DeleteUser(a) PROVE TokensOK'
  <2>1. PICK u \in Users : Has(u) /\ users' = [users EXCEPT ![u] = {}] /\ tokens' = tokens \ {Row(u).id}
    BY <1>2, Zenon DEF DeleteUser, OwnedAfter
  <2>2. PICK r \in users[u] : TRUE
    BY <2>1, Zenon DEF Has
  <2>3. Row(u) = r /\ users[u] = {r}
    BY <1>0, <2>2, RowOf, Zenon
  <2>4. \A v \in Users : v # u => users'[v] = users[v]
    BY <1>0, <2>1, Zenon DEF AccountsOK
  <2>5. ASSUME NEW t \in tokens' PROVE t \in Nat /\ \E v \in Users : HasId(v, t)'
    <3>1. t \in tokens /\ t # r.id /\ t \in Nat
      BY <1>0, <2>1, <2>3, Zenon DEF TokensOK
    <3>2. PICK v \in Users : HasId(v, t)
      BY <1>0, <3>1, Zenon DEF TokensOK
    <3>3. v # u
      <4>1. PICK s \in users[v] : s.id = t
        BY <3>2, Zenon DEF HasId
      <4>2. ASSUME v = u PROVE s = r
        BY <2>3, <4>2, Zenon
      <4> QED
        BY <3>1, <4>1, <4>2, Zenon
    <3> QED
      BY <2>4, <3>1, <3>2, <3>3, Zenon DEF HasId
  <2> QED
    BY <2>5, Zenon DEF TokensOK
<1>3. ASSUME NEW a \in Admins, TokenWrite(a) PROVE TokensOK'
  <2>1. PICK u, id : u = call[a].user /\ id = call[a].id
    BY Zenon
  <2>2. u \in Users /\ id \in Nat
    <3>1. call[a] \in Call /\ call[a].op = "token"
      BY <1>0, <1>3, Zenon DEF SessionsOK, TokenWrite
    <3> QED
      BY <2>1, <3>1, CallFields, Zenon
  <2>3. users' = users /\ tokens' = IF HasId(u, id) THEN tokens \union {id} ELSE tokens
    BY <1>3, <2>1, Zenon DEF TokenWrite
  <2> QED
    BY <1>0, <2>2, <2>3, Zenon DEF TokensOK, HasId
<1>4. ASSUME NEW l \in Logins, \/ AuthRead(l) \/ AuthFail(l) \/ AuthSuccess(l) \/ OIDCLogin(l)
                               \/ OIDCSync(l) \/ OIDCSyncFails(l)
      PROVE  tokens' = tokens
  BY <1>4, Zenon DEF AuthRead, AuthFail, AuthSuccess, OIDCLogin, OIDCSync, OIDCSyncFails, db
<1>5. ASSUME NEW a \in Admins, \/ CreateUser(a) \/ InsertUser(a) \/ EnableLockout(a) \/ AssignNewRoles(a)
                               \/ UpdateRead(a) \/ UpdateWrite(a) \/ TokenRead(a) \/ DeleteToken(a)
                               \/ AssignRole(a) \/ CreateGroupMapping(a)
      PROVE  tokens' \subseteq tokens
  BY <1>5, Zenon DEF CreateUser, InsertUser, EnableLockout, AssignNewRoles, UpdateRead, UpdateWrite,
     TokenRead, DeleteToken, AssignRole, CreateGroupMapping, db
<1>6. ASSUME NEW a \in Admins, \/ CreateRole(a) \/ PermissionCheck(a) \/ AddPermission(a)
                               \/ DeletePermission(a) \/ RemoveCheck(a) \/ RemoveRole(a)
                               \/ DeleteRole(a) \/ DeleteGroupMapping(a)
      PROVE  tokens' \subseteq tokens
  BY <1>6, Zenon DEF CreateRole, PermissionCheck, AddPermission, DeletePermission, RemoveCheck,
     RemoveRole, DeleteRole, DeleteGroupMapping, db
<1>7. ASSUME NEW i \in Replicas, Boot(i) \/ Crash(i) PROVE tokens' = tokens
  <2>1. CASE BootReconcile(i)
    BY <2>1, Zenon DEF BootReconcile, ApplyManagedRBAC, db
  <2>2. CASE BootCount(i) \/ BootCreate(i) \/ BootRole(i) \/ BootCreateRole(i)
    BY <2>2, Zenon DEF BootCount, BootCreate, BootRole, BootCreateRole, db
  <2>3. CASE BootPermission(i) \/ BootAssign(i) \/ Crash(i)
    BY <2>3, Zenon DEF BootPermission, BootAssign, Crash, db
  <2> QED
    BY <1>7, <2>1, <2>2, <2>3, Zenon DEF Boot
<1>8. ASSUME ChangePolicy PROVE tokens' = tokens
  BY <1>8, Zenon DEF ChangePolicy, db
<1>9. ASSUME NEW a \in Admins, Administer(a)
      PROVE  tokens' \subseteq tokens \/ DeleteUser(a) \/ TokenWrite(a)
  BY <1>5, <1>6, <1>9, Zenon DEF Administer
<1>10. tokens' \subseteq tokens \/ \E a \in Admins : DeleteUser(a) \/ TokenWrite(a)
  BY <1>4, <1>7, <1>8, <1>9, Zenon DEF Next
<1> QED
  BY <1>1, <1>2, <1>3, <1>10, NextAccounts, Zenon

-----------------------------------------------------------------------------
(* Logins, calls and the rest.                                              *)

\* Logins under way; one that is checking a password has read an unlocked row.
LoginsOK ==
    login \in [Logins -> Login] /\ \A l \in Logins : login[l].op = "verify" => ~login[l].row.locked
\* Calls under way.
CallsOK == call \in [Admins -> Call]

\* A login that ends or goes on with what it may have read is LoginsOK.
LEMMA LoginGoes ==
    ASSUME LoginsOK, NEW l \in Logins, NEW x \in Login, x.op = "verify" => ~x.row.locked,
           login' = [login EXCEPT ![l] = x]
    PROVE  LoginsOK'
BY Zenon DEF LoginsOK

\* Idle is a login and a call, and nothing is under way in it.
LEMMA IdleFits == Idle \in Login /\ Idle \in Call /\ Idle.op = "idle" /\ Idle.op # "verify"
BY Zenon DEF Login, Call, Idle

\* A call that goes on with something of type Call is CallsOK.
LEMMA CallGoes ==
    ASSUME CallsOK, NEW a \in Admins, NEW x \in Call, Continue(a, x)
    PROVE  CallsOK'
BY Zenon DEF CallsOK, Continue

\* The calls whose rest is changed in place: createUser before the insert,
NewUserCall == [op : {"insert"}, user : Users, roles : SUBSET Roles]
\* createUser after it,
NewRolesCall == [op : {"lockout", "assign"}, user : Users, roles : SUBSET Roles, id : Nat]
\* and updateUser.
UpdateCall == [op : {"update"}, actor : Users, user : Users, id : Nat,
               source : {"local", "oidc"}, todo : Seq(Changes) \ {<<>>}]

\* A call with one of these operations has that shape.
LEMMA CallShape ==
    ASSUME NEW c \in Call
    PROVE  /\ c.op = "insert" => c \in NewUserCall
           /\ c.op \in {"lockout", "assign"} => c \in NewRolesCall
           /\ c.op = "update" => c \in UpdateCall
<1>1. \/ c \in NewUserCall \/ c \in NewRolesCall \/ c \in UpdateCall \/ c.op = "idle"
      \/ c.op = "token" \/ c.op = "permission" \/ c.op = "remove" \/ c.op = "drop" \/ c.op = "unmap"
  <2>1. CASE c = Idle
    BY <2>1, Zenon DEF Idle
  <2>2. CASE c \in [op : {"token"}, user : Users, id : Nat]
    BY <2>2, Zenon
  <2>3. CASE c \in [op : {"permission"}, role : Roles, action : Actions]
    BY <2>3, Zenon
  <2>4. CASE c \in [op : {"remove"}, user : Users, id : Nat, role : Roles]
    BY <2>4, Zenon
  <2>5. CASE c \in [op : {"drop"}, role : Roles] \union [op : {"unmap"}, group : Groups]
    BY <2>5, Zenon
  <2> QED
    BY <2>1, <2>2, <2>3, <2>4, <2>5, Zenon DEF Call, NewUserCall, NewRolesCall, UpdateCall
<1>2. /\ c \in NewUserCall => c.op = "insert"
      /\ c \in NewRolesCall => c.op \in {"lockout", "assign"}
      /\ c \in UpdateCall => c.op = "update"
  BY Zenon DEF NewUserCall, NewRolesCall, UpdateCall
<1> QED
  BY <1>1, <1>2, Zenon

\* These shapes are calls.
LEMMA CallKinds == NewUserCall \subseteq Call /\ NewRolesCall \subseteq Call /\ UpdateCall \subseteq Call
BY Zenon DEF Call, NewUserCall, NewRolesCall, UpdateCall

\* When roles and mappings go, the calls that hold their ids forget them and stay calls.
LEMMA Forgets ==
    ASSUME CallsOK, NEW rs, NEW gs, call' = Forget(rs, gs)
    PROVE  CallsOK'
<1> SUFFICES ASSUME NEW b \in Admins PROVE call'[b] \in Call
  BY Zenon DEF CallsOK, Forget
<1>1. PICK c : c = call[b]
  BY Zenon
<1>2. c \in Call
  BY <1>1, Zenon DEF CallsOK
<1>3. \/ call'[b] = Idle \/ call'[b] = c
      \/ c.op \in {"insert", "lockout", "assign"} /\ call'[b] = [c EXCEPT !.roles = @ \ rs]
  BY <1>1, Zenon DEF Forget
<1>4. ASSUME c.op = "insert" PROVE [c EXCEPT !.roles = @ \ rs] \in Call
  <2>1. c \in NewUserCall
    BY <1>2, <1>4, CallShape, Zenon
  <2>2. [c EXCEPT !.roles = @ \ rs] \in NewUserCall
    BY <2>1, Zenon DEF NewUserCall
  <2> QED
    BY <2>2, CallKinds, Zenon
<1>5. ASSUME c.op \in {"lockout", "assign"} PROVE [c EXCEPT !.roles = @ \ rs] \in Call
  <2>1. c \in NewRolesCall
    BY <1>2, <1>5, CallShape, Zenon
  <2>2. [c EXCEPT !.roles = @ \ rs] \in NewRolesCall
    BY <2>1, Zenon DEF NewRolesCall
  <2> QED
    BY <2>2, CallKinds, Zenon
<1> QED
  BY <1>2, <1>3, <1>4, <1>5, IdleFits, Zenon

\* The row that a handler reads: its types, and that the bootstrap administrator's is unlocked.
LEMMA RowFields ==
    ASSUME AccountsOK, NEW u \in Users, users[u] # {}
    PROVE  /\ Row(u) \in Account /\ Row(u).id \in Nat /\ Row(u).source \in {"local", "oidc"}
           /\ u = Root => ~Row(u).locked
<1>1. PICK r \in users[u] : TRUE
  OBVIOUS
<1>2. Row(u) = r /\ r \in Account /\ Sane(u, r)
  BY RowOf, RowsSane, Zenon
<1>3. r.id \in Nat /\ r.source \in {"local", "oidc"}
  BY <1>2, AccountFields, Zenon
<1> QED
  BY <1>2, <1>3, Zenon DEF Sane

\* The steps of AuthenticateLocal and HandleCallback keep what logins have read well-typed,
\* and a password is only checked against a row read unlocked.
LEMMA LoginSteps ==
    ASSUME AccountsOK, AccountsOK', LoginsOK, NEW l \in Logins,
           \/ AuthRead(l) \/ AuthFail(l) \/ AuthSuccess(l) \/ OIDCLogin(l)
           \/ OIDCSync(l) \/ OIDCSyncFails(l)
    PROVE  LoginsOK' /\ call' = call
<1>1. CASE AuthRead(l)
  <2>1. PICK u \in Users :
          /\ users[u] # {} /\ (~Row(u).locked \/ u = Root)
          /\ login' = [login EXCEPT ![l] = [op |-> "verify", user |-> u, row |-> Row(u)]]
    BY <1>1, Zenon DEF AuthRead, Has, IsProtectedAdmin
  <2>2. PICK x : x = [op |-> "verify", user |-> u, row |-> Row(u)]
    BY Zenon
  <2>3. Row(u) \in Account /\ ~Row(u).locked
    BY <2>1, RowFields, Zenon
  <2>4. x \in Login /\ ~x.row.locked
    BY <2>2, <2>3, Zenon DEF Login
  <2>5. login' = [login EXCEPT ![l] = x] /\ call' = call
    BY <1>1, <2>1, <2>2, Zenon DEF AuthRead
  <2> QED
    BY <2>4, <2>5, LoginGoes, Zenon
<1>2. CASE OIDCLogin(l)
  <2>1. PICK u \in Users, gs \in SUBSET Groups :
          /\ users' = IF Has(u) THEN users ELSE [users EXCEPT ![u] = {NewRow(nextId, "oidc")}]
          /\ login' = [login EXCEPT ![l] = [op |-> "sync", user |-> u, groups |-> gs, row |-> Row(u)']]
    BY <1>2, Zenon DEF OIDCLogin
  <2>2. users'[u] # {}
    BY <2>1, Zenon DEF Has, AccountsOK
  <2>3. Row(u)' \in Account
    BY <2>2, Zenon DEF Row, AccountsOK
  <2>4. PICK x : x = [op |-> "sync", user |-> u, groups |-> gs, row |-> Row(u)']
    BY Zenon
  <2>5. x \in Login /\ x.op = "sync"
    BY <2>3, <2>4, Zenon DEF Login
  <2>6. login' = [login EXCEPT ![l] = x] /\ call' = call
    BY <1>2, <2>1, <2>4, Zenon DEF OIDCLogin
  <2> QED
    BY <2>5, <2>6, LoginGoes, Zenon
<1>3. CASE AuthFail(l) \/ AuthSuccess(l) \/ OIDCSync(l) \/ OIDCSyncFails(l)
  <2>1. login' = [login EXCEPT ![l] = Idle] /\ call' = call
    BY <1>3, Zenon DEF AuthFail, AuthSuccess, OIDCSync, OIDCSyncFails
  <2> QED
    BY <2>1, LoginGoes, IdleFits, Zenon
<1> QED
  BY <1>1, <1>2, <1>3, Zenon

\* The steps of the administration calls keep what the calls carry well-typed.
LEMMA CallSteps ==
    ASSUME AccountsOK, TablesOK, CallsOK, NEW a \in Admins, Administer(a)
    PROVE  CallsOK' /\ login' = login
<1>0. call[a] \in Call
  BY Zenon DEF CallsOK
<1>1. ASSUME NEW x \in Call, Continue(a, x) PROVE CallsOK'
  BY <1>1, CallGoes, Zenon
<1>2. CASE CreateUser(a)
  <2>1. PICK u \in Users, rs \in SUBSET Roles : Continue(a, [op |-> "insert", user |-> u, roles |-> rs])
    BY <1>2, Zenon DEF CreateUser
  <2>2. PICK x : x = [op |-> "insert", user |-> u, roles |-> rs]
    BY Zenon
  <2>3. x \in NewUserCall /\ Continue(a, x) /\ login' = login
    BY <1>2, <2>1, <2>2, Zenon DEF CreateUser, NewUserCall
  <2> QED
    BY <1>1, <2>3, CallKinds, Zenon
<1>3. CASE InsertUser(a)
  <2>1. PICK u, rs : u = call[a].user /\ rs = call[a].roles
    BY Zenon
  <2>2. u \in Users /\ rs \in SUBSET Roles
    <3>1. call[a].op = "insert"
      BY <1>3, Zenon DEF InsertUser
    <3> QED
      BY <1>0, <2>1, <3>1, CallFields, Zenon
  <2>3. PICK x : x = [op |-> "lockout", user |-> u, roles |-> rs, id |-> nextId]
    BY Zenon
  <2>4. x \in NewRolesCall
    BY <2>2, <2>3, Zenon DEF AccountsOK, NewRolesCall
  <2>5. (Continue(a, Idle) \/ Continue(a, x)) /\ login' = login
    BY <1>3, <2>1, <2>3, Zenon DEF InsertUser
  <2> QED
    BY <1>1, <2>4, <2>5, CallKinds, IdleFits, Zenon
<1>4. CASE EnableLockout(a)
  <2>1. PICK c : c = call[a]
    BY Zenon
  <2>2. c \in NewRolesCall
    <3>1. c.op = "lockout"
      BY <1>4, <2>1, Zenon DEF EnableLockout
    <3> QED
      BY <1>0, <2>1, <3>1, CallShape, Zenon
  <2>3. PICK x : x = [c EXCEPT !.op = "assign"]
    BY Zenon
  <2>4. x \in NewRolesCall
    BY <2>2, <2>3, Zenon DEF NewRolesCall
  <2>5. (Continue(a, Idle) \/ Continue(a, x)) /\ login' = login
    BY <1>4, <2>1, <2>3, Zenon DEF EnableLockout
  <2> QED
    BY <1>1, <2>4, <2>5, CallKinds, IdleFits, Zenon
<1>5. CASE UpdateRead(a)
  <2>1. PICK actor \in Users, u \in Users, todo \in Requests :
           /\ Has(u)
           /\ Continue(a, [op |-> "update", actor |-> actor, user |-> u, id |-> Row(u).id,
                           source |-> Row(u).source, todo |-> todo])
    BY <1>5, Zenon DEF UpdateRead
  <2>2. PICK x : x = [op |-> "update", actor |-> actor, user |-> u, id |-> Row(u).id,
                      source |-> Row(u).source, todo |-> todo]
    BY Zenon
  <2>3. Row(u).id \in Nat /\ Row(u).source \in {"local", "oidc"}
    BY <2>1, RowFields, Zenon DEF Has
  <2>4. todo \in Seq(Changes) \ {<<>>}
    BY ConstantsAssumption, Zenon
  <2>5. x \in UpdateCall /\ Continue(a, x)
    BY <2>1, <2>2, <2>3, <2>4, Zenon DEF UpdateCall
  <2>6. login' = login
    BY <1>5, Zenon DEF UpdateRead
  <2> QED
    BY <1>1, <2>5, <2>6, CallKinds, Zenon
<1>6. CASE UpdateWrite(a)
  <2>1. PICK c, t, x : c = call[a] /\ t = c.todo /\ x = [c EXCEPT !.todo = Tail(@)]
    BY Zenon
  <2>2. c \in UpdateCall
    <3>1. c.op = "update"
      BY <1>6, <2>1, Zenon DEF UpdateWrite
    <3> QED
      BY <1>0, <2>1, <3>1, CallShape, Zenon
  <2>3. t \in Seq(Changes) /\ t # <<>>
    BY <2>1, <2>2, Zenon DEF UpdateCall
  <2>4. (Continue(a, Idle) \/ (Len(t) # 1 /\ Continue(a, x))) /\ login' = login
    BY <1>6, <2>1, Zenon DEF UpdateWrite
  <2>5. ASSUME Len(t) # 1 PROVE x \in Call
    <3>1. Tail(t) \in Seq(Changes) /\ Tail(t) # <<>>
      <4>1. Tail(t) \in Seq(Changes) /\ Len(Tail(t)) = Len(t) - 1 /\ Len(t) \in Nat /\ Len(t) # 0
        BY <2>3
      <4>2. Len(Tail(t)) # 0
        BY <2>5, <4>1
      <4>3. Len(<<>>) = 0
        OBVIOUS
      <4> QED
        BY <4>1, <4>2, <4>3, Zenon
    <3>2. x \in UpdateCall
      BY <2>1, <2>2, <3>1, Zenon DEF UpdateCall
    <3> QED
      BY <3>2, CallKinds, Zenon
  <2> QED
    BY <1>1, <2>4, <2>5, IdleFits, Zenon
<1>7. CASE TokenRead(a)
  <2>1. PICK u \in Users : users[u] # {} /\ Continue(a, [op |-> "token", user |-> u, id |-> Row(u).id])
    BY <1>7, Zenon DEF TokenRead, Has
  <2>2. PICK x : x = [op |-> "token", user |-> u, id |-> Row(u).id]
    BY Zenon
  <2>3. Row(u).id \in Nat
    BY <2>1, RowFields, Zenon
  <2>4. x \in [op : {"token"}, user : Users, id : Nat] /\ Continue(a, x)
    BY <2>1, <2>2, <2>3, Zenon
  <2>5. x \in Call
    BY <2>4, Zenon DEF Call
  <2>6. login' = login
    BY <1>7, Zenon DEF TokenRead
  <2> QED
    BY <1>1, <2>4, <2>5, <2>6, Zenon
<1>8. CASE CreateRole(a) \/ PermissionCheck(a)
  <2>1. PICK r \in Roles, act \in Actions : Continue(a, [op |-> "permission", role |-> r, action |-> act])
    BY <1>8, Zenon DEF CreateRole, PermissionCheck
  <2>2. PICK x : x = [op |-> "permission", role |-> r, action |-> act]
    BY Zenon
  <2>3. x \in [op : {"permission"}, role : Roles, action : Actions] /\ Continue(a, x)
    BY <2>1, <2>2, Zenon
  <2>4. x \in Call
    BY <2>3, Zenon DEF Call
  <2>5. login' = login
    BY <1>8, Zenon DEF CreateRole, PermissionCheck
  <2> QED
    BY <1>1, <2>3, <2>4, <2>5, Zenon
<1>9. CASE RemoveCheck(a)
  <2>0. login' = login
    BY <1>9, Zenon DEF RemoveCheck
  <2>1. ASSUME NEW g \in grants,
               Continue(a, [op |-> "remove", user |-> g[1], id |-> Row(g[1]).id, role |-> g[2]])
        PROVE  CallsOK'
    <3>1. PICK u, r : u = g[1] /\ r = g[2]
      BY Zenon
    <3>2. u \in Users /\ r \in Roles /\ users[u] # {}
      BY <3>1, TableFields, Zenon DEF TablesOK, Has
    <3>3. Row(u).id \in Nat
      BY <3>2, RowFields, Zenon
    <3>4. PICK x : x = [op |-> "remove", user |-> u, id |-> Row(u).id, role |-> r]
      BY Zenon
    <3>5. x \in [op : {"remove"}, user : Users, id : Nat, role : Roles]
      BY <3>2, <3>3, <3>4, Zenon
    <3>6. x \in Call /\ Continue(a, x)
      BY <2>1, <3>1, <3>4, <3>5, Zenon DEF Call
    <3> QED
      BY <1>1, <3>6, Zenon
  <2>2. ASSUME NEW r \in Roles, Continue(a, [op |-> "drop", role |-> r]) PROVE CallsOK'
    <3>1. [op |-> "drop", role |-> r] \in Call
      BY Zenon DEF Call
    <3> QED
      BY <1>1, <2>2, <3>1, Zenon
  <2>3. ASSUME NEW m \in maps, Continue(a, [op |-> "unmap", group |-> m[1]]) PROVE CallsOK'
    <3>1. m[1] \in Groups
      BY TableFields, Zenon
    <3>2. [op |-> "unmap", group |-> m[1]] \in Call
      BY <3>1, Zenon DEF Call
    <3> QED
      BY <1>1, <2>3, <3>2, Zenon
  <2> QED
    BY <1>9, <2>0, <2>1, <2>2, <2>3, Zenon DEF RemoveCheck
<1>10. CASE \/ AssignNewRoles(a) \/ TokenWrite(a) \/ AddPermission(a) \/ RemoveRole(a)
  <2>1. Continue(a, Idle) /\ login' = login
    BY <1>10, Zenon DEF AssignNewRoles, TokenWrite, AddPermission, RemoveRole
  <2> QED
    BY <1>1, <2>1, IdleFits, Zenon
<1>11. CASE \/ DeleteUser(a) \/ DeleteToken(a) \/ AssignRole(a) \/ CreateGroupMapping(a)
            \/ DeletePermission(a)
  <2>1. call' = call /\ login' = login
    BY <1>11, Zenon DEF DeleteUser, DeleteToken, AssignRole, CreateGroupMapping, DeletePermission
  <2> QED
    BY <2>1, Zenon DEF CallsOK
<1>12. CASE DeleteRole(a) \/ DeleteGroupMapping(a)
  <2>1. \E rs, gs : call' = Forget(rs, gs)
    BY <1>12, Zenon DEF DeleteRole, DeleteGroupMapping
  <2>2. login' = login
    BY <1>12, Zenon DEF DeleteRole, DeleteGroupMapping
  <2> QED
    BY <2>1, <2>2, Forgets, Zenon
<1> QED
  BY <1>2, <1>3, <1>4, <1>5, <1>6, <1>7, <1>8, <1>9, <1>10, <1>11, <1>12, ZenonT(40) DEF Administer

\* Every step keeps logins and calls under way as they must be.
LEMMA NextSessions ==
    ASSUME AccessInv, AccountsOK', Next
    PROVE  SessionsOK'
<1>0. AccountsOK /\ TablesOK /\ LoginsOK /\ CallsOK
  BY Zenon DEF AccessInv, SessionsOK, LoginsOK, CallsOK
<1>1. ASSUME call' = call PROVE CallsOK'
  BY <1>0, <1>1, Zenon DEF CallsOK
<1>2. ASSUME login' = login PROVE LoginsOK'
  BY <1>0, <1>2, Zenon DEF LoginsOK
<1>3. ASSUME NEW i \in Replicas, Boot(i) PROVE LoginsOK' /\ CallsOK'
  <2>1. CASE BootReconcile(i)
    <3>1. login' = login /\ (call' = call \/ \E rs, gs : call' = Forget(rs, gs))
      BY <2>1, Zenon DEF BootReconcile, ApplyManagedRBAC
    <3> QED
      BY <1>0, <1>1, <1>2, <3>1, Forgets, Zenon
  <2>2. CASE \/ BootCount(i) \/ BootCreate(i) \/ BootRole(i) \/ BootCreateRole(i)
             \/ BootPermission(i) \/ BootAssign(i)
    <3>1. login' = login /\ call' = call
      BY <2>2, Zenon DEF BootCount, BootCreate, BootRole, BootCreateRole, BootPermission, BootAssign
    <3> QED
      BY <1>1, <1>2, <3>1, Zenon
  <2> QED
    BY <1>3, <2>1, <2>2, Zenon DEF Boot
<1>4. ASSUME NEW i \in Replicas, Crash(i) PROVE LoginsOK' /\ CallsOK'
  <2>1. CASE login' = [l \in Logins |-> Idle] /\ call' = [a \in Admins |-> Idle]
    BY <2>1, IdleFits, Zenon DEF LoginsOK, CallsOK
  <2> QED
    BY <1>1, <1>2, <1>4, <2>1, Zenon DEF Crash
<1>5. ASSUME ChangePolicy PROVE LoginsOK' /\ CallsOK'
  BY <1>1, <1>2, <1>5, Zenon DEF ChangePolicy
<1>6. LoginsOK' /\ CallsOK'
  BY <1>0, <1>1, <1>2, <1>3, <1>4, <1>5, LoginSteps, CallSteps, Zenon DEF Next
<1> QED
  BY <1>6, Zenon DEF SessionsOK, LoginsOK, CallsOK

\* External keeps work within MaxWork.
LEMMA WorkStep ==
    ASSUME RestOK, work' = work \/ External
    PROVE  work' \in 0..MaxWork
<1>1. work \in 0..MaxWork /\ MaxWork \in Nat
  BY ConstantsAssumption, Zenon DEF RestOK
<1>2. work' = work \/ (work < MaxWork /\ work' = work + 1)
  BY Zenon DEF External
<1> QED
  BY <1>1, <1>2

\* Causes are added, never removed.
LEMMA CauseStep ==
    ASSUME RestOK, NEW C \in SUBSET Causes, excused' = excused \union C \/ excused' = excused
    PROVE  excused' \subseteq Causes /\ excused \subseteq excused'
BY Zenon DEF RestOK

\* Every step keeps policy, applied, boot, work and excused well-typed, and forgets no cause.
LEMMA NextRest ==
    ASSUME AccessInv, Next
    PROVE  RestOK' /\ excused \subseteq excused'
<1>0. /\ RestOK
      /\ Causes = {"late success", "revoked", "stale check", "bootstrapped", "interrupted", "withdrawn"}
  BY Zenon DEF AccessInv, Causes
<1>1. ASSUME boot' = boot \/ \E i \in Replicas, pc \in BootPcs : boot' = [boot EXCEPT ![i] = pc],
             policy' \in Policies, applied' \subseteq Policies, work' \in 0..MaxWork,
             excused' \subseteq Causes /\ excused \subseteq excused'
      PROVE  RestOK' /\ excused \subseteq excused'
  <2>1. boot' \in [Replicas -> BootPcs]
    BY <1>0, <1>1, Zenon DEF RestOK
  <2> QED
    BY <1>1, <2>1, Zenon DEF RestOK
<1>2. policy \in Policies /\ applied \subseteq Policies
  BY <1>0, Zenon DEF RestOK
<1>3. ASSUME UNCHANGED <<boot, policy, applied>>, work' \in 0..MaxWork,
             excused' \subseteq Causes /\ excused \subseteq excused'
      PROVE  RestOK' /\ excused \subseteq excused'
  BY <1>1, <1>2, <1>3, Zenon
<1>4. ASSUME NEW l \in Logins, \/ AuthRead(l) \/ AuthFail(l) \/ AuthSuccess(l) \/ OIDCLogin(l)
                               \/ OIDCSync(l) \/ OIDCSyncFails(l)
      PROVE  RestOK' /\ excused \subseteq excused'
  <2>1. UNCHANGED <<boot, policy, applied>> /\ (work' = work \/ External)
    BY <1>4, Zenon DEF AuthRead, AuthFail, AuthSuccess, OIDCLogin, OIDCSync, OIDCSyncFails
  <2>2. \/ excused' = excused \/ excused' = excused \union {"late success"}
        \/ excused' = excused \union {"withdrawn"}
    BY <1>4, Zenon DEF AuthRead, AuthFail, AuthSuccess, OIDCLogin, OIDCSync, OIDCSyncFails
  <2>3. excused' \subseteq Causes /\ excused \subseteq excused'
    BY <1>0, <2>2, CauseStep, Zenon
  <2>4. work' \in 0..MaxWork
    BY <1>0, <2>1, WorkStep, Zenon
  <2> QED
    BY <1>3, <2>1, <2>3, <2>4, Zenon
<1>5. ASSUME NEW a \in Admins, \/ CreateUser(a) \/ InsertUser(a) \/ EnableLockout(a) \/ AssignNewRoles(a)
                               \/ UpdateRead(a) \/ UpdateWrite(a) \/ DeleteUser(a) \/ TokenRead(a)
                               \/ TokenWrite(a) \/ DeleteToken(a)
      PROVE  UNCHANGED <<boot, policy, applied>> /\ (work' = work \/ External)
  <2>1. CASE CreateUser(a) \/ UpdateRead(a) \/ DeleteUser(a)
    BY <2>1, Zenon DEF CreateUser, UpdateRead, DeleteUser, May
  <2>2. CASE \/ InsertUser(a) \/ EnableLockout(a) \/ AssignNewRoles(a) \/ UpdateWrite(a) \/ TokenRead(a)
             \/ TokenWrite(a) \/ DeleteToken(a)
    BY <2>2, Zenon DEF InsertUser, EnableLockout, AssignNewRoles, UpdateWrite, TokenRead, TokenWrite,
       DeleteToken
  <2> QED
    BY <1>5, <2>1, <2>2, Zenon
<1>6. ASSUME NEW a \in Admins, \/ AssignRole(a) \/ CreateGroupMapping(a) \/ CreateRole(a)
                               \/ PermissionCheck(a) \/ AddPermission(a) \/ DeletePermission(a)
                               \/ RemoveCheck(a) \/ RemoveRole(a) \/ DeleteRole(a)
                               \/ DeleteGroupMapping(a)
      PROVE  UNCHANGED <<boot, policy, applied>> /\ (work' = work \/ External)
  <2>1. CASE \/ AssignRole(a) \/ CreateGroupMapping(a) \/ CreateRole(a) \/ PermissionCheck(a)
             \/ DeletePermission(a) \/ RemoveCheck(a)
    BY <2>1, Zenon DEF AssignRole, CreateGroupMapping, CreateRole, PermissionCheck, DeletePermission,
       RemoveCheck, May
  <2>2. CASE AddPermission(a) \/ RemoveRole(a) \/ DeleteRole(a) \/ DeleteGroupMapping(a)
    BY <2>2, Zenon DEF AddPermission, RemoveRole, DeleteRole, DeleteGroupMapping
  <2> QED
    BY <1>6, <2>1, <2>2, Zenon
<1>7. ASSUME NEW a \in Admins, \/ CreateUser(a) \/ InsertUser(a) \/ EnableLockout(a) \/ AssignNewRoles(a)
                               \/ UpdateRead(a) \/ UpdateWrite(a) \/ TokenRead(a) \/ TokenWrite(a)
                               \/ DeleteToken(a) \/ AssignRole(a) \/ CreateGroupMapping(a)
                               \/ CreateRole(a) \/ PermissionCheck(a) \/ AddPermission(a)
                               \/ RemoveCheck(a)
      PROVE  excused' = excused
  BY <1>7, Zenon DEF CreateUser, InsertUser, EnableLockout, AssignNewRoles, UpdateRead, UpdateWrite,
     TokenRead, TokenWrite, DeleteToken, AssignRole, CreateGroupMapping, CreateRole, PermissionCheck,
     AddPermission, RemoveCheck
<1>8. ASSUME NEW a \in Admins, \/ DeleteUser(a) \/ DeletePermission(a) \/ RemoveRole(a) \/ DeleteRole(a)
                               \/ DeleteGroupMapping(a)
      PROVE  excused' = excused \union {"revoked"} \/ excused' = excused \union {"stale check", "revoked"}
  BY <1>8, Zenon DEF DeleteUser, DeletePermission, RemoveRole, DeleteRole, DeleteGroupMapping, Late
<1>9. ASSUME NEW a \in Admins, Administer(a) PROVE RestOK' /\ excused \subseteq excused'
  <2>1. UNCHANGED <<boot, policy, applied>> /\ (work' = work \/ External)
    BY <1>5, <1>6, <1>9, Zenon DEF Administer
  <2>2. \/ excused' = excused \/ excused' = excused \union {"revoked"}
        \/ excused' = excused \union {"stale check", "revoked"}
    BY <1>7, <1>8, <1>9, Zenon DEF Administer
  <2>3. excused' \subseteq Causes /\ excused \subseteq excused'
    BY <1>0, <2>2, CauseStep, Zenon
  <2>4. work' \in 0..MaxWork
    BY <1>0, <2>1, WorkStep, Zenon
  <2> QED
    BY <1>3, <2>1, <2>3, <2>4, Zenon
<1>10. ASSUME NEW i \in Replicas, Boot(i) \/ Crash(i) PROVE RestOK' /\ excused \subseteq excused'
  <2>1. \E pc \in BootPcs : boot' = [boot EXCEPT ![i] = pc]
    <3>1. CASE BootCount(i) \/ BootCreate(i) \/ BootRole(i) \/ BootCreateRole(i)
      BY <3>1, Zenon DEF BootCount, BootCreate, BootRole, BootCreateRole, Goto, BootPcs
    <3>2. CASE BootPermission(i) \/ BootAssign(i) \/ BootReconcile(i) \/ Crash(i)
      BY <3>2, Zenon DEF BootPermission, BootAssign, BootReconcile, Crash, Goto, BootPcs
    <3> QED
      BY <1>10, <3>1, <3>2, Zenon DEF Boot
  <2>2. policy' \in Policies /\ applied' \subseteq Policies
    <3>1. CASE BootReconcile(i)
      BY <1>2, <3>1, Zenon DEF BootReconcile
    <3>2. CASE \/ BootCount(i) \/ BootCreate(i) \/ BootRole(i) \/ BootCreateRole(i) \/ BootPermission(i)
               \/ BootAssign(i) \/ Crash(i)
      BY <1>2, <3>2, Zenon DEF BootCount, BootCreate, BootRole, BootCreateRole, BootPermission,
         BootAssign, Crash
    <3> QED
      BY <1>10, <3>1, <3>2, Zenon DEF Boot
  <2>3. work' = work \/ External
    BY <1>10, Zenon DEF Boot, BootCount, BootCreate, BootRole, BootCreateRole, BootPermission, BootAssign,
       BootReconcile, Crash
  <2>4. excused' \subseteq Causes /\ excused \subseteq excused'
    <3>1. CASE BootCount(i) \/ BootCreate(i) \/ BootRole(i) \/ BootCreateRole(i)
      <4>1. \/ excused' = excused \/ excused' = excused \union {"bootstrapped"}
            \/ excused' = excused \union {"withdrawn"} \/ excused' = excused \union {"interrupted"}
        BY <3>1, Zenon DEF BootCount, BootCreate, BootRole, BootCreateRole
      <4> QED
        BY <1>0, <4>1, CauseStep, Zenon
    <3>2. CASE BootPermission(i) \/ BootAssign(i) \/ BootReconcile(i) \/ Crash(i)
      <4>1. \/ excused' = excused \/ excused' = excused \union {"withdrawn"}
            \/ excused' = excused \union {"interrupted"}
        BY <3>2, Zenon DEF BootPermission, BootAssign, BootReconcile, Crash
      <4> QED
        BY <1>0, <4>1, CauseStep, Zenon
    <3> QED
      BY <1>10, <3>1, <3>2, Zenon DEF Boot
  <2>5. work' \in 0..MaxWork
    BY <1>0, <2>3, WorkStep, Zenon
  <2> QED
    BY <1>1, <2>1, <2>2, <2>4, <2>5, Zenon
<1>11. ASSUME ChangePolicy PROVE RestOK' /\ excused \subseteq excused'
  <2>1. /\ boot' = boot /\ applied' = applied /\ policy' \in Policies /\ External /\ excused' = excused
    BY <1>11, Zenon DEF ChangePolicy
  <2>2. work' \in 0..MaxWork /\ excused' \subseteq Causes /\ excused \subseteq excused'
    BY <1>0, <2>1, WorkStep, Zenon DEF RestOK
  <2> QED
    BY <1>1, <1>2, <2>1, <2>2, Zenon
<1> QED
  BY <1>4, <1>9, <1>10, <1>11, Zenon DEF Next

-----------------------------------------------------------------------------
(* The managed rows.                                                        *)

\* A step leaves the managed rows alone, but for grants that go.
ManagedKept ==
    /\ \A r \in Roles : roles'[r] = {1} <=> roles[r] = {1}
    /\ \A q \in perms' : q[3] = 1 => q \in perms
    /\ \A q \in perms : q[3] = 1 => q \in perms'
    /\ \A g \in grants' : g[3] = 1 => g \in grants
    /\ \A m \in maps' : m[3] = 1 => \E n \in maps : n[3] = 1 /\ n[1] = m[1]

\* A step that is ManagedKept leaves the policy's rows the policy's.
LEMMA ManagedStays ==
    ASSUME NEW d, ManagedRows(d), ManagedKept
    PROVE  ManagedRows(d)'
<1>1. \A w \in d.perms : <<w[1], w[2], 1>> \in perms'
  <2> SUFFICES ASSUME NEW w \in d.perms PROVE <<w[1], w[2], 1>> \in perms'
    BY Zenon
  <2>1. PICK q : q = <<w[1], w[2], 1>>
    BY Zenon
  <2>2. q \in perms
    BY <2>1, Zenon DEF ManagedRows
  <2>3. q[3] = 1
    BY <2>1
  <2> QED
    BY <2>1, <2>2, <2>3, Zenon DEF ManagedKept
<1>2. \A m \in maps' : m[3] = 1 => \E w \in d.maps : w[1] = m[1]
  <2> SUFFICES ASSUME NEW m \in maps', m[3] = 1 PROVE \E w \in d.maps : w[1] = m[1]
    BY Zenon
  <2>1. PICK n \in maps : n[3] = 1 /\ n[1] = m[1]
    BY Zenon DEF ManagedKept
  <2>2. PICK w \in d.maps : w[1] = n[1]
    BY <2>1, Zenon DEF ManagedRows
  <2> QED
    BY <2>1, <2>2, Zenon
<1>3. \A q \in perms' : q[3] = 1 => <<q[1], q[2]>> \in d.perms
  BY Zenon DEF ManagedRows, ManagedKept
<1>4. \A g \in grants' : g[3] = 1 => <<g[1], g[2]>> \in d.grants
  BY Zenon DEF ManagedRows, ManagedKept
<1> QED
  BY <1>1, <1>2, <1>3, <1>4, Zenon DEF ManagedRows, ManagedKept

\* A step on grants that adds no managed one is ManagedKept.
LEMMA OnlyGrants ==
    ASSUME UNCHANGED <<roles, perms, maps>>, \A g \in grants' : g \in grants \/ g[3] # 1
    PROVE  ManagedKept
BY Zenon DEF ManagedKept

\* AssignRole adds no managed grant.
LEMMA AssignAdds ==
    ASSUME NEW u, NEW r, NEW g \in Assign(u, r)
    PROVE  g \in grants \/ g[3] # 1
<1>1. g \in grants \/ g = <<u, r, 0>>
  BY Zenon DEF Assign
<1>2. <<u, r, 0>>[3] = 0
  OBVIOUS
<1>3. 0 # 1
  OBVIOUS
<1> QED
  BY <1>1, <1>2, <1>3, Zenon

\* CreateRole adds no managed role.
LEMMA OnlyRoles ==
    ASSUME TablesOK, NEW r \in Roles, roles[r] = {}, roles' = [roles EXCEPT ![r] = {0}],
           UNCHANGED <<perms, grants, maps>>
    PROVE  ManagedKept
<1>1. {0} # {1} /\ {} # {1}
  <2>1. 0 # 1
    OBVIOUS
  <2> QED
    BY <2>1, Zenon
<1>2. \A q \in Roles : roles'[q] = IF q = r THEN {0} ELSE roles[q]
  BY Zenon DEF TablesOK
<1>3. \A q \in Roles : roles'[q] = {1} <=> roles[q] = {1}
  BY <1>1, <1>2, Zenon
<1> QED
  BY <1>3, Zenon DEF ManagedKept

\* AddPermission adds no managed permission.
LEMMA OnlyPerms ==
    ASSUME NEW r, NEW act, perms' = perms \union {<<r, act, 0>>}, UNCHANGED <<roles, grants, maps>>
    PROVE  ManagedKept
<1>1. PICK x : x = <<r, act, 0>>
  BY Zenon
<1>2. x[3] = 0 /\ 0 # 1
  BY <1>1
<1>3. perms' = perms \union {x}
  BY <1>1, Zenon
<1> QED
  BY <1>2, <1>3, Zenon DEF ManagedKept

\* ApplyManagedRBAC: afterwards the managed rows are the policy's.
LEMMA ApplyManaged ==
    ASSUME TablesOK, NEW d, Proper(d), ApplyManagedRBAC(d)
    PROVE  ManagedRows(d)'
<1>1. PICK gone : gone = {r \in Roles : roles[r] # {} /\ ReconciledRoles(d)[r] = {}}
  BY Zenon
<1>2. /\ roles' = ReconciledRoles(d) /\ d \in Policy
      /\ perms' = {p \in perms : p[3] = 0 /\ p[1] \notin gone} \union Stamped(d.perms)
      /\ grants' = RebuildGrants(grants, d.grants, gone) /\ maps' = RebuildMaps(d.maps, gone)
  BY <1>1, Zenon DEF ApplyManagedRBAC, Proper, Stamped
<1>3. \A r \in Roles : roles'[r] = {1} <=> r \in d.roles
  BY <1>1, <1>2, RolesAfter, Zenon
<1>4. /\ d.perms \in Pairs(Roles, Actions) /\ d.grants \in Pairs(Users, Roles)
      /\ d.maps \in Pairs(Groups, Roles)
  BY <1>2, Zenon DEF Policy, Pairs
<1>5. ASSUME NEW q \in perms', q[3] = 1 PROVE <<q[1], q[2]>> \in d.perms
  <2>1. 0 # 1
    OBVIOUS
  <2>2. q \in Stamped(d.perms)
    BY <1>2, <1>5, <2>1, Zenon
  <2>3. StampedRow(Roles, Actions, d.perms, q)
    BY <1>4, <2>2, Triples, Zenon
  <2> QED
    BY <2>3, Zenon DEF StampedRow
<1>6. \A w \in d.perms : <<w[1], w[2], 1>> \in perms'
  BY <1>2, Zenon DEF Stamped
<1>7. ASSUME NEW g \in grants', g[3] = 1 PROVE <<g[1], g[2]>> \in d.grants
  <2>1. g \in Stamped(d.grants)
    BY <1>2, <1>7, Zenon DEF RebuildGrants, Stamped
  <2>2. StampedRow(Users, Roles, d.grants, g)
    BY <1>4, <2>1, Triples, Zenon
  <2> QED
    BY <2>2, Zenon DEF StampedRow
<1>8. ASSUME NEW m \in maps', m[3] = 1 PROVE \E w \in d.maps : w[1] = m[1]
  <2>1. m \in Stamped(d.maps)
    BY <1>2, <1>8, Zenon DEF RebuildMaps, Stamped
  <2>2. PICK w \in d.maps : m = <<w[1], w[2], 1>>
    BY <2>1, Zenon DEF Stamped
  <2>3. m[1] = w[1]
    BY <2>2
  <2> QED
    BY <2>3, Zenon
<1> QED
  BY <1>3, <1>5, <1>6, <1>7, <1>8, Zenon DEF ManagedRows

\* Every step keeps the managed rows those of the policy reconciled last, except a delete
\* that was checked before the row was managed, which leaves its mark.
LEMMA NextManaged ==
    ASSUME AccessInv, Next
    PROVE  ManagedOK'
<1>0. AccountsOK /\ TablesOK /\ SessionsOK /\ RestOK /\ ManagedOK
  BY Zenon DEF AccessInv
<1>1. ASSUME NEW i \in Replicas, BootReconcile(i) PROVE ManagedOK'
  <2>1. PICK d : d = PolicyOf[policy]
    BY Zenon
  <2>2. Proper(d)
    BY <1>0, <2>1, Mounted, Zenon
  <2>3. CASE ApplyManagedRBAC(d) /\ applied' = {policy}
    <3>1. ManagedRows(d)'
      BY <1>0, <2>2, <2>3, ApplyManaged, Zenon
    <3>2. \A p \in applied' : PolicyOf[p] = d
      BY <2>1, <2>3, Zenon
    <3> QED
      BY <3>1, <3>2, Zenon DEF ManagedOK
  <2>4. CASE UNCHANGED <<db, applied, excused>>
    <3>1. UNCHANGED <<roles, perms, grants, maps, applied, excused>>
      BY <2>4, Zenon DEF db
    <3> QED
      BY <1>0, <3>1, Zenon DEF ManagedOK, ManagedRows
  <2> QED
    BY <1>1, <2>1, <2>3, <2>4, Zenon DEF BootReconcile
<1>2. ASSUME NEW a \in Admins, DeleteRole(a) PROVE ManagedOK'
  <2>1. PICK r : r = call[a].role
    BY Zenon
  <2>2. /\ roles' = [q \in Roles |-> IF q = r THEN {} ELSE roles[q]]
        /\ perms' = {p \in perms : p[1] # r} /\ grants' = {g \in grants : g[2] # r}
        /\ maps' = {m \in maps : m[2] # r} /\ excused' = excused \union Late(roles[r] = {1})
        /\ applied' = applied
    BY <1>2, <2>1, Zenon DEF DeleteRole
  <2>3. CASE roles[r] = {1}
    BY <2>2, <2>3, Zenon DEF ManagedOK, Late
  <2>4. CASE roles[r] # {1}
    <3> SUFFICES ASSUME NEW p \in applied, ManagedRows(PolicyOf[p]) PROVE ManagedRows(PolicyOf[p])'
      BY <1>0, <2>2, Zenon DEF ManagedOK
    <3>1. PICK d : d = PolicyOf[p]
      BY Zenon
    <3>2. Proper(d) /\ ManagedRows(d)
      BY <1>0, <3>1, ConstantsAssumption, Zenon DEF RestOK, Proper
    <3>3. \A q \in Roles : roles'[q] = {1} <=> roles[q] = {1}
      <4>1. {} # {1}
        BY Zenon
      <4> QED
        BY <2>2, <2>4, <4>1, Zenon
    <3>4. ASSUME NEW q \in perms, q[3] = 1 PROVE q \in perms'
      <4>1. PICK w \in d.perms : w = <<q[1], q[2]>>
        BY <3>2, <3>4, Zenon DEF ManagedRows
      <4>2. w[1] = q[1]
        BY <4>1
      <4>3. q[1] \in d.roles
        BY <3>2, <4>1, <4>2, Zenon DEF Proper
      <4>4. q[1] \in Roles
        BY <1>0, TableFields, Zenon
      <4>5. roles[q[1]] = {1}
        BY <3>2, <4>3, <4>4, Zenon DEF ManagedRows
      <4> QED
        BY <2>2, <2>4, <4>5, Zenon
    <3>5. ManagedKept
      BY <2>2, <3>3, <3>4, Zenon DEF ManagedKept
    <3> QED
      BY <3>1, <3>2, <3>5, ManagedStays, Zenon
  <2> QED
    BY <2>3, <2>4, Zenon
<1>3. ASSUME applied' = applied, ManagedKept PROVE ManagedOK'
  <2>1. excused \subseteq excused'
    BY NextRest, Zenon
  <2> SUFFICES ASSUME NEW p \in applied, ManagedRows(PolicyOf[p]) PROVE ManagedRows(PolicyOf[p])'
    BY <1>0, <1>3, <2>1, Zenon DEF ManagedOK
  <2>2. PICK d : d = PolicyOf[p]
    BY Zenon
  <2>3. ManagedRows(d)'
    BY <1>3, <2>2, ManagedStays, Zenon
  <2> QED
    BY <2>2, <2>3, Zenon
<1>4. ASSUME UNCHANGED <<roles, perms, grants, maps>> PROVE ManagedKept
  BY <1>4, Zenon DEF ManagedKept
<1>5. ASSUME NEW l \in Logins, \/ AuthRead(l) \/ AuthFail(l) \/ AuthSuccess(l) \/ OIDCLogin(l)
                                \/ OIDCSyncFails(l)
      PROVE  ManagedOK'
  <2>1. UNCHANGED <<roles, perms, grants, maps, applied>>
    BY <1>5, Zenon DEF AuthRead, AuthFail, AuthSuccess, OIDCLogin, OIDCSyncFails, db
  <2> QED
    BY <1>3, <1>4, <2>1, Zenon
<1>6. ASSUME NEW l \in Logins, OIDCSync(l) PROVE ManagedOK'
  <2>1. UNCHANGED <<roles, perms, maps, applied>>
    BY <1>6, Zenon DEF OIDCSync
  <2>2. ASSUME NEW g \in grants' PROVE g \in grants \/ g[3] # 1
    <3>1. g \in grants \/ \E r : g = <<login[l].user, r, 2>>
      BY <1>6, <2>2, Zenon DEF OIDCSync, SyncOIDCGroupRoles
    <3>2. CASE \E r : g = <<login[l].user, r, 2>>
      BY <3>2, SMTT(30)
    <3> QED
      BY <3>1, <3>2, Zenon
  <2> QED
    BY <1>3, <2>1, <2>2, OnlyGrants, Zenon
<1>7. ASSUME NEW a \in Admins, \/ CreateUser(a) \/ InsertUser(a) \/ EnableLockout(a) \/ UpdateRead(a)
                               \/ UpdateWrite(a) \/ TokenRead(a) \/ TokenWrite(a) \/ DeleteToken(a)
                               \/ PermissionCheck(a) \/ RemoveCheck(a)
      PROVE  ManagedOK'
  <2>1. UNCHANGED <<roles, perms, grants, maps, applied>>
    BY <1>7, Zenon DEF CreateUser, InsertUser, EnableLockout, UpdateRead, UpdateWrite, TokenRead,
       TokenWrite, DeleteToken, PermissionCheck, RemoveCheck, db
  <2> QED
    BY <1>3, <1>4, <2>1, Zenon
<1>8. ASSUME NEW a \in Admins, AssignNewRoles(a) \/ AssignRole(a) \/ RemoveRole(a) \/ DeleteUser(a)
      PROVE  ManagedOK'
  <2>1. UNCHANGED <<roles, perms, maps, applied>>
    BY <1>8, Zenon DEF AssignNewRoles, AssignRole, RemoveRole, DeleteUser
  <2>2. ASSUME NEW g \in grants' PROVE g \in grants \/ \E u, r : g \in Assign(u, r)
    <3>1. CASE AssignNewRoles(a)
      <4>1. \/ grants' = grants
            \/ grants' = grants \union UNION {Assign(call[a].user, r) : r \in call[a].roles}
        BY <3>1, Zenon DEF AssignNewRoles
      <4>2. g \in grants \/ g \in UNION {Assign(call[a].user, r) : r \in call[a].roles}
        BY <2>2, <4>1, Zenon
      <4>3. ASSUME g \in UNION {Assign(call[a].user, r) : r \in call[a].roles}
            PROVE  \E r : g \in Assign(call[a].user, r)
        BY <4>3, Zenon
      <4> QED
        BY <4>2, <4>3, Zenon
    <3>2. CASE AssignRole(a)
      BY <2>2, <3>2, Zenon DEF AssignRole
    <3>3. CASE RemoveRole(a) \/ DeleteUser(a)
      BY <2>2, <3>3, Zenon DEF RemoveRole, DeleteUser
    <3> QED
      BY <1>8, <3>1, <3>2, <3>3, Zenon
  <2>3. \A g \in grants' : g \in grants \/ g[3] # 1
    BY <2>2, AssignAdds, Zenon
  <2> QED
    BY <1>3, <2>1, <2>3, OnlyGrants, Zenon
<1>9. ASSUME NEW a \in Admins, CreateGroupMapping(a) PROVE ManagedOK'
  <2>1. UNCHANGED <<roles, perms, grants, applied>>
    BY <1>9, Zenon DEF CreateGroupMapping
  <2>2. PICK g, r : maps' = {m \in maps : m[1] # g} \union
                      {<<g, r, IF \E m \in maps : m[1] = g /\ m[3] = 1 THEN 1 ELSE 0>>}
    BY <1>9, Zenon DEF CreateGroupMapping
  <2>3. PICK k, x : k = (IF \E m \in maps : m[1] = g /\ m[3] = 1 THEN 1 ELSE 0) /\ x = <<g, r, k>>
    BY Zenon
  <2>4. x[1] = g /\ x[3] = k /\ 0 # 1
    BY <2>3
  <2>5. maps' = {m \in maps : m[1] # g} \union {x}
    BY <2>2, <2>3, Zenon
  <2>6. k = 1 => \E n \in maps : n[1] = g /\ n[3] = 1
    BY <2>3, <2>4, Zenon
  <2>7. \A m \in maps' : m[3] = 1 => \E n \in maps : n[3] = 1 /\ n[1] = m[1]
    BY <2>4, <2>5, <2>6, Zenon
  <2>8. ManagedKept
    BY <2>1, <2>7, Zenon DEF ManagedKept
  <2> QED
    BY <1>3, <2>1, <2>8, Zenon
<1>10. ASSUME NEW a \in Admins, CreateRole(a) PROVE ManagedOK'
  <2>1. PICK r \in Roles : roles[r] = {} /\ roles' = [roles EXCEPT ![r] = {0}]
    BY <1>10, Zenon DEF CreateRole
  <2>2. UNCHANGED <<perms, grants, maps, applied>>
    BY <1>10, Zenon DEF CreateRole
  <2> QED
    BY <1>0, <1>3, <2>1, <2>2, OnlyRoles, Zenon
<1>11. ASSUME NEW a \in Admins, AddPermission(a) PROVE ManagedOK'
  <2>1. UNCHANGED <<roles, grants, maps, applied>>
    BY <1>11, Zenon DEF AddPermission
  <2>2. perms' = perms \/ \E r, act : perms' = perms \union {<<r, act, 0>>}
    BY <1>11, Zenon DEF AddPermission
  <2> QED
    BY <1>3, <1>4, <2>1, <2>2, OnlyPerms, Zenon
<1>12. ASSUME NEW a \in Admins, DeletePermission(a) PROVE ManagedOK'
  <2>1. UNCHANGED <<roles, grants, maps, applied>>
    BY <1>12, Zenon DEF DeletePermission
  <2>2. PICK p : p[3] = 0 /\ perms' = perms \ {p}
    BY <1>12, Zenon DEF DeletePermission
  <2>3. 0 # 1
    OBVIOUS
  <2>4. ManagedKept
    BY <2>1, <2>2, <2>3, Zenon DEF ManagedKept
  <2> QED
    BY <1>3, <2>1, <2>4, Zenon
<1>13. ASSUME NEW a \in Admins, DeleteGroupMapping(a) PROVE ManagedOK'
  <2>1. UNCHANGED <<roles, perms, grants, applied>> /\ maps' \subseteq maps
    BY <1>13, Zenon DEF DeleteGroupMapping
  <2>2. ManagedKept
    BY <2>1, Zenon DEF ManagedKept
  <2> QED
    BY <1>3, <2>1, <2>2, Zenon
<1>14. ASSUME NEW i \in Replicas, BootCount(i) \/ BootCreate(i) \/ BootRole(i) \/ Crash(i) PROVE ManagedOK'
  <2>1. UNCHANGED <<roles, perms, grants, maps, applied>>
    BY <1>14, Zenon DEF BootCount, BootCreate, BootRole, Crash, db
  <2> QED
    BY <1>3, <1>4, <2>1, Zenon
<1>15. ASSUME NEW i \in Replicas, BootCreateRole(i) PROVE ManagedOK'
  <2>1. UNCHANGED <<perms, grants, maps, applied>>
    BY <1>15, Zenon DEF BootCreateRole
  <2>2. \/ roles[Administrator] = {} /\ roles' = [roles EXCEPT ![Administrator] = {0}]
        \/ roles' = roles
    BY <1>15, Zenon DEF BootCreateRole
  <2>3. Administrator \in Roles
    BY ConstantsAssumption, Zenon
  <2> QED
    BY <1>0, <1>3, <1>4, <2>1, <2>2, <2>3, OnlyRoles, Zenon
<1>16. ASSUME NEW i \in Replicas, BootPermission(i) PROVE ManagedOK'
  <2>1. UNCHANGED <<roles, grants, maps, applied>>
    BY <1>16, Zenon DEF BootPermission
  <2>2. perms' = perms \union {<<Administrator, "admin", 0>>} \/ perms' = perms
    BY <1>16, Zenon DEF BootPermission
  <2> QED
    BY <1>3, <1>4, <2>1, <2>2, OnlyPerms, Zenon
<1>17. ASSUME NEW i \in Replicas, BootAssign(i) PROVE ManagedOK'
  <2>1. UNCHANGED <<roles, perms, maps, applied>>
    BY <1>17, Zenon DEF BootAssign
  <2>2. grants' = Assign(Root, Administrator) \/ grants' = grants
    BY <1>17, Zenon DEF BootAssign, BootGrants
  <2>3. \A g \in grants' : g \in grants \/ g[3] # 1
    BY <2>2, AssignAdds, Zenon
  <2> QED
    BY <1>3, <2>1, <2>3, OnlyGrants, Zenon
<1>18. ASSUME ChangePolicy PROVE ManagedOK'
  <2>1. UNCHANGED <<roles, perms, grants, maps, applied>>
    BY <1>18, Zenon DEF ChangePolicy, db
  <2> QED
    BY <1>3, <1>4, <2>1, Zenon
<1>19. ASSUME NEW a \in Admins, Administer(a) PROVE ManagedOK'
  BY <1>2, <1>7, <1>8, <1>9, <1>10, <1>11, <1>12, <1>13, <1>19, Zenon DEF Administer
<1>20. ASSUME NEW i \in Replicas, Boot(i) \/ Crash(i) PROVE ManagedOK'
  BY <1>1, <1>14, <1>15, <1>16, <1>17, <1>20, Zenon DEF Boot
<1> QED
  BY <1>5, <1>6, <1>18, <1>19, <1>20, Zenon DEF Next

-----------------------------------------------------------------------------
(* The bootstrap administrator.                                             *)

\* A cause for the bootstrap to be incomplete took place: BootstrapCompletes excuses it.
Lost == excused \cap {"interrupted", "revoked", "withdrawn"} # {}

\* Any of the three causes is one.
LEMMA LostBy ==
    ASSUME "interrupted" \in excused' \/ "revoked" \in excused' \/ "withdrawn" \in excused'
    PROVE  Lost'
BY Zenon DEF Lost

\* The administrator's permission and the bootstrap account's role stay, or a cause takes place.
AdminStays == (RoleAdmin => RoleAdmin' \/ Lost') /\ (RootAdmin => RootAdmin' \/ Lost')

\* They stay if no permission and no grant goes.
LEMMA Growing == ASSUME perms \subseteq perms', grants \subseteq grants' PROVE AdminStays
BY Zenon DEF AdminStays, RoleAdmin, RootAdmin

\* SyncOIDCGroupRoles takes the role from the bootstrap account only if a login gave it.
LEMMA SyncAdmin ==
    ASSUME TablesOK, NEW l \in Logins, OIDCSync(l)
    PROVE  AdminStays
<1>1. perms' = perms
  BY Zenon DEF OIDCSync
<1>2. ASSUME NEW g \in grants, g[1] = Root, g[2] = Administrator, g \notin grants' PROVE Lost'
  <2>1. g[3] = 2
    BY <1>2, Zenon DEF OIDCSync, SyncOIDCGroupRoles
  <2>2. g \in Users \X Roles \X {0, 1, 2}
    BY Zenon DEF TablesOK
  <2>3. g = <<g[1], g[2], g[3]>>
    BY <2>2
  <2>4. g = <<Root, Administrator, 2>>
    BY <1>2, <2>1, <2>3, Zenon
  <2>5. "withdrawn" \in excused'
    BY <1>2, <2>4, Zenon DEF OIDCSync
  <2> QED
    BY <2>5, LostBy, Zenon
<1> QED
  BY <1>1, <1>2, Zenon DEF AdminStays, RoleAdmin, RootAdmin

\* ApplyManagedRBAC takes role, permission or grant only if a policy gave them.
LEMMA ReconcileAdmin ==
    ASSUME TablesOK, RestOK, NEW i \in Replicas, BootReconcile(i)
    PROVE  AdminStays
<1>1. PICK d, gone : /\ d = PolicyOf[policy]
                     /\ gone = {r \in Roles : roles[r] # {} /\ ReconciledRoles(d)[r] = {}}
  BY Zenon
<1>2. CASE UNCHANGED db
  <2>1. perms' = perms /\ grants' = grants
    BY <1>2, Zenon DEF db
  <2> QED
    BY <2>1, Growing, Zenon
<1>3. CASE Withdraws(d) /\ ~UNCHANGED db
  <2>1. "withdrawn" \in excused'
    BY <1>1, <1>3, Zenon DEF BootReconcile
  <2> QED
    BY <2>1, LostBy, Zenon DEF AdminStays
<1>4. CASE ~Withdraws(d) /\ ApplyManagedRBAC(d)
  <2>1. /\ perms' = {p \in perms : p[3] = 0 /\ p[1] \notin gone} \union {<<p[1], p[2], 1>> : p \in d.perms}
        /\ grants' = RebuildGrants(grants, d.grants, gone)
    BY <1>1, <1>4, Zenon DEF ApplyManagedRBAC
  <2>2. d \in Policy /\ Administrator \in Roles
    BY <1>1, Mounted, ConstantsAssumption, Zenon DEF Proper
  <2>3. Administrator \notin gone
    <3>1. roles[Administrator] = {1} => Administrator \in d.roles
      BY <1>4, Zenon DEF Withdraws
    <3>2. ReconciledRoles(d)[Administrator]
             = IF Administrator \in d.roles THEN {1}
               ELSE IF roles[Administrator] = {1} THEN {} ELSE roles[Administrator]
      BY <2>2, Zenon DEF ReconciledRoles
    <3>3. {1} # {}
      BY Zenon
    <3> QED
      BY <1>1, <3>1, <3>2, <3>3, Zenon
  <2>4. ASSUME NEW p \in perms, p[1] = Administrator, p[2] = "admin" PROVE RoleAdmin'
    <3>1. p \in Roles \X Actions \X {0, 1}
      BY Zenon DEF TablesOK
    <3>2. p = <<p[1], p[2], p[3]>> /\ (p[3] = 0 \/ p[3] = 1)
      BY <3>1
    <3>3. CASE p[3] = 0
      BY <2>1, <2>3, <2>4, <3>3, Zenon DEF RoleAdmin
    <3>4. CASE p[3] = 1
      <4>1. p = <<Administrator, "admin", 1>>
        BY <2>4, <3>2, <3>4, Zenon
      <4>2. <<Administrator, "admin">> \in d.perms
        BY <1>4, <4>1, Zenon DEF Withdraws
      <4>3. PICK w \in d.perms : w = <<Administrator, "admin">>
        BY <4>2, Zenon
      <4>4. w[1] = Administrator /\ w[2] = "admin"
        BY <4>3
      <4>5. <<w[1], w[2], 1>> \in perms'
        BY <2>1, Zenon
      <4>6. p \in perms'
        BY <4>1, <4>4, <4>5, Zenon
      <4> QED
        BY <2>4, <4>6, Zenon DEF RoleAdmin
    <3> QED
      BY <3>2, <3>3, <3>4, Zenon
  <2>5. ASSUME NEW g \in grants, g[1] = Root, g[2] = Administrator PROVE RootAdmin'
    <3>1. g \in Users \X Roles \X {0, 1, 2}
      BY Zenon DEF TablesOK
    <3>2. g = <<g[1], g[2], g[3]>>
      BY <3>1
    <3>3. CASE <<Root, Administrator>> \in d.grants
      <4>1. PICK w \in d.grants : w = <<Root, Administrator>>
        BY <3>3, Zenon
      <4>2. w[1] = Root /\ w[2] = Administrator
        BY <4>1
      <4>3. PICK h : h = <<w[1], w[2], 1>>
        BY Zenon
      <4>4. h \in grants'
        BY <2>1, <4>3, Zenon DEF RebuildGrants
      <4>5. h[1] = Root /\ h[2] = Administrator
        BY <4>2, <4>3
      <4> QED
        BY <4>4, <4>5, Zenon DEF RootAdmin
    <3>4. CASE <<Root, Administrator>> \notin d.grants
      <4>1. g[3] # 1
        BY <1>4, <2>5, <3>2, <3>4, ZenonT(40) DEF Withdraws
      <4>2. g \in grants'
        BY <2>1, <2>3, <2>5, <3>4, <4>1, Zenon DEF RebuildGrants
      <4> QED
        BY <2>5, <4>2, Zenon DEF RootAdmin
    <3> QED
      BY <3>3, <3>4, Zenon
  <2> QED
    BY <2>4, <2>5, Zenon DEF AdminStays, RoleAdmin, RootAdmin
<1>5. UNCHANGED db \/ (ApplyManagedRBAC(d) /\ (Withdraws(d) => "withdrawn" \in excused'))
  BY <1>1, Zenon DEF BootReconcile
<1> QED
  BY <1>2, <1>3, <1>4, <1>5, Zenon

\* No step takes the administrator's permission or role without a cause.
LEMMA NextAdmin ==
    ASSUME AccessInv, Next
    PROVE  AdminStays
<1>0. TablesOK /\ RestOK
  BY Zenon DEF AccessInv
<1>1. ASSUME "revoked" \in excused' PROVE AdminStays
  BY <1>1, LostBy, Zenon DEF AdminStays
<1>2. ASSUME NEW l \in Logins, \/ AuthRead(l) \/ AuthFail(l) \/ AuthSuccess(l) \/ OIDCLogin(l)
                               \/ OIDCSync(l) \/ OIDCSyncFails(l)
      PROVE  AdminStays
  <2>1. OIDCSync(l) \/ (perms' = perms /\ grants' = grants)
    BY <1>2, Zenon DEF AuthRead, AuthFail, AuthSuccess, OIDCLogin, OIDCSyncFails, db
  <2> QED
    BY <1>0, <2>1, SyncAdmin, Growing, Zenon
<1>3. ASSUME NEW a \in Admins, \/ CreateUser(a) \/ InsertUser(a) \/ EnableLockout(a) \/ UpdateRead(a)
                               \/ UpdateWrite(a) \/ TokenRead(a) \/ TokenWrite(a) \/ DeleteToken(a)
                               \/ CreateGroupMapping(a) \/ CreateRole(a) \/ PermissionCheck(a)
                               \/ RemoveCheck(a)
      PROVE  AdminStays
  <2>1. perms' = perms /\ grants' = grants
    BY <1>3, Zenon DEF CreateUser, InsertUser, EnableLockout, UpdateRead, UpdateWrite, TokenRead,
       TokenWrite, DeleteToken, CreateGroupMapping, CreateRole, PermissionCheck, RemoveCheck, db
  <2> QED
    BY <2>1, Growing, Zenon
<1>4. ASSUME NEW a \in Admins, AssignNewRoles(a) \/ AssignRole(a) \/ AddPermission(a) PROVE AdminStays
  <2>1. \A u, r : grants \subseteq Assign(u, r)
    BY Zenon DEF Assign
  <2>2. perms \subseteq perms' /\ grants \subseteq grants'
    <3>1. CASE AssignNewRoles(a)
      BY <3>1, Zenon DEF AssignNewRoles
    <3>2. CASE AssignRole(a)
      BY <2>1, <3>2, Zenon DEF AssignRole
    <3>3. CASE AddPermission(a)
      BY <3>3, Zenon DEF AddPermission
    <3> QED
      BY <1>4, <3>1, <3>2, <3>3, Zenon
  <2> QED
    BY <2>2, Growing, Zenon
<1>5. ASSUME NEW a \in Admins, \/ DeleteUser(a) \/ DeletePermission(a) \/ RemoveRole(a) \/ DeleteRole(a)
                               \/ DeleteGroupMapping(a)
      PROVE  AdminStays
  <2>1. "revoked" \in excused'
    BY <1>5, Zenon DEF DeleteUser, DeletePermission, RemoveRole, DeleteRole, DeleteGroupMapping, Late
  <2> QED
    BY <1>1, <2>1, Zenon
<1>6. ASSUME NEW i \in Replicas, \/ BootCount(i) \/ BootCreate(i) \/ BootRole(i) \/ BootCreateRole(i)
                                 \/ BootPermission(i) \/ BootAssign(i) \/ Crash(i)
      PROVE  AdminStays
  <2>1. perms \subseteq perms' /\ grants \subseteq grants'
    <3>1. CASE BootCount(i) \/ BootCreate(i) \/ BootRole(i) \/ BootCreateRole(i) \/ Crash(i)
      BY <3>1, Zenon DEF BootCount, BootCreate, BootRole, BootCreateRole, Crash, db
    <3>2. CASE BootPermission(i) \/ BootAssign(i)
      BY <3>2, Zenon DEF BootPermission, BootAssign, BootGrants, Assign
    <3> QED
      BY <1>6, <3>1, <3>2, Zenon
  <2> QED
    BY <2>1, Growing, Zenon
<1>7. ASSUME ChangePolicy PROVE AdminStays
  <2>1. perms' = perms /\ grants' = grants
    BY <1>7, Zenon DEF ChangePolicy, db
  <2> QED
    BY <2>1, Growing, Zenon
<1>8. ASSUME NEW a \in Admins, Administer(a) PROVE AdminStays
  BY <1>3, <1>4, <1>5, <1>8, Zenon DEF Administer
<1>9. ASSUME NEW i \in Replicas, Boot(i) \/ Crash(i) PROVE AdminStays
  BY <1>0, <1>6, <1>9, ReconcileAdmin, ZenonT(40) DEF Boot
<1> QED
  BY <1>2, <1>7, <1>8, <1>9, Zenon DEF Next

\* A replica that is completing the bootstrap.
Busy(i) == boot[i] \in {"role", "createRole", "perm"} \/ (boot[i] = "assign" /\ RoleAdmin)

\* BootstrapAdmin: a step of such a replica leads on, completes the bootstrap, or is a cause.
LEMMA BusyGoesOn ==
    ASSUME RestOK, NEW i \in Replicas, Busy(i), Boot(i) \/ Crash(i), AdminStays
    PROVE  Busy(i)' \/ (RoleAdmin' /\ RootAdmin') \/ Lost'
<1>0. \A pc : Goto(i, pc) => boot'[i] = pc
  BY Zenon DEF Goto, RestOK
<1>1. CASE Crash(i)
  <2>1. "interrupted" \in excused'
    BY <1>1, Zenon DEF Crash, Busy
  <2> QED
    BY <2>1, LostBy, Zenon
<1>2. CASE BootRole(i)
  <2>1. CASE Goto(i, "createRole")
    BY <1>0, <2>1, Zenon DEF Busy
  <2>2. CASE Goto(i, "assign") /\ "admin" \in RoleActions({Administrator})
    <3>1. RoleAdmin
      BY <2>2, Zenon DEF RoleActions, RoleAdmin
    <3> QED
      BY <1>0, <2>2, <3>1, Zenon DEF Busy, AdminStays
  <2>3. CASE "withdrawn" \in excused'
    BY <2>3, LostBy, Zenon
  <2> QED
    BY <1>2, <2>1, <2>2, <2>3, Zenon DEF BootRole
<1>3. CASE BootCreateRole(i)
  <2>1. Goto(i, "perm") \/ "interrupted" \in excused'
    BY <1>3, Zenon DEF BootCreateRole
  <2> QED
    BY <1>0, <2>1, LostBy, Zenon DEF Busy
<1>4. CASE BootPermission(i)
  <2>1. CASE perms' = perms \union {<<Administrator, "admin", 0>>} /\ Goto(i, "assign")
    <3>1. PICK p : p = <<Administrator, "admin", 0>>
      BY Zenon
    <3>2. p[1] = Administrator /\ p[2] = "admin"
      BY <3>1
    <3>3. RoleAdmin'
      BY <2>1, <3>1, <3>2, Zenon DEF RoleAdmin
    <3> QED
      BY <1>0, <2>1, <3>3, Zenon DEF Busy
  <2>2. CASE "interrupted" \in excused'
    BY <2>2, LostBy, Zenon
  <2> QED
    BY <1>4, <2>1, <2>2, Zenon DEF BootPermission
<1>5. CASE BootAssign(i)
  <2>1. CASE Has(Root) /\ roles[Administrator] # {} /\ grants' = Assign(Root, Administrator)
    <3>1. RoleAdmin
      BY <1>5, Zenon DEF Busy, BootAssign
    <3>2. RootAdmin'
      <4>1. CASE \E g \in grants : g[1] = Root /\ g[2] = Administrator
        BY <2>1, <4>1, Zenon DEF Assign, RootAdmin
      <4>2. CASE ~\E g \in grants : g[1] = Root /\ g[2] = Administrator
        <5>1. PICK h : h = <<Root, Administrator, 0>>
          BY Zenon
        <5>2. h \in grants'
          BY <2>1, <4>2, <5>1, Zenon DEF Assign
        <5>3. h[1] = Root /\ h[2] = Administrator
          BY <5>1
        <5> QED
          BY <5>2, <5>3, Zenon DEF RootAdmin
      <4> QED
        BY <4>1, <4>2, Zenon
    <3> QED
      BY <3>1, <3>2, Zenon DEF AdminStays
  <2>2. CASE "interrupted" \in excused'
    BY <2>2, LostBy, Zenon
  <2> QED
    BY <1>5, <2>1, <2>2, Zenon DEF BootAssign, BootGrants
<1>6. ~BootCount(i) /\ ~BootCreate(i) /\ ~BootReconcile(i)
  BY Zenon DEF BootCount, BootCreate, BootReconcile, Busy
<1> QED
  BY <1>1, <1>2, <1>3, <1>4, <1>5, <1>6, ZenonT(40) DEF Boot

\* A step moves one replica at most.
LEMMA BootsStay ==
    ASSUME RestOK, Next, NEW i \in Replicas
    PROVE  boot'[i] = boot[i] \/ Boot(i) \/ Crash(i)
<1>1. ASSUME NEW j \in Replicas, NEW pc, Goto(j, pc), j # i PROVE boot'[i] = boot[i]
  BY <1>1, Zenon DEF Goto, RestOK
<1>2. ASSUME NEW j \in Replicas, Boot(j) \/ Crash(j) PROVE \E pc : Goto(j, pc)
  <2>1. CASE BootCount(j) \/ BootCreate(j) \/ BootRole(j) \/ BootCreateRole(j)
    BY <2>1, Zenon DEF BootCount, BootCreate, BootRole, BootCreateRole
  <2>2. CASE BootPermission(j) \/ BootAssign(j) \/ BootReconcile(j) \/ Crash(j)
    BY <2>2, Zenon DEF BootPermission, BootAssign, BootReconcile, Crash
  <2> QED
    BY <1>2, <2>1, <2>2, Zenon DEF Boot
<1>3. ASSUME NEW l \in Logins, \/ AuthRead(l) \/ AuthFail(l) \/ AuthSuccess(l) \/ OIDCLogin(l)
                               \/ OIDCSync(l) \/ OIDCSyncFails(l)
      PROVE  boot' = boot
  BY <1>3, Zenon DEF AuthRead, AuthFail, AuthSuccess, OIDCLogin, OIDCSync, OIDCSyncFails
<1>4. ASSUME NEW a \in Admins, \/ CreateUser(a) \/ InsertUser(a) \/ EnableLockout(a) \/ AssignNewRoles(a)
                               \/ UpdateRead(a) \/ UpdateWrite(a) \/ DeleteUser(a) \/ TokenRead(a)
                               \/ TokenWrite(a) \/ DeleteToken(a)
      PROVE  boot' = boot
  BY <1>4, Zenon DEF CreateUser, InsertUser, EnableLockout, AssignNewRoles, UpdateRead, UpdateWrite,
     DeleteUser, TokenRead, TokenWrite, DeleteToken
<1>5. ASSUME NEW a \in Admins, \/ AssignRole(a) \/ CreateGroupMapping(a) \/ CreateRole(a)
                               \/ PermissionCheck(a) \/ AddPermission(a) \/ DeletePermission(a)
                               \/ RemoveCheck(a) \/ RemoveRole(a) \/ DeleteRole(a)
                               \/ DeleteGroupMapping(a)
      PROVE  boot' = boot
  BY <1>5, Zenon DEF AssignRole, CreateGroupMapping, CreateRole, PermissionCheck, AddPermission,
     DeletePermission, RemoveCheck, RemoveRole, DeleteRole, DeleteGroupMapping
<1>6. ASSUME NEW a \in Admins, Administer(a) PROVE boot' = boot
  BY <1>4, <1>5, <1>6, Zenon DEF Administer
<1>7. ASSUME ChangePolicy PROVE boot' = boot
  BY <1>7, Zenon DEF ChangePolicy
<1>8. ASSUME NEW j \in Replicas, Boot(j) \/ Crash(j) PROVE j = i \/ boot'[i] = boot[i]
  BY <1>1, <1>2, <1>8, Zenon
<1> QED
  BY <1>3, <1>6, <1>7, <1>8, Zenon DEF Next

\* Only BootstrapAdmin's CreateUser makes a bootstrapped account, and its replica goes on.
LEMMA Bootstraps ==
    ASSUME RestOK, Next, "bootstrapped" \in excused', "bootstrapped" \notin excused
    PROVE  \E i \in Replicas : boot'[i] = "role"
<1>0. /\ \A C : excused' = excused \union C => "bootstrapped" \in C
      /\ excused' # excused
  BY Zenon
<1>00. /\ "bootstrapped" \notin {"late success"} /\ "bootstrapped" \notin {"withdrawn"}
       /\ "bootstrapped" \notin {"revoked"} /\ "bootstrapped" \notin {"stale check", "revoked"}
       /\ "bootstrapped" \notin {"interrupted"}
  BY Zenon
<1>1. ASSUME NEW l \in Logins, \/ AuthRead(l) \/ AuthFail(l) \/ AuthSuccess(l) \/ OIDCLogin(l)
                               \/ OIDCSync(l) \/ OIDCSyncFails(l)
      PROVE  FALSE
  <2>1. \/ excused' = excused \/ excused' = excused \union {"late success"}
        \/ excused' = excused \union {"withdrawn"}
    BY <1>1, Zenon DEF AuthRead, AuthFail, AuthSuccess, OIDCLogin, OIDCSync, OIDCSyncFails
  <2> QED
    BY <1>0, <1>00, <2>1, Zenon
<1>2. ASSUME NEW a \in Admins, \/ CreateUser(a) \/ InsertUser(a) \/ EnableLockout(a) \/ AssignNewRoles(a)
                               \/ UpdateRead(a) \/ UpdateWrite(a) \/ DeleteUser(a) \/ TokenRead(a)
                               \/ TokenWrite(a) \/ DeleteToken(a)
      PROVE  FALSE
  <2>1. excused' = excused \/ excused' = excused \union {"revoked"}
    BY <1>2, Zenon DEF CreateUser, InsertUser, EnableLockout, AssignNewRoles, UpdateRead, UpdateWrite,
       DeleteUser, TokenRead, TokenWrite, DeleteToken
  <2> QED
    BY <1>0, <1>00, <2>1, Zenon
<1>3. ASSUME NEW a \in Admins, \/ AssignRole(a) \/ CreateGroupMapping(a) \/ CreateRole(a)
                               \/ PermissionCheck(a) \/ AddPermission(a) \/ DeletePermission(a)
                               \/ RemoveCheck(a) \/ RemoveRole(a) \/ DeleteRole(a)
                               \/ DeleteGroupMapping(a)
      PROVE  FALSE
  <2>1. \/ excused' = excused \/ excused' = excused \union {"revoked"}
        \/ excused' = excused \union {"stale check", "revoked"}
    BY <1>3, Zenon DEF AssignRole, CreateGroupMapping, CreateRole, PermissionCheck, AddPermission,
       DeletePermission, RemoveCheck, RemoveRole, DeleteRole, DeleteGroupMapping, Late
  <2> QED
    BY <1>0, <1>00, <2>1, Zenon
<1>4. ASSUME NEW i \in Replicas, \/ BootCount(i) \/ BootRole(i) \/ BootCreateRole(i) \/ BootPermission(i)
                                 \/ BootAssign(i) \/ BootReconcile(i) \/ Crash(i)
      PROVE  FALSE
  <2>1. \/ excused' = excused \/ excused' = excused \union {"withdrawn"}
        \/ excused' = excused \union {"interrupted"}
    <3>1. CASE BootCount(i) \/ BootRole(i) \/ BootCreateRole(i) \/ BootPermission(i)
      BY <3>1, Zenon DEF BootCount, BootRole, BootCreateRole, BootPermission
    <3>2. CASE BootAssign(i) \/ BootReconcile(i) \/ Crash(i)
      BY <3>2, Zenon DEF BootAssign, BootReconcile, Crash
    <3> QED
      BY <1>4, <3>1, <3>2, ZenonT(40)
  <2> QED
    BY <1>0, <1>00, <2>1, Zenon
<1>5. ASSUME ChangePolicy PROVE FALSE
  BY <1>5, Zenon DEF ChangePolicy
<1>6. ASSUME NEW i \in Replicas, BootCreate(i) PROVE boot'[i] = "role"
  BY <1>6, Zenon DEF BootCreate, Goto, RestOK
<1> QED
  BY <1>1, <1>2, <1>3, <1>4, <1>5, <1>6, ZenonT(40) DEF Next, Administer, Boot

\* Every step keeps the bootstrap complete, under way or excused.
LEMMA NextCompleting ==
    ASSUME AccessInv, Next
    PROVE  Completing'
<1>0. RestOK /\ AdminStays /\ excused \subseteq excused'
  BY NextAdmin, NextRest, Zenon DEF AccessInv
<1>1. ASSUME Lost \/ (RoleAdmin /\ RootAdmin) PROVE Lost' \/ (RoleAdmin' /\ RootAdmin')
  BY <1>0, <1>1, Zenon DEF Lost, AdminStays
<1>2. ASSUME NEW i \in Replicas, Busy(i)
      PROVE  Busy(i)' \/ (RoleAdmin' /\ RootAdmin') \/ Lost'
  <2>1. CASE boot'[i] = boot[i]
    BY <1>0, <1>2, <2>1, Zenon DEF Busy, AdminStays
  <2> QED
    BY <1>0, <1>2, <2>1, BootsStay, BusyGoesOn, Zenon
<1>3. CASE "bootstrapped" \in excused
  <2>1. Lost \/ (RoleAdmin /\ RootAdmin) \/ \E i \in Replicas : Busy(i)
    BY <1>3, Zenon DEF AccessInv, Completing, Busy, Lost
  <2>2. Lost' \/ (RoleAdmin' /\ RootAdmin') \/ \E i \in Replicas : Busy(i)'
    BY <1>1, <1>2, <2>1, Zenon
  <2> QED
    BY <2>2, Zenon DEF Completing, Busy, Lost
<1>4. CASE "bootstrapped" \notin excused
  BY <1>0, <1>4, Bootstraps, Zenon DEF Completing
<1> QED
  BY <1>3, <1>4, Zenon

-----------------------------------------------------------------------------
(* The theorems.                                                            *)

\* A new database and one that has been set up both satisfy the inductive invariant.
LEMMA AccessInit == Init => AccessInv
<1> SUFFICES ASSUME Init PROVE AccessInv
  OBVIOUS
<1>0. /\ Root \in Users /\ Administrator \in Roles /\ MaxFailed \in Nat \ {0}
      /\ \A S \in SUBSET Users : Cardinality(S) \in Nat
      /\ MaxWork \in Nat /\ Users \in SUBSET Users
  BY ConstantsAssumption, Zenon
<1>1. AccountsOK
  <2>1. CASE users = [u \in Users |-> {}] /\ nextId = 1
    <3>1. nextId \in Nat
      BY <2>1
    <3> QED
      BY <1>0, <2>1, <3>1, Zenon DEF AccountsOK, LockedWasEarned, ProtectedIsExempt
  <2>2. CASE /\ \E id \in Injection(Users, 1..Cardinality(Users)) :
                   users = [u \in Users |-> {[NewRow(id[u], "local") EXCEPT !.lockout = u # Root]}]
             /\ nextId = Cardinality(Users) + 1
    <3>1. PICK N : N = Cardinality(Users)
      BY Zenon
    <3>2. N \in Nat /\ nextId = N + 1 /\ nextId \in Nat
      <4>1. N \in Nat
        BY <1>0, <3>1, Zenon
      <4> QED
        BY <2>2, <3>1, <4>1
    <3>3. PICK id \in [Users -> 1..N] :
             users = [u \in Users |-> {[NewRow(id[u], "local") EXCEPT !.lockout = u # Root]}]
      BY <2>2, <3>1, Zenon DEF Injection, IsInjective
    <3>4. ASSUME NEW u \in Users
          PROVE  LET r == [NewRow(id[u], "local") EXCEPT !.lockout = u # Root]
                 IN  /\ users[u] = {r} /\ r \in Account /\ r.id < nextId
                     /\ ~r.locked /\ r.failed = 0 /\ (u = Root => ~r.lockout)
      <4>1. id[u] \in Nat /\ id[u] < nextId
        <5>1. id[u] \in 1..N
          BY <3>3, Zenon
        <5> QED
          BY <3>2, <5>1
      <4>2. PICK q : q = NewRow(id[u], "local")
        BY Zenon
      <4>3. q \in Account /\ q.id = id[u] /\ q.failed = 0 /\ ~q.locked
        BY <4>1, <4>2, NewRows, Zenon
      <4>4. PICK b, r : b = (u # Root) /\ r = [q EXCEPT !.lockout = b]
        BY Zenon
      <4>5. b \in BOOLEAN
        BY <4>4, Zenon
      <4>6. r \in Account /\ r.id = q.id /\ r.failed = q.failed /\ r.locked = q.locked /\ r.lockout = b
        BY <4>3, <4>4, <4>5, Zenon DEF Account
      <4>7. users[u] = {r}
        BY <3>3, <4>2, <4>4, Zenon
      <4> QED
        BY <4>1, <4>2, <4>3, <4>4, <4>6, <4>7, Zenon
    <3>5. users \in [Users -> SUBSET Account]
      BY <3>3, <3>4, Zenon
    <3>6. \A u \in Users : \A r, s \in users[u] : r = s /\ r.id < nextId
      BY <3>4, Zenon
    <3>7. LockedWasEarned /\ ProtectedIsExempt
      BY <1>0, <3>4, ZenonT(60) DEF LockedWasEarned, ProtectedIsExempt
    <3> QED
      BY <3>2, <3>5, <3>6, <3>7, Zenon DEF AccountsOK
  <2> QED
    BY <2>1, <2>2, Zenon DEF Init
<1>2. TablesOK
  <2>1. CASE roles = [r \in Roles |-> {}] /\ perms = {} /\ grants = {} /\ maps = {}
    BY <2>1, Zenon DEF TablesOK
  <2>2. CASE /\ roles = [r \in Roles |-> {0}] /\ maps = {}
             /\ perms = {<<r, IF r = Administrator THEN "admin" ELSE "read", 0>> : r \in Roles}
             /\ grants = {<<Root, Administrator, 0>>} /\ \A u \in Users : users[u] # {}
    <3>1. {0} # {}
      BY Zenon
    <3>2. roles \in [Roles -> {{}, {0}, {1}}] /\ \A r \in Roles : roles[r] # {}
      BY <2>2, <3>1, Zenon
    <3>3. ASSUME NEW p \in perms PROVE p \in Roles \X Actions \X {0, 1} /\ p[1] \in Roles
      <4>1. PICK r \in Roles : p = <<r, IF r = Administrator THEN "admin" ELSE "read", 0>>
        BY <2>2, Zenon
      <4>2. PICK act : act = IF r = Administrator THEN "admin" ELSE "read"
        BY Zenon
      <4>3. act \in Actions /\ p = <<r, act, 0>>
        BY <4>1, <4>2, Zenon DEF Actions
      <4> QED
        BY <4>3
    <3>4. PermsOK
      BY <3>2, <3>3, Zenon DEF PermsOK
    <3>5. PICK g : g = <<Root, Administrator, 0>>
      BY Zenon
    <3>6. g[1] = Root /\ g[2] = Administrator /\ g \in Users \X Roles \X {0, 1, 2}
      BY <1>0, <3>5
    <3>7. grants = {g}
      BY <2>2, <3>5, Zenon
    <3>8. GrantsOK
      BY <1>0, <2>2, <3>2, <3>6, <3>7, Zenon DEF GrantsOK
    <3>9. MapsOK /\ RolesOK
      BY <2>2, <3>2, Zenon DEF MapsOK, RolesOK
    <3> QED
      BY <3>4, <3>8, <3>9, TablesParts, Zenon
  <2>3. ASSUME \E id \in Injection(Users, 1..Cardinality(Users)) :
                  users = [u \in Users |-> {[NewRow(id[u], "local") EXCEPT !.lockout = u # Root]}]
        PROVE  \A u \in Users : users[u] # {}
    BY <2>3, Zenon
  <2> QED
    BY <2>1, <2>2, <2>3, Zenon DEF Init
<1>3. TokensOK
  BY Zenon DEF Init, TokensOK
<1>4. SessionsOK
  BY IdleFits, Zenon DEF Init, SessionsOK
<1>5. RestOK
  <2>1. 0 \in 0..MaxWork
    BY <1>0
  <2>2. policy \in Policies /\ boot \in [Replicas -> BootPcs]
    BY Zenon DEF Init, BootPcs
  <2> QED
    BY <2>1, <2>2, Zenon DEF Init, RestOK
<1>6. ManagedOK /\ Completing
  BY Zenon DEF Init, ManagedOK, Completing
<1> QED
  BY <1>1, <1>2, <1>3, <1>4, <1>5, <1>6, ZenonT(40) DEF AccessInv

\* Every step of a login, an administrator, a replica or the operator keeps it.
LEMMA AccessNext == AccessInv /\ [Next]_vars => AccessInv'
<1> SUFFICES ASSUME AccessInv, [Next]_vars PROVE AccessInv'
  OBVIOUS
<1>1. CASE Next
  <2>1. AccountsOK'
    BY <1>1, NextAccounts, AccountsKept, Zenon DEF AccessInv
  <2> QED
    BY <1>1, <2>1, NextTables, NextTokens, NextSessions, NextRest, NextManaged, NextCompleting, ZenonT(40)
       DEF AccessInv
<1>2. CASE UNCHANGED vars
  <2>1. UNCHANGED <<users, nextId, roles, perms, grants, maps, tokens, login, call, boot, policy,
                    applied, work, excused>>
    BY <1>2, Zenon DEF vars, db
  <2>2. AccountsOK' /\ TablesOK' /\ TokensOK'
    <3>1. AccountsOK'
      BY <2>1, Zenon DEF AccessInv, AccountsOK, LockedWasEarned, ProtectedIsExempt
    <3>2. TablesOK'
      BY <2>1, Zenon DEF AccessInv, TablesOK, Has
    <3>3. TokensOK'
      BY <2>1, Zenon DEF AccessInv, TokensOK, HasId
    <3> QED
      BY <3>1, <3>2, <3>3, Zenon
  <2>3. SessionsOK' /\ RestOK' /\ ManagedOK' /\ Completing'
    BY <2>1, Zenon DEF AccessInv, SessionsOK, RestOK, ManagedOK, ManagedRows, Completing,
       RoleAdmin, RootAdmin
  <2> QED
    BY <2>2, <2>3, Zenon DEF AccessInv
<1> QED
  BY <1>1, <1>2, Zenon

\* The inductive invariant holds in every state the system reaches, whatever calls, logins,
\* restarts and policies interleave.
THEOREM AccessInvariant == Spec => []AccessInv
BY AccessInit, AccessNext, PTL DEF Spec

\* The inductive invariant implies RowsAgree.
LEMMA InvRows == AccessInv => RowsAgree
<1> SUFFICES ASSUME AccessInv PROVE RowsAgree
  OBVIOUS
<1>1. tokens \subseteq Nat
  BY Zenon DEF AccessInv, TokensOK
<1>2. TypeOK
  BY <1>1, Zenon DEF AccessInv, AccountsOK, TablesOK, SessionsOK, RestOK, TypeOK
<1>3. TokensHaveOwners
  <2> SUFFICES ASSUME NEW t \in tokens PROVE t \in {r.id : r \in UNION {users[u] : u \in Users}}
    BY Zenon DEF TokensHaveOwners
  <2>1. PICK u \in Users : HasId(u, t)
    BY Zenon DEF AccessInv, TokensOK
  <2>2. PICK r \in users[u] : r.id = t
    BY <2>1, Zenon DEF HasId
  <2>3. r \in UNION {users[v] : v \in Users}
    BY Zenon
  <2> QED
    BY <2>2, <2>3, Zenon
<1> QED
  BY <1>2, <1>3, Zenon DEF AccessInv, AccountsOK, RowsAgree

\* What the rows of the database say of each other always holds: types, keys and foreign
\* keys, an owner for every token (DeleteUser), a reason for every lock
\* (RegisterFailedLogin), nothing counted against the bootstrap administrator.
THEOREM RowsAlwaysAgree == Spec => []RowsAgree
BY AccessInvariant, InvRows, PTL

\* The inductive invariant implies PolicyHolds.
LEMMA InvPolicy == AccessInv => PolicyHolds
<1> SUFFICES ASSUME AccessInv, NEW p \in applied, "stale check" \notin excused, NEW d, d = PolicyOf[p]
             PROVE  /\ {r \in Roles : roles[r] = {1}} = d.roles
                    /\ {<<q[1], q[2]>> : q \in {x \in perms : x[3] = 1}} = d.perms
                    /\ {<<g[1], g[2]>> : g \in {x \in grants : x[3] = 1}} \subseteq d.grants
                    /\ {m[1] : m \in {x \in maps : x[3] = 1}} \subseteq {w[1] : w \in d.maps}
  BY Zenon DEF PolicyHolds
<1>1. ManagedRows(d) /\ d \in Policy
  BY ConstantsAssumption, Zenon DEF AccessInv, ManagedOK, RestOK
<1>2. {r \in Roles : roles[r] = {1}} = d.roles
  <2>1. d.roles \subseteq Roles
    BY <1>1, PolicyFields, Zenon
  <2> QED
    BY <1>1, <2>1, Zenon DEF ManagedRows
<1>3. {<<q[1], q[2]>> : q \in {x \in perms : x[3] = 1}} \subseteq d.perms
  BY <1>1, ZenonT(60) DEF ManagedRows
<1>4. ASSUME NEW w \in d.perms PROVE w \in {<<q[1], q[2]>> : q \in {x \in perms : x[3] = 1}}
  <2>1. PICK q : q = <<w[1], w[2], 1>>
    BY Zenon
  <2>2. q \in perms
    BY <1>1, <2>1, Zenon DEF ManagedRows
  <2>3. w = <<w[1], w[2]>>
    BY <1>1, PolicyFields, Zenon
  <2>4. q[1] = w[1] /\ q[2] = w[2] /\ q[3] = 1
    BY <2>1
  <2>5. <<q[1], q[2]>> = w
    BY <2>3, <2>4, Zenon
  <2> QED
    BY <2>2, <2>4, <2>5, Zenon
<1>5. {<<g[1], g[2]>> : g \in {x \in grants : x[3] = 1}} \subseteq d.grants
  BY <1>1, ZenonT(60) DEF ManagedRows
<1>6. {m[1] : m \in {x \in maps : x[3] = 1}} \subseteq {w[1] : w \in d.maps}
  <2> SUFFICES ASSUME NEW m \in maps, m[3] = 1 PROVE m[1] \in {w[1] : w \in d.maps}
    BY Zenon
  <2>1. PICK w \in d.maps : w[1] = m[1]
    BY <1>1, Zenon DEF ManagedRows
  <2> QED
    BY <2>1, Zenon
<1> QED
  BY <1>2, <1>3, <1>4, <1>5, <1>6, Zenon

\* ApplyManagedRBAC is authoritative: until the next reconciliation the managed rows are the
\* policy's, for every policy and every interleaving with the API, except after a delete
\* whose check came before the policy.
THEOREM PolicyAlwaysHolds == Spec => []PolicyHolds
BY AccessInvariant, InvPolicy, PTL

\* The inductive invariant implies BootstrapCompletes.
LEMMA InvBootstrap == AccessInv => BootstrapCompletes
<1> SUFFICES ASSUME AccessInv, "bootstrapped" \in excused, \A i \in Replicas : boot[i] = "up",
                    ~(excused \cap {"interrupted", "revoked", "withdrawn"} # {})
             PROVE  "admin" \in BuildPrincipal(Root, {})
  BY Zenon DEF BootstrapCompletes
<1>1. RoleAdmin /\ RootAdmin
  BY Zenon DEF AccessInv, Completing
<1>2. PICK p \in perms : p[1] = Administrator /\ p[2] = "admin"
  BY <1>1, Zenon DEF RoleAdmin
<1>3. PICK g \in grants : g[1] = Root /\ g[2] = Administrator
  BY <1>1, Zenon DEF RootAdmin
<1>4. Administrator \in {h[2] : h \in {k \in grants : k[1] = Root}}
  BY <1>3, Zenon
<1> QED
  BY <1>2, <1>4, Zenon DEF BuildPrincipal, RoleActions

\* BootstrapAdmin: once all replicas run, the account it made has the administrator's
\* permission, or one of the named causes took it away.
THEOREM BootstrapAlwaysCompletes == Spec => []BootstrapCompletes
BY AccessInvariant, InvBootstrap, PTL

\* RegisterFailedLogin, AuthenticateLocal: failures add up, and a lock goes only by an
\* administrator or a login that was under way.
THEOREM LocksAlwaysMoveByCause == Spec => LocksMoveByCause
<1> DEFINE Adds == \A u \in Users : SameRow(u) => Row(u)'.failed >= Row(u).failed \/ Row(u)'.failed = 0
           Unlocks == \A u \in Users : SameRow(u) /\ Row(u).locked /\ ~Row(u)'.locked =>
                         (\E a \in Admins : call[a].op = "update") \/ "late success" \in excused'
<1>1. AccessInv /\ [Next]_vars => [Adds]_vars /\ [Unlocks]_vars
  <2> SUFFICES ASSUME AccessInv, Next PROVE Adds /\ Unlocks
    BY Zenon
  <2>1. AccountsOK /\ AccountsMove
    BY NextAccounts, Zenon DEF AccessInv
  <2> QED
    BY <2>1, LocksStep, Zenon DEF Unlocking
<1> HIDE DEF Adds, Unlocks
<1>2. Spec => [][Adds]_vars /\ [][Unlocks]_vars
  BY <1>1, AccessInvariant, PTL DEF Spec
<1> QED
  BY <1>2 DEF Adds, Unlocks, LocksMoveByCause, FailuresAddUp, UnlockedOnlyByAdminOrLateSuccess

\* Rows that are not managed stay, or are adopted, as long as their role does.
UnmanagedStays ==
    /\ \A r \in Roles : roles[r] = {0} => roles'[r] # {}
    /\ \A p \in perms : p[3] = 0 /\ roles'[p[1]] # {} => p \in perms'
    /\ \A g \in grants : g[3] # 1 /\ roles'[g[2]] # {} => \E h \in grants' : h[1] = g[1] /\ h[2] = g[2]
    /\ \A m \in maps : m[3] = 0 /\ roles'[m[2]] # {} => \E n \in maps' : n[1] = m[1]

\* ApplyManagedRBAC never deletes them.
LEMMA ApplyUnmanaged ==
    ASSUME TablesOK, NEW d \in Policy, ApplyManagedRBAC(d)
    PROVE  UnmanagedStays
<1>1. PICK gone : gone = {r \in Roles : roles[r] # {} /\ ReconciledRoles(d)[r] = {}}
  BY Zenon
<1>2. /\ roles' = ReconciledRoles(d)
      /\ perms' = {p \in perms : p[3] = 0 /\ p[1] \notin gone} \union Stamped(d.perms)
      /\ grants' = {w \in grants : w[3] # 1 /\ w[2] \notin gone /\ <<w[1], w[2]>> \notin d.grants}
                      \union Stamped(d.grants)
      /\ maps' = {m \in maps : m[3] # 1 /\ m[2] \notin gone /\ m[1] \notin {w[1] : w \in d.maps}}
                      \union Stamped(d.maps)
  BY <1>1, Zenon DEF ApplyManagedRBAC, Stamped, RebuildGrants, RebuildMaps
<1>3. /\ \A r \in Roles : roles[r] # {} /\ r \notin gone => roles'[r] # {}
      /\ \A r \in Roles : roles[r] = {0} => r \notin gone
      /\ \A r : roles'[r] # {} => r \notin gone
  <2>1. gone = {r \in Roles : roles[r] # {} /\ roles'[r] = {}}
    BY <1>1, <1>2, Zenon
  <2> QED
    BY <1>1, <1>2, <2>1, RolesAfter, Zenon
<1>4. ASSUME NEW r \in Roles, roles[r] = {0} PROVE roles'[r] # {}
  <2>1. {0} # {}
    BY Zenon
  <2> QED
    BY <1>3, <1>4, <2>1, Zenon
<1>5. ASSUME NEW p \in perms, p[3] = 0, roles'[p[1]] # {} PROVE p \in perms'
  BY <1>2, <1>3, <1>5, Zenon
<1>6. ASSUME NEW g \in grants, g[3] # 1, roles'[g[2]] # {}
      PROVE  \E h \in grants' : h[1] = g[1] /\ h[2] = g[2]
  <2>1. CASE <<g[1], g[2]>> \notin d.grants
    BY <1>2, <1>3, <1>6, <2>1, Zenon
  <2>2. CASE <<g[1], g[2]>> \in d.grants
    <3>1. PICK w \in d.grants : w = <<g[1], g[2]>>
      BY <2>2, Zenon
    <3>2. w[1] = g[1] /\ w[2] = g[2]
      BY <3>1
    <3>3. PICK h : h = <<w[1], w[2], 1>>
      BY Zenon
    <3>4. h \in Stamped(d.grants)
      BY <3>3, Zenon DEF Stamped
    <3>5. h[1] = g[1] /\ h[2] = g[2]
      BY <3>2, <3>3
    <3> QED
      BY <1>2, <3>4, <3>5, Zenon
  <2> QED
    BY <2>1, <2>2, Zenon
<1>7. ASSUME NEW m \in maps, m[3] = 0, roles'[m[2]] # {} PROVE \E n \in maps' : n[1] = m[1]
  <2>0. 0 # 1
    OBVIOUS
  <2>1. CASE m[1] \notin {w[1] : w \in d.maps}
    BY <1>2, <1>3, <1>7, <2>0, <2>1, Zenon
  <2>2. CASE m[1] \in {w[1] : w \in d.maps}
    <3>1. PICK w \in d.maps : w[1] = m[1]
      BY <2>2, Zenon
    <3>2. PICK h : h = <<w[1], w[2], 1>>
      BY Zenon
    <3>3. h \in Stamped(d.maps)
      BY <3>2, Zenon DEF Stamped
    <3>4. h[1] = m[1]
      BY <3>1, <3>2
    <3> QED
      BY <1>2, <3>3, <3>4, Zenon
  <2> QED
    BY <2>1, <2>2, Zenon
<1> QED
  BY <1>4, <1>5, <1>6, <1>7, Zenon DEF UnmanagedStays

\* A replica gets from reconciliation to running only by reconciling, which keeps them.
LEMMA ReconcileKeeps ==
    ASSUME TablesOK, RestOK, Next, NEW i \in Replicas, boot[i] = "reconcile", boot'[i] = "up"
    PROVE  UnmanagedStays
<1>0. \A pc : Goto(i, pc) => boot'[i] = pc
  BY Zenon DEF Goto, RestOK
<1>1. Boot(i)
  <2>1. ~Crash(i)
    BY <1>0, Zenon DEF Crash
  <2> QED
    BY <2>1, BootsStay, Zenon
<1>2. BootReconcile(i)
  BY <1>1, Zenon DEF Boot, BootCount, BootCreate, BootRole, BootCreateRole, BootPermission, BootAssign
<1>3. PICK d : d = PolicyOf[policy]
  BY Zenon
<1>4. UNCHANGED db \/ ApplyManagedRBAC(d)
  BY <1>2, <1>3, Zenon DEF BootReconcile
<1>5. CASE UNCHANGED db
  <2>1. UNCHANGED <<roles, perms, grants, maps>> /\ {0} # {}
    BY <1>5, Zenon DEF db
  <2> QED
    BY <2>1, Zenon DEF UnmanagedStays
<1>6. d \in Policy
  BY <1>3, Mounted, Zenon DEF Proper
<1> QED
  BY <1>4, <1>5, <1>6, ApplyUnmanaged, Zenon

\* A login's sync that ends without a fault or a crash has been made.
LEMMA SyncOnly ==
    ASSUME LoginsOK, RestOK, Next, NEW l \in Logins, login[l].op = "sync", login'[l] = Idle, work' = work
    PROVE  OIDCSync(l)
<1>0. login[l] # Idle /\ login' # login
  <2>1. login[l].op # Idle.op
    BY IdleFits, Zenon
  <2> QED
    BY <2>1, Zenon
<1>1. ~External
  <2>1. work \in 0..MaxWork /\ MaxWork \in Nat
    BY ConstantsAssumption, Zenon DEF RestOK
  <2>2. work' # work + 1
    BY <2>1
  <2> QED
    BY <2>2, Zenon DEF External
<1>2. ASSUME NEW k \in Logins, \/ AuthRead(k) \/ AuthFail(k) \/ AuthSuccess(k) \/ OIDCLogin(k)
                               \/ OIDCSync(k) \/ OIDCSyncFails(k)
      PROVE  OIDCSync(l)
  <2>1. AuthFail(k) \/ AuthSuccess(k) \/ OIDCSync(k)
    BY <1>1, <1>2, Zenon DEF AuthRead, OIDCLogin, OIDCSyncFails
  <2>2. login' = [login EXCEPT ![k] = Idle]
    BY <2>1, Zenon DEF AuthFail, AuthSuccess, OIDCSync
  <2>3. k = l
    <3>1. ASSUME k # l PROVE login'[l] = login[l]
      BY <2>2, <3>1, Zenon DEF LoginsOK
    <3> QED
      BY <1>0, <3>1, Zenon
  <2> QED
    BY <2>1, <2>3, Zenon DEF AuthFail, AuthSuccess
<1>3. ASSUME NEW a \in Admins, Administer(a) PROVE login' = login
  <2>1. CASE \/ CreateUser(a) \/ InsertUser(a) \/ EnableLockout(a) \/ AssignNewRoles(a)
             \/ UpdateRead(a) \/ UpdateWrite(a) \/ DeleteUser(a) \/ TokenRead(a)
             \/ TokenWrite(a) \/ DeleteToken(a)
    BY <2>1, Zenon DEF CreateUser, InsertUser, EnableLockout, AssignNewRoles, UpdateRead, UpdateWrite,
       DeleteUser, TokenRead, TokenWrite, DeleteToken
  <2>2. CASE \/ AssignRole(a) \/ CreateGroupMapping(a) \/ CreateRole(a) \/ PermissionCheck(a)
             \/ AddPermission(a) \/ DeletePermission(a) \/ RemoveCheck(a) \/ RemoveRole(a)
             \/ DeleteRole(a) \/ DeleteGroupMapping(a)
    BY <2>2, Zenon DEF AssignRole, CreateGroupMapping, CreateRole, PermissionCheck, AddPermission,
       DeletePermission, RemoveCheck, RemoveRole, DeleteRole, DeleteGroupMapping
  <2> QED
    BY <1>3, <2>1, <2>2, Zenon DEF Administer
<1>4. ASSUME NEW i \in Replicas, Boot(i) \/ Crash(i) PROVE login' = login
  BY <1>1, <1>4, Zenon DEF Boot, BootCount, BootCreate, BootRole, BootCreateRole, BootPermission,
     BootAssign, BootReconcile, Crash
<1>5. ASSUME ChangePolicy PROVE login' = login
  BY <1>5, Zenon DEF ChangePolicy
<1> QED
  BY <1>0, <1>2, <1>3, <1>4, <1>5, Zenon DEF Next

\* The stored roles give what the groups gs give, and no synced role is of another group.
Synced(u, gs) ==
    /\ BuildPrincipal(u, {})' = BuildPrincipal(u, gs)'
    /\ \A g \in grants' : g[1] = u /\ g[3] = 2 => \E m \in maps : m[1] \in gs /\ m[2] = g[2]

\* SyncOIDCGroupRoles: drop the synced roles no longer mapped, then add the missing ones,
\* leaves the user Synced.
LEMMA SyncGives ==
    ASSUME NEW u, NEW gs, UNCHANGED maps,
           grants' = SyncOIDCGroupRoles(u, {m[2] : m \in {n \in maps : n[1] \in gs}})
    PROVE  Synced(u, gs)
<1>1. PICK M : M = {m[2] : m \in {n \in maps : n[1] \in gs}}
  BY Zenon
<1>2. PICK kept : kept = {g \in grants : ~(g[1] = u /\ g[3] = 2 /\ g[2] \notin M)}
  BY Zenon
<1>3. grants' = kept \union {<<u, r, 2>> : r \in {q \in M : \A g \in kept : ~(g[1] = u /\ g[2] = q)}}
  BY <1>1, <1>2, Zenon DEF SyncOIDCGroupRoles
<1> DEFINE A == {g[2] : g \in {h \in grants' : h[1] = u}}
<1>4. ASSUME NEW q \in M PROVE q \in A
  <2>1. CASE \E g \in kept : g[1] = u /\ g[2] = q
    BY <1>3, <2>1, Zenon
  <2>2. CASE \A g \in kept : ~(g[1] = u /\ g[2] = q)
    <3>1. PICK h : h = <<u, q, 2>>
      BY Zenon
    <3>2. h \in grants'
      BY <1>3, <2>2, <3>1, Zenon
    <3>3. h[1] = u /\ h[2] = q
      BY <3>1
    <3> QED
      BY <3>2, <3>3, Zenon
  <2> QED
    BY <2>1, <2>2, Zenon
<1>5. A \union {m[2] : m \in {n \in maps' : n[1] \in {}}} = A
  BY Zenon
<1>6. A \union {m[2] : m \in {n \in maps' : n[1] \in gs}} = A
  <2>1. {m[2] : m \in {n \in maps' : n[1] \in gs}} = M
    BY <1>1, Zenon
  <2> QED
    BY <1>4, <2>1, Zenon
<1>7. /\ BuildPrincipal(u, {})'
          = {p[2] : p \in {q \in perms' : q[1] \in A \union {m[2] : m \in {n \in maps' : n[1] \in {}}}}}
      /\ BuildPrincipal(u, gs)'
          = {p[2] : p \in {q \in perms' : q[1] \in A \union {m[2] : m \in {n \in maps' : n[1] \in gs}}}}
  BY Zenon DEF BuildPrincipal, RoleActions
<1>8. BuildPrincipal(u, {})' = BuildPrincipal(u, gs)'
  <2> HIDE DEF A
  <2> QED
    BY <1>5, <1>6, <1>7, Zenon
<1>9. ASSUME NEW g \in grants', g[1] = u, g[3] = 2 PROVE \E m \in maps : m[1] \in gs /\ m[2] = g[2]
  <2>1. g[2] \in M
    <3>1. CASE g \in kept
      BY <1>2, <1>9, <3>1, Zenon
    <3>2. CASE g \notin kept
      <4>1. PICK r \in M : g = <<u, r, 2>>
        BY <1>3, <1>9, <3>2, Zenon
      <4>2. g[2] = r
        BY <4>1
      <4> QED
        BY <4>2, Zenon
    <3> QED
      BY <3>1, <3>2, Zenon
  <2> QED
    BY <1>1, <2>1, Zenon
<1> QED
  BY <1>8, <1>9, Zenon DEF Synced

\* ApplyManagedRBAC keeps or adopts what was made interactively or at login, and
\* SyncOIDCGroupRoles makes stored roles follow the session's groups.
THEOREM OriginsAlwaysKept == Spec => OriginsKept
<1> DEFINE Kept == \A i \in Replicas : boot[i] = "reconcile" /\ boot'[i] = "up" =>
              /\ \A r \in Roles : roles[r] = {0} => roles'[r] # {}
              /\ \A p \in perms : p[3] = 0 /\ roles'[p[1]] # {} => p \in perms'
              /\ \A g \in grants : g[3] # 1 /\ roles'[g[2]] # {} =>
                    \E h \in grants' : h[1] = g[1] /\ h[2] = g[2]
              /\ \A m \in maps : m[3] = 0 /\ roles'[m[2]] # {} => \E n \in maps' : n[1] = m[1]
           Tracks == \A l \in Logins : login[l].op = "sync" /\ login'[l] = Idle /\ work' = work =>
              \A u \in {login[l].user}, gs \in {login[l].groups} :
                  HasId(u, login[l].row.id) =>
                      /\ BuildPrincipal(u, {})' = BuildPrincipal(u, gs)'
                      /\ \A g \in grants' : g[1] = u /\ g[3] = 2 =>
                            \E m \in maps : m[1] \in gs /\ m[2] = g[2]
<1>1. AccessInv /\ [Next]_vars => [Kept]_vars /\ [Tracks]_vars
  <2> SUFFICES ASSUME AccessInv, Next PROVE Kept /\ Tracks
    BY Zenon
  <2>1. TablesOK /\ RestOK /\ LoginsOK
    BY Zenon DEF AccessInv, SessionsOK, LoginsOK
  <2>2. Kept
    BY <2>1, ReconcileKeeps, Zenon DEF UnmanagedStays
  <2>3. Tracks
    <3> SUFFICES ASSUME NEW l \in Logins, login[l].op = "sync" /\ login'[l] = Idle /\ work' = work,
                        NEW u \in {login[l].user}, NEW gs \in {login[l].groups},
                        HasId(u, login[l].row.id)
                 PROVE  Synced(u, gs)
      BY Zenon DEF Synced
    <3>1. OIDCSync(l)
      BY <2>1, SyncOnly, Zenon
    <3>2. /\ maps' = maps
          /\ grants' = SyncOIDCGroupRoles(u, {m[2] : m \in {n \in maps : n[1] \in gs}})
      <4>1. u = login[l].user /\ gs = login[l].groups
        BY Zenon
      <4> QED
        BY <3>1, <4>1, Zenon DEF OIDCSync
    <3> QED
      BY <3>2, SyncGives, Zenon
  <2> QED
    BY <2>2, <2>3, Zenon
<1> HIDE DEF Kept, Tracks
<1>2. Spec => [][Kept]_vars /\ [][Tracks]_vars
  BY <1>1, AccessInvariant, PTL DEF Spec
<1> QED
  BY <1>2 DEF Kept, Tracks, OriginsKept, UnmanagedKept, SyncTracksGroups
=============================================================================
