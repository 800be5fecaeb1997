SPECIFICATION Spec
CONSTANTS
    Users = {"root", "bob"}
    Root = "root"
    Roles = {"administrator", "dev"}
    Groups = {"g"}
    Policies = {"off", "files", "takeover", "mapped"}
    Requests <- MCRequests
    PolicyOf <- MCPolicyOf
    Replicas = {i, j}
    Logins = {l, m}
    Admins = {x, y}
    MaxFailed = 2
    MaxWork = 3
SYMMETRY Symmetry
CHECK_DEADLOCK FALSE
INVARIANTS RowsAgree  BootstrapCompletes
PROPERTIES LocksMoveByCause OriginsKept
