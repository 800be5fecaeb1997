CONSTANTS
    Clients = {c1, c2}
    Admins = {x, y}
    Names = {"p", "h", "g"}
    Versions = {"v"}
    Formats = {"npm"}
    Configs <- MCConfigs
    Wanted <- MCWanted
    Blueprints <- MCBlueprints
    Founding <- MCFounding
    Readers <- MCReaders
    MaxIds = 4
    MaxWork = 3
SYMMETRY Symmetry
SPECIFICATION Spec
CHECK_DEADLOCK FALSE
INVARIANTS DecisionsSound ServedWasAllowed 
