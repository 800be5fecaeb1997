SPECIFICATION Spec
CONSTANTS
    Self = "self"
    Peers = {"peer"}
    Ships <- MCShips
    Seeds <- MCSeeds
    Members <- MCMembers
    Handlers = {"h", "k"}
    BufferSize = 2
    Modes = {"single", "shared", "labels"}
    MaxWork = 3
CHECK_DEADLOCK FALSE
INVARIANTS StartedIsComplete EventsAccounted 
PROPERTIES SignalExits EveryReplicaStarts
