SPECIFICATION FairSpec
CONSTANTS
    Clients = {"k"}
    Coords = {"a", "p"}
    Versioned = {"a"}
    Stored <- MCStored
    Pool = {"w"}
    QueueCap = 1
    Batch = 1
    MaxTerms = 2
    MaxWork = 1
PROPERTIES RepeatedOnlyByRace StoredIsScanned 
