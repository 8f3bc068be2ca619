SPECIFICATION FairSpec
CONSTANTS
    MaxVersion = 4
    SnapshotTTL = 2
INVARIANTS
    SnapshotTypeOK
PROPERTIES
    NeverOlder
    CatchesUp
