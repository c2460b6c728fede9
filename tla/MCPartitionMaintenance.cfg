\* Runs of two replicas that overlap, fail, and lose their connections.
CONSTANTS
    r1 = r1
    r2 = r2
    s1 = s1
    s2 = s2
    s3 = s3
    NoSession = NoSession
    Replica <- Replicas
    Session <- Sessions
    OwnedBy <- Owners
    MonthsAhead = 2
    MaxMonth = 4
SPECIFICATION FairMaintenance
INVARIANTS
    PartitionInv
    HorizonCovered
PROPERTY
    LockFreed
