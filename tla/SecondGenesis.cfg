\* The connection that would read the stored head fails.
SPECIFICATION Spec
CONSTANTS
    Tenants = {n1}
    Gpu = {n1}
    BatchSize = 1
    Faults = {"crash", "connect"}
    MaxBlocks = 3
    MaxRecords = 2
    MaxIter = 2
INVARIANT SealedOnce
