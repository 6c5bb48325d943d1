\* One GPU node and one CPU guest; enclaves stop and restart at any point.
SPECIFICATION Spec
CONSTANTS
    Tenants = {n1, vm1}
    Gpu = {n1}
    BatchSize = 1
    Faults = {"crash"}
    MaxBlocks = 3
    MaxRecords = 2
    MaxIter = 2
INVARIANTS AuditAccepts SealedOnce SignedIsComplete
PROPERTIES ImplementsLog LaggingIsFinal
