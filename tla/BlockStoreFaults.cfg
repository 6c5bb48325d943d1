\* One GPU node: every Redis command may fail, with or without effect, and its
\* keys may be lost, rolled back or overwritten.
SPECIFICATION Spec
CONSTANTS
    Tenants = {n1}
    Gpu = {n1}
    BatchSize = 1
    Faults = {"crash", "connect", "io", "reply", "loss", "rewrite"}
    MaxBlocks = 3
    MaxRecords = 2
    MaxIter = 2
INVARIANTS TypeOK LinkedStore AtMostOnce VouchedHistory
PROPERTIES ResumesOnLastBlock
