\* A stop between insert_block and SET gpu_checkpoint.
SPECIFICATION Spec
CONSTANTS
    Tenants = {n1}
    Gpu = {n1}
    BatchSize = 1
    Faults = {"crash"}
    MaxBlocks = 3
    MaxRecords = 2
    MaxIter = 2
INVARIANT RefusedOnlyIfDisturbed
