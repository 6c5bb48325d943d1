\* The records of up to four processes in blocks of two.  Integers have one and
\* two bytes and hashes in lines one; the trees have up to nine leaves.
SPECIFICATION Spec
CONSTANTS
    PerCycle = 9
    FullUtil = 3
    MaxDelta = 11
    MaxWeight = 4
    MaxProcs = 4
    Width32 = 1
    Width64 = 2
    DigestBytes = 1
    MaxDigits = 5
    MaxLabel = 2
    BatchSize = 2
    MaxLeaves = 9
INVARIANTS RecordsAddUp ChargedByActivity CommitmentsBind ReferencesAgree
