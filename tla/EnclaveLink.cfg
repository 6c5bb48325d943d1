\* All exporters; the failures that meet in one behaviour.
SPECIFICATION Spec
CONSTANTS
    Pids = {1}
    FaultSets = {
        {"crash", "launch", "files"},
        {"stop", "crash"},
        {"stop", "files"},
        {"connect", "registry"},
        {"redis"}}
    MaxTicks = 2
    MaxRuns = 2
    MaxEnclaves = 2
INVARIANTS TypeOK ServedAfterBoot TicksOnce
PROPERTIES NobodyWaits
CHECK_DEADLOCK FALSE
