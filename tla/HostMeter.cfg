\* One socket with or without memory domain and platform counter.  Nothing
\* fails; or the exporter starts again and the timer probe overlaps, counters
\* cannot be read, or counters wrap and updates are lost.
SPECIFICATION FairSpec
CONSTANTS
    Count = 1
    Vms = {v1, v2}
    Cores = 2
    MaxRange = 4
    Before = {1}
    RecordSize = 2
    BufferBytes = 3
    FaultSets = {{}, {"overlap", "restart"}, {"read", "restart"},
                 {"wrap", "write", "restart"}}
    MaxBurned = 3
    MaxGlitches = 1
INVARIANTS TypeOK NeverOvercharged NoFalseAlarm
PROPERTIES EverythingMetered
