\* Two cards.  Readings fail twice and cycles are dropped; or names or counters
\* fail twice; or blocks and connections fail and enclaves are started again;
\* or the registry cannot be reached at times.
SPECIFICATION FairSpec
CONSTANTS
    Count = 2
    Before = {1}
    BatchSize = 2
    FaultSets = {{"read", "probe", "collect"},
                 {"uuid"},
                 {"reset"},
                 {"flush", "connection", "restart"},
                 {"registry"}}
    MaxBurned = 2
    MaxGlitches = 2
INVARIANTS TypeOK NeverOvercharged SignedIsRecorded
PROPERTIES RulesStay EverythingRecorded
