\* Either enclave may be restarted, every write or response may be lost and the
\* guest may be late; or nothing fails and it polls between two host cycles.
SPECIFICATION FairSpec
CONSTANTS
    Deltas = {1, 2}
    FaultSets = {{"host_restart", "guest_restart", "response", "write", "late"},
                 {}}
    MaxSteps = 3
    MaxSigned = 4
    MaxCharged = 2
INVARIANTS TypeOK AdmittedAsSigned ChargedInOrder FilesFollowChain
PROPERTIES PassedByIsFinal EveryStepCharged
