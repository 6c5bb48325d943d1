\* The guest enclave is restarted.
SPECIFICATION Spec
CONSTANTS
    Deltas = {1, 2}
    FaultSets = {{"guest_restart"}}
    MaxSteps = 3
    MaxSigned = 4
    MaxCharged = 3
INVARIANT ChargedOnce
