\* Two exporters on a host or in a VM, two boot states, three generated keys.
SPECIFICATION Spec
CONSTANTS
    Exporters = {p1, p2}
    Boots = {"clean", "changed"}
    Attempts = 2
    MaxKeys = 3
INVARIANTS KeyIsSealed NoPlaintextLeft
