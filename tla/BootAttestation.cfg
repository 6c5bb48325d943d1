\* A host alone, a guest alone, a guest on its host; each with the failures
\* that matter to it.
SPECIFICATION Spec
CONSTANTS
    QuoteTries = 2
    SnapshotTries = 2
    Cases = {
        {"host", "host_ak", "software"},
        {"host", "host_ak", "writers"},
        {"host", "host_ak", "read", "quote", "registry"},
        {"host", "host_ak", "blank", "stop"},
        {"host", "host_snapshot", "read", "stop"},
        {"host", "host_snapshot", "stop", "reboot"},
        {"guest", "guest_ak", "runner_quotes", "software"},
        {"guest", "guest_ak", "gpu", "software", "stop"},
        {"guest", "gpu", "runner_quotes", "writers", "quote"},
        {"guest", "guest_ak", "gpu", "runner_quotes", "read", "quote", "registry"},
        {"guest", "guest_ak", "gpu", "runner_quotes", "quote", "stop"},
        {"guest", "guest_ak", "gpu", "quote", "stop", "resend", "reboot"},
        {"guest", "guest_snapshot", "stop", "reboot"},
        {"guest", "guest_snapshot", "read"},
        {"guest", "guest_ak", "gpu", "guest_snapshot", "quote", "reboot"},
        {"host", "guest", "host_ak", "guest_ak", "parent", "runner_quotes", "quote", "stop"},
        {"host", "guest", "parent", "registry"},
        {"host", "guest", "guest_ak", "parent", "runner_quotes", "blank"},
        {"host", "guest", "parent", "resend", "reboot"}}
    MaxMeasured = 2
    MaxStarts = 2
    MaxBoots = 2
INVARIANTS TypeOK NoFalseAlarm AdmittedIsFresh AdmittedIsRegistered NonceAdmitsOnce
