CONSTANTS
    Machines = {m1, m2}
    Closers = {m1}
    None = None
    Gone = Gone
    Drift = 2
    MaxSpend = 2
    MaxFaults = 2
SPECIFICATION FairSpec
INVARIANT NeverOverstated StampIsFound
PROPERTY EverythingReported StampSettles
