SPECIFICATION Spec
CONSTANTS
    r1 = r1
    r2 = r2
    r3 = r3
    daemon = daemon
    other = other
    Reqs = {r1, r2, r3}
    Instances = {daemon, other}
    Sweeping = {daemon}
    InstanceOf <- OneDaemon
    SizeOf <- Lengths
    Limit = 2
    LockSupported = FALSE
    MaxDay = 1
    MaxMishaps = 0
INVARIANTS
    GateIsEnough
