SPECIFICATION Spec
CONSTANTS
    r1 = r1
    r2 = r2
    r3 = r3
    daemon = daemon
    other = other
    Reqs = {r1, r2, r3}
    Instances = {daemon, other}
    Sweeping = {daemon}
    InstanceOf <- TwoProcesses
    SizeOf <- Lengths
    Limit = 2
    LockSupported = TRUE
    MaxDay = 1
    MaxMishaps = 0
INVARIANTS
    NeverOvershoots
