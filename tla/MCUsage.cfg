SPECIFICATION Spec
CONSTANTS
    Vcpus = {v1, v2}
    Delays = {1, 2}
    Jiffy = 2
    ClkTck = 1
    Works = {"guest", "user", "sys"}
    OtherWorks = {"sys"}
    U64 = 64
    MaxLives = 1
    MaxTicks = 3
    MaxSamples = 2
SYMMETRY VcpuSymmetry
CHECK_DEADLOCK FALSE
INVARIANT TypeOK
INVARIANT DomainShowsVcpus
INVARIANT HypIsRest
