SPECIFICATION FenceSpec
CONSTANTS
    a = a
    b = b
    c = c
    Replica = {a, b, c}
    FirstPods = {a, b}
    NoHolder = NoHolder
    Component = {"writer"}
    Skew <- MCNoSkew
    GCTimeout = 1
    StopLag = 0
    GateDuration = 2
    ExecDuration = 1
    AckTTL = 1
    AckQuorum = 2
    MaxSurge = 0
    MaxTime = 3
    MaxSequence = 2
INVARIANTS FenceTypeOK AckersReadOnly OnlyReplacementsWrite
SYMMETRY FirstPodsSymmetry
CHECK_DEADLOCK FALSE
