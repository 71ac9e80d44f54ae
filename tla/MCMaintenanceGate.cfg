SPECIFICATION FairSpec
CONSTANTS
    r1 = r1
    r2 = r2
    Replica = {r1, r2}
    NoHolder = NoHolder
    Skew <- MCSkew
    GCTimeout = 2
    StopLag = 0
    GateDuration = 4
    ExecDuration = 1
    MaxTime = 10
    MaxSequence = 3
INVARIANTS TypeOK GateCoversCleanup SequenceNamesOneCycle
PROPERTIES ExclusiveSpec GateReopens
