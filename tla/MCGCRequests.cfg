\* One executor, one deleted owner and the schedule.
SPECIFICATION FairSpec
CONSTANTS
    e1 = e1
    e2 = e2
    o1 = o1
    o2 = o2
    Executor = {e1}
    Owner = {o1}
    Scheduled = scheduled
    MaxAsks = 3
INVARIANTS
    RequestsTypeOK
    DoneMeansCleaned
PROPERTY RequestsServed
