\* One failure anywhere; Kubernetes may collect what the object owns.
CONSTANTS
  Sources <- Both
  OwnerRefs = TRUE
  MaxFaults = 1
SPECIFICATION FairSpec
INVARIANTS TypeOK ReadyHasHandle
PROPERTIES SuccessNotLost DeletionCompletes OrphanReclaimed
