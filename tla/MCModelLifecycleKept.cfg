\* Three failures anywhere, and no deletion.
CONSTANTS
  Sources <- Both
  OwnerRefs = TRUE
  MaxFaults = 3
SPECIFICATION KeptSpec
PROPERTY PublicationSettles
