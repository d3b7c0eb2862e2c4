SPECIFICATION Spec
CONSTANTS
  Slots = {1, 2}
  Self = 1
  GeneValidators = {1, 2, 3}
  GeneBftGroup = {1, 2}
  Lists <- MCLists
  TokenOrder <- MCTokenOrder
  BftNumber = 2
  Synced <- MCSynced
  Voted = {1}
  MaxNo = 3
  MaxHeight = 3
  MaxAsks = 1
  MaxRequests = 5
  TARGET_BLK_COUNT = 2
INVARIANTS EpochTypeOK Settled
PROPERTIES Resumes  
CHECK_DEADLOCK FALSE
