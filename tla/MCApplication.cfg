SPECIFICATION Spec
CONSTANTS
  Single = 2
  Short = 3
  SizeBytes = 2
  Types <- MCTypes
  Samples <- MCSamples
  MaxInput = 3
  a1 = a1
  a2 = a2
  Accounts = {a1, a2}
  Tx <- MCTx
  MaxNonce = 2
  Unset = Unset
  AccountSlots = 1
  GlobalSlots = 2
  AccountQueue = 1
  GlobalQueue = 2
  g = g
  u = u
  v1 = v1
  v2 = v2
  Users = {g, u}
  Genesis = g
  Candidates = {v1, v2}
  Epochs = {1}
  Requests <- MCRequests
  Supply = 3
  Absent = Absent
  MaxHeight = 2
  MaxBlockTxs = 2
  MaxTxs = 2
  MaxCrashes = 1
INVARIANTS
  
  LookupExact
  ProposalExecutable
  WithinLimits
  Conserved
  BooksAgree
  IndexSound
  
  
PROPERTY LocalsKept
CHECK_DEADLOCK FALSE
