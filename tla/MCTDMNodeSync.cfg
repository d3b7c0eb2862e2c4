SPECIFICATION FairSpec
CONSTANTS
  Validator = {me, q}
  Me = me
  Heavy = q
  HeavyPower = 2
  VotingPower <- Power
  BlockId = {a}
  ValidId = {a}
  MyTurn = {0}
  MaxHeight = 2
  MaxRound = 0
  MaxTocks = 1
  MaxRestarts = 1
  MaxSyncs = 1
  SyncWriteFails = FALSE
  Nil = Nil
  None = None
CHECK_DEADLOCK FALSE
INVARIANTS
  LedgerInStep
  CommitIsQuorum
PROPERTY NodeAdvances
