SPECIFICATION Spec
CONSTANTS
  Validator = {me, q}
  Me = me
  Heavy = q
  HeavyPower = 2
  VotingPower <- Power
  BlockId = {a}
  ValidId = {a}
  MyTurn = {0}
  MaxHeight = 1
  MaxRound = 1
  MaxTocks = 1
  MaxRestarts = 1
  MaxSyncs = 1
  SyncWriteFails = FALSE
  Nil = Nil
  None = None
CHECK_DEADLOCK FALSE
INVARIANT NoPanic
