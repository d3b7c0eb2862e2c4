SPECIFICATION Spec
CONSTANTS
  Validator = {me, q}
  Me = me
  Heavy = q
  HeavyPower = 3
  VotingPower <- Power
  BlockId = {a}
  ValidId = {a}
  MyTurn = {0}
  MaxHeight = 1
  MaxRound = 1
  MaxTocks = 1
  MaxRestarts = 0
  MaxSyncs = 0
  SyncWriteFails = FALSE
  Nil = Nil
  None = None
CHECK_DEADLOCK FALSE
INVARIANTS
  TypeOK
  OneVotePerRound
  TimerUnderWay
  NoPanic
PROPERTY NeverBack
