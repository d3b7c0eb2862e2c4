SPECIFICATION Spec
CONSTANTS
  Me = 3
  Total = {1, 2, 3}
  FirstGroup = {1, 3}
  BftNumber = 2
  Draws <- MCDraws
  MaxNum = 2
  MaxBlocks = 1
  MaxRequests = 1
  Groups <- MCGroups
  Slots = {1, 2}
  Peers = {1}
  Top <- MCTop
  Span = 3
  MaxSyncBlocks = 2
  MaxTicks = 2
  MaxVersion = 3
  MaxHeight = 2
  MaxResets = 1
  Ips = {1, 3}
  Owner <- MCOwner
  Self = 9
  Seeds = {1, 3}
  Dialers = {1, 2}
  MaxConnOutBound = 1
  MaxConnInBound = 1
  MaxConnInBoundForSingleIP = 1
  MaxRetry = 2
  MaxConns = 2
  MaxSeeds = 1
INVARIANTS
  NetworkTypesOK
  
  GroupFollows
  Watched
  PlacesReturned
PROPERTY Streams
CHECK_DEADLOCK FALSE
