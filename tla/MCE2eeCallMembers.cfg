SPECIFICATION CallSpec
CONSTANTS
  p1 = p1
  p2 = p2
  p3 = p3
  ana = ana
  bia = bia
  caio = caio
  Peer <- MCPeer
  AccountOf <- MCOwnAccounts
  Group <- MCGroup
  Payload <- MCPayload
  MaxGroups = 4
  Told <- MCTold
  MaxSession = 2
  MaxEpoch = 0
  MaxInbox = 0
  MaxDrops = 1
  MaxFails = 1
  MaxExits = 1
  MaxKicks = 1
  MaxStarts = 2
SYMMETRY MCAllPeers
CONSTRAINT MCOneTrouble
INVARIANTS CallTypeOK OneGroupInTheRoom HeirTakesGhostsOut InStepWithRelay
  EarlyCommitsAreStale Agreement NobodyAhead
PROPERTY NobodyWhoStayedRemoved
CHECK_DEADLOCK FALSE
