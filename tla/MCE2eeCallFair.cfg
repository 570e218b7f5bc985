SPECIFICATION FairCallSpec
CONSTANTS
  p1 = p1
  p2 = p2
  p3 = p3
  ana = ana
  bia = bia
  caio = caio
  Peer <- MCPeer
  AccountOf <- MCOwnAccounts
  Group <- MCGroup
  Payload <- MCPayload
  MaxGroups = 4
  Told <- MCTold
  MaxSession = 2
  MaxEpoch = 0
  MaxInbox = 0
  MaxDrops = 0
  MaxFails = 0
  MaxExits = 0
  MaxKicks = 0
  MaxStarts = 1
PROPERTY EveryoneGetsKeys
CHECK_DEADLOCK FALSE
