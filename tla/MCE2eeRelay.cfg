SPECIFICATION Spec
CONSTANTS
  p1 = p1
  p2 = p2
  p3 = p3
  ana = ana
  bia = bia
  Peer <- MCPeer
  AccountOf <- MCAccountOf
  Group = {g, h}
  Payload = {x, y}
  MaxGroups = 1
  Told = {}
  MaxSession = 2
  MaxEpoch = 1
  MaxInbox = 2
SYMMETRY MCSymmetry
CONSTRAINT MCTwoOrNoChoice
INVARIANTS WelcomeFollowsCommit MlsInOrder LostReplyIsIdempotent
PROPERTY DecidesInOrder
CHECK_DEADLOCK FALSE
