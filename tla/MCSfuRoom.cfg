SPECIFICATION FairSpec
CONSTANTS
  s1 = s1
  s2 = s2
  s3 = s3
  j1 = j1
  j2 = j2
  j3 = j3
  laptop = laptop
  phone = phone
  Join <- MCJoin
  Socket <- MCSocket
  SocketOf <- MCSocketOf
  DeviceOf <- MCDeviceOf
  Code = {c1, c2}
  User = {ana, gil}
  Guest = {gil}
  Impatient = FALSE
  None = None
INVARIANTS EveryPeerCanLeave OneSessionPerAccount EmptyRoomIsClosed NoStaleOccupant
PROPERTY RoomsEnd
CHECK_DEADLOCK FALSE
