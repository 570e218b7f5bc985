SPECIFICATION Spec
CONSTANTS
  s1 = s1
  s2 = s2
  s3 = s3
  j1 = j1
  j2 = j2
  j3 = j3
  laptop = laptop
  phone = phone
  Join <- MCJoin
  Socket <- MCSocket
  SocketOf <- MCSocketOf
  DeviceOf <- MCDeviceOf
  Code = {c1}
  User = {gil}
  Guest = {gil}
  Impatient = FALSE
  None = None
INVARIANT OneRoomPerCode
CHECK_DEADLOCK FALSE
