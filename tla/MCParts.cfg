SPECIFICATION PartsSpec
CONSTANTS
  mic1 = mic1
  mic2 = mic2
  screen1 = screen1
  here = here
  there = there
  s1 = s1
  s2 = s2
  s3 = s3
  ana = ana
  bia = bia
  Request <- MCRequest
  SourceOf <- MCSourceOf
  KeyOf <- MCKeyOf
  NoTransport = NoTransport
  MaxAsked = 2
  MaxMutes = 2
  MaxQueue = 1
  Socket <- MCSocket
  AccountOf <- MCAccountOf
  MaxRequests = 1
  StaleAfter = 2
  MaxSecond = 3
  MaxPosts = 3
  Channel <- MCChannel
  None = None
  MaxJoins = 2
  MaxEvents = 1
  Lowest = 1
  NoQuality = NoQuality
  MaxScreenClicks = 2
  MaxChanges = 1
  MaxBeats = 1
  MaxFaults = 1
  scr1 = scr1
  scr2 = scr2
  Producer <- MCProducer
  NoScreen = NoScreen
  MaxClicks = 2
  MaxMade = 2
  Cycle = 20
  Jump = 4
  MostHeld = 2
  MostAsks = 1
  Late = 3
  Ahead = 5
  MaxSent = 6
  Ceiling = 100
  CleanWindows = 5
  HoldoffWindows = 8
  StarvedWindows = 5
  RoomyWindows = 6
  Spacing = 1
  Backoff = 4
  MostSpacing = 8
  QuietTime = 3
  Burst = 2
  Worker <- MCWorker
  AtFirst <- MCAtFirst
  Person <- MCPerson
  w1 = w1
  w2 = w2
  w3 = w3
  p1 = p1
  p2 = p2
  p3 = p3
  p4 = p4
  PeersPerRouter = 2
  Nowhere = Nowhere
  MaxEntries = 5
  MaxExpansions = 2
  Device = {d1, d2}
  MaxAttempts = 2
  MaxSockets = 3
  MaxTroubles = 2
  WindowSize = 2
  Overlap = 1
  LastEpoch = 2
  MaxFrames = 4
  NoKey = NoKey
  Asker = {r1, r2}
  NoAsker = NoAsker
  MaxPairs = 2
  MaxDeaths = 2
INVARIANTS PartsTypeOK LiveIsListed LeaverHoldsNothing AnsweredMuteHolds GoneHoldsNothing
  ListenersAreTold ConnectingHasATask SeatedIsConnected StoppedSharesNothing OneConsumerEach
  WatchedIsServed NobodyIsStranded OneRouterPerWorker SessionIsSeated
  ReleasedInOrder HolesAreWaitedFor StepsAreTheLastResort NoAskIsLost
  NoncesAreFresh WindowIsExact NobodyIsThrownOut
PROPERTY LateLeftSparesNewer
CONSTRAINTS MCInOrder MCFewMeet
CHECK_DEADLOCK FALSE
