SPECIFICATION FairSpec
CONSTANTS
  MaxThrottles = 2
  DefaultThrottles = 2
  MaxLocos = 2
  MaxSpeed = 1
  SpeedStep = 1
  FastMultiplier = 2
  AddMultiplier = 2
  CmdBuf = 10
  a = a
  b = b
  Locos = {a, b}
  Functions = {f0}
  None = None
  Depth = 2
  EventsDepth = 3
  Saved <- OneSaved
  Inputs = {"acquire", "release", "speed", "estopCurrent", "throttle"}
  Reports = {"slot"}
  MaxOps = 3
  MaxDrops = 2
  MaxTroubles = 4
INVARIANTS
  TypeOK
  ReconnectHeals
  SpeedResumes
  StopSurvivesReconnect
PROPERTIES
  Recovers
  CoalescedIsResolved
