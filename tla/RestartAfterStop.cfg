SPECIFICATION Spec
CONSTANTS
  MaxThrottles = 1
  DefaultThrottles = 1
  MaxLocos = 2
  MaxSpeed = 1
  SpeedStep = 1
  FastMultiplier = 2
  AddMultiplier = 2
  CmdBuf = 10
  a = a
  b = b
  Locos = {a}
  Functions = {f0}
  None = None
  Depth = 2
  EventsDepth = 3
  Saved <- NoneSaved
  Inputs = {"acquire", "speed"}
  Reports = {"slot", "speed"}
  MaxOps = 3
  MaxDrops = 1
  MaxTroubles = 4
INVARIANTS
  StopSurvivesReconnect
