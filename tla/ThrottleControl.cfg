SPECIFICATION Spec
CONSTANTS
  MaxThrottles = 2
  DefaultThrottles = 2
  MaxLocos = 2
  MaxSpeed = 2
  SpeedStep = 1
  FastMultiplier = 2
  AddMultiplier = 2
  CmdBuf = 10
  Locos = {a, b}
  Functions = {f0}
  None = None
  Depth = 2
  EventsDepth = 3
  Inputs <- AllInputs
  Reports = {"slot", "star", "speed", "other"}
  MaxOps = 4
SYMMETRY Symmetry
INVARIANTS
  TypeOK
  StopIsFinal
  StopIsDelivered
  LastCommandWins
  SlotsConverge
