SPECIFICATION FairSpec
CONSTANTS
  Credentials <- TwoNetworks
  Accepted <- OneTakes
  None = None
  Handsets <- FourHandsets
  CtrlDepth = 2
  MaxDrops = 1
  MaxServerUps = 1
INVARIANTS
  BlankIsParked
PROPERTIES
  BootSettles
  LeftAloneSleeps
  Rejoins
  
CHECK_DEADLOCK FALSE
