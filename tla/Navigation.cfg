SPECIFICATION FairSpec
CONSTANTS
  Compiled <- OneNetwork
  WithPassword = {"s1"}
  StackCap = 3
  Profiles = {"LongFred", "MarkWTech"}
  Servers = {"t1"}
  Starts <- MenuStarts
  Keys <- EveryKey
  MaxKeys = 3
INVARIANTS
  NoDebugAssert
  PasswordMatchesSsid
  SelectionExists
  

  
