SPECIFICATION FairSpec
CONSTANTS
  Locos = {a}
  Sentinel = S
  Codes = {c1}
  None = None
  CodeLength = 2
  MaxTroubles = 2
INVARIANTS
  TypeOK
PROPERTIES
  PairingIsResolved
  PairsInTheEnd
