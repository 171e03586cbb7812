SPECIFICATION Spec
CONSTANTS
  Locos = {a}
  Sentinel = S
  Codes = {c1}
  None = None
  CodeLength = 2
  MaxTroubles = 0
PROPERTIES
  LocosStay
