SPECIFICATION FairSpec
CONSTANTS
  plain = plain
  fred = fred
  Ips = {plain, fred}
  BigFredIps = {fred}
  Offered <- Found
  None = None
  MaxOps = 3
  MaxLosses = 2
INVARIANTS
  TypeOK
  DomainMatchesSession
  SessionIsCurrent
PROPERTIES
  FollowsOperator
  StaysConnected
