CONSTANTS
  Entities = {"ns", "u", "v"}
  DOTs = {"d1", "d2", "dx", "dv"}
  Chains = {"c"}
  giver <- MCgiver
  receiver <- MCreceiver
  dotsOf <- MCdotsOf
  entityExpiry <- MCentityExpiry
  dotExpiry <- MCdotExpiry
  Threads = {"t1", "t2"}
  None = None
  Plans <- MCPlans
  Lag = 2
  Replay = 5
  Holdoff = 3
  MaxJump = 2
  Stall = 1
  Delay = 1
SPECIFICATION Spec
INVARIANTS
  TypeOK
  StaleCovered
  
  NewGrantCovered
  ValidIsDeep
  NeverRevived
PROPERTY
  ExpiredLeaves
