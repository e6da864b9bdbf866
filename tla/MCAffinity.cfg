CONSTANTS
  k1 = k1
  d1 = d1
  n1 = n1
  v1 = v1
  NoRouter = NoRouter
  NoSRV = NoSRV
  None = None
  Calls = {k1}
  DRs = {d1}
  NSs = {n1}
  SRVs = {NoSRV, v1}
  Scripts <- AnyCall
  Foreign <- OtherMessages
  Confirmations = 1
  Timeout = 2
  ForkDepth = 2
  MaxBlock = 5
  MaxRollbacks = 1
SPECIFICATION FairSpec
INVARIANTS RouterHasOffer SignerOrder FindMissesNothing ConfirmedStays
PROPERTIES ConfirmedOfferIsMine EveryCallAnswered
CHECK_DEADLOCK FALSE
