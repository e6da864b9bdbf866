CONSTANTS
  c1 = c1
  c2 = c2
  s1 = s1
  s2 = s2
  s3 = s3
  i1 = i1
  i2 = i2
  i3 = i3
  p1 = p1
  p2 = p2
  Nil = Nil
  Clients = {c1}
  Subs = {s1}
  SubIds = {i1}
  Pubs = {p1, p2}
  clientOf <- LifeClient
  idOf <- LifeId
  uriOf <- LifeUri
  tap <- LifeTap
  topicOf <- LifeTopic
  consumers <- LifeConsumers
  after <- LifeAfter
  subAfter <- LifeSubAfter
  Callers = {i1}
  Leavers = {c1}
  QueueCap = 2
SPECIFICATION FairSpec
INVARIANTS PublisherOrder AtMostOneLate
PROPERTIES DoneEnds QueuedIsHandled ListedClientLeaves
CHECK_DEADLOCK FALSE
