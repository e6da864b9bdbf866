CONSTANTS
  c1 = c1
  c2 = c2
  s1 = s1
  s2 = s2
  s3 = s3
  i1 = i1
  i2 = i2
  i3 = i3
  p1 = p1
  p2 = p2
  Nil = Nil
  Clients = {c1}
  Subs = {s1, s2, s3}
  SubIds = {i1, i2, i3}
  Pubs = {p1, p2}
  clientOf <- MixedClient
  idOf <- MixedId
  uriOf <- MixedUri
  tap <- MixedTap
  topicOf <- MixedTopic
  consumers <- MixedConsumers
  after <- MixedAfter
  subAfter <- MixedSubAfter
  Callers = {}
  Leavers = {}
  QueueCap = 1
SPECIFICATION Spec
INVARIANT TapsDoNotCount
CHECK_DEADLOCK FALSE
