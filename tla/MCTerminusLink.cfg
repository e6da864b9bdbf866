CONSTANTS
  c1 = c1
  c2 = c2
  s1 = s1
  s2 = s2
  s3 = s3
  i1 = i1
  i2 = i2
  i3 = i3
  p1 = p1
  p2 = p2
  Nil = Nil
  Clients = {c1}
  Subs = {s1, s2}
  SubIds = {i1, i2}
  Pubs = {p1}
  clientOf <- RaceClient
  idOf <- RaceId
  uriOf <- RaceUri
  tap <- RaceTap
  topicOf <- RaceTopic
  consumers <- RaceConsumers
  after <- RaceAfter
  subAfter <- RaceSubAfter
  Callers = {}
  Leavers = {}
  QueueCap = 1
SPECIFICATION Spec
INVARIANT AddedIsInTree
CHECK_DEADLOCK FALSE
