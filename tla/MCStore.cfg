SPECIFICATION FairSpec
CONSTANTS
  Puts <- MCPuts
  topicOf <- MCtopicOf
  None = None
  Dummy = Dummy
  Begins <- MCBegins
  Plans <- MCPlans
INVARIANTS TypeOK PathsClosed LostOnlyToRace NoInvariantFailure QuerySound QueryComplete FoundOnce 
PROPERTIES QueryEnds
CHECK_DEADLOCK FALSE
