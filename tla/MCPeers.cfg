SPECIFICATION FairSpec
CONSTANTS
  Publishes = {"p"}
  Subscribes = {"s"}
  Unsubscribes = {"u"}
  Queries = {"q"}
  subOf <- MCsubOf
  Plans <- MCPlans
  MaxConns = 3
INVARIANTS TypeOK  OneVerdict 
PROPERTIES PublishAnswered
CHECK_DEADLOCK FALSE
CONSTRAINT ClientRuns
