SPECIFICATION FairSpec
CONSTANTS
  Publishes = {}
  Subscribes = {"s"}
  Unsubscribes = {}
  Queries = {}
  subOf <- MCnoSub
  Plans <- MCLostPlans
  MaxConns = 2
PROPERTIES SubscribeRegenned
CHECK_DEADLOCK FALSE
CONSTRAINT ClientRuns
