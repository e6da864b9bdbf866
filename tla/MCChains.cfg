CONSTANTS
  Dots <- MCDots
  Dot <- MCDot
  Everybody = "all"
  Plans <- MCPlans
  Topics <- MCTopics
SPECIFICATION Spec
INVARIANTS
  RestrictExact
  BuiltVerifies
PROPERTY
  BuildImplementsSearch
