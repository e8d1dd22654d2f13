SPECIFICATION FairSpec

CONSTANTS
  s1 = s1
  s2 = s2
  a1 = a1
  a2 = a2
  exit = exit
  Receiver = receiver
  NoOne = NoOne
  NoOp = NoOp
  Senders <- MCSenders
  Actions <- MCActions
  Controls <- MCControls
  Predicate <- MCPredicate
  Capacity = 1
  Policy = "BlockOnFull"
  MaxSends = 2
  Exclusive = FALSE
  MayClose = FALSE
  SpuriousWakeups = FALSE

PROPERTY WaitsForItemOnly

\* The senders make MaxSends calls each and stop.
CHECK_DEADLOCK FALSE
