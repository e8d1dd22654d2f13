SPECIFICATION Spec

CONSTANTS
  s1 = s1
  s2 = s2
  a1 = a1
  a2 = a2
  exit = exit
  Receiver = receiver
  NoOne = NoOne
  NoOp = NoOp
  Senders <- MCSenders
  Actions <- MCActions
  Controls <- MCControls
  Predicate <- MCPredicate
  Capacity = 2
  Policy = "DropLatestIf"
  MaxSends = 2
  Exclusive = FALSE
  MayClose = TRUE
  SpuriousWakeups = TRUE

INVARIANT TypeOK
INVARIANT InOrder
PROPERTY ImplementsChannel

\* The senders make MaxSends calls each and stop.
CHECK_DEADLOCK FALSE
