SPECIFICATION FairSpec

CONSTANTS
  s1 = s1
  s2 = s2
  a1 = a1
  a2 = a2
  exit = exit
  Receiver = receiver
  NoOne = NoOne
  NoOp = NoOp
  Senders <- MCSenders
  Actions <- MCActions
  Controls <- MCControls
  Predicate <- MCPredicate
  Capacity = 2
  Policy = "DropOldestIf"
  MaxSends = 2
  Exclusive = TRUE
  MayClose = FALSE
  SpuriousWakeups = FALSE

INVARIANT NoLostWakeup
PROPERTY SendReturns
PROPERTY ImplementsFairChannel

\* The senders make MaxSends calls each and stop.
CHECK_DEADLOCK FALSE
