SPECIFICATION Spec

CONSTANTS
  c1 = c1
  c2 = c2
  c3 = c3
  w1 = w1
  show = show
  keep = keep
  fail = fail
  AddSubscriber = AddSubscriber
  StateFunction = StateFunction
  Exit = Exit
  NoOne = NoOne
  NoOp = NoOp
  NoItem = NoItem
  NoAction = NoAction
  Actions <- TwoActions
  Controls <- MCControls
  Predicate <- MCPredicate
  Clients <- MCClients
  Outcome <- MCOutcome
  Policy = "BlockOnFull"
  Capacity = 1
  Workers = {w1}
  MaxSubs = 0
  Effects <- MCEffects
  MayCall <- OneStopCalls
  MaxCalls <- StopBounds

INVARIANT StopProcessesEffects

\* The clients make MaxCalls calls at most and stop.
CHECK_DEADLOCK FALSE
