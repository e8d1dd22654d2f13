SPECIFICATION Spec

CONSTANTS
  c1 = c1
  c2 = c2
  c3 = c3
  w1 = w1
  show = show
  keep = keep
  fail = fail
  AddSubscriber = AddSubscriber
  StateFunction = StateFunction
  Exit = Exit
  NoOne = NoOne
  NoOp = NoOp
  NoItem = NoItem
  NoAction = NoAction
  Actions <- MCActions
  Controls <- MCControls
  Predicate <- MCPredicate
  Clients <- MCClients
  Outcome <- MCOutcome
  Policy = "DropOldestIf"
  Capacity = 2
  Workers = {}
  MaxSubs = 2
  Effects <- NoEffects
  MayCall <- SubscribeCalls
  MaxCalls <- SubscribeBounds

INVARIANT TypeOK
INVARIANT OneSenderInside
INVARIANT NothingAfterExit
INVARIANT GaplessDelivery
INVARIANT AtMostOneStale
INVARIANT UnsubscribedOnce
INVARIANT NoneLeftWaiting

\* The clients make MaxCalls calls at most and stop.
CHECK_DEADLOCK FALSE
