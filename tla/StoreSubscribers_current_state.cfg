SPECIFICATION Spec

CONSTANTS
  c1 = c1
  c2 = c2
  s1 = s1
  i1 = i1
  Reducer = reducer
  NoOne = NoOne
  Clients <- MCClients
  Channeled <- MCChanneled
  Iterators <- MCIterators
  Capacity = 1
  FeedCapacity = 1
  MayCall <- ClientCalls
  MaxCalls <- ClientBounds

INVARIANT StartsWithCurrentState

\* The clients make MaxCalls calls at most and stop.
CHECK_DEADLOCK FALSE
