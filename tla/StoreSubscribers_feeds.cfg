SPECIFICATION FairSpec

CONSTANTS
  c1 = c1
  c2 = c2
  s1 = s1
  i1 = i1
  Reducer = reducer
  NoOne = NoOne
  Clients <- MCClients
  Channeled <- MCChanneled
  Iterators <- MCIterators
  Capacity = 1
  FeedCapacity = 1
  MayCall <- ClientCalls
  MaxCalls <- ClientBounds

INVARIANT TypeOK
INVARIANT OneSenderPerFeed
INVARIANT EndedWithReducer
PROPERTY ImplementsFeed
PROPERTY CallsReturn

\* The clients make MaxCalls calls at most and stop.
CHECK_DEADLOCK FALSE
