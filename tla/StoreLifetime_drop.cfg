\* Every way to let go of a store: after close(), stop(), a panic, or nothing.
CONSTANTS
  c1 = c1
  c2 = c2
  w1 = w1
  Clients <- MCClients
  Workers <- MCWorkers
  Reducer = reducer
  NoOne = NoOne
  Capacity = 1
  MaxCalls = 2
  MaxEffects = 2
SPECIFICATION FairSpec
INVARIANTS
  TypeOK
  DropComesLast
  DropFindsTaken
  FailsAfterPanic
PROPERTIES
  DroppedInTheEnd
\* The store comes to its end, or is left alone.
CHECK_DEADLOCK FALSE
