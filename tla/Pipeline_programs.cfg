\* The repository's examples and tests, and programs for the corners.
CONSTANTS
  Apply <- MCApply
  Wrap <- MCWrap
  Programs <- MCPrograms
  Threads <- MCThreads
  Workers <- MCWorkers
SPECIFICATION Spec
INVARIANTS
  TypeOK
  ReducesLikeChain
  MiddlewaresNest
  AssertionsHold
  CountersAddUp
  NotificationsCounted
  GaugesExact
PROPERTIES
  OnlyGaugesFall
  ProgramsEnd
\* Programs end.
CHECK_DEADLOCK FALSE
