SPECIFICATION Spec
CONSTANTS
  N = 3
  NumNamed = 1
  Position <- MCPosition
INVARIANTS
  TypeOK
  EverySourceOnce
  RoomForEverySend
  DeliveredAnswersAreKept
  ReportIsHonest
PROPERTIES
  GoroutinesExit
  ImplementsAssessment
