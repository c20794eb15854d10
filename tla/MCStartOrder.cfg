SPECIFICATION MCSpec
CONSTANTS
  Services = {a, b, c}
  Names = {a, b, c, ghost}
  MaxDeps = 2
INVARIANTS
  TypeOK
  DegreesExact
  OrderRespectsNeeds
  AnswerSound
PROPERTIES
  Answers
  ImplementsPromise
CHECK_DEADLOCK FALSE
