SPECIFICATION Spec
CONSTANTS
  NumPhilosophers = 3
  Meals = 5
  BlockMeals = 2
INVARIANTS
  TypeOK
  ForksHeldByEaters
  ResultIsValid
PROPERTY RunReturns
CHECK_DEADLOCK FALSE
