SPECIFICATION Spec
CONSTANTS
  MaxItems = 2
  MaxId = 5
  Circle = 4
  SmallCutoff = 8
  MedCutoff = 16
  Steps <- SizeSteps
  MaxSize = 24
  Typed <- SomeTyped
  ItemLines <- Heights
  Sessions <- SomeSessions
INVARIANTS TypeOK GateIsSearched CanMoveBack HeightsFit NumbersAreValid
