SPECIFICATION Spec
CONSTANTS
  Budget = 5
  RetryFloor = 3
  CallTicks = 2
  MaxAnswers = 3
  Million = 10
  Ppm = 3
  Grosses <- SomeGrosses
  Allowed = 1
  Effects = {1, 2}
  MaxFunds = 2
  MaxSlots = 3
INVARIANTS
  ReturnedAsSimulated
  GuardCatchesExcess
  ShownFeeExact
PROPERTIES
  FeeSideRight
  RetriesOnlyHelp
  EveryBuildEnds
