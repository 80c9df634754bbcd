CONSTANTS
  NoValue = NoValue
  BodyLength = 3
  MaxPasses = 5
  Tasks <- YieldTasks
SPECIFICATION Spec
INVARIANTS FarTargetsFollowed
