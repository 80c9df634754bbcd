CONSTANTS
  NoValue = NoValue
  BodyLength = 3
  Programs <- PushPullPrograms
SPECIFICATION Spec
INVARIANTS NeverAborts
