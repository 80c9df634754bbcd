CONSTANTS
  NoValue = NoValue
  NoLabel = NoLabel
  BankSize = 3
  Banks = 2
  Reach = 1
  Modules <- AllModules
  Projects <- AllProjects
SPECIFICATION Spec
INVARIANTS
  TypeOK EquEvaluatedBeforeUse EquationsHold
  BytesHaveOneWriter MapAgreesWithSink NoJumpTargetLost CrashesOnlyOnConstants
