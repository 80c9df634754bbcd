CONSTANTS
  NoValue = NoValue
  BodyLength = 3
  MaxPasses = 5
  Tasks <- DriverTasks
SPECIFICATION Spec
INVARIANTS
  TypeOK EveryPathCovered DecodingStands FarTargetsFollowed LabelsResolve NothingLeftOver
PROPERTIES ResultOnlyWeakens
