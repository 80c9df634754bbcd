CONSTANTS
  NoValue = NoValue
  BodyLength = 3
  Programs <- LoopPrograms
SPECIFICATION FairSpec
PROPERTIES PendingOnlyWeakens Termination
