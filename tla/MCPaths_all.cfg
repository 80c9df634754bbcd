CONSTANTS
  NoValue = NoValue
  BodyLength = 4
  MaxStack = 3
  Programs <- AllPrograms
SPECIFICATION PathSpec
INVARIANTS
  TypeOK NoPathMissed ForwardJoinsCoverPaths WidthsDecided InstructionsPlaced NoRunIntoData
  FixedPointCoversEveryPath
