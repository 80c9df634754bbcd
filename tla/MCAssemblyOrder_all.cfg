CONSTANTS
  Names = {1, 2, 3}
  Modules <- AllModules
  Projects <- Triples
SPECIFICATION FairOrderSpec
INVARIANTS
  OrderTypeOK
  OrderRespectsDependencies
  CyclicMeansNoOrder
  DefinitionsUnique
PROPERTIES OrderFound
