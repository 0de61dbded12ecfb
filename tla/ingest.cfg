SPECIFICATION ProfileSpec
CONSTANTS
  Inputs <- MCInputs
  Catalog <- MCCatalog
  BySize <- MCBySize
  Targets <- MCTargets
  Layers <- MCLayers
  MinBytes = 2
  Cap = 8
  CapFloor = 5
  NoCore = NoCore
  Graphs <- MCGraphs
  NoName = NoName
INVARIANTS
  BytesConserved
  CatalogBytesExact
  AccessesFindTensors
  CoreOrderKept
  CapRespected
  SlotsKeepTheirMeaning
  
CHECK_DEADLOCK FALSE
