SPECIFICATION LifetimeSpec
CONSTANTS
  Tensors <- MCTensors
  TensorOrder <- MCTensorOrder
  TensorBytes <- MCBytes
  TensorCore <- MCTensorCore
  Cores = {0, 1}
  CoreZero = 0
  NoCore = NoCore
  Levels <- MCLevels
  Enabled <- MCLevels
  Deepest = "hbm"
  PerCore <- MCPerCore
  OffChip = {"hbm"}
  WipeLevels = {"sbuf"}
  Capacity <- MCCapacity
  DefaultTarget = "sbuf"
  Home <- MCHome
  Accesses <- MCAccesses
  KernelEnds <- MCKernelEnds
  Kernels = {1, 2}
  MicroEnd = 1
  ShortEnd = 3
  MediumEnd = 5
  LongEnd = 8
  Starts <- MCKernelEnds
  Gaps <- MCGaps
  MaxEvents = 5
INVARIANTS
  StintsBoundResidency
  StintsAreResidency
  EndedKernelsInactive
  LongerLivesRankHigher
CHECK_DEADLOCK FALSE
