SPECIFICATION EngineSpec
CONSTANTS
  Tensors <- MCTensors
  TensorOrder <- MCTensorOrder
  TensorBytes <- MCBytes
  TensorCore <- MCTensorCore
  Cores = {0, 1}
  CoreZero = 0
  NoCore = NoCore
  Levels <- MCLevels
  Enabled <- MCLevels
  Deepest = "hbm"
  PerCore <- MCPerCore
  OffChip <- MCOffChip
  WipeLevels <- MCWipeLevels
  Capacity <- MCCapacity
  DefaultTarget = "sbuf"
  Home <- MCHome
  Accesses <- MCAccesses
  KernelEnds <- MCKernelEnds
  ReadLatency <- MCReadLatency
  WriteLatency <- MCWriteLatency
  ReadEnergy <- MCReadEnergy
  WriteEnergy <- MCWriteEnergy
  OnChipTime = 1
  DmaTime = 4
  RefreshInterval <- MCRefreshInterval
  RefreshEnergy <- MCRefreshEnergy
  Starts = {0, 1}
  Gaps = {0, 1, 4}
  MaxEvents = 4
INVARIANTS
  LedgersBalance
  RefreshTelescopes
CHECK_DEADLOCK FALSE
