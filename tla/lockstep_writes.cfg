SPECIFICATION BenefitSpec
CONSTANTS
  Tensors <- MCTensors
  TensorOrder <- MCTensorOrder
  TensorBytes <- MCBytes
  TensorCore <- MCTensorCore
  Cores = {0, 1}
  CoreZero = 0
  NoCore = NoCore
  Levels <- MCLevels
  Enabled <- MCLevels
  Deepest = "hbm"
  PerCore <- MCPerCore
  OffChip <- MCOffChip
  WipeLevels <- MCWipeLevels
  Capacity <- MCCapacity
  DefaultTarget = "sbuf"
  Home <- MCHome
  Accesses <- MCReadsAndWrites
  KernelEnds <- MCKernelEnds
  ReadLatency <- MCReadLatency
  WriteLatency <- MCWriteLatency
  ReadEnergy <- MCEnergy
  WriteEnergy <- MCEnergy
  OnChipTime = 1
  DmaTime = 4
  PoolLevel = "ltram"
  SpillTarget = "hbm"
  MaxHops = 6
  Spilled = {"v"}
INVARIANTS
  ReplayCountsChargedHops
