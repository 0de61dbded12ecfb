SPECIFICATION Spec
CONSTANTS
  Tensors <- MCTensors
  TensorOrder <- MCTensorOrder
  TensorBytes <- MCUniformBytes
  TensorCore <- MCTensorCore
  Cores = {0, 1}
  CoreZero = 0
  NoCore = NoCore
  Levels <- MCLevels
  Enabled <- MCLevels
  Deepest = "hbm"
  PerCore <- MCPerCore
  OffChip <- MCOffChip
  WipeLevels <- MCWipeLevels
  Capacity <- MCUniformCapacity
  DefaultTarget = "sbuf"
  Home <- MCHome
  Accesses <- MCIngestAccesses
  KernelEnds <- MCKernelEnds
INVARIANTS
  WithinCapacity
PROPERTY
  ImplementsScratchCache
