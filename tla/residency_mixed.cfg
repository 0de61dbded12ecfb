SPECIFICATION Spec
CONSTANTS
  Tensors <- MCFewTensors
  TensorOrder <- MCFewOrder
  TensorBytes <- MCFewBytes
  TensorCore <- MCFewCore
  Cores = {0, 1}
  CoreZero = 0
  NoCore = NoCore
  Levels <- MCLevels
  Enabled <- MCLevels
  Deepest = "hbm"
  PerCore <- MCPerCore
  OffChip <- MCOffChip
  WipeLevels <- MCWipeLevels
  Capacity <- MCCapacity
  DefaultTarget = "sbuf"
  Home <- MCFewHome
  Accesses <- MCMixedAccesses
  KernelEnds <- MCKernelEnds
INVARIANTS
  TypeOK
  ScratchBacked
  BytesBalance
  HomesReserved
PROPERTY
  ChipWipeResets
