SPECIFICATION Spec
CONSTANTS
  Tensors <- MCTensors
  TensorOrder <- MCTensorOrder
  TensorBytes <- MCUniformBytes
  TensorCore <- MCNoTensorCore
  Cores = {0, 1}
  CoreZero = 0
  NoCore = NoCore
  Levels <- MCLevels
  Enabled <- MCLevels
  Deepest = "hbm"
  PerCore <- MCPerCore
  OffChip <- MCOffChip
  WipeLevels <- MCWipeLevels
  Capacity <- MCUniformCapacity
  DefaultTarget = "sbuf"
  Home <- MCChipHome
  Accesses <- MCOtherCoreAccesses
  KernelEnds <- MCChipWideEnds
PROPERTY
  ChipWipeResets
