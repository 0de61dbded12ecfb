SPECIFICATION ExperimentSpec
CONSTANTS
  Tensors <- MCTensors
  TensorOrder <- MCTensorOrder
  Bytes <- MCBytes
  CoreOf <- MCCoreOf
  LevelOrder <- MCLevelOrder
  PerCore <- MCPerCore
  Capacity <- MCCapacity
  Retention <- MCRetention
  HopBytes <- MCHopBytes
  Configs <- CascadeConfigs
  NoLevel = NoLevel
  Density <- MCDensity
  Gib = 4
  Area <- MCArea
  Unset = Unset
  Fractions <- MCFractions
  Files <- MCFiles
  CoreCounts <- MCCoreCounts
  SbufBytes = 7
  PsumBytes = 2
  HbmGib = 2
  SbufDensity = 3
  HbmDensity = 11
INVARIANT
  AllHomesFit
