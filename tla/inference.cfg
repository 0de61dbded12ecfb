SPECIFICATION InferenceSpec
CONSTANTS
  MaxBatch = 3
  MaxLength = 5
  MaxContext = 3
  MinBucket = 2
  Zero = Zero
  Pad = Pad
  MaxRequests = 4
  PromptLengths = {2, 3}
  ContextBatches = {1, 3}
  Tokens = {x, y, eos}
  Eos = eos
  PromptLength = 2
  MaxLen = 6
  SpecLength = 3
  AssistTokens = 3
  GroupSize = 4
  FlashLength = 32
  FlashPrompt = 16
  FlashBucket = 8
  NoEntry = NoEntry
  TpDegrees <- MCTpDegrees
  HeadCounts <- MCHeadCounts
  BucketBound = 20
  NumExperts = 4
  TopK = 2
  NumTokens = 3
  ScoreRows <- MCScoreRows
  NumGroups = 2
  TopkGroup = 1
  Unit = 2
  NumLayers = 2
  NumCheckpointExperts = 2
  Kernels = {"topk_softmax", "hierarchical", "hash_routing"}
  CommandLines <- MCCommandLines
  MaxCommands = 4
  Untuned = Untuned
  Nothing = Nothing
  Torn = Torn
  TextShapes <- MCTextShapes
  EosToken = EosToken
  MaxGenerations = 2
INVARIANTS
  CacheHoldsOwnTokens
  OutputIsGreedy
  AttendsToPrefixBeforeLastSlots
  BucketIsTightest
  HeadsStayAligned
  RoutersKeepPromises
  GeneratesOwnText
  WeightsArrive
  RunsWhatWasAsked
PROPERTIES
  ServesPrivately
  AssistedTerminates
CHECK_DEADLOCK FALSE
