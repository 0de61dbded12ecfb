SPECIFICATION FlashSpec
CONSTANTS
  GroupSize = 4
  FlashLength = 64
  FlashPrompt = 32
  FlashBucket = 8
  NoEntry = NoEntry
INVARIANTS
  GroupAttendsToPrefix
CHECK_DEADLOCK FALSE
