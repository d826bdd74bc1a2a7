SPECIFICATION PromptSpec
CONSTANTS
  Files <- MCFiles
  Followed <- MCFollowed
  Fields <- MCFields
  DefaultAlignment = 2
  MaxTensors = 3
  Letters <- MCLetters
  Digits <- MCDigits
  Blanks <- MCBlanks
  Others <- MCOthers
  Byte255 = "FF"
  Width <- MCWidth
  Models <- MCModels
  Texts <- MCTexts
  MaxTokens = {2, 20}
  Slots = 18
  TokenHash <- MCTokenHash
  MergeHash <- MCMergeHash
  LineSize = 6
  CombSize = 8
  DecodeSize = 8
  UnkId = 99
  None = None
INVARIANTS
  FileTypeOK
  OpenedOrReleased
  LoadedAsWritten
  TypeOK
  TablesFind
  ChunksCover
  ChunksFollowExpression
  MergedByRules
  RoundTrip
