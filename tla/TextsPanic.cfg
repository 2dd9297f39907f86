SPECIFICATION TextsSpec
CONSTANTS
  Topics <- LinkTopics
  Runs <- AllRuns
  Brackets <- AllBrackets
  MaxTokens = 7
  MaxTicks = 3
  MaxDomainDots = 2
  MinName = 1
  MaxName = 2
  Offsets <- LineOffsets
  Entities <- SomeEntities
  MaxAutocompleted = 4
  MaxCells = 5
  Spoiler = FALSE
  Container = "Item"
  MaxLabel = 8
  MaxParens = 2
  MaxRefSize = 20
INVARIANT NeverPanics
CHECK_DEADLOCK FALSE
