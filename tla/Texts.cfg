SPECIFICATION TextsSpec
CONSTANTS
  Topics <- AllTopics
  Runs <- AllRuns
  Brackets <- AllBrackets
  MaxTokens = 7
  MaxTicks = 3
  MaxDomainDots = 2
  MinName = 1
  MaxName = 2
  Offsets <- LineOffsets
  Entities <- SomeEntities
  MaxAutocompleted = 4
  MaxCells = 5
  Spoiler = FALSE
  Container = "Item"
  MaxLabel = 8
  MaxParens = 2
  MaxRefSize = 20
INVARIANTS ListedRunsHaveText SearchIsExact NodesNest NothingMissedWithoutTildes ScansAgree LeavesAreTheirSource CachesSaveWork CellsAreTheirSource ColumnsHandedOut DefinitionsAsSpecified LookupsExact
PROPERTY EmphasisEnds
CHECK_DEADLOCK FALSE
