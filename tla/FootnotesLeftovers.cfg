SPECIFICATION NotesSpec
CONSTANTS
  Names <- AllNames
  MaxNodes = 3
  MaxDepth = 2
INVARIANTS OnlyReferencedStay
