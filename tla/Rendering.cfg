SPECIFICATION RenderingSpec
CONSTANTS
  Documents <- MCDocuments
  Names <- AllNames
  MaxNodes = 4
  MaxDepth = 2
  Titles <- Collisions
  MaxHeadings = 6
INVARIANTS WellNested VisitsAsRecursion WordsApart ReferencesResolve NumberedAsUsed LinkedBack Distinct
PROPERTIES ImplementsHeadings CallsEnd
