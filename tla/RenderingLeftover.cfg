SPECIFICATION RenderSpec
CONSTANT Documents <- LeftoverDocuments
INVARIANT TagsNest
