SPECIFICATION Spec
CONSTANTS
  Pages <- CodePages
INVARIANTS KeptIsKept
