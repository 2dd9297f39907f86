-------------------------------- MODULE MCMemory -------------------------------
\* What the parser is built on: each behaviour is one of the tree of nodes, of the arena its
\* nodes live in, or of the buffers that the text of one document after another goes through
EXTENDS TreeWalk, TypedArena, SpareBuffers

VARIABLE part      \* "tree", "arena" or "buffers"

memoryVars == <<walkVars, arenaVars, bufferVars, part>>

MemoryInit ==
  /\ part \in {"tree", "arena", "buffers"}
  /\ WalkInit /\ ArenaInit /\ BuffersInit

Steps == part = "tree" /\ (NextSibling \/ NextEdge \/ Drop) /\ UNCHANGED <<arenaVars, bufferVars, part>>

MemoryNext ==
  \/ part = "tree" /\ WalkNext /\ UNCHANGED <<arenaVars, bufferVars, part>>
  \/ part = "arena" /\ ArenaNext /\ UNCHANGED <<walkVars, bufferVars, part>>
  \/ part = "buffers" /\ BuffersNext /\ UNCHANGED <<walkVars, arenaVars, part>>

MemorySpec == MemoryInit /\ [][MemoryNext]_memoryVars /\ WF_memoryVars(Steps)
================================================================================
