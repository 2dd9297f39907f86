SPECIFICATION TopicSpec
CONSTANTS
  Topics <- FenceCloseTopics
  Lines <- AllLines
  MaxLines = 4
INVARIANTS ClosedBelow
