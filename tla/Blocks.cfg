SPECIFICATION TopicSpec
CONSTANTS
  Topics <- AllTopics
  Lines <- AllLines
  MaxLines = 5
INVARIANTS WellFormed AllSettled FirstDefinitionWins TightMeansNoBlank
PROPERTY LinesEnd
