SPECIFICATION Spec
CONSTANTS
  Names = {"a", "b", "f", "print", "exit", "help"}
  Literals = {"1"}
  TooLarge = {}
  Tags = {}
  Garbage = {}
  Lines <- TypedLines
  Messages <- SentTexts
  MaxInputs = 2
  MaxLines = 3
PROPERTIES
  ScopingIsLexical
  FirstDefinitionWins
  ReplAnswered
CHECK_DEADLOCK FALSE
