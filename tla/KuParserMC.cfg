SPECIFICATION Spec
CONSTANTS
  Names = {"a", "b", "f"}
  Literals = {"1", "99999999999999999999"}
  TooLarge = {"99999999999999999999"}
  Tags = {"@k"}
  Garbage = {"$"}
  Frames = {"sum", "product", "index", "unclosed", "call", "generic", "let", "dim", "struct", "func", "params", "block", "if", "for", "import"}
  MaxLen = 4
INVARIANTS
  NothingLost
  GrammarIsParsed
PROPERTIES
  SnapshotsTellApart
