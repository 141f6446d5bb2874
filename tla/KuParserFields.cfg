SPECIFICATION Spec
CONSTANTS
  Names = {"a", "b", "f"}
  Literals = {"1", "99999999999999999999"}
  TooLarge = {"99999999999999999999"}
  Tags = {"@k"}
  Garbage = {"$"}
  Frames = {"struct"}
  MaxLen = 4
INVARIANT
  FieldsNeedNoCommas
