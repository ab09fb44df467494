CONSTANTS
  p1 = p1
  p2 = p2
  p3 = p3
  Players = {p1, p2}
  Ids = {1, 2}
  NoSave = NoSave
  NoBind = NoBind
  NoGroup = NoGroup
  NoId = NoId
  Outside = Outside
  Saved = Saved
SPECIFICATION Spec
SYMMETRY Symmetric
INVARIANTS
  PermanentNotReset
