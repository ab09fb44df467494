CONSTANTS
  MaxId = 4
  Word = 2
  CellBits = 4
  Threads = {t1, t2}
SPECIFICATION Spec
INVARIANTS
  NextIsLowestUnlessRaced
  FreedIdsReusable
  NextIsAvailableOffWords
