CONSTANTS
  Kinds = {"heap"}
  Delays = {0, 1, 2}
  MaxUid = 7
  HeapRemove = TRUE
SPECIFICATION Spec
INVARIANTS PeekIsEarliest
