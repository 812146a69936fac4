CONSTANTS
  Kinds = {"map", "list", "heap", "calendar", "reverse"}
  Delays = {0, 1, 3}
  MaxUid = 6
  HeapRemove = FALSE
SPECIFICATION Spec
INVARIANTS WellFormed PeekIsEarliest
PROPERTIES Implements
