SPECIFICATION Spec
CONSTANTS
  Cell = {n1, n2, n3}
  Data = {d1, d2, d3}
  head = head
  tail = tail
  NULL = NULL
INVARIANTS
  TypeOK
  Linked
  DestructionIsSafe
  IteratorIsValid
PROPERTY IsOrderedList
CHECK_DEADLOCK FALSE
