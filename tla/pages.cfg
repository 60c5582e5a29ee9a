SPECIFICATION Spec
CONSTANTS
  MaxRows = 5
  PageSize = 2
  MaxChanges = 3
INVARIANTS NoRepeats CursorComplete RepeatsBounded MissesBounded
CHECK_DEADLOCK FALSE
