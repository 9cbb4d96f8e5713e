SPECIFICATION MCSpec
CONSTANTS
  Word = 12
  MaxNum = 4
  MaxH = 3
INVARIANTS TypeOK SelectionExists
PROPERTIES CursorStaysShown StepByOne
