SPECIFICATION Spec
CONSTANTS
  Owner = o
  Executor = {e1, e2}
  None = None
  NotGiven = NotGiven
  MaxComment = 2
CONSTRAINT Small
SYMMETRY Interchangeable
INVARIANT ListedTakesPart
