SPECIFICATION Spec
CONSTANTS
  Films <- MCFilms
  Targets = {2000}
  Fragile <- MCFragile
  Agents = {"mock", "wild"}
  MaxEdits = 2
  MaxSteps = 3
INVARIANTS
  StaysSound
PROPERTIES
  PreviewIsKept
  StoryIsKept
CHECK_DEADLOCK FALSE
