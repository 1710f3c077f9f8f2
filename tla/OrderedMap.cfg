SPECIFICATION Spec
CONSTANTS
  Keys = {1, 2, 3, 4}
  NULL = NULL
INVARIANTS
  ListLinked
  TreeMatchesList
PROPERTIES
  IsKeySequence
