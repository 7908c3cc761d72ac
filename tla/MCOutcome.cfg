SPECIFICATION Spec
CONSTANTS
  Bodies <- MCBodies
INVARIANTS
  RaisesAsDocumented
  ParsersAgree
CHECK_DEADLOCK FALSE
