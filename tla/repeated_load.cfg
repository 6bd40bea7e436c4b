\* What the services of the game ask of userdc, without new roles.
SPECIFICATION Spec
CONSTANTS
  Ops = {"load", "get", "rename"}
  Tasks = 3
INVARIANTS LoadIsHarmless
CHECK_DEADLOCK FALSE
