SPECIFICATION Spec
CONSTANTS
  Controls = {k1}
  Buttons = {k1}
  Positions = {p1, p2}
  None = None
  QueueLimit = 2
  MaxOrder = 5
  MaxFocus = 2
CHECK_DEADLOCK FALSE
INVARIANTS
  InputNeverGapped
