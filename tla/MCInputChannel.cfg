SPECIFICATION FairSpec
CONSTANTS
  Controls = {k1, b1}
  Buttons = {b1}
  Positions = {p1, p2}
  None = None
  QueueLimit = 2
  MaxOrder = 3
  MaxFocus = 2
CHECK_DEADLOCK FALSE
INVARIANTS
  EndedReleased
  NoStuckControl
  FenceInv
PROPERTIES
  EdgeAtItsPosition
  FocusLossReleases
