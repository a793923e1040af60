CONSTANTS
  Lengths = {2, 3}
  DefaultPathSize = 3
  None = None
SPECIFICATION Spec
INVARIANTS LocationWhole
