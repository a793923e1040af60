CONSTANTS
  Lengths = {2, 3}
  DefaultPathSize = 3
  None = None
SPECIFICATION Spec
INVARIANTS WIInv LoadResult DecoratedFirst LocationOfModule
